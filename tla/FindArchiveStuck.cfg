SPECIFICATION FairSpec
CONSTANTS
  w1 = w1
  p1 = p1
  NoTime = NoTime
  Workspaces <- MCOne
  Ephemeral = {}
  Projects <- MCOneProject
  ProjectRef <- MCOneRef
  ProjectLimit <- MCOneLimit
  NamespaceLimit = 1
  Ttl <- MCTtlNone
  MaxTime = 0
  Faults <- MCFaultsLiveEvict
PROPERTIES
  ArchiveCompletes
