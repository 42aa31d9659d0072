SPECIFICATION FairSpec
CONSTANTS
  w1 = w1
  p1 = p1
  NoTime = NoTime
  Workspaces <- MCOne
  Ephemeral = {}
  Projects <- MCOneProject
  ProjectRef <- MCOneRef
  ProjectLimit <- MCOneLimit
  NamespaceLimit = 1
  Ttl <- MCTtlOne
  MaxTime = 2
  Faults <- MCFaultsLive
PROPERTIES
  ArchiveCompletes
  ResidencyTakesEffect
