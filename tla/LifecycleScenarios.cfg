SPECIFICATION ScenarioSpec
CONSTANTS
  w1 = w1
  w2 = w2
  p1 = p1
  NoTime = NoTime
  Workspaces <- MCTwo
  Ephemeral = {}
  Projects <- MCOneProject
  ProjectRef <- MCTwoRef
  ProjectLimit <- MCTwoLimit
  NamespaceLimit = 1
  Ttl <- MCTwoTtl
  MaxTime = 0
  Faults <- MCFaultsTwo
INVARIANTS
  GatedPodsWithinCapacity
PROPERTIES
  ReleaseIsExact
  EphemeralStops
