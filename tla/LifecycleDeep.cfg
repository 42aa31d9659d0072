SPECIFICATION Spec
CONSTANTS
  w1 = w1
  p1 = p1
  NoTime = NoTime
  Workspaces <- MCOne
  Ephemeral = {}
  Projects <- MCOneProject
  ProjectRef <- MCOneRef
  ProjectLimit <- MCOneLimit
  NamespaceLimit = 1
  Ttl <- MCTtlOne
  MaxTime = 2
  Faults <- MCFaultsDeep
INVARIANTS
  TypeOK
  ReleaseOnlyAfterTeardown
  RetentionHonoured
  CompletedStopHasNoCompute
  HooksRunAtMostOnce
PROPERTIES
  StatusNeverForgets
