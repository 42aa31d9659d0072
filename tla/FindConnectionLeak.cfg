SPECIFICATION ConnSpec
CONSTANTS
  n1 = n1
  h1 = h1
  h2 = h2
  refresher = refresher
  ConnNames <- MCName
  Handlers <- MCHandlers
  Refresher = refresher
  MaxBackends = 3
  MaxWorkspaceUid = 1
  MaxRefreshFailures = 1
INVARIANTS
  OneBackendPerWorkspace
CHECK_DEADLOCK FALSE
