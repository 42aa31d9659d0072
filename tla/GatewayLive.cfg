SPECIFICATION FairGatewaySpec
CHECK_DEADLOCK FALSE
CONSTANTS
  p1 = p1  p2 = p2  g1 = g1  g2 = g2  j1 = j1  j2 = j2
  x1 = x1  x2 = x2  y1 = y1  y2 = y2
  a1 = a1  a2 = a2  s1 = s1  s2 = s2
  CodexProcesses = {b1}
  CodexProfiles = {p1}
  NoCodexProfile = NoCodexProfile
  MaxCodexToken = 2
  CodexConfigs <- MCTwoConfigs
  CodexLease = 1
  CodexEarly = 1
  CodexMinLife = 0
  CodexLife = 2
  MaxAbandoned = 1
  Minters = {b1, b2}
  NoMinter = NoMinter
  AppConfigs = 1
  LockTime = 2
  RequestTime = 1
  RenewEarly = 1
  TokenLife = 2
  MaxBackoff = 2
  MaxFailures = 1
  ReadTime = 0
  MaxGitAborts = 1
  CatalogGateways = {g1}
  CatalogJobs = {j1, j2}
  JobHomes <- MCOneHome
  CatalogConfigs = 2
  ProbeRuns = {1, 2}
  MaxProbes = 1
  BusyGateways = {}
  MaxCatalogFaults = 1
  CatalogFaultKinds = {"crash", "create", "delete"}
  RefQueries = {q1, q2}
  MaxActive = 1
  MaxWaiting = 1
  MaxRefFaults = 1
  Recorders = {r1}
  MaxGeneration = 2
  MaxCaptureTime = 1
  MaxEpoch = 2
  MaxRows = 2
  HistoryPageSize = 1
  MaxHistoryEntries = 2
  MaxHistoryFiles = 2
  Registries = {r1}
  Guids = {guid}
  AgentUids = {u1}
  Lookups = {l1, l2}
  MaxConcurrentClaims = 1
  MaxPendingClaims = 2
  MaxIdentityFaults = 1
  ConnNames = {n1}
  Handlers = {h1}
  Refresher = Refresher
  MaxBackends = 1
  MaxWorkspaceUid = 1
  MaxRefreshFailures = 1
  FileSlots = {s1}
  FileRequests = {r1}
  MaxVersion = 2
  MaxBindings = 2
  MaxFileFaults = 1
  UploadSessions = {s1, s2}
  Uploads = {f1}
  FileSizes = {1}
  MaxUploadTotal = 1
  MaxUploadRows = 2
  UploadLife = 1
  Messages = {m1}
  Handles = {h1, h2}
  Downloaders = {d1, d2}
  MaxHandles = 2
  MaxDownloads = 1
  Decisions = {d1}
  Channels = {c1, c2}
  NoChannel = NoChannel
  MaxLosses = 1
  Reads = {r1, r2}
  NoRead = NoRead
  MaxReaders = 2
  MaxWsVersion = 2
  MaxReaderFaults = 1
  Spaces = {s1, s2}
  Agents = {a1, a2}
  HomeOf <- MCHomeOf
  Fetches = {f1}
  MaxMoves = 0
  MaxDirFaults = 1
  Asks = {q1}
  MaxScope = 1
  Names = {n1}
  Queries = {q1}
  MaxPending = 1
  MaxInterest = 2
  MaxNameScope = 2
  LabelEdits = {e1}
  Followers = {f1}
  LabelNames = {"l1"}
  Targets = {"w1"}
  MaxColour = 1
  MaxAttempts = 1
  MaxTargetUid = 2
  TimelineSpaces = {s1}
  TimelineAgents = {a1}
  TimelineHome <- MCTimelineHome
  Subscribers = {q1}
  MaxTimelineChanges = 0
  Explored = {"codex", "github", "probes", "refs", "history", "identity", "backends", "files",
    "uploads", "downloads", "permissions", "readers", "agents", "discovery", "interests", "labels"}
INVARIANTS
  GatewayTypeOK
PROPERTIES
  
  
  OperationsEnd
  NothingLeftBehind
