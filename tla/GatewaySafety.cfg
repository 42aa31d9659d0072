SPECIFICATION GatewaySpec
CHECK_DEADLOCK FALSE
SYMMETRY MCTwins
CONSTANTS
  p1 = p1  p2 = p2  g1 = g1  g2 = g2  j1 = j1  j2 = j2
  x1 = x1  x2 = x2  y1 = y1  y2 = y2
  a1 = a1  a2 = a2  s1 = s1  s2 = s2
  CodexProcesses = {x1, x2}
  CodexProfiles = {p1, p2}
  NoCodexProfile = NoCodexProfile
  MaxCodexToken = 3
  CodexConfigs <- MCOneConfig
  CodexLease = 1
  CodexEarly = 1
  CodexMinLife = 0
  CodexLife = 1
  MaxAbandoned = 1
  Minters = {x1, x2}
  NoMinter = NoMinter
  AppConfigs = 2
  LockTime = 2
  RequestTime = 1
  RenewEarly = 1
  TokenLife = 2
  MaxBackoff = 2
  MaxFailures = 1
  ReadTime = 1
  MaxGitAborts = 1
  CatalogGateways = {g1, g2}
  CatalogJobs = {j1, j2}
  JobHomes <- MCHomes
  CatalogConfigs = 1
  ProbeRuns = {1, 2, 3}
  MaxProbes = 1
  BusyGateways = {g1}
  MaxCatalogFaults = 1
  CatalogFaultKinds = {"crash", "create", "delete"}
  RefQueries = {x1, x2, q3}
  MaxActive = 1
  MaxWaiting = 1
  MaxRefFaults = 1
  Recorders = {x1, x2}
  MaxGeneration = 3
  MaxCaptureTime = 1
  MaxEpoch = 2
  MaxRows = 2
  HistoryPageSize = 1
  MaxHistoryEntries = 2
  MaxHistoryFiles = 2
  Registries = {x1, x2}
  Guids = {guid}
  AgentUids = {x1, x2}
  Lookups = {y1, y2}
  MaxConcurrentClaims = 1
  MaxPendingClaims = 2
  MaxIdentityFaults = 1
  ConnNames = {n1}
  Handlers = {h1}
  Refresher = Refresher
  MaxBackends = 2
  MaxWorkspaceUid = 2
  MaxRefreshFailures = 0
  FileSlots = {s1}
  FileRequests = {x1, x2}
  MaxVersion = 4
  MaxBindings = 3
  MaxFileFaults = 1
  UploadSessions = {x1, x2}
  Uploads = {y1, y2}
  FileSizes = {1}
  MaxUploadTotal = 1
  MaxUploadRows = 2
  UploadLife = 1
  Messages = {x1, x2}
  Handles = {x1, x2, h3}
  Downloaders = {y1, y2}
  MaxHandles = 2
  MaxDownloads = 1
  Decisions = {x1, x2}
  Channels = {y1, y2}
  NoChannel = NoChannel
  MaxLosses = 1
  Reads = {x1, x2}
  NoRead = NoRead
  MaxReaders = 2
  MaxWsVersion = 3
  MaxReaderFaults = 1
  Spaces = {s1, s2}
  Agents = {x1, x2, a2}
  HomeOf <- MCHomeOf
  Fetches = {f1}
  MaxMoves = 1
  MaxDirFaults = 1
  Asks = {x1, x2}
  MaxScope = 1
  Names = {x1, x2}
  Queries = {y1, y2}
  MaxPending = 1
  MaxInterest = 2
  MaxNameScope = 1
  LabelEdits = {x1, x2}
  Followers = {}
  LabelNames = {y1, y2}
  Targets = {"w1"}
  MaxColour = 1
  MaxAttempts = 1
  MaxTargetUid = 1
  TimelineSpaces = {s1, s2}
  TimelineAgents = {a1, a2}
  TimelineHome <- MCTimelineHome
  Subscribers = {q1}
  MaxTimelineChanges = 2
  Explored = {"codex", "github", "probes", "refs", "history", "identity", "backends", "files",
    "uploads", "downloads", "permissions", "readers", "agents", "discovery", "labels", "timelines"}
INVARIANTS
  DisposablesAccounted
  RoutesHold
  TransfersAccounted
  DecisionsSent
PROPERTIES
  AuthorityHolds
  AppTokenHolds
  HistoryKept
  WatchersServed
  ReadersSafe
  
  AsksAnsweredRightly
  LabelsKept
  AcknowledgedIsFollowed
