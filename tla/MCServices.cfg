SPECIFICATION Spec
CONSTANTS
  None = None
  Odd = Odd
  HoNone = None
  HoHosts = {"h1", "h2", "h3"}
  HoEphemeral = {}
  HoClients = {"c"}
  WfNone = None
  WfUrls <- Urls
  WfLiterals <- Literals
  WfNames = {"a", "b", "evil"}
  WfDenied = {"evil"}
  WfAllowed = {"a", "b", "lit", "evil"}
  WfAllowHttp = TRUE
  WfAllowLocal = FALSE
  WfMaxRedirects = 1
  WfMaxBytes = 2
  WfBodies <- Bodies
  WfTexts = {1, 2, 3}
  WfMaxTurns = 1
  PrNone = None
  PrRequests <- ProcessRequests
  PrPrograms = {"git", "gone"}
  PrInstalled = {"git", "rm"}
  PrMaxArguments = 1
  PrMaxArgumentBytes = 1
  PrMaxStdin = 1
  PrCap = 1
  PrPipe = 2
  PrMaxOutput = 2
  PrTimeout = 2
  PrDeadlines = {None, 1, 2}
  ClNone = None
  ClCommands = {"new", "clear", "status"}
  ClMaxCalls = 3
  ClMaxUpdates = 1
  ClMaxQuestions = 1
  ClMaxWire = 2
  LsTypes = {"decision"}
  LsCapacity = 2
  LsCompactKeep = 1
  LsMaxEvents = 3
  LsMaxUpdates = 2
  LsMaxTurns = 2
  LsMaxQuestions = 1
  McNone = None
  McOdd = Odd
  McCallers = {"c1", "c2"}
  McTasks <- McpTasks
  McAllowed = {"a"}
  McPages <- McpPages
  McHellos <- McpHellos
  McNames = {"a", "b"}
  McMaxTools = 2
  McMaxPages = 2
  McMaxFrames = 2
  McMaxSpawns = 2
  IpNone = None
  IpClients = {"c1", "c2"}
  IpRunsJobs = FALSE
  IpMaxServed = 1
  IpRequests = {"prompt", "schedule", "cancel", "approve"}
  IpMaxConnections = 1
  IpMaxCalls = 1
  IpOutbound = 1
  IpMaxIds = 2
  IpMaxUpdates = 1
  FtNone = None
  FtPaths = {"x", "y", "z", "o"}
  FtInside = {"x", "y"}
  FtRequested = "x"
  FtScenes <- Scenes
  FtForms = {"plain", "dots"}
  FtMaxBytes = 2
  FtLength <- FileLengths
  FtMaxMoves = 2
  UpNone = None
  UpDeployments <- Deployments
  UpDefaultInterval = 1
  UpMaxEvents = 1
  AuNone = None
  AuEvents <- AuditEvents
  AuQueries <- AuditQueries
  AuReaders <- AuditReaders
  AuCapacity = 1
  AuBatch = 1
  AuRetention = 1
  AuMaxTime = 2
  AuMaxEvents = 3
  AuMaxSweeps = 1
  AuMaxBoots = 2
  PlNone = None
  QuDocuments <- QuotaDocuments
  QuPrincipals <- QuotaPrincipals
  QuCharges <- QuotaCharges
  QuCallers = {"t1", "t2"}
  QuLength <- QuotaLengths
  QuPerPrice = 2
  QuMaxCount = 3
  QuMaxTime = 1
  QuMaxTurns = 2
  QuMaxBoots = 1
  MoNone = None
  MoIds = {1, 2}
  MoKinds = {"note", "fact"}
  MoClients <- MemoryClients
  MoReaders <- MemoryReaders
  MoTtls = {1}
  MoVectors <- MemoryVectors
  MoQueries <- MemoryQueries
  MoBatch = 1
  MoDefaultResults = 2
  MoMaxResults = 2
  MoMaxTime = 1
  MoMaxCalls = 1
  MoMaxPuts = 2
  MoMaxBoots = 1
  Foci = {"values", "broker", "audit", "memory", "stream", "mcp", "endpoint", "connection", "files", "process", "fetch", "quota", "client", "local", "upkeep"}
INVARIANTS
  
  MemoryIsHonest
  CallsArriveWhole
  CallersAreServed
  TokenOpensItsHost
  ConnectionEndsClean
  FilesStayPut
  RunLeavesNothing
  ReachesOnlyWhatWasAsked
  SpendIsRemembered
  TurnsDoNotOverlap
  TurnIsAccounted
  UpInAnyOrder
  ConversionsKeepMeaning
  DecisionsFollowTheirInputs
CHECK_DEADLOCK FALSE
