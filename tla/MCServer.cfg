SPECIFICATION ServerSpec
CONSTANTS
  t1 = t1  t2 = t2  c3 = c3  w1 = w1  d1 = d1  d2 = d2  d3 = d3
  e1 = e1  e2 = e2  src = src
  \* AuthThrottle
  Clients = {t1, t2, c3}
  max_failures = 3
  window_seconds = 2
  lockout_seconds = 3
  MAX_TRACKED_CLIENTS = 2
  MaxClock = 6
  \* SchemaSetup
  SetupThreads = {t1, t2}
  Dialects <- AllDialects
  MaxSetupFaults = 2
  MaxSetups = 3
  \* Connectors
  Pagings <- AllPagings
  PageSize = 2
  Owner <- MCOwner
  NoUser = "none"
  NoRecord = 0
  Keys = {"k1", "k2"}
  NoKey = "nokey"
  MaxSyncs = 2
  MaxKeyChanges = 1
  \* Sandbox
  Apps = {"app"}
  Handlers = {t1, t2}
  Grants = {"grant"}
  Folders = {"f1", "f2"}
  NoGrant = NoGrant
  MaxRequests = 2
  MaxOwnerSteps = 2
  MaxDockerFaults = 1
  MaxRunnerStops = 1
  \* EmployeeMemory
  Staff = {t1, t2}
  Seeds <- MCSeeds
  Instructions <- MCInstructions
  TopOwner = 1
  MaxTold = 2
  MaxLearnFaults = 1
  MaxCalls = 1
  \* Channels
  Servers = {t1, t2}
  Chats <- MCChats
  Entries = {e1}
  Payloads <- MCPayloads
  OwnerChats <- MCOwnerChats
  ChannelRoles = {"support", "ceo"}
  IntentRoles = {"support"}
  SupportRole = "support"
  MaxImportance = 2
  MaxSent = 2
  MaxAgain = 1
  MaxChannelFaults = 1
  MaxRoleChanges = 1
  \* VoiceCall
  MinSpeech = 2
  SilenceEnd = 2
  MaxSpeech = 6
  EchoTail = 2
  ReplyFrames = 4
  MaxWire = 6
  MaxPlaying = 2
  \* Documents
  DocWorkers = {t1, t2}
  Docs = {d1, d2, d3}
  Entities = {e1, e2}
  Mentions <- MCMentions
  MaxGraphFaults = 1
  \* Retrieval
  Chunks = {d1, d2, d3}
  Similarities = {50, 55}
  TopK = 2
  RrfK = 60
  GraphBoost = 15
  IndirectBoost = 25
  MaxEdits = 1
  \* DataSync
  NoProc = NoProc
  None = None
  Procs = {t1, t2}
  Enabled = {t1, t2}
  Requesters = {c3}
  Workers = {w1}
  UseRedis = TRUE
  Unreachable = FALSE
  SourceList <- MCOneSource
  MaxFaults = 1
  Interval = 1
  MaxNow = 1
  Changing = {src}
  MaxVersion = 2
  MaxQueue = 2
  \* Chat
  ChatThreads = {t1, t2}
  Roles = {"support", "lawyer"}
  SafeRoles = {"support"}
  GroundedRoles = {"lawyer"}
  DefaultRole = "support"
  NoRole = "none"
  ChatChain = 2
  GlobalCap = 3
  RoleCap = 1
  TotPaths = 2
  MaxSubtasks = 2
  MaxChats = 2
  MaxLedgerFaults = 1
SYMMETRY Symmetry
INVARIANTS
  ServerTypeOK LockoutHonoured SetupIsSound SandboxIsSound
  ConversationsAreSound DocumentsAreSound PipelineIsFed ChatIsSound
PROPERTIES FailuresCount BackOnlyWhenOvertaken
CHECK_DEADLOCK FALSE
