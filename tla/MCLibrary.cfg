SPECIFICATION Spec
CONSTANTS
  t1 = t1  t2 = t2  d1 = d1  d2 = d2  d3 = d3  q1 = q1  s1 = s1
  \* AgentRuns
  Threads = {t1, t2}
  RunIds = {1, 2, 3}
  RootRuns = {1}
  Calls = {"read", "send", "post", "delegate"}
  Taints = {"read", "delegate"}
  Outbound = {"send"}
  AlwaysAsk = {"post"}
  Delegates = {"delegate"}
  StepLimit = 2
  MaxDepth = 2
  MaxDelegations = 1
  MaxChildSteps = 1
  MaxSaveFaults = 1
  NoRun = NoRun
  NoCall = NoCall
  \* GraphIndex
  GWriters = {t1, t2}
  GDocs = {d1, d2}
  Names = {1, 2, 3}
  Canon <- MCCanon
  Texts <- MCTexts
  MaxAttempts = 2
  MaxGraphFaults = 1
  MaxUpserts = 3
  NoDoc = NoDoc
  \* GraphMigrations
  OldNodes = {d1, d2, d3}
  MigRunners = {t1, t2}
  LabelOf <- MCLabelOf
  MaxRunnerStops = 1
  \* VectorStores
  VThreads = {t1, t2}
  VDocs = {d1, d2}
  NChunks = 2
  Backends <- AllBackends
  MaxRemoteFaults = 1
  MaxRestarts = 1
  NoThread = NoThread
  \* RagAsk
  Askers = {t1, t2}
  Queries = {q1}
  Rewritten = Rewritten
  SorryText = SorryText
  ChainSize = 2
  Budget = 1
  CacheSize = 1
  Variants = 3
  MaxAsks = 2
  \* McpTransport
  Addresses = {"pub", "priv"}
  PublicAddresses = {"pub"}
  NoAddress = "none"
  BodySizes = {1, 2, 3}
  MaxPieces = 2
  \* McpClient
  McpTools = {"a", "b"}
  AllowedTools = {"a", "b"}
  PreApproved = {"b"}
  TrustAnnotations = TRUE
  MaxListPages = 2
  MaxMcpCalls = 2
  MaxServerChanges = 1
  NoTool = "none"
  \* VoicePull
  Pullers = {t1, t2}
  VoiceModels = {"base", "tts", "duo", "ring", "bad"}
  DependsOn <- MCDependsOn
  VerifiedModels = {"base", "duo", "bad"}
  UnreadableLocks = {}
  InvalidLocks = {"bad"}
  LockFiles = 2
  TokenHost = "hf"
  AllowedHosts = {"hf", "cdn"}
  OtherHosts = {"other"}
  MaxRedirects = 2
  MaxPulls = 2
  MaxVisits = 24
  MaxDamage = 1
  \* MemoryStore
  Callers = {t1, t2}
  Memories = {d1, d2, d3}
  NoMemory = NoMemory
  Subjects = {s1}
  NoSubject = NoSubject
  MaxAudit = 3
  MaxKills = 1
SYMMETRY Symmetry
INVARIANTS
  LibraryTypeOK AgentRunsAreSound EdgesAddUp RagIsSound VectorStoresAreSound
  TransportKeepsItsWord McpCallsAreSafe PullIsSound MemoryIsSound
CHECK_DEADLOCK FALSE
