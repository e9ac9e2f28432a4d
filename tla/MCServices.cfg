SPECIFICATION ServicesSpec
CONSTANTS
  SafeClasses = {"safe"}
  DenyClasses = {"network"}
  WebMode = "require_approval"
  Slots = {1, 2}
  Menu <- CallMenu
  Capabilities = {}
  Threshold = 3
  MaxApprovals = 2
  ApprovalIds = {"a1", "a2"}
  NoneAsked = "none"
  MaxScanned = 4
  Outputs = {"out"}
  Reports = {"validation"}
  MaxFiles = 3
  MaxArtifacts = 3
  MaxStarts = 1
  McpRuns = {"r1", "r2"}
  McpClients = {"c1", "c2"}
  Users = {"u1", "u2"}
  UserOf <- Owner
  NoUser = "nobody"
  Servers <- Configured
  ProviderOf <- Provider
  Static = "static_headers"
  Imported = {"imported"}
  MaxTokens = 2
  MaxRequests = 1
  Compacters = {"c1"}
  MaxMessages = 4
  MaxCompactions = 2
  Enabled = TRUE
  SkillRuns = {"r1"}
  Installers = {"t1"}
  Bundles <- StagedBundles
  MaxChanges = 1
  MaxQuestions = 1
  MaxDeaths = 1
  Tasks = {"t1", "t2"}
  MaxLogged <- EventsOf
  MaxStreams = 2
  MaxQueued = 2
  MaxInputs = 3
  BufferLimit = 2
  MaxDepth = 3
  MaxAsked = 1
  AgentRuns = {"r1"}
  ThreadIds = {1}
  AgentThreads = {"w1", "w2"}
  MaxPuts = 3
  MaxSavers = 2
  MaxCrashes = 1
INVARIANTS
  ServicesTypeOK
  RebuildsTheSame
  WaitsForOpenQuestion
  EffectsWereConsented
  ListIsFaithful
  OwnTokens
  NothingForgotten
  NoRecordTwice
  NeverDecidesStale
  ClientsAreUnderstood
  AScreenIsLeft
  ResumesWithEverything
PROPERTIES
  NeverAskedTwice
  StaysRefreshable
  NeverHalfInstalled
  ChangedWithConsent
CHECK_DEADLOCK FALSE
