SPECIFICATION PathsSpec
CONSTANTS
  None = None
  a1 = a1
  a2 = a2
  ShortTime = 2
  MaxTime = 5
  Calls = {a1, a2}
  Tools = {"t", "u"}
  AllowedTools = {"t"}
  Arguments = {"a"}
  MaxRepeats = 1
  Window = 1
  GrantTerm = 1
  Crashes = 1
  Names <- MCNames
  Entities <- MCEntities
  ScreenedAs <- MCScreenedAs
  Types = {"entity_name", "iban"}
  BuiltIn = {"d"}
  Requests <- MCRequests
  MaxEntries = 2
  Chats = {a1, a2}
  Proposals = {"q"}
  ToolCalls = {"pay", "wire", "note"}
  LeakyCalls = {"note"}
  ListedCalls = {}
  SensitiveCalls = {"pay", "wire"}
  Replies <- MCReplies
  NoProposal = "no proposal"
  Runs = {"r"}
  Offsets <- MCOffsets
  Timeout = 1
  DraftTTL = 2
  AuthTTL = 2
  EvidenceAge = 1
  Skew = 2
  Retention = 2
  Scans = {a1, a2}
  Forks = {"a", "b"}
  ForkPoint = 2
  Sent <- MCSent
  Lookback = 3
  Span = 2
  DayLength = 2
  FreshFor = 1
  LastBlock = 4
SYMMETRY Symmetry
INVARIANTS
  LoopBound
  AnswersHonest
  ForwardsVetted
  ClearedSafely
  BlockedRightly
  DeliveredVetted
  ApprovalsAccounted
  ExecutionsAuthorized
  OutcomesRecordable
  ObservationTrue
PROPERTIES
  RetentionKept
  RetrySparesObservation
CHECK_DEADLOCK FALSE
