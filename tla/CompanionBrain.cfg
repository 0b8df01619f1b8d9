SPECIFICATION MCSpec
CONSTANTS
  Conversations = {c1, c2}
  Writers = {w1, w2}
  MaxConversations = 1
  MaxAppends = 2
  MaxMishaps = 1
  NoWriter = NoWriter
  MaxPending = 1
  ExtractEvery = 1
  MaxExtract = 3
  Objects = {1, 2, 3}
  r1 = r1  r2 = r2
  opinion = opinion  word = word  name = name  yourName = yourName
  Requests = {r1, r2}
  Nobody = Nobody
  Says <- MCSays
  Telling <- MCTelling
  Near <- MCNear
  Unfit <- MCUnfit
  SceneSays <- MCSceneSays
  Providers <- MCProviders
  HistoryLimit = 2
  MaxSources = 2
  MaxFailures = 1
  Texts = {1, 2, 3, 4}
  BadTexts = {0}
  Sources = {s1}
  MaxMemories = 3
  MaxClock = 0
  NoSource = NoSource
  Never = Never
  Readers = {reader}
  Drain = Drain
  Extractions <- MCExtractions
  Summaries = {4}
  Results <- MCResults
  Limit = 1
  MaxCount = 1
  NotCached = NotCached
  NoCaller = NoCaller
  Reasons = {"provider_timeout", "empty_output"}
  MaxCalls = 8
  NoReason = NoReason
CONSTRAINT MCFewAppends
SYMMETRY MCSymmetry
INVARIANTS NumbersClimb NoGap ConsolidationLosesNothing RecallIsNotDenied LogIsTrue UsesAreOfReplies
PROPERTIES ImplementsDistilledMemory
CHECK_DEADLOCK FALSE
