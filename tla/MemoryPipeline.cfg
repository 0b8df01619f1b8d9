SPECIFICATION FairSpec
CONSTANTS
  N = 2
  Texts = {x}
  Types = {fact}
  Workers = {w}
  Users = {u}
  Sweeper = Sweeper
  Operator = Operator
  SlowModel = FALSE
  MaxMishaps = 1
  Candidate = Candidate
  NoText = NoText
  NoWorker = NoWorker
INVARIANTS CursorContiguous ActiveIsReferenced CandidateIsReferenced WantedIsStored
PROPERTIES ForgottenForGood EverySourceSettles DueIsErased MemoryWithoutSourceArchived
CHECK_DEADLOCK FALSE
