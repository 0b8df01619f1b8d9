SPECIFICATION Spec
CONSTANTS
  Requests = {q1, q2}
  Digests = {d1, d2}
  Handlers = {h1, h2}
  MaxMishaps = 1
  MaxCalls = 2
  NoOperation = NoOperation
  NoMessage = NoMessage
  NoHandler = NoHandler
SYMMETRY MCSymmetry
INVARIANTS PendingCanBeRetried
CHECK_DEADLOCK FALSE
