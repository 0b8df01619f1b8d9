SPECIFICATION Spec
CONSTANTS
  Requests = {q1, q2}
  Digests = {d1, d2}
  Handlers = {h1, h2}
  MaxMishaps = 2
  MaxCalls = 2
  NoOperation = NoOperation
  NoMessage = NoMessage
  NoHandler = NoHandler
SYMMETRY MCSymmetry
INVARIANTS NothingBeforeDelivery TaskComesWithReply
PROPERTIES ImplementsOneReply DraftIsReused
CHECK_DEADLOCK FALSE
