SPECIFICATION Spec
CONSTANTS
  N = 2
  Texts = {x}
  Types = {fact}
  Workers = {w}
  Users = {u}
  Sweeper = Sweeper
  Operator = Operator
  SlowModel = TRUE
  MaxMishaps = 1
  Candidate = Candidate
  NoText = NoText
  NoWorker = NoWorker
SYMMETRY MCSymmetry
INVARIANTS WantedIsStored
CHECK_DEADLOCK FALSE
