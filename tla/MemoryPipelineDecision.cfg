SPECIFICATION Spec
CONSTANTS
  N = 2
  Texts = {x}
  Types = {fact}
  Workers = {w}
  Users = {u, v}
  Sweeper = Sweeper
  Operator = Operator
  SlowModel = FALSE
  MaxMishaps = 1
  Candidate = Candidate
  NoText = NoText
  NoWorker = NoWorker
SYMMETRY MCSymmetry
PROPERTIES DecisionIsFinal
CHECK_DEADLOCK FALSE
