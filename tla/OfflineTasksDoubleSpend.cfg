SPECIFICATION Spec
CONSTANTS
  c1 = c1
  c2 = c2
  g1 = g1
  o1 = o1
  Requests = {c1, c2}
  Sessions = {s1, s2}
  Kind <- MCKind
  Quantity <- MCQuantity
  MakoRoom = 3
  StorageRoom = 1
  FirstMako = 2
  FirstStorage = 0
  PlayRange <- MCPlayRange
  MaxVersion = 2
  MaxCreations = 1
  NoSnap = NoSnap
  NoTask = NoTask
  NoPut = NoPut
  Nobody = Nobody
SYMMETRY MCSymmetry
INVARIANTS Conservation
CHECK_DEADLOCK FALSE
