SPECIFICATION Spec
CONSTANTS
  CommandIds = {c1}
  Operations = {o1, o2, o3}
  EventIds = {e1}
  EventBodies = {b1, b2}
  Handlers = {h1, h2}
  AuditTime = 1
  EventTime = 1
  MaxClock = 2
  NoRow = NoRow
  Files = {f1}
  Contents = {x1, x2, x3}
  Valid = {x1, x2}
  QuarantineTime = 1
  MaxChanges = 4
  NoFile = NoFile
  NoReport = NoReport
  Never = Never
CONSTRAINTS MCOnePart MCFewReports MCFewSweeps
INVARIANTS OneEnd
CHECK_DEADLOCK FALSE
