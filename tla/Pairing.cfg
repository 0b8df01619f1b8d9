SPECIFICATION Spec
CONSTANTS
  Sessions = {s1, s2}
  Requests = {q1, q2, q3}
  OpenGame = OpenGame
  OpenWeb = OpenWeb
  DeviceIds = {OpenGame, OpenWeb, d1, d2, d3}
  CodeIds = {k1, k2}
  OpenProfile = OpenProfile
  Profiles = {OpenProfile, p1}
  MaxDevices = 2
  Ttl = 1
  MaxClock = 1
  NoDevice = NoDevice
  NoCode = NoCode
  NoRequest = NoRequest
  NoProfile = NoProfile
  NoJob = NoJob
SYMMETRY MCSymmetry
INVARIANTS DeviceCap UsedCodeHasDevice DeviceHasOneCode OneDevicePerRequest
PROPERTIES ImplementsDeviceRegistry
CHECK_DEADLOCK FALSE
