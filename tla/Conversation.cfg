SPECIFICATION MCSpec
CONSTANTS
  wood = wood
  stone = stone
  phone = phone
  game = game
  Resources = {wood, stone}
  MaxQuantity = 2
  MaxAsk = 2
  NoQuantity = NoQuantity
  NoSlot = NoSlot
  Requests = {r1, r2, r3}
  Chats = {phone, game}
  Situations = {s1}
  TextsOf <- MCTextsOf
  SurfaceOf <- MCSurfaceOf
  AllowedOf <- MCAllowedOf
  MaxEntries = 2
  PendingTtl = 1
  IdleTtl = 1
  MaxClock = 1
  MaxMishaps = 1
  NoText = NoText
  NoReply = NoReply
  NoLock = NoLock
  m1 = m1
  m2 = m2
  x1 = x1
  x2 = x2
  Memories = {m1, m2}
  Messages = {x1, x2}
  TextOf <- MCTextOf
  SaidOn <- MCSaidOn
  Events = {1, 2}
  Hours = {1, 2, 4}
  Cooldown = 2
  Window = 3
  Acceptors = {w}
  NoEvent = NoEvent
  Idle = Idle
SYMMETRY RequestSymmetry
CHECK_DEADLOCK FALSE
INVARIANTS EvidenceIsSpaced StateIsJustified OneTurnAtATime OrderIsWhatWasSaid AnsweredQuestionIsGone
PROPERTIES GrowsOnEvidence
