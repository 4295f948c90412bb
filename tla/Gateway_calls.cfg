CONSTANTS
  s1 = s1  s2 = s2  i1 = i1  i2 = i2  u1 = u1  u2 = u2
  name = name  number = number  junk = junk
  Slot = {s1, s2}
  NoSip = NoSip
  MaxLaps = 1
  Ext = {name, junk}
  TgId = {i1, i2}
  CanRing = {i1}
  NoTg = NoTg
  User = {u1}
  NoUser = NoUser
  NoExt = NoExt
  ExtKind <- MCExtKind
  ExtUser <- MCExtUser
  CallbackSet = TRUE
  RetryWait = 3
  PeerFloodTime = 1
  MaxMessages = 0
SPECIFICATION EitherSpec
INVARIANTS TypeOK OneBridgePerTgCall BridgeHasEntry NoOrphanTg NoOrphanSip AnswerOrder FailureReported
PROPERTIES ContextNotReused BlockNotShortened BridgesCalls
CHECK_DEADLOCK FALSE
SYMMETRY SlotSym
