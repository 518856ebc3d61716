\* Two guests join a room with one place for them.
CONSTANTS
  c1 = c1  c2 = c2  c3 = c3  A = A  B = B  C = C
  Conn <- ThreeConns
  Creator = c1
  Account = {A, B, C}
  Acct <- ApartAcct
  Exempt = {A}
  Creation = 1
  NewLimits = {}
  RoomCap = 2
  QueueCap = 9
  MaxActs <- NoneSent
  MaxEphs <- NoneSent
  Healthy = {}
  Stalled = {c1, c2, c3}
  Quitters = {c1}
  Grown = {}
  CanExpire = FALSE
SPECIFICATION Spec
INVARIANTS GuestsWithinLimit
CHECK_DEADLOCK FALSE
