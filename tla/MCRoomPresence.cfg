\* An account connects twice while nothing else happens.
CONSTANTS
  c1 = c1  c2 = c2  c3 = c3  A = A  B = B  C = C
  Conn <- ThreeConns
  Creator = c1
  Account = {A, B}
  Acct <- ReAcct
  Exempt = {A}
  Creation = 8
  NewLimits = {}
  RoomCap = 2
  QueueCap = 9
  MaxActs <- NoneSent
  MaxEphs <- NoneSent
  Healthy = {}
  Stalled = {c1, c2, c3}
  Quitters = {c2}
  Grown = {}
  CanExpire = FALSE
SPECIFICATION Spec
INVARIANTS PresenceAgrees
CHECK_DEADLOCK FALSE
