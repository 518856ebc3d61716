\* An account connects twice; queues that never overflow.
CONSTANTS
  c1 = c1  c2 = c2  c3 = c3  A = A  B = B  C = C
  Conn <- ThreeConns
  Creator = c1
  Account = {A, B}
  Acct <- ReAcct
  Exempt = {A}
  Creation = 8
  NewLimits = {1}
  RoomCap = 1
  QueueCap = 9
  MaxActs <- GuestSendsToo
  MaxEphs <- NoneSent
  Healthy = {}
  Stalled = {c1, c2, c3}
  Quitters = {c2}
  Grown = {}
  CanExpire = FALSE
SPECIFICATION Spec
INVARIANTS SenderOrder LeaveExact LimitFollowsLog
CHECK_DEADLOCK FALSE
