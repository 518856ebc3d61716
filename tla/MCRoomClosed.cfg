\* A guest joins when the room has been empty for half an hour.
CONSTANTS
  c1 = c1  c2 = c2  c3 = c3  A = A  B = B  C = C
  Conn <- TwoConns
  Creator = c1
  Account = {A, B}
  Acct <- TwoAcct
  Exempt = {A}
  Creation = 8
  NewLimits = {}
  RoomCap = 2
  QueueCap = 9
  MaxActs <- NoneSent
  MaxEphs <- NoneSent
  Healthy = {}
  Stalled = {c1, c2}
  Quitters = {c1}
  Grown = {}
  CanExpire = TRUE
SPECIFICATION Spec
INVARIANTS ClosedIsEmpty
CHECK_DEADLOCK FALSE
