\* A player that reads and a player that has stalled: its queue overflows, and a
\* text that it sends has grown.
CONSTANTS
  c1 = c1  c2 = c2  c3 = c3  A = A  B = B  C = C
  Conn <- TwoConns
  Creator = c1
  Account = {A, B}
  Acct <- TwoAcct
  Exempt = {A}
  Creation = 2
  NewLimits = {}
  RoomCap = 1
  QueueCap = 2
  MaxActs <- GuestSends2
  MaxEphs <- NoneSent
  Healthy = {c1}
  Stalled = {c2}
  Quitters = {c1}
  Grown <- GuestGrown
  CanExpire = TRUE
SPECIFICATION FairSpec
PROPERTIES KeepsPromise DoomedIsRemoved RoomProgress JoinCompletes EndIsLeft GhostIsFound
CHECK_DEADLOCK FALSE
