\* Two players of different accounts, small channels, one action each.
CONSTANTS
  c1 = c1  c2 = c2  c3 = c3  A = A  B = B  C = C
  Conn <- TwoConns
  Creator = c1
  Account = {A, B}
  Acct <- TwoAcct
  Exempt = {A}
  Creation = 2
  NewLimits = {}
  RoomCap = 2
  QueueCap = 2
  MaxActs <- CreatorSends1
  MaxEphs <- CreatorSends2
  Healthy = {c1}
  Stalled = {}
  Quitters = {c2}
  Grown = {}
  CanExpire = FALSE
SPECIFICATION Spec
INVARIANTS TypeOK ViewIsPrefix NothingMissed Converged EphOrder Inv
CHECK_DEADLOCK FALSE
