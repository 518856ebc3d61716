\* One room, two clients, either waiter.
CONSTANTS
  c1 = c1  c2 = c2  r1 = r1  r2 = r2
  Conn = {c1, c2}
  Room = {r1}
  None = none
  Stale = 2
  StatsEvery = 3
  IdleExit = 2
  Options = {FALSE}
  Twice = {r1}
  Modes = {"stats", "conns"}
  PollEvery = 2
  ZeroSamples = 2
  Needed = 2
SPECIFICATION Spec
INVARIANTS LostIsYoung StreakIsReal
CHECK_DEADLOCK FALSE
