\* The waiter of deploy.py: a room made between two polls is lost.
CONSTANTS
  c1 = c1  c2 = c2  r1 = r1  r2 = r2
  Conn = {c1, c2}
  Room = {r1}
  None = none
  Stale = 2
  StatsEvery = 3
  IdleExit = 2
  Options = {FALSE}
  Twice = {}
  Modes = {"stats"}
  PollEvery = 2
  ZeroSamples = 2
  Needed = 2
SPECIFICATION Spec
INVARIANTS StatsRestartIsLossless
CHECK_DEADLOCK FALSE
