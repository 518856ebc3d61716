\* restart-when-idle.sh told to wait for as long as a room outlives its players.
CONSTANTS
  c1 = c1  c2 = c2  r1 = r1  r2 = r2
  Conn = {c1, c2}
  Room = {r1}
  None = none
  Stale = 4
  StatsEvery = 3
  IdleExit = 2
  Options = {FALSE}
  Twice = {}
  Modes = {"conns"}
  PollEvery = 2
  ZeroSamples = 2
  Needed = 4
SPECIFICATION Spec
INVARIANTS IdleMinsOutlastRooms
CHECK_DEADLOCK FALSE
