\* Two rooms and two clients, the idle exit set or not, no waiter.
CONSTANTS
  c1 = c1  c2 = c2  r1 = r1  r2 = r2
  Conn = {c1, c2}
  Room = {r1, r2}
  None = none
  Stale = 1
  StatsEvery = 1
  IdleExit = 1
  Options = {TRUE, FALSE}
  Twice = {r1}
  Modes = {"none"}
  PollEvery = 1
  ZeroSamples = 2
  Needed = 2
SPECIFICATION FairSpec
INVARIANTS TypeOK CountExact
PROPERTIES AbandonedGoes
CHECK_DEADLOCK FALSE
