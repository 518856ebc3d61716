----------------------------- MODULE IdleWaiter -----------------------------
(***************************************************************************)
(* The two ways a deployment waits for an empty server, on top of Lobby:   *)
(* the idle waiter of src/deploy.py reads the statistics lines the server  *)
(* logs, and src/restart-when-idle.sh counts established connections.      *)
(* When it is content, the process is restarted, and every room is lost.   *)
(***************************************************************************)
EXTENDS Lobby

CONSTANTS Modes,        \* which of "stats" and "conns" wait, or "none"
          PollEvery,    \* seconds between two polls (20 and 5)
          ZeroSamples,  \* ZERO_SAMPLES
          Needed        \* IDLE_MINS in seconds

ASSUME WaiterAssumption ==
  /\ Modes \subseteq {"stats", "conns", "none"}
  /\ PollEvery \in Nat \ {0} /\ ("stats" \in Modes => PollEvery < StatsEvery)
  /\ ZeroSamples \in Nat \ {0}
  /\ Needed \in Nat

VARIABLES
  mode,      \* which of the two waits
  wait,      \* "off", "on", "decided", "done"
  sleep,     \* seconds until the next poll
  streak,    \* consecutive empty samples, or idle seconds
  lastTs,    \* the stamp of the last line read
  lost,      \* the rooms to rejoin that the restart took away
  age,       \* history: seconds a room has been listed, up to AgeBound, in mode "stats"
  zeros      \* history: empty lines logged since the last other one

waiterVars == <<mode, wait, sleep, streak, lastTs, lost>>
histVars == <<age, zeros>>
vars == <<lobbyVars, waiterVars, histVars>>

\* The bound of the history variable age.
AgeBound == PollEvery + 1

WaiterInit ==
  /\ Init
  /\ mode \in Modes
  /\ exits => mode = "none"
  /\ wait = "off" /\ sleep = 0 /\ streak = 0 /\ lastTs = 0
  /\ lost = {}
  /\ age = [r \in Room |-> 0]
  /\ zeros = 0

\* What the history keeps of a step of the server.
Observed ==
  /\ zeros' = IF line' = line \/ mode # "stats" THEN zeros
              ELSE IF line'.zero THEN UpTo(zeros + 1, ZeroSamples) ELSE 0
  /\ UNCHANGED <<waiterVars, age>>

ServerStep == Now /\ Observed

\* A poll that is due, and the restart, come before the next second.
Tick ==
  /\ wait = "on" => sleep > 0
  /\ wait # "decided"
  /\ Second
  /\ sleep' = IF wait = "on" THEN sleep - 1 ELSE sleep
  /\ age' = [r \in Room |-> IF r \in Listed \ expired /\ mode = "stats"
                              THEN UpTo(age[r] + 1, AgeBound) ELSE 0]
  /\ UNCHANGED <<mode, wait, streak, lastTs, lost, zeros>>

\* Somebody starts the waiter, which supersedes the idle exit; in mode "stats"
\* the journal has a line.
Start ==
  /\ server = "up" /\ wait = "off" /\ mode # "none"
  /\ mode = "stats" => line.stamp # 0
  /\ wait' = "on"
  /\ UNCHANGED <<lobbyVars, mode, sleep, streak, lastTs, lost, histVars>>

PollDue == server = "up" /\ wait = "on" /\ sleep = 0

Sampled(n, enough) ==
  /\ streak' = n
  /\ wait' = IF n >= enough THEN "decided" ELSE "on"
  /\ sleep' = PollEvery

\* Slip: the timestamp of the line is not compared.
PollStatsTwice ==
  /\ PollDue /\ mode = "stats"
  /\ Sampled(IF line.zero THEN UpTo(streak + 1, ZeroSamples) ELSE 0, ZeroSamples)
  /\ lastTs' = line.stamp
  /\ UNCHANGED <<lobbyVars, mode, lost, histVars>>

\* Slip: a line with players does not reset the streak.
PollStatsNoReset ==
  /\ PollDue /\ mode = "stats"
  /\ Sampled(IF line.stamp # lastTs /\ line.zero THEN streak + 1 ELSE streak, ZeroSamples)
  /\ lastTs' = line.stamp
  /\ UNCHANGED <<lobbyVars, mode, lost, histVars>>

\* One poll of the journal: the last line, unless it was read before.
PollStats ==
  /\ PollDue /\ mode = "stats"
  /\ Sampled(CASE line.stamp = lastTs -> streak
               [] line.stamp # lastTs /\ line.zero -> streak + 1
               [] OTHER -> 0, ZeroSamples)
  /\ lastTs' = line.stamp
  /\ UNCHANGED <<lobbyVars, mode, lost, histVars>>

\* The connections ss counts.
Established == {c \in Conn : task[c] \in {"asking", "joining", "in"}}

\* One poll of ss: a poll without connections counts for a whole interval.
PollConns ==
  /\ PollDue /\ mode = "conns"
  /\ Sampled(IF Established = {} THEN streak + PollEvery ELSE 0, Needed)
  /\ UNCHANGED <<lobbyVars, mode, lastTs, lost, histVars>>

\* systemctl restart.
Restart ==
  /\ server = "up" /\ wait = "decided"
  /\ server' = "restarted"
  /\ wait' = "done"
  /\ lost' = Listed \ expired
  /\ UNCHANGED <<roomVars, connVars, exits, passVars, statVars, still, mode, sleep,
                 streak, lastTs, histVars>>

Poll == PollStats \/ PollConns

Next == ServerStep \/ Tick \/ Start \/ Poll \/ Restart

Spec == WaiterInit /\ [][Next]_vars

\* Time passes, room_mgr_loop is polled, and so are the tasks that create
\* rooms, refuse clients and remove players; clients come and go as they like,
\* and a player_left for somebody who has left waits for as long as it likes.
Fairness ==
  /\ WF_vars(Tick) /\ WF_vars(Poll) /\ WF_vars(Restart)
  /\ WF_vars(PassStep /\ Observed)
  /\ \A r \in Room : WF_vars(Insert(r) /\ Observed)
  /\ \A c \in Conn : WF_vars((Admit(c) \/ Refuse(c) \/ Left(c)) /\ Observed)

FairSpec == Spec /\ Fairness

-----------------------------------------------------------------------------

\* The type invariant.
TypeOK ==
  /\ room \in [Room -> {"free", "made", "listed", "unlisted"}]
  /\ expired \subseteq Room
  /\ empty \in [Room -> 0..Stale + 1]
  /\ at \in [Conn -> Room \cup {None}]
  /\ task \in [Conn -> {"out", "asking", "joining", "in", "leaving"}]
  /\ again \in [Room -> {"no", "owed", "waits"}]
  /\ exits \in BOOLEAN
  /\ server \in {"up", "exited", "restarted"}
  /\ pc \in {"sleep", "wake", "scan", "publish", "purge"}
  /\ todo \subseteq Room /\ dead \subseteq Room
  /\ total \in Nat /\ shown \in Nat
  /\ idle \in 0..IdleExit /\ due \in 0..StatsEvery
  /\ line \in [stamp : 0..2, zero : BOOLEAN]
  /\ still \in BOOLEAN
  /\ mode \in Modes
  /\ wait \in {"off", "on", "decided", "done"}
  /\ sleep \in 0..PollEvery /\ streak \in Nat /\ lastTs \in 0..2
  /\ lost \subseteq Room
  /\ age \in [Room -> 0..AgeBound]
  /\ zeros \in 0..ZeroSamples

\* The number the server shows, and exits by, is the number of players in
\* the rooms that clients can find, unless somebody has moved, or waited for a
\* room's players.write() for nothing, since the scan that produced it began.
CountExact ==
  still /\ pc \notin {"scan", "publish"} => shown = Cardinality(Counted)

\* A restart that deploy.py's waiter decides on takes away only rooms younger
\* than the interval between two polls, if it waits for more than one line.
LostIsYoung ==
  mode = "stats" /\ ZeroSamples > 1 => \A r \in lost : age[r] <= PollEvery

\* It decides after ZERO_SAMPLES empty lines in a row, each counted once.
StreakIsReal ==
  mode = "stats" /\ lastTs = line.stamp => streak <= zeros

Nobody(r) == \A c \in Conn : at[c] # r

\* A room that everybody has left for good leaves the map.
AbandonedGoes ==
  \A r \in Room :
    <>[](Nobody(r) /\ server = "up") => <>[](room[r] \in {"free", "unlisted"})

-----------------------------------------------------------------------------
(* What the repository says of the restarts and the code does not give.    *)

\* "a stats-triggered restart is lossless"
StatsRestartIsLossless == mode = "stats" => lost = {}

\* "30 guarantees the restart loses nothing": a script that waits for as
\* long as a room outlives its last player finds every empty room expired.
IdleMinsOutlastRooms ==
  mode = "conns" /\ Needed >= Stale /\ wait = "decided" =>
    \A r \in Listed \ expired : PlayersOf(r) # {}

=============================================================================
