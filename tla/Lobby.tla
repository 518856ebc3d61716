------------------------------- MODULE Lobby -------------------------------
(***************************************************************************)
(* The rooms of the server as RoomManager sees them: created, entered in   *)
(* the map, counted by room_mgr_loop once a second, expired by their own   *)
(* loop when they have long been empty, and removed from the map again.    *)
(* From the count come the answer to a ping, the statistics line and the   *)
(* idle exit.  What happens inside a room is module Room's.                *)
(*                                                                         *)
(* Time passes in seconds.  Every loop that sleeps for a second takes one  *)
(* turn in it; clients and tasks act between two seconds, and during the   *)
(* turn of room_mgr_loop.  A room is used once, a connection again.        *)
(***************************************************************************)
EXTENDS Integers, FiniteSets

CONSTANTS Conn,        \* client connections
          Room,        \* rooms that may be created
          None,        \* no room
          Stale,       \* seconds without players a room outlives (1800)
          StatsEvery,  \* seconds between two statistics lines (300)
          IdleExit,    \* seconds of exit_when_idle_mins
          Options,     \* whether exit_when_idle_mins may be set: a set of BOOLEAN
          Twice        \* bound: rooms where player_left is called again, one at a time

ASSUME LobbyAssumption ==
  /\ IsFiniteSet(Conn)
  /\ None \notin Room
  /\ Stale \in Nat /\ StatsEvery \in Nat \ {0} /\ IdleExit \in Nat
  /\ Options \subseteq BOOLEAN
  /\ Twice \subseteq Room

VARIABLES
  room,       \* where each room is: "free", "made", "listed", "unlisted"
  expired,    \* the rooms with has_expired
  empty,      \* no_players of each room's expiry loop, in seconds
  at,         \* the room a connection is in or on its way into
  task,       \* where its task is: "out", "asking", "joining", "in", "leaving"
  again,      \* a further player_left for somebody who has left: "no", "owed", "waits"
  exits,      \* the option exit_when_idle_mins is set
  server,     \* "up", "exited", "restarted"
  pc,         \* where room_mgr_loop is
  todo,       \* rooms the pass has still to visit
  dead,       \* to_remove
  total,      \* total_players
  shown,      \* TOTAL_PLAYERS
  idle,       \* seconds since last_active, up to IdleExit, if it matters
  due,        \* seconds since last_stats_log, up to StatsEvery
  line,       \* the last statistics line; its stamp alternates
  still       \* history: since the pass began nobody has moved or waited to

roomVars == <<room, expired, empty>>
connVars == <<at, task, again>>
passVars == <<pc, todo, dead, total>>
statVars == <<shown, idle, due, line>>
lobbyVars == <<roomVars, connVars, exits, server, passVars, statVars, still>>

Listed == {r \in Room : room[r] = "listed"}
PlayersOf(r) == {c \in Conn : at[c] = r /\ task[c] \in {"in", "leaving"}}

\* Rooms whose expiry loop runs.
Running(r) == room[r] # "free" /\ r \notin expired

\* A task is at players.write() of r, if only to find that its player has left
\* already, and try_read may fail.
WriterAt(r) ==
  \/ \E c \in Conn : at[c] = r /\ task[c] \in {"joining", "leaving"}
  \/ again[r] = "waits"

\* rooms.write() is free: the scan and manage_room hold rooms.read().
RoomsWritable == pc # "scan" /\ \A c \in Conn : task[c] # "asking"

\* ... and a reader waits for the writers that are waiting.
RoomsReadable ==
  /\ \A r \in Room : room[r] # "made"
  /\ pc = "purge" => dead = {}

\* Those the pass is meant to count.
Counted == {c \in Conn : \E r \in Listed \ expired : c \in PlayersOf(r)}

\* A line says when it was logged and whether it is "0 across 0 rooms".
NoLine == [stamp |-> 0, zero |-> FALSE]
Stamp(n) == IF n = 1 THEN 2 ELSE 1

\* The statistics are due at once when the server has started.
Init ==
  /\ room = [r \in Room |-> "free"]
  /\ expired = {}
  /\ empty = [r \in Room |-> 0]
  /\ at = [c \in Conn |-> None]
  /\ task = [c \in Conn |-> "out"]
  /\ again = [r \in Room |-> "no"]
  /\ exits \in Options
  /\ server = "up"
  /\ pc = "wake" /\ todo = {} /\ dead = {} /\ total = 0
  /\ shown = 0 /\ idle = 0 /\ due = StatsEvery /\ line = NoLine
  /\ still = FALSE

-----------------------------------------------------------------------------
(* Connections.  Limits, passwords and reconnects only refuse or shut down *)
(* connections, which this module leaves to chance; to refuse may take     *)
(* seconds.                                                                *)

\* start_new_room: the creator is a player and its task runs ...
Make(c, r) ==
  /\ server = "up" /\ task[c] = "out" /\ room[r] = "free"
  /\ room' = [room EXCEPT ![r] = "made"]
  /\ at' = [at EXCEPT ![c] = r]
  /\ task' = [task EXCEPT ![c] = "in"]
  /\ still' = FALSE
  /\ UNCHANGED <<expired, empty, again, exits, server, passVars, statVars>>

\* ... before rooms.write() is free for the room to be inserted.
Insert(r) ==
  /\ server = "up" /\ room[r] = "made" /\ RoomsWritable
  /\ room' = [room EXCEPT ![r] = "listed"]
  /\ still' = FALSE
  /\ UNCHANGED <<expired, empty, connVars, exits, server, passVars, statVars>>

\* A client finds the room in the map, whether or not it has expired, ...
Lookup(c, r) ==
  /\ server = "up" /\ task[c] = "out" /\ room[r] = "listed" /\ RoomsReadable
  /\ at' = [at EXCEPT ![c] = r]
  /\ task' = [task EXCEPT ![c] = "asking"]
  /\ still' = FALSE
  /\ UNCHANGED <<roomVars, again, exits, server, passVars, statVars>>

Move(c, from, to) ==
  /\ server = "up" /\ task[c] = from
  /\ task' = [task EXCEPT ![c] = to]
  /\ still' = FALSE
  /\ UNCHANGED <<roomVars, exits, server, passVars, statVars>>

\* ... and is admitted or refused, which ends its rooms.read().
Admit(c) == Move(c, "asking", "joining") /\ UNCHANGED <<at, again>>
Refuse(c) ==
  Move(c, "asking", "out") /\ at' = [at EXCEPT ![c] = None] /\ UNCHANGED again

\* The player is pushed.
Enter(c) == Move(c, "joining", "in") /\ UNCHANGED <<at, again>>

\* Its connection ends, and player_left waits for players.write().
Quit(c) == Move(c, "in", "leaving") /\ UNCHANGED <<at, again>>

\* player_left has removed it.  The supervisor, the cleanup task of the action
\* loop and a reconnect each call it: another of them may still be to come.
Left(c) ==
  /\ Move(c, "leaving", "out") /\ at' = [at EXCEPT ![c] = None]
  /\ \/ UNCHANGED again
     \/ /\ at[c] \in Twice /\ again[at[c]] = "no"
        /\ again' = [again EXCEPT ![at[c]] = "owed"]

\* The further call waits for players.write() as the first did, ...
AgainStep(r, from, to) ==
  /\ server = "up" /\ again[r] = from
  /\ again' = [again EXCEPT ![r] = to]
  /\ still' = FALSE
  /\ UNCHANGED <<roomVars, at, task, exits, server, passVars, statVars>>

Again(r) == AgainStep(r, "owed", "waits")

\* ... and finds nobody to remove.
AgainDone(r) == AgainStep(r, "waits", "no")

-----------------------------------------------------------------------------
(* Time, and the loops that follow it.                                     *)

UpTo(n, bound) == IF n < bound THEN n ELSE bound

\* Slip: the counter restarts when the room has been empty for long enough.
ExpiryTicksWrap ==
  LET alone == {r \in Room : Running(r) /\ PlayersOf(r) = {}}
  IN  /\ empty' = [r \in Room |-> IF r \in alone THEN (empty[r] + 1) % (Stale + 1) ELSE 0]
      /\ expired' = expired \cup {r \in alone : empty'[r] > Stale}

\* Slip: the loop goes on when the room has expired.
ExpiryTicksNoBreak ==
  LET alone == {r \in Room : room[r] # "free" /\ PlayersOf(r) = {}}
  IN  /\ empty' = [r \in Room |-> IF r \in alone THEN empty[r] + 1 ELSE 0]
      /\ expired' = expired \cup {r \in alone : empty'[r] > Stale}

\* One turn of every expiry loop: has the room been empty for long enough?
ExpiryTicks ==
  LET alone == {r \in Room : Running(r) /\ PlayersOf(r) = {}}
  IN  /\ empty' = [r \in Room |-> IF r \in alone THEN empty[r] + 1 ELSE 0]
      /\ expired' = expired \cup {r \in alone : empty'[r] > Stale}

\* A second passes, in which room_mgr_loop sleeps.
Second ==
  /\ server = "up" /\ pc = "sleep"
  /\ ExpiryTicks
  /\ pc' = "wake"
  /\ idle' = IF exits THEN UpTo(idle + 1, IdleExit) ELSE 0
  /\ due' = UpTo(due + 1, StatsEvery)
  /\ UNCHANGED <<room, connVars, exits, server, todo, dead, total, shown, line, still>>

\* Slip: total_players is not declared anew in every turn.
BeginPassKeepsTotal ==
  /\ server = "up" /\ pc = "wake" /\ RoomsReadable
  /\ pc' = "scan"
  /\ todo' = Listed /\ dead' = {} /\ total' = shown
  /\ still' = (\A r \in Room : ~WriterAt(r))
  /\ UNCHANGED <<roomVars, connVars, exits, server, statVars>>

\* rooms.read() is taken, until the scan is over.
BeginPass ==
  /\ server = "up" /\ pc = "wake" /\ RoomsReadable
  /\ pc' = "scan"
  /\ todo' = Listed /\ dead' = {} /\ total' = 0
  /\ still' = (\A r \in Room : ~WriterAt(r))
  /\ UNCHANGED <<roomVars, connVars, exits, server, statVars>>

\* One room of the scan.  A room whose lock is taken counts as empty.
Visit(r) ==
  /\ server = "up" /\ pc = "scan" /\ r \in todo
  /\ todo' = todo \ {r}
  /\ \/ /\ r \in expired
        /\ dead' = dead \cup {r}
        /\ UNCHANGED total
     \/ /\ r \notin expired
        /\ total' = total + Cardinality(PlayersOf(r))
        /\ UNCHANGED dead
     \/ /\ r \notin expired /\ WriterAt(r)
        /\ UNCHANGED <<dead, total>>
  /\ UNCHANGED <<roomVars, connVars, exits, server, pc, statVars, still>>

\* nb_rooms is taken under the lock: the length of the map less to_remove.
EndScan ==
  /\ server = "up" /\ pc = "scan" /\ todo = {}
  /\ pc' = "publish"
  /\ todo' = Listed \ dead
  /\ UNCHANGED <<roomVars, connVars, exits, server, dead, total, statVars, still>>

\* TOTAL_PLAYERS, last_active, the statistics line and the idle exit.
Publish ==
  /\ server = "up" /\ pc = "publish"
  /\ shown' = total
  /\ idle' = IF total > 0 THEN 0 ELSE idle
  /\ IF due >= StatsEvery
       THEN /\ due' = 0
            /\ line' = [stamp |-> Stamp(line.stamp), zero |-> total = 0 /\ todo = {}]
       ELSE UNCHANGED <<due, line>>
  /\ server' = IF exits /\ total = 0 /\ idle' >= IdleExit THEN "exited" ELSE server
  /\ pc' = "purge"
  /\ todo' = {}
  /\ UNCHANGED <<roomVars, connVars, exits, dead, total, still>>

\* The rooms found expired leave the map, under rooms.write().
Purge ==
  /\ server = "up" /\ pc = "purge"
  /\ dead # {} => RoomsWritable
  /\ room' = [r \in Room |-> IF r \in dead THEN "unlisted" ELSE room[r]]
  /\ pc' = "sleep" /\ dead' = {} /\ total' = 0
  /\ UNCHANGED <<expired, empty, connVars, exits, server, todo, statVars, still>>

-----------------------------------------------------------------------------

ConnStep ==
  \E c \in Conn :
    \/ Admit(c) \/ Refuse(c) \/ Enter(c) \/ Quit(c) \/ Left(c)
    \/ \E r \in Room : Make(c, r) \/ Lookup(c, r)

PassStep == BeginPass \/ (\E r \in Room : Visit(r)) \/ EndScan \/ Publish \/ Purge

\* What happens between two seconds.
Now == ConnStep \/ PassStep \/ \E r \in Room : Insert(r) \/ Again(r) \/ AgainDone(r)

=============================================================================
