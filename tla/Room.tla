-------------------------------- MODULE Room --------------------------------
(***************************************************************************)
(* One room of the relay server: Room, Player and run_player_loop of       *)
(* src/src/managers.rs and src/src/player_loop.rs.                         *)
(*                                                                         *)
(* The tasks of the code are the processes of the model:                   *)
(*   - the action loop of Room::run drains the room channel, applies the   *)
(*     server-side effects, extends the log and syncs every player;        *)
(*   - each connection has one task: manage_room until the player is in    *)
(*     the room, then the supervisor of run_player_loop, whose select!     *)
(*     polls the initial sync and then the writer and the reader;          *)
(*   - short tasks spawned by the room shut a player down when its queue   *)
(*     overflows or when its receiver is found closed;                     *)
(*   - the expiry loop of Room::run and room_mgr_loop end the room.        *)
(* A step is what such a task does between two points where another task   *)
(* can be seen to run: an await that waits, or a lock taken or released.   *)
(*                                                                         *)
(* A Conn is one TCP connection (one Arc<Player>); Acct gives its account. *)
(* An action in the log is shared by Arc with the queues, so a queue holds *)
(* the position of the action in the log, which never changes.             *)
(***************************************************************************)
EXTENDS Integers, FiniteSets, SequencesExt

CONSTANTS Conn,        \* the connections, each used once
          Creator,     \* the connection that creates the room
          Account,     \* the account ids
          Acct,        \* the account id of each connection
          Exempt,      \* the accounts the limit does not apply to
          Creation,    \* the player limit of the room's creation message
          NewLimits,   \* the limits Admin_SetRoomPlayerLimit may carry
          RoomCap,     \* capacity of the room channel (52000 in the code)
          QueueCap,    \* capacity of a player's queue (51000 in the code)
          MaxActs,     \* bound: persistent actions a connection sends
          MaxEphs,     \* bound: ephemeral actions a connection sends
          Healthy,     \* the peers that keep reading from their socket
          Stalled,     \* the peers that never read from their socket
          Quitters,    \* bound: the peers whose connection may end by itself
          Grown,       \* <<c, n>>: a text of c's n-th act is too long to write
          CanExpire    \* whether half an hour without players may pass

ASSUME RoomAssumption ==
  /\ Creator \in Conn
  /\ Acct \in [Conn -> Account]
  /\ Acct[Creator] \in Exempt
  /\ Creation \in Nat
  /\ NewLimits \subseteq Nat
  /\ RoomCap \in Nat \ {0}
  /\ QueueCap \in Nat \ {0}
  /\ MaxActs \in [Conn -> Nat]
  /\ MaxEphs \in [Conn -> Nat]
  /\ Healthy \subseteq Conn /\ Stalled \subseteq Conn \ Healthy
  /\ Quitters \subseteq Conn
  /\ Grown \subseteq Conn \X Nat
  /\ CanExpire \in BOOLEAN

Cleaner == "cleaner"   \* the task spawned for a stale player

\* A logged action. "limit" is Admin_SetRoomPlayerLimit and n its value,
\* "act" any other persistent action and n its number at the sender.
Entry == [kind : {"join", "leave", "act", "limit"}, from : Conn, n : Nat]

Item == [kind : {"log"}, pos : Nat \ {0}] \cup [kind : {"eph"}, from : Conn, n : Nat]

LogItem(p) == [kind |-> "log", pos |-> p]
EphItem(c, k) == [kind |-> "eph", from |-> c, n |-> k]

Task == {"out", "admitted", "kick", "push", "create", "start", "sync", "run",
         "end", "leave", "gone", "dead"}

VARIABLES
  \* the room
  roomQ,       \* the room channel: sent, not yet received
  batch,       \* received by the action loop, not yet in the log
  log,         \* Room.actions
  players,     \* Room.players
  limit,       \* Room.player_limit
  listed,      \* the room's entry in RoomManager.rooms
  expired,     \* Room.has_expired
  \* its action loop
  loop,        \* where the action loop is
  visit,       \* players the current pass has still to sync
  stale,       \* players the current pass found closed
  cleanup,     \* players with a spawned cleanup task that has not removed
  leaving,     \* <<c, by>>: by removed c and has still to send its leave
  \* each connection
  task,        \* where its task is
  rem,         \* prior connections it has still to remove
  shut,        \* the shutdown channel of the player has been signalled
  doomed,      \* an action for it was dropped because its queue was full
  queue,       \* its action channel
  lastSync,    \* PlayerSync.last_sync
  sent,        \* log positions sync_actions has passed, up to lastSync
  syncer,      \* who is inside sync_actions of it
  fan,         \* players its ephemeral action has still to be sent to
  view,        \* log actions written to its socket
  acts, ephs   \* how many actions it has sent

roomVars == <<roomQ, batch, log, players, limit, listed, expired>>
loopVars == <<loop, visit, stale, cleanup, leaving>>
syncVars == <<doomed, queue, lastSync, sent, syncer>>
peerVars == <<fan, view, acts, ephs>>
connVars == <<task, rem, shut>>

vars == <<roomVars, loopVars, syncVars, peerVars, connVars>>

\* action_tx.is_closed() is the negation: the receiver lives in the task
\* until the select! of run_player_loop has ended, or panicked.
RxOpen(c) == task[c] \notin {"end", "leave", "gone", "dead"}

Init ==
  /\ roomQ = <<>> /\ batch = <<>> /\ log = <<>>
  /\ players = {Creator}
  /\ limit = Creation
  /\ listed = "no"
  /\ expired = FALSE
  /\ loop = "recv" /\ visit = {} /\ stale = {} /\ cleanup = {} /\ leaving = {}
  /\ task = [c \in Conn |-> IF c = Creator THEN "create" ELSE "out"]
  /\ rem = [c \in Conn |-> {}]
  /\ shut = [c \in Conn |-> FALSE]
  /\ doomed = [c \in Conn |-> FALSE]
  /\ queue = [c \in Conn |-> <<>>]
  /\ lastSync = [c \in Conn |-> 0]
  /\ sent = [c \in Conn |-> 0]
  /\ syncer = [c \in Conn |-> "none"]
  /\ fan = [c \in Conn |-> {}]
  /\ view = [c \in Conn |-> <<>>]
  /\ acts = [c \in Conn |-> 0]
  /\ ephs = [c \in Conn |-> 0]

-----------------------------------------------------------------------------
(* The room channel and the player list.                                   *)
\* Slip: senders wait for ever when the action loop has gone.
AddActionWaits(kind, c, k) ==
  /\ loop # "dead"
  /\ Len(roomQ) < RoomCap
  /\ roomQ' = Append(roomQ, [kind |-> kind, from |-> c, n |-> k])

\* Room::add_action: waits while the channel is full; an error, ignored by
\* the callers that use this operator, once the action loop has gone.
AddAction(kind, c, k) ==
  \/ /\ loop # "dead"
     /\ Len(roomQ) < RoomCap
     /\ roomQ' = Append(roomQ, [kind |-> kind, from |-> c, n |-> k])
  \/ /\ loop = "dead"
     /\ UNCHANGED roomQ

\* players.write() is not held together with the players.read() of a pass.
PlayersWritable == loop # "sync"
\* Slip: the leave is broadcast whether or not this call removed c.
PlayerLeftAlways(c, by) ==
  /\ PlayersWritable
  /\ players' = players \ {c}
  /\ leaving' = leaving \cup {<<c, by>>}

\* Room::player_left up to the release of players.write(); the leave action
\* is sent by SendLeave. A second call for the same connection does nothing.
PlayerLeft(c, by) ==
  /\ PlayersWritable
  /\ players' = players \ {c}
  /\ leaving' = IF c \in players THEN leaving \cup {<<c, by>>} ELSE leaving

\* The rest of player_left, for whichever task removed c.
SendLeave(c, by) ==
  /\ <<c, by>> \in leaving
  /\ by = c => task[c] = "leave"
  /\ AddAction("leave", c, 0)
  /\ leaving' = leaving \ {<<c, by>>}
  /\ task' = IF by = c THEN [task EXCEPT ![c] = "gone"] ELSE task
  /\ UNCHANGED <<batch, log, players, limit, listed, expired, loop, visit,
                 stale, cleanup, rem, shut, syncVars, peerVars>>

-----------------------------------------------------------------------------
(* Entering the room: the rest of start_new_room for the creator, the join *)
(* branch of manage_room and add_player_via_join for everybody else.       *)

CreateJoin(c) ==
  /\ task[c] = "create"
  /\ AddAction("join", c, 0)
  /\ task' = [task EXCEPT ![c] = "start"]
  /\ UNCHANGED <<batch, log, players, limit, listed, expired, loopVars, rem,
                 shut, syncVars, peerVars>>

\* manage_room inserts the room in the map once start_new_room has returned.
List ==
  /\ listed = "no"
  /\ task[Creator] # "create"
  /\ listed' = "yes"
  /\ UNCHANGED <<roomQ, batch, log, players, limit, expired, loopVars,
                 connVars, syncVars, peerVars>>

\* The lookup and the limit check, under rooms.read() and players.read().
Admit(c) ==
  /\ task[c] = "out"
  /\ listed = "yes"
  /\ task' = [task EXCEPT ![c] =
                IF Acct[c] \in Exempt \/ Cardinality(players) < limit
                  THEN "admitted" ELSE "gone"]
  /\ UNCHANGED <<roomVars, loopVars, rem, shut, syncVars, peerVars>>

\* The scan for prior connections of the account, under players.write().
Scan(c) ==
  /\ task[c] = "admitted"
  /\ PlayersWritable
  /\ rem' = [rem EXCEPT ![c] = {p \in players : Acct[p] = Acct[c]}]
  /\ task' = [task EXCEPT ![c] = "kick"]
  /\ UNCHANGED <<roomVars, loopVars, shut, syncVars, peerVars>>

\* p.shutdown_err("client reconnected"), which signals shutdown ...
Kick(c, p) ==
  /\ task[c] = "kick" /\ p \in rem[c]
  /\ ~shut[p]
  /\ shut' = [shut EXCEPT ![p] = TRUE]
  /\ UNCHANGED <<roomVars, loopVars, task, rem, syncVars, peerVars>>

\* ... and then self.player_left(&p); one prior connection after the other.
KickLeft(c, p) ==
  /\ task[c] = "kick" /\ p \in rem[c] /\ shut[p]
  /\ \A q \in Conn : <<q, c>> \notin leaving
  /\ PlayerLeft(p, c)
  /\ rem' = [rem EXCEPT ![c] = @ \ {p}]
  /\ UNCHANGED <<roomQ, batch, log, limit, listed, expired, loop, visit,
                 stale, cleanup, task, shut, syncVars, peerVars>>

JoinMsg(c) ==
  /\ task[c] = "kick" /\ rem[c] = {}
  /\ \A q \in Conn : <<q, c>> \notin leaving
  /\ AddAction("join", c, 0)
  /\ task' = [task EXCEPT ![c] = "push"]
  /\ UNCHANGED <<batch, log, players, limit, listed, expired, loopVars, rem,
                 shut, syncVars, peerVars>>
\* Slip: the player is pushed without waiting for its join to be sent.
PushEarly(c) ==
  /\ task[c] \in {"kick", "push"}
  /\ PlayersWritable
  /\ players' = players \cup {c}
  /\ task' = [task EXCEPT ![c] = "start"]
  /\ UNCHANGED <<roomQ, batch, log, limit, listed, expired, loopVars, rem,
                 shut, syncVars, peerVars>>

\* players.write().push(player); then run_player_loop spawns the supervisor.
Push(c) ==
  /\ task[c] = "push"
  /\ PlayersWritable
  /\ players' = players \cup {c}
  /\ task' = [task EXCEPT ![c] = "start"]
  /\ UNCHANGED <<roomQ, batch, log, limit, listed, expired, loopVars, rem,
                 shut, syncVars, peerVars>>

-----------------------------------------------------------------------------
(* sync_actions, called by the action loop for every player and by each    *)
(* player's task once. Both callers hold actions.read() and the player's   *)
(* sync.write() from the first step to the last.                           *)

ActionsWritable == \A c \in Conn : syncer[c] = "none"

\* What the caller does when sync_actions returns.
Synced(c, by) ==
  /\ syncer' = [syncer EXCEPT ![c] = "none"]
  /\ visit' = IF by = "loop" THEN visit \ {c} ELSE visit
  /\ task' = IF by = "self" THEN [task EXCEPT ![c] = "run"] ELSE task
\* Slip: the early return is off by one.
SyncBeginLate(c, by) ==
  /\ syncer[c] = "none"
  /\ IF lastSync[c] + 1 >= Len(log)
       THEN /\ Synced(c, by)
            /\ UNCHANGED lastSync
       ELSE /\ syncer' = [syncer EXCEPT ![c] = by]
            /\ lastSync' = [lastSync EXCEPT ![c] = Len(log)]
            /\ visit' = visit
            /\ task' = IF by = "self" THEN [task EXCEPT ![c] = "sync"] ELSE task
  /\ UNCHANGED <<roomVars, loop, stale, cleanup, leaving, rem, shut, doomed,
                 queue, sent, peerVars>>

\* The early return, or last_sync moved to the end of the log.
SyncBegin(c, by) ==
  /\ syncer[c] = "none"
  /\ IF lastSync[c] >= Len(log)
       THEN /\ Synced(c, by)
            /\ UNCHANGED lastSync
       ELSE /\ syncer' = [syncer EXCEPT ![c] = by]
            /\ lastSync' = [lastSync EXCEPT ![c] = Len(log)]
            /\ visit' = visit
            /\ task' = IF by = "self" THEN [task EXCEPT ![c] = "sync"] ELSE task
  /\ UNCHANGED <<roomVars, loop, stale, cleanup, leaving, rem, shut, doomed,
                 queue, sent, peerVars>>
\* Slip: the slice starts one action too early.
SyncSendEarly(c) ==
  /\ syncer[c] # "none"
  /\ RxOpen(c)
  /\ Len(queue[c]) < QueueCap
  /\ queue' = [queue EXCEPT ![c] = Append(@, LogItem(sent[c]))]
  /\ sent' = [sent EXCEPT ![c] = @ + 1]
  /\ IF sent[c] + 1 = lastSync[c]
       THEN Synced(c, syncer[c])
       ELSE UNCHANGED <<syncer, visit, task>>
  /\ UNCHANGED <<roomVars, loop, stale, cleanup, leaving, rem, shut, doomed,
                 lastSync, peerVars>>

\* One try_send that succeeds.
SyncSend(c) ==
  /\ syncer[c] # "none"
  /\ RxOpen(c)
  /\ Len(queue[c]) < QueueCap
  /\ queue' = [queue EXCEPT ![c] = Append(@, LogItem(sent[c] + 1))]
  /\ sent' = [sent EXCEPT ![c] = @ + 1]
  /\ IF sent[c] + 1 = lastSync[c]
       THEN Synced(c, syncer[c])
       ELSE UNCHANGED <<syncer, visit, task>>
  /\ UNCHANGED <<roomVars, loop, stale, cleanup, leaving, rem, shut, doomed,
                 lastSync, peerVars>>
\* Slip: the action is dropped without a word.
SyncFullSilent(c) ==
  /\ syncer[c] # "none"
  /\ RxOpen(c)
  /\ Len(queue[c]) >= QueueCap
  /\ sent' = [sent EXCEPT ![c] = lastSync[c]]
  /\ Synced(c, syncer[c])
  /\ UNCHANGED <<roomVars, loop, stale, cleanup, leaving, rem, shut, doomed,
                 queue, lastSync, peerVars>>

\* Slip: send().await instead of try_send, so that this step never happens.
SyncFullWaits(c) == FALSE

\* A full queue: spawn the shutdown and break, skipping the rest.
SyncFull(c) ==
  /\ syncer[c] # "none"
  /\ RxOpen(c)
  /\ Len(queue[c]) >= QueueCap
  /\ doomed' = [doomed EXCEPT ![c] = TRUE]
  /\ sent' = [sent EXCEPT ![c] = lastSync[c]]
  /\ Synced(c, syncer[c])
  /\ UNCHANGED <<roomVars, loop, stale, cleanup, leaving, rem, shut, queue,
                 lastSync, peerVars>>

\* A closed queue: break.
SyncClosed(c) ==
  /\ syncer[c] # "none"
  /\ ~RxOpen(c)
  /\ sent' = [sent EXCEPT ![c] = lastSync[c]]
  /\ Synced(c, syncer[c])
  /\ UNCHANGED <<roomVars, loop, stale, cleanup, leaving, rem, shut, doomed,
                 queue, lastSync, peerVars>>
\* Slip: shutdown is signalled only after the error has been written.
OverflowAfterWrite(c) ==
  /\ doomed[c] /\ ~shut[c] /\ c \notin Stalled
  /\ shut' = [shut EXCEPT ![c] = TRUE]
  /\ UNCHANGED <<roomVars, loopVars, task, rem, syncVars, peerVars>>

\* The task spawned for a full queue: shutdown_err signals the supervisor.
Overflow(c) ==
  /\ doomed[c] /\ ~shut[c]
  /\ shut' = [shut EXCEPT ![c] = TRUE]
  /\ UNCHANGED <<roomVars, loopVars, task, rem, syncVars, peerVars>>

-----------------------------------------------------------------------------
(* The action loop of Room::run.                                           *)

\* recv and the try_recv loop: everything that is in the channel.
Receive ==
  /\ loop = "recv" /\ roomQ # <<>>
  /\ batch' = roomQ
  /\ roomQ' = <<>>
  /\ loop' = "apply"
  /\ UNCHANGED <<log, players, limit, listed, expired, visit, stale, cleanup,
                 leaving, connVars, syncVars, peerVars>>

IsOwnerLimit(e) == e.kind = "limit" /\ Acct[e.from] = Acct[Creator]

\* The limit after apply_server_side of every action of es, in order.
LimitAfter(es, l) ==
  LET i == SelectLastInSeq(es, IsOwnerLimit)
  IN  IF i \in DOMAIN es THEN es[i].n ELSE l
\* Slip: any player may change the enforced limit.
ApplyFromAnyone ==
  /\ loop = "apply"
  /\ limit' = LET i == SelectLastInSeq(batch, LAMBDA e : e.kind = "limit")
              IN  IF i \in DOMAIN batch THEN batch[i].n ELSE limit
  /\ loop' = "extend"
  /\ UNCHANGED <<roomQ, batch, log, players, listed, expired, visit, stale,
                 cleanup, leaving, connVars, syncVars, peerVars>>

Apply ==
  /\ loop = "apply"
  /\ limit' = LimitAfter(batch, limit)
  /\ loop' = "extend"
  /\ UNCHANGED <<roomQ, batch, log, players, listed, expired, visit, stale,
                 cleanup, leaving, connVars, syncVars, peerVars>>

\* actions.write().extend(new_actions).
Extend ==
  /\ loop = "extend"
  /\ ActionsWritable
  /\ log' = log \o batch
  /\ batch' = <<>>
  /\ loop' = "begin"
  /\ UNCHANGED <<roomQ, players, limit, listed, expired, visit, stale, cleanup,
                 leaving, connVars, syncVars, peerVars>>
\* Slip: an action is not synced to the player that sent it.
BeginPassNoEcho ==
  /\ loop = "begin"
  /\ visit' = players \ {Last(log).from}
  /\ loop' = "sync"
  /\ UNCHANGED <<roomVars, stale, cleanup, leaving, connVars, syncVars,
                 peerVars>>

\* players.read() and actions.read() are taken.
BeginPass ==
  /\ loop = "begin"
  /\ visit' = players
  /\ loop' = "sync"
  /\ UNCHANGED <<roomVars, stale, cleanup, leaving, connVars, syncVars,
                 peerVars>>

\* The loop is not waiting inside sync_actions of another player.
Visiting(c) ==
  /\ loop = "sync" /\ c \in visit
  /\ \A d \in Conn : syncer[d] # "loop"
\* Slip: player_left is called inside the pass, whose players.read() it then
\* waits for, so that this step never happens.
VisitStaleInline(c) == FALSE

\* Slip: a player whose queue is closed is passed over.
VisitStaleForgets(c) ==
  /\ Visiting(c) /\ ~RxOpen(c)
  /\ visit' = visit \ {c}
  /\ UNCHANGED <<roomVars, loop, stale, cleanup, leaving, connVars, syncVars,
                 peerVars>>

VisitStale(c) ==
  /\ Visiting(c) /\ ~RxOpen(c)
  /\ visit' = visit \ {c}
  /\ stale' = stale \cup {c}
  /\ UNCHANGED <<roomVars, loop, cleanup, leaving, connVars, syncVars, peerVars>>

VisitSync(c) ==
  /\ Visiting(c) /\ RxOpen(c)
  /\ SyncBegin(c, "loop")

\* Both guards are dropped; a task is spawned for each stale player.
EndPass ==
  /\ loop = "sync" /\ visit = {}
  /\ loop' = "recv"
  /\ stale' = {}
  /\ cleanup' = cleanup \cup stale
  /\ UNCHANGED <<roomVars, visit, leaving, connVars, syncVars, peerVars>>

\* shutdown_err, whose signal no supervisor waits for any more, and player_left.
CleanupLeft(c) ==
  /\ c \in cleanup
  /\ PlayerLeft(c, Cleaner)
  /\ cleanup' = cleanup \ {c}
  /\ shut' = [shut EXCEPT ![c] = TRUE]
  /\ UNCHANGED <<roomQ, batch, log, limit, listed, expired, loop, visit, stale,
                 task, rem, syncVars, peerVars>>

-----------------------------------------------------------------------------
(* The supervisor of run_player_loop and the two loops it polls.           *)

\* Room details, then the initial sync under actions.read().
SelfSync(c) ==
  /\ task[c] = "start"
  /\ SyncBegin(c, "self")

\* The reader admits a text that write_lp_string_to_buf then finds too long:
\* from_utf8_lossy has made it longer in between.
Unwritable(i) ==
  i.kind = "log" /\ log[i.pos].kind = "act" /\ <<log[i.pos].from, log[i.pos].n>> \in Grown

\* The writer relays the head of the queue to the socket.
Write(c) ==
  /\ task[c] = "run" /\ fan[c] = {} /\ c \notin Stalled
  /\ queue[c] # <<>> /\ ~Unwritable(Head(queue[c]))
  /\ queue' = [queue EXCEPT ![c] = Tail(@)]
  /\ LET i == Head(queue[c])
     IN  view' = IF i.kind = "log"
                   THEN [view EXCEPT ![c] = Append(@, log[i.pos])] ELSE view
  /\ UNCHANGED <<roomVars, loopVars, connVars, doomed, lastSync, sent, syncer,
                 fan, acts, ephs>>

\* The reader passes a persistent action to the room.
Act(c) ==
  /\ task[c] = "run" /\ fan[c] = {}
  /\ acts[c] < MaxActs[c]
  /\ loop # "dead"
  /\ \/ AddAction("act", c, acts[c] + 1)
     \/ \E l \in NewLimits : AddAction("limit", c, l)
  /\ acts' = [acts EXCEPT ![c] = @ + 1]
  /\ UNCHANGED <<batch, log, players, limit, listed, expired, loopVars,
                 connVars, syncVars, fan, view, ephs>>

\* The reader clones the player list to send an ephemeral action to it ...
Eph(c) ==
  /\ task[c] = "run" /\ fan[c] = {}
  /\ ephs[c] < MaxEphs[c]
  /\ fan' = [fan EXCEPT ![c] = players]
  /\ ephs' = [ephs EXCEPT ![c] = @ + 1]
  /\ UNCHANGED <<roomVars, loopVars, connVars, syncVars, view, acts>>
\* Slip: each action is sent by a spawned task, and the tasks run in any order.
EphSendSpawned(c, d) ==
  /\ d \in fan[c]
  /\ fan' = [fan EXCEPT ![c] = @ \ {d}]
  /\ \E k \in 1..ephs[c] :
       queue' = IF RxOpen(d) /\ Len(queue[d]) < QueueCap
                  THEN [queue EXCEPT ![d] = Append(@, EphItem(c, k))]
                  ELSE queue
  /\ UNCHANGED <<roomVars, loopVars, connVars, doomed, lastSync, sent, syncer,
                 view, acts, ephs>>

\* ... and tries each player in turn, dropping it where the queue is full.
EphSend(c, d) ==
  /\ d \in fan[c]
  /\ fan' = [fan EXCEPT ![c] = @ \ {d}]
  /\ queue' = IF RxOpen(d) /\ Len(queue[d]) < QueueCap
                THEN [queue EXCEPT ![d] = Append(@, EphItem(c, ephs[c]))]
                ELSE queue
  /\ UNCHANGED <<roomVars, loopVars, connVars, doomed, lastSync, sent, syncer,
                 view, acts, ephs>>

\* The select! ends: its futures are dropped, and the receiver with them.
Ended(c, to) ==
  /\ task' = [task EXCEPT ![c] = to]
  /\ queue' = [queue EXCEPT ![c] = <<>>]
  /\ UNCHANGED <<roomVars, loopVars, rem, shut, doomed, lastSync, sent, syncer,
                 peerVars>>

\* The writer panics before it writes a byte, and the supervisor with it:
\* neither shutdown nor player_left is called, so the player stays listed.
WritePanic(c) ==
  /\ task[c] = "run" /\ fan[c] = {}
  /\ queue[c] # <<>> /\ Unwritable(Head(queue[c]))
  /\ Ended(c, "dead")

\* The shutdown signal wins, at an await of the other branch.
Shutdown(c) ==
  /\ task[c] \in {"start", "run"} /\ fan[c] = {}
  /\ shut[c]
  /\ Ended(c, "end")

\* The reader meets EOF or an error, or the writer fails.
PeerEnds(c) ==
  /\ task[c] = "run" /\ fan[c] = {} /\ c \in Quitters
  /\ Ended(c, "end")

\* The reader cannot pass an action to a room whose action loop has gone.
ActRefused(c) ==
  /\ task[c] = "run" /\ fan[c] = {}
  /\ acts[c] < MaxActs[c]
  /\ loop = "dead"
  /\ Ended(c, "end")

\* shutdown or shutdown_err of its own player, then player_left.
TaskLeft(c) ==
  /\ task[c] = "end"
  /\ PlayerLeft(c, c)
  /\ task' = [task EXCEPT ![c] = IF c \in players THEN "leave" ELSE "gone"]
  /\ shut' = [shut EXCEPT ![c] = TRUE]
  /\ UNCHANGED <<roomQ, batch, log, limit, listed, expired, loop, visit, stale,
                 cleanup, rem, syncVars, peerVars>>

-----------------------------------------------------------------------------
(* The end of the room.                                                    *)

\* Half an hour without players: what they left has long been handled, and
\* only a client that joins at this moment can have something under way.
LongEmpty ==
  /\ players = {} /\ leaving = {} /\ cleanup = {}
  /\ \A c \in Conn : task[c] \in {"out", "admitted", "kick", "push", "gone", "dead"}
  /\ LET fresh == IF loop \in {"begin", "sync"} THEN <<Last(log)>> \o roomQ
                                                ELSE batch \o roomQ
     IN  \A i \in 1..Len(fresh) : task[fresh[i].from] = "push"

\* The expiry loop closes the room.
Expire ==
  /\ CanExpire /\ listed = "yes" /\ ~expired
  /\ LongEmpty
  /\ expired' = TRUE
  /\ UNCHANGED <<roomQ, batch, log, players, limit, listed, loopVars, connVars,
                 syncVars, peerVars>>

\* The action loop sees has_expired and drops its receiver.
LoopExit ==
  /\ loop = "recv" /\ expired
  /\ loop' = "dead"
  /\ roomQ' = <<>>
  /\ UNCHANGED <<batch, log, players, limit, listed, expired, visit, stale,
                 cleanup, leaving, connVars, syncVars, peerVars>>

\* room_mgr_loop removes the expired room from the map.
Unlist ==
  /\ listed = "yes" /\ expired
  /\ listed' = "removed"
  /\ UNCHANGED <<roomQ, batch, log, players, limit, expired, loopVars,
                 connVars, syncVars, peerVars>>

-----------------------------------------------------------------------------

SyncStep(c) == SyncSend(c) \/ SyncFull(c) \/ SyncClosed(c)

LoopStep ==
  \/ Receive \/ Apply \/ Extend \/ BeginPass \/ EndPass
  \/ \E c \in Conn : VisitStale(c) \/ VisitSync(c)

EnterStep(c) ==
  \/ CreateJoin(c) \/ Scan(c) \/ JoinMsg(c) \/ Push(c)
  \/ \E p \in Conn : Kick(c, p) \/ KickLeft(c, p)

TaskStep(c) == SelfSync(c) \/ Shutdown(c) \/ TaskLeft(c) \/ WritePanic(c)

\* What depends on the peer or on time, and may never happen.
PeerStep(c) ==
  Admit(c) \/ Act(c) \/ Eph(c) \/ PeerEnds(c) \/ ActRefused(c)

Next ==
  \/ LoopStep \/ List \/ Expire \/ LoopExit \/ Unlist
  \/ \E c \in Conn :
       \/ EnterStep(c) \/ SyncStep(c) \/ TaskStep(c) \/ PeerStep(c)
       \/ Write(c) \/ Overflow(c) \/ CleanupLeft(c)
       \/ \E d \in Conn : EphSend(c, d)
       \/ \E by \in Conn \cup {Cleaner} : SendLeave(c, by)

Spec == Init /\ [][Next]_vars

\* The scheduling the code relies on.  Every task that can run is polled
\* again by tokio, its locks and channels are first come first served, and
\* a spawned task runs.  Nothing makes a peer send, quit or keep reading:
\* only a Healthy peer takes what its writer has to write.
Fairness ==
  /\ WF_vars(LoopStep) /\ WF_vars(List) /\ WF_vars(LoopExit) /\ WF_vars(Unlist)
  /\ \A c \in Conn :
       /\ WF_vars(EnterStep(c)) /\ WF_vars(SyncStep(c)) /\ WF_vars(TaskStep(c))
       /\ WF_vars(Overflow(c)) /\ WF_vars(CleanupLeft(c))
       /\ WF_vars(\E d \in Conn : EphSend(c, d))
       /\ WF_vars(\E by \in Conn \cup {Cleaner} : SendLeave(c, by))
  /\ \A c \in Healthy : WF_vars(Write(c))

FairSpec == Spec /\ Fairness

-----------------------------------------------------------------------------
(* Safety.                                                                 *)

RoomTypes ==
  /\ roomQ \in Seq(Entry) /\ batch \in Seq(Entry) /\ log \in Seq(Entry)
  /\ players \subseteq Conn
  /\ limit \in Nat
  /\ listed \in {"no", "yes", "removed"}
  /\ expired \in BOOLEAN

LoopTypes ==
  /\ loop \in {"recv", "apply", "extend", "begin", "sync", "dead"}
  /\ visit \subseteq Conn /\ stale \subseteq Conn /\ cleanup \subseteq Conn
  /\ leaving \subseteq Conn \X (Conn \cup {Cleaner})

SyncTypes ==
  /\ doomed \in [Conn -> BOOLEAN]
  /\ queue \in [Conn -> Seq(Item)]
  /\ lastSync \in [Conn -> Nat] /\ sent \in [Conn -> Nat]
  /\ syncer \in [Conn -> {"none", "loop", "self"}]

PeerTypes ==
  /\ fan \in [Conn -> SUBSET Conn]
  /\ view \in [Conn -> Seq(Entry)]
  /\ acts \in [Conn -> Nat] /\ ephs \in [Conn -> Nat]

ConnTypes ==
  /\ task \in [Conn -> Task]
  /\ rem \in [Conn -> SUBSET Conn]
  /\ shut \in [Conn -> BOOLEAN]

\* The type invariant.
TypeOK == RoomTypes /\ LoopTypes /\ SyncTypes /\ PeerTypes /\ ConnTypes

\* What is written to a player whose queue never overflowed is a prefix of
\* the room's log: nothing is lost, repeated or reordered, although both the
\* action loop and the player's own task call sync_actions.
ViewIsPrefix == \A c \in Conn : ~doomed[c] => IsPrefix(view[c], log)

\* When no pass is under way, every player past its initial sync has been
\* synced to the end of the log: an action that came between a join and the
\* joiner's first sync, or between a pass and a push, reaches it as well.
NothingMissed ==
  loop \in {"recv", "apply", "extend", "dead"} =>
    \A c \in players : task[c] = "run" => lastSync[c] = Len(log)

\* Hence a player with nothing left to write has the whole log.
Converged ==
  loop \in {"recv", "apply", "extend", "dead"} =>
    \A c \in players :
      task[c] = "run" /\ ~doomed[c]
        /\ (\A i \in 1..Len(queue[c]) : queue[c][i].kind = "eph")
      => view[c] = log

\* Everything the room has accepted, in order.
Accepted == log \o batch \o roomQ

At(kind, c) == {i \in 1..Len(Accepted) : Accepted[i].kind = kind /\ Accepted[i].from = c}

\* Every connection is announced before anything it sends, at most once, and
\* its actions keep the order in which it sent them.
SenderOrder ==
  \A c \in Conn :
    /\ Cardinality(At("join", c)) <= 1
    /\ \A i \in 1..Len(Accepted) :
         Accepted[i].from = c => \E j \in At("join", c) : j <= i
    /\ \A i, j \in At("act", c) : i < j => Accepted[i].n < Accepted[j].n

\* A leave is announced, once, for exactly the connections that were removed
\* from the player list: not for one that is still in it, whichever of the
\* supervisor, the cleanup task and a reconnecting client came first.
LeaveExact ==
  loop # "dead" =>
    \A c \in Conn :
      LET pending == {x \in leaving : x[1] = c}
      IN  Cardinality(At("leave", c)) + Cardinality(pending) =
            IF task[c] \notin {"out", "admitted", "kick", "push"}
                 /\ At("join", c) # {} /\ c \notin players
              THEN 1 ELSE 0

\* Ephemeral actions of one sender stay in order in every queue, and the one
\* being sent is newer than those queued: no older position is relayed after
\* a newer one.
EphOrder ==
  \A c, d \in Conn :
    LET mine == {i \in 1..Len(queue[d]) : queue[d][i].kind = "eph" /\ queue[d][i].from = c}
    IN  /\ \A i, j \in mine : i < j => queue[d][i].n < queue[d][j].n
        /\ d \in fan[c] => \A i \in mine : queue[d][i].n < ephs[c]

\* The limit that joins are checked against is the last one the owner sent
\* that players can read in the log.
LimitFollowsLog == loop = "recv" => limit = LimitAfter(log, Creation)

-----------------------------------------------------------------------------
(* The inductive invariant behind ViewIsPrefix, NothingMissed, Converged.  *)

\* Where sync_actions of each player stands, and who is in it.
SyncAt(c) ==
  /\ sent[c] <= lastSync[c] /\ lastSync[c] <= Len(log)
  /\ syncer[c] = "none" => sent[c] = lastSync[c]
  /\ syncer[c] # "none" => sent[c] < lastSync[c] /\ lastSync[c] = Len(log)
  /\ syncer[c] = "self" <=> task[c] = "sync"
  /\ syncer[c] = "loop" => loop = "sync" /\ c \in visit

SyncInv == \A c \in Conn : SyncAt(c)

\* A queue holds published actions only.
Published(c) ==
  \A i \in 1..Len(queue[c]) :
    queue[c][i].kind = "log" => queue[c][i].pos <= sent[c]

QueueInv == \A c \in Conn : Published(c)

\* The queue of a player that missed nothing continues its view: in order,
\* and up to the last position that was sent.
Continues(c) ==
  /\ Len(view[c]) <= sent[c]
  /\ \A k \in 1..Len(view[c]) : view[c][k] = log[k]
  /\ \A i \in 1..Len(queue[c]) :
       queue[c][i].kind = "log" => Len(view[c]) < queue[c][i].pos
  /\ \A i, j \in 1..Len(queue[c]) :
       i < j /\ queue[c][i].kind = "log" /\ queue[c][j].kind = "log"
         => queue[c][i].pos < queue[c][j].pos
  /\ RxOpen(c) =>
       \A p \in Len(view[c]) + 1..sent[c] :
         \E i \in 1..Len(queue[c]) : queue[c][i] = LogItem(p)

ViewInv == \A c \in Conn : ~doomed[c] => Continues(c)

\* Whoever is past its initial sync has been synced or will be in this pass.
PassInv ==
  /\ loop = "sync" => visit \subseteq players
  /\ loop # "sync" => visit = {}
  /\ \A c \in players :
       task[c] \in {"sync", "run"} =>
         lastSync[c] = Len(log) \/ loop = "begin" \/ c \in visit

Inv == TypeOK /\ SyncInv /\ QueueInv /\ ViewInv /\ PassInv

-----------------------------------------------------------------------------
(* Liveness.                                                               *)

\* A player that lost an action to a full queue is removed from the room,
\* unless its task has panicked.
DoomedIsRemoved ==
  \A c \in Conn : doomed[c] ~> (c \notin players \/ task[c] = "dead")

\* Whatever the room has accepted gets into the log, although some peers do
\* not read what is written to them: no player can stop the room.
RoomProgress ==
  \A c \in Conn, k \in {"join", "leave", "act"} :
    At(k, c) # {} ~> (loop = "dead" \/ \E i \in 1..Len(log) : log[i].kind = k /\ log[i].from = c)

\* A client that was admitted gets into the room.
JoinCompletes ==
  \A c \in Conn : task[c] = "admitted" ~> task[c] \in {"run", "end", "leave", "gone"}

\* A connection whose select! has ended leaves the player list, and says so.
\* (One whose supervisor has panicked does neither: see GhostIsFound.)
EndIsLeft ==
  \A c \in Conn : task[c] = "end" ~> (task[c] = "gone" /\ c \notin players)

\* A ghost, which the panic of its supervisor has left in the player list,
\* stays no longer than until something is logged: the pass that follows
\* finds its queue closed, and the leave it has not sent gets into the log.
GhostIsFound ==
  \A c \in Conn :
    (task[c] = "dead" /\ loop \in {"apply", "extend", "begin"})
      ~> (/\ c \notin players
          /\ loop = "dead" \/ \E i \in 1..Len(log) : log[i].kind = "leave" /\ log[i].from = c)

-----------------------------------------------------------------------------
(* What the repository says of the room and the code does not guarantee.   *)

\* Nothing about joining and leaving is under way.
Settled ==
  /\ loop = "recv" /\ roomQ = <<>> /\ leaving = {}
  /\ \A c \in Conn : task[c] \in {"out", "run", "gone", "dead"}

\* A client knows the others by account id only, from the joins and leaves
\* it reads.  Those who follow the log believe exactly the accounts present
\* that have a connection in the player list.
PresenceAgrees ==
  Settled =>
    \A a \in Account :
      LET i == SelectLastInSeq(log, LAMBDA e : e.kind \in {"join", "leave"} /\ Acct[e.from] = a)
      IN  (i # 0 /\ log[i].kind = "join") <=> (\E c \in players : Acct[c] = a)

\* Guests are denied entry when the room is full, so while the limit does not
\* change no more of them than the limit are players.
GuestsWithinLimit ==
  NewLimits = {} => Cardinality({c \in players : Acct[c] \notin Exempt}) <= limit

\* A room is closed because it has no players.
ClosedIsEmpty == loop = "dead" => players = {}

-----------------------------------------------------------------------------
(* The promise of SharedLog, with the connections as its members.          *)

status ==
  [c \in Conn |-> IF ~RxOpen(c) THEN "dropped"
                  ELSE IF doomed[c] THEN "condemned"
                  ELSE IF task[c] = "run" THEN "in" ELSE "out"]

Promise == INSTANCE SharedLog WITH
  Member <- Conn, Prompt <- Healthy, Action <- Entry, read <- view

KeepsPromise == Promise!Spec

=============================================================================
