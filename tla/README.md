# Specifications of map-together-server

map-together-server relays the actions of players who edit one Trackmania map
together. A *room* holds the list of all persistent actions since its creation;
every player that joins is sent the whole list and then each new action, in the
order of the list, so that all editors hold the same map. Cursor and vehicle
positions are relayed past the list. Nothing is stored on disk.

This directory holds TLA+ specifications of that server, the TLC instances that
check them and the TLAPS proofs about them. Paths below are relative to the
repository; `managers.rs` and `player_loop.rs` are in `src/`.

## Inventory

| Part | State | Operations | Interacts with |
|------|-------|------------|----------------|
| Room (`managers.rs` 723-961) | `players`, `actions`, `player_limit`, `has_expired`, the room channel | `start_new_room`, `add_action`, `run` (action loop and expiry loop), `add_player_via_join`, `player_left` | player tasks through the room channel and the players' queues; RoomManager through `has_expired` |
| Player (`managers.rs` 53-606) | action queue, `PlayerSync.last_sync`, shutdown channel, socket halves | `sync_actions`, `shutdown`, `shutdown_err`, `read_map_msg`, `write_action` | action loop, own task, other players' readers |
| Player task (`player_loop.rs`) | which part of the `select!` it is in | supervisor, initial sync, writer, reader | room channel, every player's queue (ephemeral actions) |
| RoomManager (`managers.rs` 963-1181) | `rooms`, `TOTAL_PLAYERS`, idle timer | `room_mgr_loop`, `manage_room` | rooms, connections, the process itself (idle exit) |
| Handshake (`managers.rs` 1031-1265) | none that lasts | token, version, room message, each with a timeout; lookup, password, environment, limit | authentication, RoomManager |
| Authentication (`op_auth.rs`) | token cache | `check_token` | an HTTP service |
| Codecs (`map_actions.rs`, `mt_codec.rs`, `msgs.rs`, parts of `managers.rs`) | none | encode, decode, room ids | sockets |
| Idle waiter (`deploy.py`) | streak of empty samples | poll, restart | statistics lines of `room_mgr_loop`, systemd |
| Accept loop, options, test client | | | |

What is hard here: three kinds of tasks and short-lived spawned ones share a
room under tokio's read-write locks; two of them call `sync_actions` for the
same player; a player whose socket is blocked must not stop the others; channels
are bounded and overflow; a client reconnects while its old connection is being
removed by up to three tasks; a room expires while a client is on its way in.
`PROJECT.json` lists each hazard at its line with the property that covers it.

What makes each part correct:

* **Room and player**: a client that is not thrown out is written a gap-free
  prefix of the action list and, when things calm down, all of it. One that lost
  an action is disconnected. No peer can stop the room.
* **Join and leave**: joins precede what a connection sends; one leave for each
  removal; the limit holds; who is admitted gets in, who ends is removed.
* **RoomManager**: every live room is counted and found; an idle exit or restart
  loses no room in use.
* **Handshake, authentication**: every path answers and ends within its
  timeouts; only verified accounts enter.
* **Streams and codecs**: both sides of a socket stay in step whatever is
  cancelled or interleaved; others are sent, field for field, what was read; no
  client is sent what its version cannot parse; an id and its text determine
  each other; the writer's `expect` fails only at text that the reader itself
  has made longer.

## Modules

| Module | What it is |
|--------|------------|
| `Room` | one room, its action loop, its connections (core) |
| `SharedLog` | what a room promises its players, without channels or tasks |
| `MCRoom` | instances of `Room` for TLC |
| `Room_proofs` | theorems about `Room`: types, the relay, the refinement |
| `RoomOrder_proofs` | the limit, and the order of ephemeral actions |
| `RoomMembers_proofs` | joins and leaves |
| `Lobby` | the rooms as `RoomManager` sees them, in discrete seconds |
| `IdleWaiter` | the two scripts that restart an idle server, on top of `Lobby` |
| `MCLobby`, `IdleWaiter_proofs` | instances of `IdleWaiter` for TLC, and theorems about both |
| `RoomId` | room ids as numbers and as text |
| `Handshake`, `MCHandshake`, `Handshake_proofs` | a connection on its way into a room: instances, theorems about it and about room ids |
| `Messages`, `Codec` | the map messages: their layouts, and how they are read and written, as operators |
| `Codec_proofs` | theorems about what reader and writer do to one message |
| `Session`, `MCSession` | the two byte streams of the players of a room, and instances |
| `Session_proofs`, `SessionRelay_proofs` | theorems about what is written, and about what is read and relayed |

They meet as follows. `Handshake` ends where a player is handed to the room;
`Room` takes it from the limit check to its removal; `Session` refines what
`Room` calls a write and a send into bytes, and takes the room's channel and log
for granted; `Lobby` sees many rooms from outside; `IdleWaiter` runs on top of
`Lobby`. `Handshake` extends `RoomId`, `Codec` extends `Messages`, and `Session`
extends `Codec`.

### Room

A process of the model is a task of the code. `Conn` is a set of TCP
connections, each used once, and `Acct` gives the account of each, so a
reconnect is a second connection of the same account.

| State | Code |
|-------|------|
| `roomQ` | the room channel |
| `batch` | `new_actions` of the action loop |
| `log`, `players`, `limit`, `expired` | `Room.actions`, `.players`, `.player_limit`, `.has_expired` |
| `listed` | the room's entry in `RoomManager.rooms` |
| `loop`, `visit`, `stale` | where the action loop is, the players the pass has still to sync, its list of stale players |
| `cleanup` | tasks spawned for stale players (834-843) |
| `leaving` | a `player_left` between `drop(players)` and its `add_action` |
| `task[c]` | where the connection's task is: `out`, `admitted`, `kick`, `push` in `manage_room`; `create` in `start_new_room`; `start`, `sync`, `run` in the `select!`; `end`, `leave`, `gone` after it, `dead` by a panic |
| `queue`, `lastSync`, `shut` | the action channel, `last_sync`, the shutdown channel |
| `sent`, `syncer` | the index of the `for` in `sync_actions`, and which task is in it |
| `doomed` | a `try_send` of `sync_actions` met a full queue |
| `fan` | players a reader has still to send its ephemeral action to |
| `view` | history: the logged actions written to the socket |

Steps. The drain of the room channel, the server-side effects, `extend`, the
start of a pass, each `try_send` and the end of a pass are steps of the action
loop; the writer, the reader, the join and the leave are cut in the same way, at
every await that can wait and every lock that is taken or released. Locks are
guards: `PlayersWritable` is false during a pass, which holds `players.read()`;
`ActionsWritable` is false while anybody is in `sync_actions`, who hold
`actions.read()`.

Abstractions, and why they lose nothing the properties look at:

* The players of a pass are visited in any order; the code's order is one of
  them. `try_recv` until empty is one step: what a sender puts in later is
  received by the next drain.
* An ephemeral or logged action is its kind, its sender and a number. A queue
  holds positions of the log, which is what the shared `Arc` amounts to.
* Thirty minutes without players (`LongEmpty`) is a state in which nothing that
  takes seconds is under way, except a client that is joining at this moment.
* The two 1 s timeouts of `shutdown_err` are one step: the socket lock may be
  held by a blocked write, the timeouts make sure that the call goes on. The
  signal itself never waits.
* The `has_expired` check of the action loop happens at `recv`; with the 10 s
  timeout of `recv` it is always reached again.
* Which acts have a text that is too long to be written is the constant `Grown`;
  how a text gets there is `Session`'s. The writer panics at one (`WritePanic`),
  and the supervisor with it: neither `shutdown` nor `player_left` is called, the
  queue is closed, and the player stays in the list as a *ghost*.
* Ping replies and the writer's protocol gate are left to `Session`; the gate
  hides ephemeral kinds only.
* A peer in `Stalled` never reads, one in `Healthy` always does, others may.

### SharedLog

The promise to the clients. A log grows at its end; a member reads it from the
start without gaps, may be condemned (its reading may then have gaps) and is
dropped. `Room` implements it with `read <- view` and a member's status computed
from `task` and `doomed`. With fairness, a prompt member reads everything and a
condemned one is dropped.

### Lobby

Rooms are created, entered in the map, counted by `room_mgr_loop`, expired by
their own loops and removed. Time passes in seconds: in `Second` every expiry
loop takes a turn, and `room_mgr_loop` is awake between two seconds, while
clients act.

| State | Code |
|-------|------|
| `room`, `expired` | where the room is: not created, `start_new_room` done, in `rooms`, removed; `has_expired` |
| `empty` | `no_players`, in seconds |
| `at`, `task` | the room a connection is in, and where it is: `asking` holds `rooms.read()` in `manage_room`, `joining` and `leaving` are on their way into and out of the player list, `in` is listed |
| `pc`, `todo`, `dead`, `total` | `room_mgr_loop` between its awaits, rooms to visit, `to_remove`, `total_players`; `todo` holds the rooms `nb_rooms` counts after the scan |
| `shown`, `idle`, `due`, `line` | `TOTAL_PLAYERS`, the time since `last_active` and since `last_stats_log`, the last statistics line |
| `again` | a further `player_left` for somebody who has left: still to come, or waiting for `players.write()` |
| `exits`, `server` | `exit_when_idle_mins` is set; the process |
| `still` | history: since the scan began nobody has moved, or waited for `players.write()` for nothing |

The lock of `rooms` is modelled with its waiters: `RoomsWritable` is false
during the scan and while a client is `asking`, which includes the time
`shutdown_err` takes to refuse it, and `RoomsReadable` is false while a writer
waits, as tokio's lock is fair. The scan's `try_read` may fail where a task is
at `players.write()` (`WriterAt`); the room then counts as empty. A task can
be there to remove somebody who has been removed already: the supervisor, the
cleanup task (839-842) and a reconnect (893-897) all call `player_left`, and each
call takes the lock (941) before it finds out. After a connection has left, one
more such call may come in the rooms of `Twice` (a bound, as is one at a time).
A ghost of `Room` is a player that stays. What a room
does inside, passwords, limits and reconnects are left to chance here. The
creator's `Make` is the end of `start_new_room`; each room is created once.

### IdleWaiter

A waiter polls next to `Lobby`. In mode `stats` it is the one `deploy.py`
installs: it reads the last statistics line of the journal, skips one it has
read (`lastTs`), counts empty ones (`streak`) and restarts after `ZERO_SAMPLES`.
In mode `conns` it is `restart-when-idle.sh`, which counts polls without
established connections. A line is its time and whether it says 0 across 0; of
the time only equality is used, so two stamps that alternate do. The journal's
window of six minutes always holds the last line and is left out. A poll that is
due, and the restart decided on, come before the next second, and so does what
the code does in microseconds; only clients, and refusals, may take longer.
`age` and `zeros` are history variables of the properties.

### RoomId

A character is its position in the alphabet, so that `Base` (62) is a parameter;
what is no character of the alphabet is a number from `Base` on. `RoomIdToStr`
is the loop of `room_id_to_str`, unrolled to its six turns, `IsRoomIdStr` and
`StrToRoomId` are the checks and the sum of `str_to_room_id`.

### Handshake

`initialize_connection` and `manage_room`, one task per connection.

| State | Code |
|-------|------|
| `phase[c]` | the read or the request the task waits in: `token`, `http`, `version`, `ask`; `new` before `peer_addr`, `check` at the cache, `find` at `rooms.read()`, `enter` in `add_player_via_join`, `details` in `send_player_room_details`, `ended` after the `select!`, `loop`, `gone` |
| `token`, `acct`, `version`, `join` | the token read, the `TokenResp`, `proto_version`, the `RoomConnectionDeets` |
| `said` | what has been written: `OK_`, `ERR`, room details |
| `room`, `pending`, `rooms` | rooms by their creator, those `start_new_room` has returned and `rooms.write()` has not inserted, the map from ids |
| `at` | the room a connection was let into |
| `shut` | who has called `shutdown_err` for a connection's player |
| `cache`, `configured` | `TOKEN_CACHE`; whether `config.json` has the plugin |
| `here` | peers that have not hung up, where the server can notice |

Each wait may end by its message (`ReadToken`, `ReadVersion`, `AskJoin`,
`Create`, `AskUnknown`) or by a timeout, EOF or malformed input, which all
lead to one refusal. The token service answers for `Genuine` tokens, or fails,
or is silent. The cache is unlocked during the request, so several requests for
one token may be under way; a full cache drops any other entry, the least
recently used being one of them. Ids are drawn from `Drawn`, twice if it so
happens: `Insert` replaces the older room, and `Remove` removes whatever has the
id of a room that expired. Which room that is over-approximates
`room_mgr_loop`: any room without players may have expired. Whether a room is
full is a choice for those whom the limit concerns.

The `select!` of the player's task covers the room details (`player_loop.rs`
29-41). Another connection of the account that enters the same room
(`Reconnects`), or the task spawned when the queue is full (for the peers in
`Slow`, a bound), calls `shutdown_err` (`ShutDown`): it writes ERR, if it gets
the stream in time, before the details or after them, and its signal may drop
the details before their first byte or after it (`DetailsCut`).

### Messages and Codec

`Messages` has the fields, the layouts and what can be told of a message without
reading it; `Codec` has what interprets a layout. A layout is the list of the
fields of a struct, one for its decoder and one for its encoder where the code
writes them separately.

A buffer is a sequence of data, each with a kind, a width and a value. A number
stands for a float or an integer of its width, or for three or nine floats; a
text is its length and the number of its bytes that are no UTF-8. What the code
checks is kept: widths, marks, flags that any nonzero byte sets, counts, the
length prefixes and their limits, strict and lossy UTF-8, the chunk that old
clients leave out, and that only a macroblock has to take its whole buffer.

The nested calls of the decoders become a run over the buffer: the reader keeps
the fields that are *due*, those of the struct it is in before those of the
structs around it, and a flag or a count puts the fields of what it calls in
front (`Called`, `TakeDatum`). What it has read is a function from fields, named
by their place and name, to data. The writer goes through its own layout in the
same way and looks each field up (`PutDatum`); it ends early where there are no
terrains. `Panic` is where `.expect("string lt b'ER'")` fails. `Message` says
what a complete message is, `Clean` what others should get of one: nothing of a
type without a body, and otherwise what was sent, with its text made UTF-8.
Neither is code.

### Session

| State | Code |
|-------|------|
| `task[c]` | `details` before the loop, `loop` in the `select!`, `over` after it, `left` after the ERR, `gone` after `player_left`, `dead` by a panic |
| `fate` | the result of the `select!`: ERR is owed or not |
| `listed`, `late` | the room's players; those a pass has found closed |
| `reader`, `holder` | whether the reader is answering a ping; who holds `stream_w` |
| `queue` | the action channel, with each action's sender |
| `wire`, `inbox`, `rest`, `eof` | bytes to the client and from it; what is missing of the message it is sending; it has closed its side |
| `sent`, `got` | history: the messages begun, and those read |

A frame is a part from its first byte to its last; one that is cancelled stays a
part, and bytes of another in front of its end make it `torn`. A message arrives
in two parts, its type and the rest, and the reader looks for a byte after the
type before it heeds it, as `read_map_msg` does. `Actions`, `ReadOf`,
`WrittenOf` and `CleanOf` are what `Codec` makes of the messages, computed once in
`MCSession`: `CodecAssumption` says so, and TLC evaluates it for the samples.
`SessionAssumption` says what else is taken for granted: the server's own two
messages are there, the others that are read are samples, and they have a body
exactly if `read_map_msg` reads one. A logged action reaches all queues in one
step, and queues have
no bound: overflow is `Room`'s. `shutdown_err` writes its ERR or gives up after
its second.

## Runs

The `room_*` runs are of `MCRoom`, `lobby` and `waiter*` of `MCLobby`,
`handshake` of `MCHandshake`, `session` of `MCSession`. `CHECK_DEADLOCK FALSE` in
each: clients are bounded, so a room whose clients have sent everything rests, as the real one does, and a server that has exited or was restarted stops.

| Run | Checks | Instance |
|-----|--------|----------|
| `room_log` | `TypeOK`, `ViewIsPrefix`, `NothingMissed`, `Converged`, `EphOrder`, `Inv` | two connections, room channel 2, queues 2, one logged and two ephemeral actions of the creator, the guest may quit; 1.5 million states |
| `room_rejoin` | `SenderOrder`, `LeaveExact`, `LimitFollowsLog` | creator and two connections of one account, room channel 1, one action or limit change each of the creator and of a guest; 1.5 million states |
| `room_live` | `KeepsPromise`, `DoomedIsRemoved`, `RoomProgress`, `JoinCompletes`, `EndIsLeft`, `GhostIsFound` | a peer that reads and one that never does, room channel 1, queues 2; the second sends two actions, of which the other dies if it is written the second; the room may expire; 47 thousand states |
| `room_presence` | `PresenceAgrees` is violated | one account, two connections |
| `room_full` | `GuestsWithinLimit` is violated | two guests, one place |
| `room_closed` | `ClosedIsEmpty` is violated | a guest that joins as the room expires |
| `lobby` | `TypeOK`, `CountExact`, `AbandonedGoes` | two rooms, two clients, rooms outlive their players by 1 s, a line each second, idle exit after 1 s or never, further calls of `player_left` in one room; 980 thousand states |
| `waiter` | `LostIsYoung`, `StreakIsReal` | one room, two clients, either waiter, 2 s of life, a line every 3 s, a poll every 2 s, two samples; 2.0 million states |
| `waiter_stats` | `StatsRestartIsLossless` is violated | the same, the waiter of `deploy.py` |
| `waiter_conns` | `IdleMinsOutlastRooms` is violated | the same, `restart-when-idle.sh`, waiting for the 4 s a room lives |
| `handshake` | `TypeOK`, `OnlyVerified`, `AdmittedAsAsked`, `EnvGate`, `Answers`, `Settles` | two clients, three tokens of which one is forged, a cache of one entry, two ids of six binary digits, three texts typed; 600 thousand states |
| `session` | `TypeOK`, `StreamShape`, `InStep`, `RelayExact`, `TypeGate`, `PanicOnlyGrown`, `CodecFaithful` | two players, the second of version 5 or 6, 29 messages of all types, one of them or any two of a ping, a chat, a chat that outgrows the bound, a deletion and a position, one quit or shutdown; 1.2 million states |

Why these bounds. Two connections are enough for both callers of `sync_actions`,
for a pass that finds one player stale and another open, for an ephemeral action
to meet a full queue, and for a queue of two to overflow with the two joins and
one action: the overflow happens in the middle of a slice and at its end. Three
connections are needed for a reconnect next to an observer. Channels of one or
two entries make every sender wait. The positions in which actions interleave
with joins, passes and syncs are all there with one action of each kind; two
ephemeral actions of a sender are what an order needs.

In `lobby` and `waiter` the times are scaled down and keep their order: a poll is
shorter than the interval of lines, so that a line is read again, and not a
divisor of it, so that they drift against each other; a room lives long enough
to be counted empty before it expires. Two rooms let a scan meet one that is
busy, one that is expired and one that is not in the map yet.

In `handshake` two clients may use one token, miss the cache together, create
rooms of one id and look each other's up; with one entry the cache evicts. The
texts are an id, one that is too short and one with a character outside of the
alphabet. TLC's integers have 32 bits and 62^6 has 36; the ids of the run have
base 2, and the theorems hold for every base. `Handshake_proofs` covers any
number of connections, tokens and rooms.

In `room_live` the peer that reads becomes a ghost at the second action of the
other, whose leave, once its queue has overflowed, is what the ghost is found
by. In `room_rejoin` a connection has one act at most: more are beyond TLC in
its time, so the order of the acts of one connection is shown by
`SendersInOrder` alone. `Slow` is empty in `handshake`, where a client is shut
down by its own second connection; that the overflow of its queue leads to no
other answers is shown by `AnswersAlways`, for every `Slow`.

In `session` two messages are enough for a ping reply, a relayed action, a cut
frame, an ERR and a cleanup to meet on one stream, and for a message to be read
from the remains of another; among those that may follow each other two are logged, are
written and differ, so that their order shows. Every layout is filled by `MCSession` with numbers
that are their positions in the struct, with texts that are short, of the
longest length, one byte longer, not UTF-8, or of a length that UTF-8 makes too
long; with no, one or two elements; with an empty chunk of terrains; cut short,
or with a datum too many.
`CodecFaithful` is about each message by itself, whatever becomes of it.

### What the violations show

* `PresenceAgrees`. `player_left` removes the connection by identity, but
  announces the removal after it has released the lock, by account id. If the
  old connection's own supervisor is the one that removed it, the reconnecting
  client finds no prior connection and its `PlayerJoin` can enter the channel
  before that `PlayerLeave`. Everybody who follows the log then holds the
  account for absent although its new session is present.
* `GuestsWithinLimit`. The limit is checked long before the player is pushed.
* `ClosedIsEmpty`. The room is looked up long before the player is pushed, and
  may expire between.

* `StatsRestartIsLossless`. The waiter acts on a line that may be as old as a
  poll interval: a room created since is lost with the players in it. What does
  hold is `LostIsYoung`: nothing older than the poll interval is lost.
* `IdleMinsOutlastRooms`. A script that waits for as long as an empty room lives
  can restart while one is still open: somebody comes and goes between two
  polls, or the first empty poll counts for an interval that has not passed.

Met while modelling, and allowed by the model: an action accepted from a
connection can follow that connection's leave in the log, when a cleanup or a
reconnect removes it while its reader is still sending; a client sees a gap in
the log between the overflow of its queue and its disconnection (`ViewIsPrefix`
is about clients that did not overflow); a reconnecting guest is refused by a
full room whose last place is its own old connection.

Met in the streams, and followed by `Session` as the code has it:

* Text that is no UTF-8 is made longer by `from_utf8_lossy` after its length was
  checked (`managers.rs` 521). If it grows past the bound of
  `write_lp_string_to_buf`, its `.expect("string lt b'ER'")` (1340) ends the
  task of every recipient, without `shutdown` or `player_left`: they stay listed
  until the pass after the next logged action finds their queues closed.
  `PanicOnlyGrown` says that nothing else gets there, `GhostIsFound` of `Room`
  that this pass removes them and sends their leave. Until somebody edits they
  count as players, and keep the room and the process alive.
* `ServerStats` answers a ping (`map_actions.rs` 91), but one that a client sends
  is logged and relayed; the comment at `managers.rs` 564 means to ignore it
  later.
* A type without a body is heeded when the next byte arrives (`managers.rs` 420).
* `RoomCreationDeets::encode` leaves out the limit that `decode` reads; no code
  calls it.

## Fairness

`FairSpec` assumes weak fairness of each task of the server: tokio polls a woken
task again, its locks and channels serve waiters first come first served, so a
step that stays possible is taken. Weak fairness of a step that waits for a lock
is enough where the holders are bounded: a room has finitely many messages in
the instance, and a pass is finite. Nothing is assumed of clients: they may
never join, send, quit or read. Only a `Healthy` peer's writer is fair. Expiry,
which is about a clock, is not fair either.

`Handshake.FairSpec` is weak fairness of each task's own steps, timeouts among
them: the token and the version are given up after 20 s, the request after 10 s,
the room message after 30 s, and what comes after does not wait for the peer.
Clients may be silent. `Session` has safety properties only and states no
fairness.

`GhostIsFound` starts where something logged is on its way into the log: nothing
makes anybody edit. `DoomedIsRemoved` and `EndIsLeft` are about players whose
supervisor goes on; one that has panicked is the ghost of `GhostIsFound`.

`IdleWaiter.FairSpec` assumes that seconds pass, that `room_mgr_loop`, the polls
and the tasks that insert a room, answer a client at the door or remove a player
go on; of the further calls of `player_left` it assumes nothing. Weak fairness is
enough for those that want `rooms.write()`, because
readers wait behind them and the ones inside answer.

## Proofs

`Room_proofs` proves, for every set of connections, accounts, limits and
capacities that `RoomAssumption` allows:

| Theorem | Statement |
|---------|-----------|
| `Invariant` | `Spec => []Inv` |
| `Typed` | `Spec => []TypeOK` |
| `Prefix` | `Spec => []ViewIsPrefix` |
| `AllSynced` | `Spec => []NothingMissed` |
| `Convergence` | `Spec => []Converged` |
| `Refinement` | `Spec => Promise!Safe`, where `Promise` is `SharedLog` |

`ViewIsPrefix` is not inductive: it says nothing of what is in the queues. `Inv`
adds four parts.

* `SyncInv`: `sent <= lastSync <= Len(log)`; while somebody is in `sync_actions`
  of a player, `lastSync` is the whole log, which cannot grow as
  `actions.read()` is held; nobody is in it otherwise, and then nothing is left
  to send.
* `QueueInv`: queues hold positions up to `sent`.
* `ViewInv`: for a player that did not overflow, the view is the log up to its
  length, the queued positions increase, lie behind the view, and every position
  between the view and `sent` is queued. This is what makes the next write the
  next action.
* `PassInv`: a player past its first sync has been synced to the end of the log
  or will be in this pass. With the pass over, `NothingMissed` follows, and with
  an empty queue `Converged`.

The proofs show preservation part by part (`TypeStep`, `SyncInvStep`,
`PassInvStep`, `QueueInvStep`, `ViewInvStep`), each with a step per action. The
refinement maps `Extend` to `Publish`, `Write` to `Read` or, for a doomed
player, `ReadAny`, `SyncFull` to `Condemn`, the end of the `select!` to `Drop`,
the end of the first sync to `Enter`, and everything else to a stutter.

`RoomOrder_proofs` and `RoomMembers_proofs` stand on `TypeOK` and on invariants
of their own, under the same assumption:

| Theorem | Statement |
|---------|-----------|
| `LimitFollows` | `Spec => []LimitFollowsLog` |
| `EphemeralOrder` | `Spec => []EphOrder` |
| `SendersInOrder` | `Spec => []SenderOrder` |
| `LeavesExact` | `Spec => []LeaveExact` |

* `LimitInv`: between `Apply` and `Extend` the limit is ahead of the log by the
  batch, otherwise it is that of the log. `LimitOfBoth` says that the limit after
  two sequences is that of the second one started from that of the first.
* `EphInv`: no queue has a position newer than the last one its sender sent, nor
  one as new while the sender still has that queue to serve.
* `StageInv`: which stages of a task allow it to be a player, or to have a
  removal under way.
* `JoinInv`: nothing is accepted from a connection before `push`, and its actions
  are numbered up to what it has sent. Everybody past `push` has a join as long
  as the action loop lives; a dead one refuses it.
* `LeaveInv`: a connection that has joined is a player, or its removal is under
  way, or its leave is accepted, and never two of these. Without the middle case
  it is not inductive: `player_left` drops the lock on the list before it sends.

The last two speak of positions ("two leaves of one connection are at one
position"); `AtMostOne` turns that into the cardinalities of `LeaveExact`.

`Handshake_proofs`, about room ids in every base:

| Theorem | Statement |
|---------|-----------|
| `IdThenStr` | an id that can be drawn is written as six characters that are read as it |
| `StrThenId` | what is read as an id is that id as written: no two texts name one room |

The quotients are peeled off one digit at a time (`DivMod`, `Digit`),
and `DigitBound` bounds what is left by the next lower power.

About `Handshake`, for every set of connections, tokens, ids and capacities
that `HandshakeAssumption` allows: `HandshakeTypeOK`, `OnlyVerifiedAlways`,
`AdmittedAsAskedAlways`, `EnvGateAlways` and `AnswersAlways`, each
`Spec => []P` for the property of its name. The inductive invariant `HInv` adds
to them

* `Progresses`: what is known of a connection in each phase, and what it has
  been told; `Answers` needs it to tell where a refusal came from, and that whom
  nobody has shut down was told nothing but the details after its second OK_;
* `CacheTrue`: what is cached is genuine, so that a hit is as good as a request;
* `Filed`: a room in the map has been created and is under its own id, which
  `AdmittedAsAsked` needs together with `StrThenId`: the number found under the
  typed text is written as that text.

`IdleWaiter_proofs`, for every set of rooms, every finite set of connections and
all times that `LobbyAssumption` and `WaiterAssumption` allow:

| Theorem | Statement |
|---------|-----------|
| `WaiterTyped` | `Spec => []TypeOK` |
| `CountsExactly` | `Spec => []CountExact` |
| `StreaksAreReal` | `Spec => []StreakIsReal` |
| `LossesAreYoung` | `Spec => []LostIsYoung` |

* `EmptyInv`: a room that has not expired has not been empty for longer than
  `Stale`, which bounds `empty`.
* `CountInv`: if `still` holds, the sum so far is that of
  the rooms visited, and the dead found are expired. It is not enough that the
  sum was right when a room was visited: `still` has to rule out the writers that
  make `try_read` fail, too.
* `FreshInv`: a line that the waiter has not read was logged after its last poll.
  This is where `PollEvery < StatsEvery` is needed: there is never a second one,
  so no line with players is skipped. With it, `StreakInv`: a streak that is
  about to grow by an empty line is shorter than the run of empty lines.
* `AgeInv`: when a line says that there are no rooms, whatever can be found now
  was listed after that line, so its age is at most the time since (`due`); once
  the waiter has decided, at most the interval between two polls.

`Codec_proofs`, for every message of every type, of any length, with any number
of structs in it:

| Theorem | Statement |
|---------|-----------|
| `RoundTrip` | a body that decodes is written again datum by datum, each as it was kept or as a panic at a text that has outgrown the bound, up to where the reader's layout ends (`Told`) |
| `MessageFaithful` | of a complete message that `read_map_msg` accepts, `write_action` writes `Clean` of it, or panics at a text that has outgrown the bound |

The argument is an induction over the data of the body. `LeastElement` gets it
from the well-foundedness of `<`, by way of sets of numbers rather than of
predicates, and `ReadRuns` and `WriteRuns` use it to show that the recursive
functions are what their definitions say.

* `Neat`: no two fields that are due have one key, none is in a struct that
  another one due will call, and what has been read is neither. Places are what
  makes this hold: a struct that is called is one level below its caller, and
  numbered, so no field of a message is ever read over another one. `ProperRoots`
  is what it needs of the layouts: the fields of a struct have names of their
  own, and an optional part is at the end.
* `Took`, `Reading`: every datum so far has been read into a field of its own and
  is still there. What is read in the end is therefore as large as the number of
  data taken, which is what bounds the writer's run.
* `Beside`: after as many data the writer's fields are due as the reader's are,
  at the same places and alike (`LayoutsAgree`: only the check of a text differs).
  So it looks up what was read from the same position. With fields swapped in one
  of an encoder and its decoder `LayoutsAgree` fails, as the run does.
* `EndedOnlyThere`, `EndedThere`: the writer ends exactly where the reader has
  read what is told. An explicit chunk of no terrains is not written, so it is
  not told.

Two messages are written by another layout than they are read by, and are
followed by hand: a variable loses the number in front of it (`VariableRead`,
`VariableWritten`), the limit of players becomes a short one (`LimitRead`).

`Session_proofs` and `SessionRelay_proofs`, for any number of players, versions,
messages and ends that `SessionAssumption` and `CodecAssumption` allow:

| Theorem | Statement |
|---------|-----------|
| `StreamsTyped` | `Spec => []TypeOK` |
| `StreamsWellFormed` | `Spec => []StreamShape` |
| `ReadsInStep` | `Spec => []InStep` |
| `OldClientsSpared` | `Spec => []TypeGate` |
| `WritesWhatWasSent` | `Spec => []CodecFaithful` |
| `RelaysExactly` | `Spec => []RelayExact` |
| `DiesOfGrownText` | `Spec => []PanicOnlyGrown` |

* `WireInv`: a part ends a stream exactly while somebody holds its lock, or after
  the end of the `select!`; before the details there is nothing but ERR, and in
  the loop the details are there. `StreamShape` alone does not say where the part
  that is being written is, nor that there is only one.
* `WriterInv`: while the writer writes, the message it has begun is still the
  first of the queue, this client may get it, and it does not panic; the one a
  dead task died of is still there as well.
* `ReadInv`: what is in the inbox, with the rest still to come, parses into the
  messages after those that were read, part by part (`Parsed`). `ParsedMore` is
  the step that sends one, `ParsedLess` the one that reads one. A read that took
  another number of parts than the message has would break it, long before a
  reader starts in the midst of one.
* `FrameInv`: every queued action has been sent by its sender or is a leave, and
  so has every frame but a pong; none is newer than its recipient's version.
* `OrderInv`: what is on a stream and what is queued for it, one after the other
  (`PathOf`), has of each other player what was read from that one, in increasing
  positions (`Follows`). The stream alone would not do: an action must also come
  before those that are queued. Each step takes something off the path, puts a
  frame in the place of its part, or adds what was read last (`OneQueued`).

`WritesWhatWasSent` brings the codec in: whatever is sent is a complete message,
so `MessageFaithful` speaks of it. The last two theorems add that no interleaving
of readers, writers and cleanups mixes messages up on their way, swaps two of
them or writes one twice. `RelayExact` says so for logged and for ephemeral
actions separately: that logged ones reach all queues in one step is `Session`'s
abstraction, and in the code an ephemeral action can overtake them. `ViewIsPrefix`
and `EphOrder` are what `Room` says of the way to the queues. The steps of
`Session` are proved about without the codec; only `CodecAssumption` connects
them, so the messages, the texts in them and their number are arbitrary.

Every safety property that the passing runs check is a theorem. What needs
fairness, or `ENABLED`, is out of reach of the prover: `KeepsPromise` beyond
`Promise!Safe`, `DoomedIsRemoved`, `RoomProgress`, `JoinCompletes`, `EndIsLeft`, `GhostIsFound`,
`AbandonedGoes` and `Settles` are model-checked only.

## Plan

1. Done: `Room`, `SharedLog`, `Room_proofs`, `Lobby`, `IdleWaiter`.
2. Done: `RoomId` and `Handshake` with their proofs, `Codec`, `Session`.
3. Done: `RoomOrder_proofs`, `RoomMembers_proofs`; with them every safety
   property of `Room` that the runs check is a theorem.
4. Done: `IdleWaiter_proofs`, `Session_proofs`, `SessionRelay_proofs`, and for
   them the split of `Messages` from `Codec`.
5. Done: `Codec_proofs`, for which the codec became a run over data.
6. To come: action properties of `Session` and `Lobby` (what is on a stream is
   never taken back, an expired room never opens again), and what the steps of
   the leads-to arguments need: that each `Room` step under fairness brings its
   goal nearer.

## Not modelled

* `deploy.py` beyond its waiter: it copies files and falls back between
  connection methods, once, by hand.
* `client_bot.rs`: a client for load tests; clients are the environment here.
* Accept errors, keepalive options, command line, logging: I/O without a state
  that the server's logic reads. What keepalive ends is a hangup or an EOF.
* `PlayerJoin` as bytes: only the server writes it, in the same form as
  `PlayerLeave`, which `Codec` has.
* Lengths in bytes inside a decoder: `Codec` reads datum by datum, so that the
  one decoder that skips by a length (`SetVariable`, by that on the wire) is
  taken to skip rightly.
* `SkinSpec`, `SetWaypointSpec` and their helpers: no message reaches them.
  `dump_macroblocks` writes debug files.
* The 150 Hz pacing of the writer and the statistics texts.
