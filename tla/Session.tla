------------------------------ MODULE Session ------------------------------
(***************************************************************************)
(* The two byte streams of every player in a room, from the details of the *)
(* room to the last frame: the reader takes messages off one of them, the  *)
(* writer, the reader's answer to a ping, and whoever shuts the player     *)
(* down write to the other, one at a time, under the lock of stream_w.     *)
(*                                                                         *)
(* One room; its channel, its log and the capacity of the queues are       *)
(* module Room's, so that an action reaches every queue in one step.       *)
(* Messages go by their names, and the constants say what each is and what *)
(* module Codec makes of it.                                               *)
(***************************************************************************)
EXTENDS Codec, SequencesExt

CONSTANTS Conn,      \* players
          Versions,  \* the protocol versions they may have: a set of functions
          Samples,   \* messages that clients send, by name
          ReadOf,    \* ReadMapMsg of each
          Actions,   \* the actions that are read, and the server's own
          WrittenOf, \* WriteAction of each action
          CleanOf,   \* what others should get of each message
          Followers, \* those that are sent after one another
          MaxSent,   \* bound: messages that are sent
          MaxEnds    \* bound: players that quit, and that are shut down

VARIABLES
  version,   \* proto_version of each player
  task,      \* its task: "details", "loop", "over", "left", "gone", "dead"
  fate,      \* how the loop has ended: "", "quiet", "ERR"
  listed,    \* players of the room
  late,      \* players found stale, whose removal has been spawned
  shut,      \* players that have been sent the shutdown signal
  reader,    \* where the reader is: "read", "pong"
  holder,    \* who holds stream_w: "none", "details", "writer", "pong"
  queue,     \* actions on their way to a player, with their sender
  wire,      \* what has been written to a player
  inbox,     \* what a client has sent and the server has not read
  rest,      \* what is missing of the message that a client is sending
  eof,       \* clients that have closed their side
  sent,      \* history: the names of the messages a client has begun to send
  got        \* history: those whose action the server has read, or "?"

taskVars == <<task, fate, shut, reader, holder>>
clientVars == <<inbox, rest, eof, sent>>
sessVars == <<version, taskVars, listed, late, queue, wire, clientVars, got>>

Part == [k |-> "part"]
Err == [k |-> "ERR"]
RoomDetails == [k |-> "details"]
Frame(s, by) == [k |-> "frame", of |-> s, by |-> by]

TypeByte(s) == [of |-> s, part |-> "type"]
Body(s) == [of |-> s, part |-> "body"]

TypeOf(s) == Samples[s][1].k

\* The types after which read_map_msg reads on.
NeedsBody(s) == TypeOf(s) \in DOMAIN ReadLayout \cup {"SetMapName"}

\* Samples have names of their own, and those that are read consist of what
\* the reader takes; leave and pong are the server's, and a name that the
\* token service gives a player is not too long to be written.
ASSUME SessionAssumption ==
  /\ \A v \in Versions : v \in [Conn -> Nat]
  /\ DOMAIN Samples \cap {"", "?", "leave", "pong"} = {}
  /\ {"leave", "pong"} \subseteq DOMAIN Actions
  /\ DOMAIN Actions \subseteq DOMAIN Samples \cup {"leave", "pong"}
  /\ \A s \in DOMAIN Samples \cap DOMAIN Actions :
       NeedsBody(s) <=> Len(Samples[s]) > 1
  /\ Actions["leave"].ty = "PlayerLeave" /\ ~Panics(WrittenOf["leave"])
  /\ Actions["pong"].ty = "ServerStats"

\* The messages and what is made of them, in terms of the codec.
ASSUME CodecAssumption ==
  /\ \A s \in DOMAIN Samples :
       /\ Message(Samples[s])
       /\ ReadOf[s] = ReadMapMsg(Samples[s])
       /\ s \in DOMAIN Actions <=> ReadOf[s] # Bad
       /\ s \in DOMAIN Actions => Actions[s] = Head(ReadOf[s])
       /\ CleanOf[s] = Clean(Samples[s])
  /\ \A a \in DOMAIN Actions : WrittenOf[a] = WriteAction(Actions[a])

Init ==
  /\ version \in Versions
  /\ task = [c \in Conn |-> "details"]
  /\ fate = [c \in Conn |-> ""]
  /\ listed = Conn /\ late = {} /\ shut = {}
  /\ reader = [c \in Conn |-> "read"]
  /\ holder = [c \in Conn |-> "none"]
  /\ queue = [c \in Conn |-> <<>>]
  /\ wire = [c \in Conn |-> <<>>]
  /\ inbox = [c \in Conn |-> <<>>]
  /\ rest = [c \in Conn |-> <<>>]
  /\ eof = {}
  /\ sent = [c \in Conn |-> <<>>]
  /\ got = [c \in Conn |-> <<>>]

-----------------------------------------------------------------------------
(* The client.  A message arrives in two parts, so that the server reads   *)
(* the first byte of some without the others.                              *)

MayEnd == Cardinality(eof) + Cardinality(shut) < MaxEnds

\* The messages that have been sent: by whom and which of his.
AllSent == {m \in Conn \X (1..MaxSent) : m[2] <= Len(sent[m[1]])}

Send(c, s) ==
  /\ c \notin eof /\ rest[c] = <<>> /\ Cardinality(AllSent) < MaxSent
  /\ \A m \in AllSent : {sent[m[1]][m[2]], s} \subseteq Followers
  /\ inbox' = [inbox EXCEPT ![c] = Append(@, TypeByte(s))]
  /\ rest' = [rest EXCEPT ![c] = IF Len(Samples[s]) > 1 THEN <<Body(s)>> ELSE <<>>]
  /\ sent' = [sent EXCEPT ![c] = Append(@, s)]
  /\ UNCHANGED <<version, taskVars, listed, late, queue, wire, eof, got>>

SendRest(c) ==
  /\ c \notin eof /\ rest[c] # <<>>
  /\ inbox' = [inbox EXCEPT ![c] = @ \o rest[c]]
  /\ rest' = [rest EXCEPT ![c] = <<>>]
  /\ UNCHANGED <<version, taskVars, listed, late, queue, wire, eof, sent, got>>

\* The client quits, in the midst of a message or not.
Quit(c) ==
  /\ c \notin eof /\ MayEnd
  /\ eof' = eof \cup {c}
  /\ UNCHANGED <<version, taskVars, listed, late, queue, wire, inbox, rest, sent, got>>

-----------------------------------------------------------------------------
(* The room, as far as the streams see it.                                 *)

Receives(d) == task[d] \in {"details", "loop"}

\* Slip: an action bears the name of the player that it is queued for.
DeliverOwn(s, by, ds) ==
  queue' = [d \in Conn |-> IF d \in ds /\ Receives(d)
                           THEN Append(queue[d], [of |-> s, by |-> d]) ELSE queue[d]]

\* Slip: an action is put before those that are queued and not being written.
DeliverFirst(s, by, ds) ==
  LET first(q, writing) == IF writing THEN <<Head(q), [of |-> s, by |-> by]>> \o Tail(q)
                           ELSE <<[of |-> s, by |-> by]>> \o q
  IN  queue' = [d \in Conn |-> IF d \in ds /\ Receives(d)
                               THEN first(queue[d], holder[d] = "writer") ELSE queue[d]]

\* An action is queued for every player in ds whose receiver lives.
Deliver(s, by, ds) ==
  queue' = [d \in Conn |-> IF d \in ds /\ Receives(d)
                           THEN Append(queue[d], [of |-> s, by |-> by]) ELSE queue[d]]

\* The sync pass after a logged action, which finds the closed queues.
Pass(s, by, ds) ==
  /\ Deliver(s, by, ds)
  /\ late' = late \cup {d \in ds : ~Receives(d)}

\* player_left: out of the list, and a leave for the others, once.
PlayerLeft(c) ==
  IF c \in listed
  THEN /\ listed' = listed \ {c}
       /\ Pass("leave", c, listed \ {c})
  ELSE UNCHANGED <<listed, late, queue>>

-----------------------------------------------------------------------------
(* Writing.  A frame is a part of one from its first byte to its last; a   *)
(* write that is cancelled leaves the part.                                *)

Begin(c, who) ==
  /\ holder[c] = "none"
  /\ holder' = [holder EXCEPT ![c] = who]
  /\ wire' = [wire EXCEPT ![c] = Append(@, Part)]

\* Bytes of others after the part have torn it.
Finish(c, item) ==
  /\ holder' = [holder EXCEPT ![c] = "none"]
  /\ wire' = [wire EXCEPT ![c] =
                IF Last(@) = Part THEN Append(Front(@), item) ELSE Append(@, [k |-> "torn"])]

Running(c) == task[c] = "loop"

\* Slip: a writer that is not dropped keeps the lock.
EndKeepsLock(c, how) ==
  /\ task' = [task EXCEPT ![c] = "over"]
  /\ fate' = [fate EXCEPT ![c] = how]
  /\ queue' = [queue EXCEPT ![c] = <<>>]
  /\ UNCHANGED <<version, listed, late, shut, reader, holder, clientVars>>

\* The select! of the supervisor is over: reader, writer and queue are gone.
End(c, how) ==
  /\ task' = [task EXCEPT ![c] = "over"]
  /\ fate' = [fate EXCEPT ![c] = how]
  /\ holder' = [holder EXCEPT ![c] = "none"]
  /\ queue' = [queue EXCEPT ![c] = <<>>]
  /\ UNCHANGED <<version, listed, late, shut, reader, clientVars>>

DetailsBegin(c) ==
  /\ task[c] = "details" /\ Begin(c, "details")
  /\ UNCHANGED <<version, task, fate, shut, reader, listed, late, queue, clientVars, got>>

DetailsEnd(c) ==
  /\ holder[c] = "details" /\ Finish(c, RoomDetails)
  /\ task' = [task EXCEPT ![c] = "loop"]
  /\ UNCHANGED <<version, fate, shut, reader, listed, late, queue, clientVars, got>>

Due(c) == Head(queue[c])
Pop(c) == queue' = [queue EXCEPT ![c] = Tail(@)]

\* write_player_actions, at an action that this client is too old for, or for
\* which it takes the lock and writes nothing.
WriteSkip(c) ==
  /\ Running(c) /\ queue[c] # <<>> /\ holder[c] # "writer"
  /\ \/ version[c] < MinProtoVersion(Actions[Due(c).of])
     \/ WrittenOf[Due(c).of] = <<>> /\ holder[c] = "none"
  /\ Pop(c)
  /\ UNCHANGED <<version, taskVars, listed, late, wire, clientVars, got>>

Writes(c) ==
  /\ Running(c) /\ queue[c] # <<>>
  /\ version[c] >= MinProtoVersion(Actions[Due(c).of])
  /\ WrittenOf[Due(c).of] # <<>>

\* Everything of a message that can panic is encoded before its first byte is
\* written.  A panic ends the task, with no cleanup at all.
WritePanic(c) ==
  /\ Writes(c) /\ holder[c] = "none"
  /\ Panics(WrittenOf[Due(c).of])
  /\ task' = [task EXCEPT ![c] = "dead"]
  /\ UNCHANGED <<version, fate, shut, reader, holder, listed, late, queue, wire,
                 clientVars, got>>

WriteBegin(c) ==
  /\ Writes(c) /\ ~Panics(WrittenOf[Due(c).of])
  /\ Begin(c, "writer")
  /\ UNCHANGED <<version, task, fate, shut, reader, listed, late, queue, clientVars, got>>

WriteEnd(c) ==
  /\ holder[c] = "writer"
  /\ Finish(c, Frame(Due(c).of, Due(c).by))
  /\ Pop(c)
  /\ UNCHANGED <<version, task, fate, shut, reader, listed, late, clientVars, got>>

WriteFail(c) ==
  /\ holder[c] = "writer" /\ c \in eof \cup shut
  /\ End(c, "ERR")
  /\ UNCHANGED <<wire, got>>

-----------------------------------------------------------------------------
(* Reading.                                                                *)

\* What the reader makes of what has arrived: nothing yet, a name with the
\* number of parts it has read, or "?" if it starts in the midst of a message.
\* It looks at the next byte before it heeds a type, so that a message that is
\* its type alone waits for the next one, or for the end.
Waiting == [of |-> "", n |-> 0]

Arrived(c) ==
  LET in == inbox[c]
  IN  IF in = <<>> THEN Waiting
      ELSE LET s == Head(in).of
           IN  IF Head(in).part # "type" THEN [of |-> "?", n |-> 1]
               ELSE IF Len(in) > 1 THEN [of |-> s, n |-> IF NeedsBody(s) THEN 2 ELSE 1]
               ELSE IF c \in eof /\ ~NeedsBody(s) THEN [of |-> s, n |-> 1]
               ELSE Waiting

Take(c, m) ==
  /\ inbox' = [inbox EXCEPT ![c] = SubSeq(@, m.n + 1, Len(@))]
  /\ got' = [got EXCEPT ![c] = Append(@, m.of)]
  /\ UNCHANGED <<version, task, fate, shut, holder, wire, rest, eof, sent, listed>>

\* read_player_actions: a ping is answered, an ephemeral action goes to the
\* queues, any other to the room.
ReadOne(c) ==
  /\ Running(c) /\ reader[c] = "read"
  /\ LET m == Arrived(c)
     IN  /\ m.of \in DOMAIN Actions /\ Take(c, m)
         /\ \/ /\ TypeOf(m.of) = "Ping"
               /\ reader' = [reader EXCEPT ![c] = "pong"]
               /\ UNCHANGED <<queue, late>>
            \/ /\ IsEphemeral(Actions[m.of])
               /\ Deliver(m.of, c, listed)
               /\ UNCHANGED <<reader, late>>
            \/ /\ ~IsEphemeral(Actions[m.of]) /\ TypeOf(m.of) # "Ping"
               /\ Pass(m.of, c, listed)
               /\ UNCHANGED reader

\* Slip: the loop's timeout cancels a read, and the bytes read are lost.
ReadTimed(c) ==
  \/ ReadOne(c)
  \/ /\ Running(c) /\ reader[c] = "read"
     /\ Arrived(c) = Waiting /\ rest[c] # <<>>
     /\ inbox' = [inbox EXCEPT ![c] = <<>>]
     /\ UNCHANGED <<version, taskVars, listed, late, queue, wire, rest, eof, sent, got>>

\* The loop's timeout races await_readable alone: a message that has begun is
\* read to its end.
Read(c) == ReadOne(c)

ReadBad(c) ==
  /\ Running(c) /\ reader[c] = "read"
  /\ Arrived(c) # Waiting /\ Arrived(c).of \notin DOMAIN Actions
  /\ End(c, "ERR")
  /\ got' = [got EXCEPT ![c] = Append(@, Arrived(c).of)]
  /\ UNCHANGED wire

\* A normal quit, or one in the midst of a message.
ReadEof(c) ==
  /\ Running(c) /\ reader[c] = "read" /\ c \in eof
  /\ Arrived(c) = Waiting
  /\ End(c, "quiet")
  /\ UNCHANGED <<wire, got>>

\* Slip: the answer is written past the lock.
PongBeginUnlocked(c) ==
  /\ Running(c) /\ reader[c] = "pong" /\ holder[c] # "pong"
  /\ holder' = [holder EXCEPT ![c] = "pong"]
  /\ wire' = [wire EXCEPT ![c] = Append(@, Part)]
  /\ UNCHANGED <<version, task, fate, shut, reader, listed, late, queue, clientVars, got>>

PongBegin(c) ==
  /\ Running(c) /\ reader[c] = "pong"
  /\ Begin(c, "pong")
  /\ UNCHANGED <<version, task, fate, shut, reader, listed, late, queue, clientVars, got>>

\* An error is ignored: the client reads no more, and the writer will fail.
PongEnd(c) ==
  /\ holder[c] = "pong"
  /\ Finish(c, Frame("pong", c))
  /\ reader' = [reader EXCEPT ![c] = "read"]
  /\ UNCHANGED <<version, task, fate, shut, listed, late, queue, clientVars, got>>

-----------------------------------------------------------------------------
(* The end.                                                                *)

\* shutdown_err, by a new connection of the same account or because the queue
\* has overflowed: ERR if it gets the lock in time, and the signal.
Shutdown(c) ==
  /\ task[c] \in {"details", "loop", "over"} /\ c \notin shut /\ MayEnd
  /\ shut' = shut \cup {c}
  /\ \/ UNCHANGED wire
     \/ holder[c] = "none" /\ wire' = [wire EXCEPT ![c] = Append(@, Err)]
  /\ UNCHANGED <<version, task, fate, reader, holder, listed, late, queue, clientVars, got>>

Shut(c) ==
  /\ Receives(c) /\ c \in shut
  /\ End(c, "quiet")
  /\ UNCHANGED <<wire, got>>

Close(c) ==
  /\ task[c] = "over"
  /\ task' = [task EXCEPT ![c] = "left"]
  /\ wire' = IF fate[c] = "ERR" THEN [wire EXCEPT ![c] = Append(@, Err)] ELSE wire
  /\ UNCHANGED <<version, fate, shut, reader, holder, listed, late, queue, clientVars, got>>

Left(c) ==
  /\ task[c] = "left"
  /\ task' = [task EXCEPT ![c] = "gone"]
  /\ PlayerLeft(c)
  /\ UNCHANGED <<version, fate, shut, reader, holder, wire, clientVars, got>>

\* player_left by another's hand: the task spawned for a stale player, whose
\* stream may be closed already, or the client's own new connection.
Cleanup(c) ==
  /\ c \in listed
  /\ \/ c \in shut /\ UNCHANGED wire
     \/ /\ c \in late
        /\ wire' = IF task[c] \in {"over", "dead"} THEN [wire EXCEPT ![c] = Append(@, Err)]
                   ELSE wire
  /\ PlayerLeft(c)
  /\ UNCHANGED <<version, taskVars, clientVars, got>>

Next ==
  \E c \in Conn :
    \/ \E s \in DOMAIN Samples : Send(c, s)
    \/ SendRest(c) \/ Quit(c)
    \/ DetailsBegin(c) \/ DetailsEnd(c)
    \/ WriteSkip(c) \/ WritePanic(c) \/ WriteBegin(c) \/ WriteEnd(c) \/ WriteFail(c)
    \/ Read(c) \/ ReadBad(c) \/ ReadEof(c) \/ PongBegin(c) \/ PongEnd(c)
    \/ Shutdown(c) \/ Shut(c) \/ Close(c) \/ Left(c) \/ Cleanup(c)

Spec == Init /\ [][Next]_sessVars

-----------------------------------------------------------------------------
(* Properties.                                                             *)

TypeOK ==
  /\ task \in [Conn -> {"details", "loop", "over", "left", "gone", "dead"}]
  /\ fate \in [Conn -> {"", "quiet", "ERR"}]
  /\ late \cup listed \cup shut \cup eof \subseteq Conn
  /\ reader \in [Conn -> {"read", "pong"}]
  /\ holder \in [Conn -> {"none", "details", "writer", "pong"}]
  /\ \A c \in Conn :
       /\ holder[c] = "details" => task[c] = "details"
       /\ holder[c] \in {"writer", "pong"} => task[c] = "loop"
       /\ task[c] \in {"over", "left", "gone"} => queue[c] = <<>>

\* However writer, pings, shutdowns and cleanups interleave, and wherever a
\* write is cancelled, a client reads the details once, then whole frames, and
\* after a frame that was cut nothing but ERR.
StreamShape ==
  \A c \in Conn : \A i \in 1..Len(wire[c]) :
    LET w == wire[c]
    IN  /\ w[i].k # "torn"
        /\ w[i] = Part => \A j \in (i + 1)..Len(w) : w[j] = Err
        /\ w[i].k = "details" => \A j \in 1..(i - 1) : w[j] = Err
        /\ w[i].k = "frame" => \E j \in 1..(i - 1) : w[j].k = "details"

\* The reader stays in step with its client's messages: what it reads is what
\* the client sent, message by message, however they are cut into packets, and
\* none is read from the remains of another.
InStep ==
  \A c \in Conn : \A n \in 1..Len(got[c]) :
    n <= Len(sent[c]) /\ got[c][n] = sent[c][n]

\* What a player gets from another is, field for field, what that one sent, in
\* the order in which it was sent and nothing twice: what goes through the log
\* and what does not, each for itself, since the one can overtake the other.
RelayExact ==
  \A c, d \in Conn : \A through \in BOOLEAN :
    LET at == {i \in 1..Len(wire[c]) :
                 /\ wire[c][i].k = "frame" /\ wire[c][i].by = d
                 /\ wire[c][i].of \notin {"leave", "pong"}
                 /\ IsEphemeral(Actions[wire[c][i].of]) # through}
    IN  \E n \in [at -> 1..Len(sent[d])] :
          /\ \A i \in at : CleanOf[sent[d][n[i]]] = WrittenOf[wire[c][i].of]
          /\ \A i, j \in at : i < j => n[i] < n[j]

\* "Never relay a message type this client is too old to parse".
TypeGate ==
  \A c \in Conn : \A i \in 1..Len(wire[c]) :
    version[c] < 6 /\ wire[c][i].k = "frame" =>
      Actions[wire[c][i].of].ty \notin {"PlayerTestMode", "VehicleSample"}

\* Some text was short enough as it was sent, and is not as UTF-8.
Outgrown(buf) == \E i \in 1..Len(buf) : buf[i].k = "txt" /\ buf[i].v > 0 /\ TooLong(Lossy(buf[i]))

\* The bound on texts is checked by reader and writer alike: a player's task
\* dies in .expect("string lt b'ER'") only at a text that was made longer in
\* between, by replacing what was no UTF-8.
PanicOnlyGrown ==
  \A c \in Conn :
    task[c] = "dead" =>
      \E n \in 1..Len(sent[Due(c).by]) : Outgrown(Samples[sent[Due(c).by][n]])

\* What the writer makes of a message that has been read, wherever it gets it
\* from, is what was sent with its text made UTF-8, unless a text has outgrown
\* the bound, which makes it panic: no field is lost, swapped or cut by the code
\* that does the one or the other.
CodecFaithful ==
  \A c \in Conn : \A n \in 1..Len(sent[c]) :
    LET s == sent[c][n]
        w == WrittenOf[s]
    IN  s \in DOMAIN Actions =>
          IF Panics(w) THEN Outgrown(Samples[s]) ELSE w = CleanOf[s]

=============================================================================
