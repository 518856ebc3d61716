-------------------------- MODULE Session_proofs --------------------------
(***************************************************************************)
(* Theorems about what is written to the players of a room: for any number *)
(* of players, messages and ends, and whatever codec the constants stand   *)
(* for.                                                                    *)
(***************************************************************************)
EXTENDS Session, SequenceTheorems, TLAPS

-----------------------------------------------------------------------------
(* What is in the queues and on the wires.                                 *)

Queued == [of : DOMAIN Actions, by : Conn]
Frames == [k : {"frame"}, of : DOMAIN Actions, by : Conn]
Items == {Part, Err, RoomDetails} \cup Frames

QueueOK == queue \in [Conn -> Seq(Queued)]

\* What the inbox is made of.
Parts == [of : DOMAIN Samples, part : {"type", "body"}]

ClientOK ==
  /\ inbox \in [Conn -> Seq(Parts)] /\ rest \in [Conn -> Seq(Parts)]
  /\ sent \in [Conn -> Seq(DOMAIN Samples)] /\ got \in [Conn -> Seq(DOMAIN Samples \cup {"?"})]

-----------------------------------------------------------------------------
(* The stream to a client.                                                 *)

Whole(w) == \A i \in 1..Len(w) : w[i] # Part

\* A frame is being written.
Open(w) == Len(w) > 0 /\ w[Len(w)] = Part /\ \A i \in 1..(Len(w) - 1) : w[i] # Part

Early(w) == \A i \in 1..Len(w) : w[i] \in {Part, Err}

Detailed(w) == \E i \in 1..Len(w) : w[i] = RoomDetails

\* What StreamShape says of one stream.
Shape(w) ==
  \A i \in 1..Len(w) :
    /\ w[i].k # "torn"
    /\ w[i] = Part => \A j \in (i + 1)..Len(w) : w[j] = Err
    /\ w[i].k = "details" => \A j \in 1..(i - 1) : w[j] = Err
    /\ w[i].k = "frame" => \E j \in 1..(i - 1) : w[j].k = "details"

\* A part is the last of a stream while somebody writes it, and there is none
\* before; the details are on the stream of whoever is in the loop.
WireAt(c) ==
  /\ holder[c] # "none" => Open(wire[c])
  /\ holder[c] = "none" /\ Receives(c) => Whole(wire[c])
  /\ task[c] = "details" => Early(wire[c])
  /\ task[c] = "loop" => Detailed(wire[c])

WireInv ==
  /\ wire \in [Conn -> Seq(Items)]
  /\ \A c \in Conn : WireAt(c) /\ Shape(wire[c])

\* What is due while the writer writes, or when it has panicked.
WriterAt(c) ==
  /\ holder[c] = "writer" =>
       /\ queue[c] # <<>>
       /\ version[c] >= MinProtoVersion(Actions[Due(c).of])
       /\ WrittenOf[Due(c).of] # <<>> /\ ~Panics(WrittenOf[Due(c).of])
  /\ task[c] = "dead" => queue[c] # <<>> /\ Panics(WrittenOf[Due(c).of])

WriterInv == \A c \in Conn : WriterAt(c)

-----------------------------------------------------------------------------
(* Steps and types.                                                        *)

\* What a step may be.
LEMMA Steps ==
  ASSUME NEW ACTION P, [Next]_sessVars, UNCHANGED sessVars => P,
         \A c \in Conn : (\E s \in DOMAIN Samples : Send(c, s)) => P,
         \A c \in Conn : SendRest(c) => P,
         \A c \in Conn : Quit(c) => P,
         \A c \in Conn : DetailsBegin(c) => P,
         \A c \in Conn : DetailsEnd(c) => P,
         \A c \in Conn : WriteSkip(c) => P,
         \A c \in Conn : WritePanic(c) => P,
         \A c \in Conn : WriteBegin(c) => P,
         \A c \in Conn : WriteEnd(c) => P,
         \A c \in Conn : WriteFail(c) => P,
         \A c \in Conn : Read(c) => P,
         \A c \in Conn : ReadBad(c) => P,
         \A c \in Conn : ReadEof(c) => P,
         \A c \in Conn : PongBegin(c) => P,
         \A c \in Conn : PongEnd(c) => P,
         \A c \in Conn : Shutdown(c) => P,
         \A c \in Conn : Shut(c) => P,
         \A c \in Conn : Close(c) => P,
         \A c \in Conn : Left(c) => P,
         \A c \in Conn : Cleanup(c) => P
  PROVE  P
BY DEF Next

\* What has arrived: nothing to heed yet, remains, or a sample, in two parts
\* if it needs a body.
LEMMA Arrives ==
  ASSUME ClientOK, NEW c \in Conn
  PROVE  LET in == inbox[c]
             s == in[1].of
         IN  \/ Arrived(c) = Waiting
             \/ /\ in # <<>> /\ in[1].part # "type"
                /\ Arrived(c) = [of |-> "?", n |-> 1]
             \/ /\ in # <<>> /\ in[1].part = "type" /\ s \in DOMAIN Samples
                /\ Len(in) > 1 /\ NeedsBody(s)
                /\ Arrived(c) = [of |-> s, n |-> 2]
             \/ /\ in # <<>> /\ in[1].part = "type" /\ s \in DOMAIN Samples
                /\ ~NeedsBody(s)
                /\ Arrived(c) = [of |-> s, n |-> 1]
<1> DEFINE in == inbox[c]
           s == in[1].of
<1>1. in \in Seq(Parts)
  BY DEF ClientOK
<1>2. CASE in = <<>>
  BY <1>2 DEF Arrived
<1>3. CASE in # <<>>
  <2>1. Head(in) = in[1] /\ in[1] \in Parts
    BY <1>1, <1>3
  <2>2. s \in DOMAIN Samples
    BY <2>1 DEF Parts
  <2>3. CASE in[1].part # "type"
    BY <1>3, <2>1, <2>3 DEF Arrived
  <2>4. CASE in[1].part = "type" /\ Len(in) > 1
    BY <1>3, <2>1, <2>2, <2>4 DEF Arrived
  <2>5. CASE in[1].part = "type" /\ ~(Len(in) > 1)
    BY <1>3, <2>1, <2>2, <2>5 DEF Arrived
  <2>6. QED
    BY <2>3, <2>4, <2>5
<1>4. QED
  BY <1>2, <1>3

\* What is read and known is a sample, and the whole of it.
LEMMA ReadsSample ==
  ASSUME ClientOK, NEW c \in Conn, Arrived(c).of \in DOMAIN Actions
  PROVE  /\ inbox[c] # <<>> /\ inbox[c][1].part = "type"
         /\ Arrived(c).of = inbox[c][1].of /\ Arrived(c).of \in DOMAIN Samples
         /\ IF Len(Samples[Arrived(c).of]) > 1
              THEN Len(inbox[c]) > 1 /\ Arrived(c).n = 2
              ELSE Arrived(c).n = 1
<1>1. "" \notin DOMAIN Actions /\ "?" \notin DOMAIN Actions
  BY SessionAssumption
<1>2. Arrived(c) # Waiting /\ Arrived(c) # [of |-> "?", n |-> 1]
  <2>1. ASSUME Arrived(c) = Waiting PROVE FALSE
    <3>1. Waiting.of = ""
      BY DEF Waiting
    <3>2. QED
      BY <1>1, <2>1, <3>1
  <2>2. ASSUME Arrived(c) = [of |-> "?", n |-> 1] PROVE FALSE
    <3>1. Arrived(c).of = "?"
      BY <2>2
    <3>2. QED
      BY <1>1, <3>1
  <2>3. QED
    BY <2>1, <2>2
<1>3. \A s \in DOMAIN Samples \cap DOMAIN Actions : NeedsBody(s) <=> Len(Samples[s]) > 1
  BY SessionAssumption
<1>4. QED
  BY <1>2, <1>3, Arrives

LEMMA Delivers ==
  ASSUME QueueOK, NEW s \in DOMAIN Actions, NEW by \in Conn, NEW ds, Deliver(s, by, ds)
  PROVE  /\ QueueOK'
         /\ \A d \in Conn :
              \/ queue'[d] = queue[d]
              \/ Receives(d) /\ queue'[d] = Append(queue[d], [of |-> s, by |-> by])
<1>1. [of |-> s, by |-> by] \in Queued
  BY DEF Queued
<1>2. queue' = [d \in Conn |-> IF d \in ds /\ Receives(d)
                               THEN Append(queue[d], [of |-> s, by |-> by]) ELSE queue[d]]
  BY DEF Deliver
<1>3. \A d \in Conn : queue[d] \in Seq(Queued)
  BY DEF QueueOK
<1>4. \A d \in Conn : Append(queue[d], [of |-> s, by |-> by]) \in Seq(Queued)
  BY <1>1, <1>3
<1>5. queue' \in [Conn -> Seq(Queued)]
  BY <1>2, <1>3, <1>4
<1>6. QED
  BY <1>2, <1>5 DEF QueueOK

\* What player_left and the reader do to the queues: somebody's action for
\* those that receive.
Grown(f, by) ==
  \A d \in Conn : \/ queue'[d] = queue[d]
                  \/ Receives(d) /\ queue'[d] = Append(queue[d], [of |-> f, by |-> by])

LEMMA PlayerLeaves ==
  ASSUME TypeOK, QueueOK, NEW c \in Conn, PlayerLeft(c)
  PROVE  QueueOK' /\ Grown("leave", c) /\ late' \cup listed' \subseteq Conn
<1>1. "leave" \in DOMAIN Actions
  BY SessionAssumption
<1>2. CASE c \in listed
  <2>1. /\ listed' = listed \ {c} /\ Deliver("leave", c, listed \ {c})
        /\ late' = late \cup {d \in listed \ {c} : ~Receives(d)}
    BY <1>2 DEF PlayerLeft, Pass
  <2>2. QED
    BY <1>1, <2>1, Delivers DEF Grown, TypeOK
<1>3. CASE c \notin listed
  BY <1>3 DEF PlayerLeft, QueueOK, Grown, TypeOK
<1>4. QED
  BY <1>2, <1>3

LEMMA Reads ==
  ASSUME TypeOK, QueueOK, ClientOK, NEW c \in Conn, Read(c)
  PROVE  /\ QueueOK' /\ Grown(Arrived(c).of, c)
         /\ late' \cup listed' \subseteq Conn
         /\ Running(c) /\ Take(c, Arrived(c)) /\ Arrived(c).of \in DOMAIN Actions
         /\ reader' \in [Conn -> {"read", "pong"}]
<1> DEFINE m == Arrived(c)
<1>1. /\ Running(c) /\ m.of \in DOMAIN Actions /\ Take(c, m)
      /\ \/ reader' = [reader EXCEPT ![c] = "pong"] /\ UNCHANGED <<queue, late>>
         \/ Deliver(m.of, c, listed) /\ UNCHANGED <<reader, late>>
         \/ Pass(m.of, c, listed) /\ UNCHANGED reader
  BY DEF Read, ReadOne
<1>2. listed' = listed
  BY <1>1 DEF Take
<1> HIDE DEF m
<1>3. QueueOK' /\ Grown(m.of, c)
  <2>1. CASE UNCHANGED queue
    BY <2>1 DEF QueueOK, Grown
  <2>2. CASE Deliver(m.of, c, listed)
    BY <1>1, <2>2, Delivers DEF Grown
  <2>3. QED
    BY <1>1, <2>1, <2>2 DEF Pass
<1>4. late' \cup listed' \subseteq Conn /\ reader' \in [Conn -> {"read", "pong"}]
  BY <1>1, <1>2 DEF Pass, TypeOK
<1>5. QED
  BY <1>1, <1>3, <1>4 DEF m

-----------------------------------------------------------------------------
(* Types.                                                                  *)

Types == TypeOK /\ QueueOK

\* A change of one player's task, stream or queue leaves the others' alone.
LEMMA TaskGoes ==
  ASSUME Types, NEW c \in Conn, NEW to, task' = [task EXCEPT ![c] = to]
  PROVE  task'[c] = to /\ \A d \in Conn \ {c} : task'[d] = task[d]
<1>1. task \in [Conn -> {"details", "loop", "over", "left", "gone", "dead"}]
  BY DEF Types, TypeOK
<1>2. QED
  BY <1>1

LEMMA HolderGoes ==
  ASSUME Types, NEW c \in Conn, NEW who, holder' = [holder EXCEPT ![c] = who]
  PROVE  holder'[c] = who /\ \A d \in Conn \ {c} : holder'[d] = holder[d]
<1>1. holder \in [Conn -> {"none", "details", "writer", "pong"}]
  BY DEF Types, TypeOK
<1>2. QED
  BY <1>1

LEMMA QueueGoes ==
  ASSUME Types, NEW c \in Conn, NEW q, queue' = [queue EXCEPT ![c] = q]
  PROVE  queue'[c] = q /\ \A d \in Conn \ {c} : queue'[d] = queue[d]
<1>1. queue \in [Conn -> Seq(Queued)]
  BY DEF Types, QueueOK
<1>2. QED
  BY <1>1

LEMMA TypesQuiet ==
  ASSUME Types, UNCHANGED <<task, fate, reader, holder, queue, late, listed>>,
         shut' \cup eof' \subseteq Conn
  PROVE  Types'
BY DEF Types, TypeOK, QueueOK

\* Somebody takes the stream, or lets it go.
LEMMA TypesHold ==
  ASSUME Types, NEW c \in Conn, NEW who \in {"none", "details", "writer", "pong"},
         holder' = [holder EXCEPT ![c] = who],
         who = "details" => task[c] = "details",
         who \in {"writer", "pong"} => task[c] = "loop",
         UNCHANGED <<task, fate, late, listed, shut, eof>>,
         reader' \in [Conn -> {"read", "pong"}],
         QueueOK',
         task[c] \in {"over", "left", "gone"} => queue'[c] = <<>>,
         \A d \in Conn \ {c} : queue'[d] = queue[d]
  PROVE  Types'
<1> DEFINE At(d) == /\ holder[d] = "details" => task[d] = "details"
                    /\ holder[d] \in {"writer", "pong"} => task[d] = "loop"
                    /\ task[d] \in {"over", "left", "gone"} => queue[d] = <<>>
<1>1. holder'[c] = who /\ \A d \in Conn \ {c} : holder'[d] = holder[d]
  BY HolderGoes
<1>2. holder' \in [Conn -> {"none", "details", "writer", "pong"}]
  BY DEF Types, TypeOK
<1>3. \A d \in Conn : At(d)
  BY DEF Types, TypeOK
<1>4. \A d \in Conn \ {c} : At(d)'
  BY <1>1, <1>3
<1>5. At(c)'
  BY <1>1
<1>6. /\ task' \in [Conn -> {"details", "loop", "over", "left", "gone", "dead"}]
      /\ fate' \in [Conn -> {"", "quiet", "ERR"}]
      /\ late' \cup listed' \cup shut' \cup eof' \subseteq Conn
  BY DEF Types, TypeOK
<1>7. QED
  BY <1>2, <1>4, <1>5, <1>6 DEF Types, TypeOK

\* A task goes on, and holds the stream no more.
LEMMA TypesGo ==
  ASSUME Types, NEW c \in Conn, NEW to \in {"loop", "over", "left", "gone", "dead"},
         task' = [task EXCEPT ![c] = to],
         holder' = [holder EXCEPT ![c] = "none"],
         fate' \in [Conn -> {"", "quiet", "ERR"}],
         QueueOK',
         to \in {"over", "left", "gone"} => queue'[c] = <<>>,
         \A d \in Conn \ {c} : task[d] \in {"over", "left", "gone"} => queue'[d] = queue[d],
         UNCHANGED <<reader, shut, eof>>, late' \cup listed' \subseteq Conn
  PROVE  Types'
<1>1. task' \in [Conn -> {"details", "loop", "over", "left", "gone", "dead"}]
  BY DEF Types, TypeOK
<1>2. holder' \in [Conn -> {"none", "details", "writer", "pong"}]
  BY DEF Types, TypeOK
<1>3. /\ task'[c] = to /\ holder'[c] = "none"
      /\ \A d \in Conn \ {c} : task'[d] = task[d] /\ holder'[d] = holder[d]
  <2>1. task \in [Conn -> {"details", "loop", "over", "left", "gone", "dead"}]
    BY DEF Types, TypeOK
  <2>2. holder \in [Conn -> {"none", "details", "writer", "pong"}]
    BY DEF Types, TypeOK
  <2>3. task'[c] = to /\ \A d \in Conn \ {c} : task'[d] = task[d]
    BY <2>1
  <2>4. holder'[c] = "none" /\ \A d \in Conn \ {c} : holder'[d] = holder[d]
    BY <2>2
  <2>5. QED
    BY <2>3, <2>4
<1>4. ASSUME NEW d \in Conn
      PROVE  /\ holder'[d] = "details" => task'[d] = "details"
             /\ holder'[d] \in {"writer", "pong"} => task'[d] = "loop"
             /\ task'[d] \in {"over", "left", "gone"} => queue'[d] = <<>>
  <2>1. /\ holder[d] = "details" => task[d] = "details"
        /\ holder[d] \in {"writer", "pong"} => task[d] = "loop"
        /\ task[d] \in {"over", "left", "gone"} => queue[d] = <<>>
    BY DEF Types, TypeOK
  <2>2. CASE d = c
    BY <1>3, <2>2
  <2>3. CASE d # c
    <3>1. task'[d] = task[d] /\ holder'[d] = holder[d]
      BY <1>3, <2>3
    <3>2. task'[d] \in {"over", "left", "gone"} => queue'[d] = <<>>
      BY <2>1, <2>3, <3>1
    <3>3. QED
      BY <2>1, <3>1, <3>2
  <2>4. QED
    BY <2>2, <2>3
<1>5. QED
  BY <1>1, <1>2, <1>4 DEF Types, TypeOK

\* The same if it did not hold it.
LEMMA TypesGoFree ==
  ASSUME Types, NEW c \in Conn, holder[c] = "none", UNCHANGED holder
  PROVE  holder' = [holder EXCEPT ![c] = "none"]
BY DEF Types, TypeOK

\* Only what is sent to those that receive changes.
LEMMA TypesGrown ==
  ASSUME Types, QueueOK', NEW f, NEW c \in Conn, Grown(f, c),
         UNCHANGED <<task, fate, holder, shut, eof>>,
         reader' \in [Conn -> {"read", "pong"}], late' \cup listed' \subseteq Conn
  PROVE  Types'
BY DEF Types, TypeOK, Grown, Receives

LEMMA Popped ==
  ASSUME QueueOK, NEW c \in Conn, queue[c] # <<>>, Pop(c)
  PROVE  QueueOK' /\ \A d \in Conn \ {c} : queue'[d] = queue[d]
<1>1. queue[c] \in Seq(Queued) /\ Tail(queue[c]) \in Seq(Queued)
  BY DEF QueueOK
<1>2. QED
  BY <1>1 DEF Pop, QueueOK

LEMMA Ends ==
  ASSUME Types, NEW c \in Conn, NEW how \in {"quiet", "ERR"}, End(c, how)
  PROVE  Types'
<1>1. QueueOK'
  BY DEF End, QueueOK, Types
<1>2. fate' \in [Conn -> {"", "quiet", "ERR"}]
  BY DEF End, Types, TypeOK
<1>3. queue'[c] = <<>> /\ \A d \in Conn \ {c} : queue'[d] = queue[d]
  BY DEF End, QueueOK, Types
<1>4. late' \cup listed' \subseteq Conn /\ UNCHANGED <<reader, shut, eof>>
  BY DEF End, clientVars, Types, TypeOK
<1>5. QED
  BY <1>1, <1>2, <1>3, <1>4, TypesGo DEF End

LEMMA TypeStep == Types /\ ClientOK /\ WriterInv /\ [Next]_sessVars => Types'
<1> SUFFICES ASSUME Types, ClientOK, WriterInv, [Next]_sessVars PROVE Types'
  OBVIOUS
<1> DEFINE P == Types'
<1>1. ASSUME UNCHANGED sessVars PROVE P
  BY <1>1, TypesQuiet DEF sessVars, taskVars, clientVars, Types, TypeOK
<1>2. ASSUME NEW c \in Conn, \E s \in DOMAIN Samples : Send(c, s) PROVE P
  BY <1>2, TypesQuiet DEF Send, taskVars, Types, TypeOK
<1>3. ASSUME NEW c \in Conn, SendRest(c) PROVE P
  BY <1>3, TypesQuiet DEF SendRest, taskVars, Types, TypeOK
<1>4. ASSUME NEW c \in Conn, Quit(c) PROVE P
  BY <1>4, TypesQuiet DEF Quit, taskVars, Types, TypeOK
<1>5. ASSUME NEW c \in Conn, DetailsBegin(c) PROVE P
  BY <1>5, TypesHold DEF DetailsBegin, Begin, clientVars, Types, TypeOK, QueueOK
<1>6. ASSUME NEW c \in Conn, DetailsEnd(c) PROVE P
  <2>1. QueueOK' /\ holder'[c] = "none" /\ fate' \in [Conn -> {"", "quiet", "ERR"}]
    BY <1>6 DEF DetailsEnd, Finish, Types, TypeOK, QueueOK
  <2>2. QED
    BY <1>6, <2>1, TypesGo DEF DetailsEnd, Finish, clientVars, Types, TypeOK
<1>7. ASSUME NEW c \in Conn, WriteSkip(c) PROVE P
  <2>1. QueueOK' /\ \A d \in Conn \ {c} : queue'[d] = queue[d]
    BY <1>7, Popped DEF WriteSkip, Types
  <2>2. QED
    BY <1>7, <2>1 DEF WriteSkip, Running, taskVars, clientVars, Types, TypeOK
<1>8. ASSUME NEW c \in Conn, WritePanic(c) PROVE P
  <2>1. holder' = [holder EXCEPT ![c] = "none"]
    BY <1>8, TypesGoFree DEF WritePanic
  <2>2. QED
    BY <1>8, <2>1, TypesGo DEF WritePanic, clientVars, Types, TypeOK, QueueOK
<1>9. ASSUME NEW c \in Conn, WriteBegin(c) PROVE P
  BY <1>9, TypesHold DEF WriteBegin, Writes, Running, Begin, clientVars, Types, TypeOK, QueueOK
<1>10. ASSUME NEW c \in Conn, WriteEnd(c) PROVE P
  <2>1. QueueOK' /\ \A d \in Conn \ {c} : queue'[d] = queue[d]
    BY <1>10, Popped DEF WriteEnd, WriterInv, WriterAt, Types
  <2>2. task[c] = "loop"
    BY <1>10 DEF WriteEnd, Types, TypeOK
  <2>3. QED
    BY <1>10, <2>1, <2>2, TypesHold DEF WriteEnd, Finish, clientVars, Types, TypeOK
<1>11. ASSUME NEW c \in Conn, WriteFail(c) PROVE P
  BY <1>11, Ends DEF WriteFail
<1>12. ASSUME NEW c \in Conn, Read(c) PROVE P
  <2>1. QueueOK' /\ Grown(Arrived(c).of, c)
    BY <1>12, Reads DEF Types
  <2>2. /\ late' \cup listed' \subseteq Conn /\ reader' \in [Conn -> {"read", "pong"}]
        /\ Take(c, Arrived(c))
    BY <1>12, Reads DEF Types
  <2>3. QED
    BY <2>1, <2>2, TypesGrown DEF Take
<1>13. ASSUME NEW c \in Conn, ReadBad(c) PROVE P
  BY <1>13, Ends DEF ReadBad
<1>14. ASSUME NEW c \in Conn, ReadEof(c) PROVE P
  BY <1>14, Ends DEF ReadEof
<1>15. ASSUME NEW c \in Conn, PongBegin(c) PROVE P
  BY <1>15, TypesHold DEF PongBegin, Running, Begin, clientVars, Types, TypeOK, QueueOK
<1>16. ASSUME NEW c \in Conn, PongEnd(c) PROVE P
  <2>1. reader' \in [Conn -> {"read", "pong"}]
    BY <1>16 DEF PongEnd, Types, TypeOK
  <2>2. QED
    BY <1>16, <2>1, TypesHold DEF PongEnd, Finish, clientVars, Types, TypeOK, QueueOK
<1>17. ASSUME NEW c \in Conn, Shutdown(c) PROVE P
  BY <1>17, TypesQuiet DEF Shutdown, clientVars, Types, TypeOK
<1>18. ASSUME NEW c \in Conn, Shut(c) PROVE P
  BY <1>18, Ends DEF Shut
<1>19. ASSUME NEW c \in Conn, Close(c) PROVE P
  <2>1. holder[c] = "none" /\ queue[c] = <<>>
    BY <1>19 DEF Close, Types, TypeOK
  <2>2. holder' = [holder EXCEPT ![c] = "none"]
    BY <1>19, <2>1, TypesGoFree DEF Close
  <2>3. QED
    BY <1>19, <2>1, <2>2, TypesGo DEF Close, clientVars, Types, TypeOK, QueueOK
<1>20. ASSUME NEW c \in Conn, Left(c) PROVE P
  <2>1. QueueOK' /\ Grown("leave", c) /\ late' \cup listed' \subseteq Conn
    BY <1>20, PlayerLeaves DEF Left, Types
  <2>2. \A d \in Conn : task[d] \in {"over", "left", "gone"} => queue'[d] = queue[d]
    BY <2>1 DEF Grown, Receives
  <2>3. holder[c] = "none" /\ queue'[c] = <<>>
    BY <1>20, <2>2 DEF Left, Types, TypeOK
  <2>4. holder' = [holder EXCEPT ![c] = "none"]
    BY <1>20, <2>3, TypesGoFree DEF Left
  <2>5. QED
    BY <1>20, <2>1, <2>2, <2>3, <2>4, TypesGo DEF Left, clientVars, Types, TypeOK
<1>21. ASSUME NEW c \in Conn, Cleanup(c) PROVE P
  <2>1. QueueOK' /\ Grown("leave", c) /\ late' \cup listed' \subseteq Conn
    BY <1>21, PlayerLeaves DEF Cleanup, Types
  <2>2. QED
    BY <1>21, <2>1, TypesGrown DEF Cleanup, taskVars, clientVars, Types, TypeOK
<1>22. QED
  BY <1>1, <1>2, <1>3, <1>4, <1>5, <1>6, <1>7, <1>8, <1>9, <1>10, <1>11, <1>12, <1>13,
     <1>14, <1>15, <1>16, <1>17, <1>18, <1>19, <1>20, <1>21, Steps

\* What clients have sent, and what of it has been read.
LEMMA ClientStep == Types /\ ClientOK /\ [Next]_sessVars => ClientOK'
<1> SUFFICES ASSUME Types, ClientOK, [Next]_sessVars PROVE ClientOK'
  OBVIOUS
<1> DEFINE P == ClientOK'
<1>1. ASSUME UNCHANGED <<inbox, rest, sent, got>> PROVE P
  BY <1>1 DEF ClientOK
<1>2. ASSUME UNCHANGED sessVars PROVE P
  BY <1>1, <1>2 DEF sessVars, clientVars
<1>3. ASSUME NEW c \in Conn, \E s \in DOMAIN Samples : Send(c, s) PROVE P
  <2>1. PICK s \in DOMAIN Samples : Send(c, s)
    BY <1>3
  <2>2. TypeByte(s) \in Parts /\ Body(s) \in Parts
    BY DEF TypeByte, Body, Parts
  <2>3. /\ inbox' = [inbox EXCEPT ![c] = Append(@, TypeByte(s))]
        /\ \/ rest' = [rest EXCEPT ![c] = <<Body(s)>>]
           \/ rest' = [rest EXCEPT ![c] = <<>>]
        /\ sent' = [sent EXCEPT ![c] = Append(@, s)] /\ got' = got
    BY <2>1 DEF Send
  <2>4. <<Body(s)>> \in Seq(Parts) /\ <<>> \in Seq(Parts)
        /\ Append(inbox[c], TypeByte(s)) \in Seq(Parts)
        /\ Append(sent[c], s) \in Seq(DOMAIN Samples)
    BY <2>2 DEF ClientOK
  <2>5. QED
    BY <2>3, <2>4 DEF ClientOK
<1>4. ASSUME NEW c \in Conn, SendRest(c) PROVE P
  <2>1. inbox[c] \o rest[c] \in Seq(Parts)
    BY DEF ClientOK
  <2>2. QED
    BY <1>4, <2>1 DEF SendRest, ClientOK
<1>5. ASSUME NEW c \in Conn, Read(c) PROVE P
  <2>1. Take(c, Arrived(c)) /\ Arrived(c).of \in DOMAIN Samples
    BY <1>5, Reads, ReadsSample DEF Types
  <2>2. Arrived(c).n \in {1, 2}
    BY <1>5, Reads, ReadsSample DEF Types
  <2>3. inbox[c] \in Seq(Parts)
    BY DEF ClientOK
  <2>4. SubSeq(inbox[c], Arrived(c).n + 1, Len(inbox[c])) \in Seq(Parts)
    BY <2>2, <2>3
  <2>5. QED
    BY <2>1, <2>4 DEF Take, ClientOK
<1>6. ASSUME NEW c \in Conn, ReadBad(c) PROVE P
  <2>1. Arrived(c) # Waiting /\ got' = [got EXCEPT ![c] = Append(@, Arrived(c).of)]
        /\ UNCHANGED <<inbox, rest, sent>>
    BY <1>6 DEF ReadBad, End, clientVars
  <2>2. Arrived(c).of \in DOMAIN Samples \cup {"?"}
    BY <2>1, Arrives
  <2>3. QED
    BY <2>1, <2>2 DEF ClientOK
<1>7. ASSUME NEW c \in Conn, Quit(c) PROVE P
  BY <1>1, <1>7 DEF Quit
<1>8. ASSUME NEW c \in Conn,
             \/ DetailsBegin(c) \/ DetailsEnd(c) \/ WriteSkip(c) \/ WritePanic(c)
             \/ WriteBegin(c) \/ WriteEnd(c) \/ WriteFail(c) \/ ReadEof(c)
             \/ PongBegin(c) \/ PongEnd(c) \/ Shutdown(c) \/ Shut(c) \/ Close(c)
             \/ Left(c) \/ Cleanup(c)
      PROVE  P
  BY <1>1, <1>8 DEF DetailsBegin, DetailsEnd, WriteSkip, WritePanic, WriteBegin, WriteEnd,
     WriteFail, ReadEof, PongBegin, PongEnd, Shutdown, Shut, Close, Left, Cleanup, End, clientVars
<1>9. QED
  BY <1>2, <1>3, <1>4, <1>5, <1>6, <1>7, <1>8, Steps

-----------------------------------------------------------------------------
(* The stream to a client.                                                 *)

\* ERR may follow anything.
LEMMA ErrFollows ==
  ASSUME NEW w \in Seq(Items), Shape(w)
  PROVE  LET v == Append(w, Err)
         IN  /\ v \in Seq(Items) /\ Shape(v)
             /\ Whole(w) => Whole(v)
             /\ Early(w) => Early(v)
             /\ Detailed(w) => Detailed(v)
<1> DEFINE v == Append(w, Err)
<1>1. Err \in Items /\ Err # Part /\ Err.k = "ERR"
  BY DEF Items, Err, Part
<1>2. v \in Seq(Items) /\ Len(v) = Len(w) + 1 /\ Len(w) \in Nat
  BY <1>1
<1>3. \A i \in 1..Len(w) : v[i] = w[i]
  OBVIOUS
<1>4. v[Len(w) + 1] = Err
  OBVIOUS
<1> HIDE DEF v
<1>5. Shape(v)
  <2> SUFFICES ASSUME NEW i \in 1..Len(v)
               PROVE  /\ v[i].k # "torn"
                      /\ v[i] = Part => \A j \in (i + 1)..Len(v) : v[j] = Err
                      /\ v[i].k = "details" => \A j \in 1..(i - 1) : v[j] = Err
                      /\ v[i].k = "frame" => \E j \in 1..(i - 1) : v[j].k = "details"
    BY DEF Shape
  <2>1. CASE i = Len(w) + 1
    BY <1>1, <1>4, <2>1
  <2>2. CASE i \in 1..Len(w)
    BY <1>2, <1>3, <1>4, <2>2 DEF Shape
  <2>3. QED
    BY <1>2, <2>1, <2>2
<1>6. Whole(w) => Whole(v)
  BY <1>1, <1>2, <1>3, <1>4 DEF Whole
<1>7. Early(w) => Early(v)
  BY <1>2, <1>3, <1>4 DEF Early
<1>8. Detailed(w) => Detailed(v)
  BY <1>2, <1>3 DEF Detailed
<1>9. QED
  BY <1>2, <1>5, <1>6, <1>7, <1>8 DEF v

\* Where nothing is cut, something may begin.
LEMMA PartFollows ==
  ASSUME NEW w \in Seq(Items), Shape(w), Whole(w)
  PROVE  LET v == Append(w, Part)
         IN  /\ v \in Seq(Items) /\ Shape(v) /\ Open(v)
             /\ Early(w) => Early(v)
             /\ Detailed(w) => Detailed(v)
<1> DEFINE v == Append(w, Part)
<1>1. Part \in Items /\ Part.k = "part"
  BY DEF Items, Part
<1>2. v \in Seq(Items) /\ Len(v) = Len(w) + 1 /\ Len(w) \in Nat
  BY <1>1
<1>3. \A i \in 1..Len(w) : v[i] = w[i] /\ w[i] # Part
  BY DEF Whole
<1>4. v[Len(w) + 1] = Part
  OBVIOUS
<1> HIDE DEF v
<1>5. Shape(v)
  <2> SUFFICES ASSUME NEW i \in 1..Len(v)
               PROVE  /\ v[i].k # "torn"
                      /\ v[i] = Part => \A j \in (i + 1)..Len(v) : v[j] = Err
                      /\ v[i].k = "details" => \A j \in 1..(i - 1) : v[j] = Err
                      /\ v[i].k = "frame" => \E j \in 1..(i - 1) : v[j].k = "details"
    BY DEF Shape
  <2>1. CASE i = Len(w) + 1
    BY <1>1, <1>2, <1>4, <2>1
  <2>2. CASE i \in 1..Len(w)
    BY <1>2, <1>3, <2>2 DEF Shape
  <2>3. QED
    BY <1>2, <2>1, <2>2
<1>6. Open(v)
  BY <1>2, <1>3, <1>4 DEF Open
<1>7. Early(w) => Early(v)
  BY <1>2, <1>3, <1>4 DEF Early
<1>8. Detailed(w) => Detailed(v)
  BY <1>2, <1>3 DEF Detailed
<1>9. QED
  BY <1>2, <1>5, <1>6, <1>7, <1>8 DEF v

\* What has begun becomes the details, or a frame after them.
LEMMA ItemReplaces ==
  ASSUME NEW w \in Seq(Items), Shape(w), Open(w),
         NEW item \in Items,
         \/ item = RoomDetails /\ Early(w)
         \/ item.k = "frame" /\ Detailed(w)
  PROVE  LET v == Append(Front(w), item)
         IN  /\ Last(w) = Part /\ v \in Seq(Items) /\ Shape(v) /\ Whole(v) /\ Detailed(v)
             /\ Len(v) = Len(w) /\ v[Len(w)] = item
             /\ \A i \in 1..(Len(w) - 1) : v[i] = w[i]
<1> DEFINE v == Append(Front(w), item)
<1>1. /\ Len(w) \in Nat \ {0} /\ w[Len(w)] = Part /\ Last(w) = Part
      /\ \A i \in 1..(Len(w) - 1) : w[i] # Part
  BY DEF Open, Last
<1>2. Front(w) \in Seq(Items) /\ Len(Front(w)) = Len(w) - 1
      /\ \A i \in 1..(Len(w) - 1) : Front(w)[i] = w[i]
  <2>1. Front(w) = SubSeq(w, 1, Len(w) - 1)
    BY DEF Front
  <2>2. \A i \in 1..(Len(w) - 1) : w[i] \in Items
    BY <1>1
  <2>3. /\ SubSeq(w, 1, Len(w) - 1) \in Seq(Items)
        /\ Len(SubSeq(w, 1, Len(w) - 1)) =
             IF 1 <= Len(w) - 1 THEN (Len(w) - 1) - 1 + 1 ELSE 0
        /\ \A i \in 1..((Len(w) - 1) - 1 + 1) : SubSeq(w, 1, Len(w) - 1)[i] = w[1 + i - 1]
    BY <1>1, <2>2, SubSeqProperties
  <2>4. (Len(w) - 1) - 1 + 1 = Len(w) - 1 /\ \A i \in Int : 1 + i - 1 = i
    BY <1>1
  <2>5. Len(Front(w)) = Len(w) - 1
    <3>1. \A n \in Nat \ {0} : (IF 1 <= n - 1 THEN (n - 1) - 1 + 1 ELSE 0) = n - 1
      OBVIOUS
    <3>2. Len(Front(w)) = IF 1 <= Len(w) - 1 THEN (Len(w) - 1) - 1 + 1 ELSE 0
      BY <2>1, <2>3, Zenon
    <3>3. QED
      BY <1>1, <3>1, <3>2, Zenon
  <2>6. \A i \in 1..(Len(w) - 1) : Front(w)[i] = w[i]
    BY <1>1, <2>1, <2>3, <2>4
  <2>7. QED
    BY <2>1, <2>3, <2>5, <2>6
<1>3. v \in Seq(Items) /\ Len(v) = Len(w) /\ v[Len(w)] = item
  BY <1>1, <1>2
<1>4. \A i \in 1..(Len(w) - 1) : v[i] = w[i]
  BY <1>1, <1>2
<1> HIDE DEF v
<1>5. RoomDetails.k = "details" /\ Part.k = "part" /\ Err.k = "ERR"
  BY DEF RoomDetails, Part, Err
<1>6. Whole(v)
  BY <1>1, <1>3, <1>4, <1>5 DEF Whole
<1>7. Detailed(v)
  <2>1. CASE item = RoomDetails
    BY <1>1, <1>3, <2>1 DEF Detailed
  <2>2. CASE Detailed(w)
    <3>1. PICK i \in 1..Len(w) : w[i] = RoomDetails
      BY <2>2 DEF Detailed
    <3>2. i \in 1..(Len(w) - 1)
      BY <1>1, <1>5, <3>1
    <3>3. QED
      BY <1>1, <1>3, <1>4, <3>1, <3>2 DEF Detailed
  <2>3. QED
    BY <2>1, <2>2
<1>8. Shape(v)
  <2> SUFFICES ASSUME NEW i \in 1..Len(v)
               PROVE  /\ v[i].k # "torn"
                      /\ v[i] = Part => \A j \in (i + 1)..Len(v) : v[j] = Err
                      /\ v[i].k = "details" => \A j \in 1..(i - 1) : v[j] = Err
                      /\ v[i].k = "frame" => \E j \in 1..(i - 1) : v[j].k = "details"
    BY DEF Shape
  <2>1. v[i] # Part
    BY <1>6 DEF Whole
  <2>2. CASE i \in 1..(Len(w) - 1)
    <3>1. /\ w[i].k # "torn"
          /\ w[i].k = "details" => \A j \in 1..(i - 1) : w[j] = Err
          /\ w[i].k = "frame" => \E j \in 1..(i - 1) : w[j].k = "details"
      BY <1>1, <2>2 DEF Shape
    <3>2. v[i] = w[i] /\ \A j \in 1..(i - 1) : v[j] = w[j]
      BY <1>1, <1>4, <2>2
    <3>3. QED
      BY <2>1, <3>1, <3>2
  <2>3. CASE i = Len(w) /\ item = RoomDetails
    <3>1. \A j \in 1..(i - 1) : v[j] = Err
      BY <1>1, <1>4, <1>5, <2>3 DEF Early
    <3>2. QED
      BY <1>3, <1>5, <2>1, <2>3, <3>1
  <2>4. CASE i = Len(w) /\ item.k = "frame"
    <3>1. PICK j \in 1..Len(v) : v[j] = RoomDetails
      BY <1>7 DEF Detailed
    <3>2. j \in 1..(i - 1) /\ v[j].k = "details"
      BY <1>1, <1>3, <1>5, <2>4, <3>1
    <3>3. QED
      BY <1>3, <2>1, <2>4, <3>2
  <2>5. QED
    BY <1>1, <1>3, <2>2, <2>3, <2>4
<1>9. QED
  BY <1>1, <1>3, <1>4, <1>6, <1>7, <1>8 DEF v

\* Only one stream changes at a time.
LEMMA WireChanges ==
  ASSUME WireInv, NEW c \in Conn, NEW w \in Seq(Items), Shape(w),
         wire' = [wire EXCEPT ![c] = w], WireAt(c)',
         \A d \in Conn \ {c} : holder'[d] = holder[d] /\ task'[d] = task[d]
  PROVE  WireInv'
<1>1. wire' \in [Conn -> Seq(Items)] /\ wire'[c] = w
      /\ \A d \in Conn \ {c} : wire'[d] = wire[d]
  BY DEF WireInv
<1>2. ASSUME NEW d \in Conn \ {c} PROVE WireAt(d)' /\ Shape(wire'[d])
  <2>1. wire'[d] = wire[d] /\ holder'[d] = holder[d] /\ task'[d] = task[d]
    BY <1>1
  <2>2. WireAt(d) /\ Shape(wire[d])
    BY DEF WireInv
  <2>3. QED
    BY <2>1, <2>2 DEF WireAt, Receives
<1>3. QED
  BY <1>1, <1>2 DEF WireInv

\* Nothing is written, and at most one player ends.
LEMMA WireStays ==
  ASSUME WireInv, wire' = wire,
         \A d \in Conn : \/ holder'[d] = holder[d] /\ task'[d] = task[d]
                         \/ holder'[d] = "none" /\ task'[d] \notin {"details", "loop"}
  PROVE  WireInv'
<1>1. ASSUME NEW d \in Conn PROVE WireAt(d)'
  <2>1. WireAt(d) /\ wire'[d] = wire[d]
    BY DEF WireInv
  <2>2. CASE holder'[d] = holder[d] /\ task'[d] = task[d]
    BY <2>1, <2>2 DEF WireAt, Receives
  <2>3. CASE holder'[d] = "none" /\ task'[d] \notin {"details", "loop"}
    BY <2>3 DEF WireAt, Receives
  <2>4. QED
    BY <2>2, <2>3
<1>2. QED
  BY <1>1 DEF WireInv

LEMMA ErrStep ==
  ASSUME Types, WireInv, NEW c \in Conn, holder[c] = "none",
         wire' = [wire EXCEPT ![c] = Append(@, Err)],
         holder' = holder, \A d \in Conn \ {c} : task'[d] = task[d],
         task'[c] = task[c] \/ task'[c] \notin {"details", "loop"}
  PROVE  WireInv'
<1> DEFINE v == Append(wire[c], Err)
<1>1. wire[c] \in Seq(Items) /\ Shape(wire[c]) /\ WireAt(c)
  BY DEF WireInv
<1>2. /\ v \in Seq(Items) /\ Shape(v)
      /\ Whole(wire[c]) => Whole(v)
      /\ Early(wire[c]) => Early(v)
      /\ Detailed(wire[c]) => Detailed(v)
  BY <1>1, ErrFollows
<1>3. wire' = [wire EXCEPT ![c] = v] /\ wire'[c] = v
  BY DEF WireInv
<1> HIDE DEF v
<1>4. WireAt(c)'
  BY <1>1, <1>2, <1>3 DEF WireAt, Receives
<1>5. QED
  BY <1>2, <1>3, <1>4, WireChanges

LEMMA BeginStep ==
  ASSUME Types, WireInv, NEW c \in Conn, NEW who \in {"details", "writer", "pong"},
         Begin(c, who), Receives(c), task' = task
  PROVE  WireInv'
<1> DEFINE v == Append(wire[c], Part)
<1>1. wire[c] \in Seq(Items) /\ Shape(wire[c]) /\ WireAt(c)
  BY DEF WireInv
<1>2. holder[c] = "none" /\ holder' = [holder EXCEPT ![c] = who]
      /\ wire' = [wire EXCEPT ![c] = v]
  BY DEF Begin
<1>3. /\ v \in Seq(Items) /\ Shape(v) /\ Open(v)
      /\ Early(wire[c]) => Early(v)
      /\ Detailed(wire[c]) => Detailed(v)
  BY <1>1, <1>2, PartFollows DEF WireAt
<1>4. wire'[c] = v /\ holder'[c] = who /\ \A d \in Conn \ {c} : holder'[d] = holder[d]
  BY <1>2 DEF WireInv, Types, TypeOK
<1> HIDE DEF v
<1>5. WireAt(c)'
  BY <1>1, <1>3, <1>4 DEF WireAt, Receives
<1>6. QED
  BY <1>2, <1>3, <1>4, <1>5, WireChanges

LEMMA FinishStep ==
  ASSUME Types, WireInv, NEW c \in Conn, holder[c] # "none", NEW item \in Items,
         Finish(c, item),
         \/ item = RoomDetails /\ task[c] = "details"
         \/ item.k = "frame" /\ task[c] = "loop",
         task'[c] = "loop", \A d \in Conn \ {c} : task'[d] = task[d]
  PROVE  WireInv'
<1> DEFINE v == Append(Front(wire[c]), item)
<1>1. wire[c] \in Seq(Items) /\ Shape(wire[c]) /\ WireAt(c)
  BY DEF WireInv
<1>2. Last(wire[c]) = Part /\ v \in Seq(Items) /\ Shape(v) /\ Whole(v) /\ Detailed(v)
  BY <1>1, ItemReplaces DEF WireAt
<1>3. holder' = [holder EXCEPT ![c] = "none"] /\ wire' = [wire EXCEPT ![c] = v]
  BY <1>2 DEF Finish, WireInv
<1>4. wire'[c] = v
  BY <1>3 DEF WireInv
<1> HIDE DEF v
<1>5. holder'[c] = "none" /\ \A d \in Conn \ {c} : holder'[d] = holder[d]
  <2>1. holder \in [Conn -> {"none", "details", "writer", "pong"}]
    BY DEF Types, TypeOK
  <2>2. QED
    BY <1>3, <2>1
<1>6. WireAt(c)'
  BY <1>2, <1>4, <1>5 DEF WireAt, Receives
<1>7. QED
  BY <1>2, <1>3, <1>5, <1>6, WireChanges

LEMMA EndStep ==
  ASSUME Types, WireInv, NEW c \in Conn, NEW how, End(c, how), wire' = wire
  PROVE  WireInv'
<1>1. holder'[c] = "none" /\ \A d \in Conn \ {c} : holder'[d] = holder[d]
  BY HolderGoes DEF End
<1>2. task'[c] = "over" /\ \A d \in Conn \ {c} : task'[d] = task[d]
  BY TaskGoes DEF End
<1>3. QED
  BY <1>1, <1>2, WireStays

LEMMA WireStep == Types /\ WriterInv /\ WireInv /\ [Next]_sessVars => WireInv'
<1> SUFFICES ASSUME Types, WriterInv, WireInv, [Next]_sessVars PROVE WireInv'
  OBVIOUS
<1> DEFINE P == WireInv'
<1>1. ASSUME UNCHANGED <<wire, holder, task>> PROVE P
  BY <1>1, WireStays
<1>2. ASSUME UNCHANGED sessVars PROVE P
  BY <1>1, <1>2 DEF sessVars, taskVars
<1>3. ASSUME NEW c \in Conn, \E s \in DOMAIN Samples : Send(c, s) PROVE P
  BY <1>1, <1>3 DEF Send, taskVars
<1>4. ASSUME NEW c \in Conn, SendRest(c) \/ Quit(c) PROVE P
  BY <1>1, <1>4 DEF SendRest, Quit, taskVars
<1>5. ASSUME NEW c \in Conn, DetailsBegin(c) PROVE P
  BY <1>5, BeginStep DEF DetailsBegin, Receives
<1>6. ASSUME NEW c \in Conn, DetailsEnd(c) PROVE P
  <2>1. task[c] = "details" /\ RoomDetails \in Items
    BY <1>6 DEF DetailsEnd, Types, TypeOK, Items
  <2>2. task'[c] = "loop" /\ \A d \in Conn \ {c} : task'[d] = task[d]
    BY <1>6, TaskGoes DEF DetailsEnd
  <2>3. QED
    BY <1>6, <2>1, <2>2, FinishStep DEF DetailsEnd
<1>7. ASSUME NEW c \in Conn, WriteSkip(c) PROVE P
  BY <1>1, <1>7 DEF WriteSkip, taskVars
<1>8. ASSUME NEW c \in Conn, WritePanic(c) PROVE P
  <2>1. holder'[c] = "none" /\ \A d \in Conn \ {c} : holder'[d] = holder[d]
    BY <1>8 DEF WritePanic
  <2>2. task'[c] = "dead" /\ \A d \in Conn \ {c} : task'[d] = task[d]
    BY <1>8, TaskGoes DEF WritePanic
  <2>3. QED
    BY <1>8, <2>1, <2>2, WireStays DEF WritePanic
<1>9. ASSUME NEW c \in Conn, WriteBegin(c) PROVE P
  BY <1>9, BeginStep DEF WriteBegin, Writes, Running, Receives
<1>10. ASSUME NEW c \in Conn, WriteEnd(c) PROVE P
  <2>1. task[c] = "loop" /\ queue[c] # <<>> /\ queue[c] \in Seq(Queued)
    BY <1>10 DEF WriteEnd, WriterInv, WriterAt, Types, TypeOK, QueueOK
  <2>2. Due(c) \in Queued
    BY <2>1 DEF Due
  <2>3. Frame(Due(c).of, Due(c).by) \in Items /\ Frame(Due(c).of, Due(c).by).k = "frame"
    BY <2>2 DEF Frame, Items, Frames, Queued
  <2>4. QED
    BY <1>10, <2>1, <2>3, FinishStep DEF WriteEnd
<1>11. ASSUME NEW c \in Conn, WriteFail(c) PROVE P
  BY <1>11, EndStep DEF WriteFail
<1>12. ASSUME NEW c \in Conn, Read(c) PROVE P
  BY <1>1, <1>12 DEF Read, ReadOne, Take
<1>13. ASSUME NEW c \in Conn, ReadBad(c) PROVE P
  BY <1>13, EndStep DEF ReadBad
<1>14. ASSUME NEW c \in Conn, ReadEof(c) PROVE P
  BY <1>14, EndStep DEF ReadEof
<1>15. ASSUME NEW c \in Conn, PongBegin(c) PROVE P
  BY <1>15, BeginStep DEF PongBegin, Running, Receives
<1>16. ASSUME NEW c \in Conn, PongEnd(c) PROVE P
  <2>1. task[c] = "loop" /\ "pong" \in DOMAIN Actions
    BY <1>16, SessionAssumption DEF PongEnd, Types, TypeOK
  <2>2. Frame("pong", c) \in Items /\ Frame("pong", c).k = "frame"
    BY <2>1 DEF Frame, Items, Frames
  <2>3. QED
    BY <1>16, <2>1, <2>2, FinishStep DEF PongEnd
<1>17. ASSUME NEW c \in Conn, Shutdown(c) PROVE P
  <2>1. CASE UNCHANGED wire
    BY <1>1, <1>17, <2>1 DEF Shutdown
  <2>2. CASE holder[c] = "none" /\ wire' = [wire EXCEPT ![c] = Append(@, Err)]
    BY <1>17, <2>2, ErrStep DEF Shutdown
  <2>3. QED
    BY <1>17, <2>1, <2>2 DEF Shutdown
<1>18. ASSUME NEW c \in Conn, Shut(c) PROVE P
  BY <1>18, EndStep DEF Shut
<1>19. ASSUME NEW c \in Conn, Close(c) PROVE P
  <2>1. holder[c] = "none" /\ holder' = holder
    BY <1>19 DEF Close, Types, TypeOK
  <2>2. task'[c] = "left" /\ \A d \in Conn \ {c} : task'[d] = task[d]
    BY <1>19, TaskGoes DEF Close
  <2>3. CASE fate[c] = "ERR"
    BY <1>19, <2>1, <2>2, <2>3, ErrStep DEF Close
  <2>4. CASE fate[c] # "ERR"
    <3>1. wire' = wire
      BY <1>19, <2>4 DEF Close
    <3>2. QED
      BY <2>1, <2>2, <3>1, WireStays
  <2>5. QED
    BY <2>3, <2>4
<1>20. ASSUME NEW c \in Conn, Left(c) PROVE P
  <2>1. holder[c] = "none" /\ holder' = holder /\ wire' = wire
    BY <1>20 DEF Left, Types, TypeOK
  <2>2. task'[c] = "gone" /\ \A d \in Conn \ {c} : task'[d] = task[d]
    BY <1>20, TaskGoes DEF Left
  <2>3. QED
    BY <2>1, <2>2, WireStays
<1>21. ASSUME NEW c \in Conn, Cleanup(c) PROVE P
  <2>1. UNCHANGED <<holder, task>>
    BY <1>21 DEF Cleanup, taskVars
  <2>2. CASE wire' = wire
    BY <1>1, <2>1, <2>2
  <2>3. CASE task[c] \in {"over", "dead"} /\ wire' = [wire EXCEPT ![c] = Append(@, Err)]
    <3>1. holder[c] = "none"
      BY <2>3 DEF Types, TypeOK
    <3>2. QED
      BY <2>1, <2>3, <3>1, ErrStep
  <2>4. QED
    BY <1>21, <2>2, <2>3 DEF Cleanup
<1>22. QED
  BY <1>2, <1>3, <1>4, <1>5, <1>6, <1>7, <1>8, <1>9, <1>10, <1>11, <1>12, <1>13,
     <1>14, <1>15, <1>16, <1>17, <1>18, <1>19, <1>20, <1>21, Steps

-----------------------------------------------------------------------------
(* What the writer writes.                                                 *)

\* Whatever is added to a queue, the same action stays due.
LEMMA GrownDue ==
  ASSUME QueueOK, NEW f, NEW by, Grown(f, by), NEW c \in Conn, queue[c] # <<>>
  PROVE  queue'[c] # <<>> /\ Due(c)' = Due(c)
<1>1. queue[c] \in Seq(Queued)
  BY DEF QueueOK
<1>2. CASE queue'[c] = queue[c]
  BY <1>2 DEF Due
<1>3. CASE queue'[c] = Append(queue[c], [of |-> f, by |-> by])
  <2>1. queue'[c] # <<>> /\ Head(queue'[c]) = Head(queue[c])
    BY <1>1, <1>3
  <2>2. QED
    BY <2>1 DEF Due
<1>4. QED
  BY <1>2, <1>3 DEF Grown

\* Nobody begins to write, and nobody panics.
LEMMA WriterStays ==
  ASSUME WriterInv, version' = version,
         \A d \in Conn :
           /\ holder'[d] = "writer" => holder[d] = "writer"
           /\ task'[d] = "dead" => task[d] = "dead"
           /\ (holder'[d] = "writer" \/ task'[d] = "dead") /\ queue[d] # <<>> =>
                queue'[d] # <<>> /\ Due(d)' = Due(d)
  PROVE  WriterInv'
<1> SUFFICES ASSUME NEW d \in Conn PROVE WriterAt(d)'
  BY DEF WriterInv
<1>1. WriterAt(d)
  BY DEF WriterInv
<1>2. ASSUME holder'[d] = "writer"
      PROVE  /\ queue'[d] # <<>>
             /\ version'[d] >= MinProtoVersion(Actions[Due(d)'.of])
             /\ WrittenOf[Due(d)'.of] # <<>> /\ ~Panics(WrittenOf[Due(d)'.of])
  BY <1>1, <1>2 DEF WriterAt
<1>3. ASSUME task'[d] = "dead"
      PROVE  queue'[d] # <<>> /\ Panics(WrittenOf[Due(d)'.of])
  BY <1>1, <1>3 DEF WriterAt
<1>4. QED
  BY <1>2, <1>3 DEF WriterAt

\* The same if all that happens is that one lets go, or does not write.
LEMMA WriterRests ==
  ASSUME WriterInv, NEW c \in Conn, version' = version,
         holder'[c] # "writer", task'[c] # "dead" \/ (task'[c] = task[c] /\ queue'[c] = queue[c]),
         \A d \in Conn \ {c} :
           holder'[d] = holder[d] /\ task'[d] = task[d] /\ queue'[d] = queue[d]
  PROVE  WriterInv'
<1>1. \A d \in Conn : queue'[d] = queue[d] => Due(d)' = Due(d)
  BY DEF Due
<1>2. QED
  BY <1>1, WriterStays

LEMMA WriterHolds ==
  ASSUME Types, WriterInv, NEW c \in Conn, NEW who \in {"none", "details", "pong"},
         holder' = [holder EXCEPT ![c] = who], version' = version,
         task'[c] # "dead", \A d \in Conn \ {c} : task'[d] = task[d] /\ queue'[d] = queue[d]
  PROVE  WriterInv'
<1>1. holder \in [Conn -> {"none", "details", "writer", "pong"}]
  BY DEF Types, TypeOK
<1>2. holder'[c] = who /\ \A d \in Conn \ {c} : holder'[d] = holder[d]
  BY <1>1
<1>3. QED
  BY <1>2, WriterRests

LEMMA WriterEnds ==
  ASSUME Types, WriterInv, NEW c \in Conn, NEW how, End(c, how)
  PROVE  WriterInv'
<1>1. /\ holder' = [holder EXCEPT ![c] = "none"] /\ version' = version
      /\ task' = [task EXCEPT ![c] = "over"] /\ queue' = [queue EXCEPT ![c] = <<>>]
  BY DEF End
<1>2. task'[c] = "over" /\ \A d \in Conn \ {c} : task'[d] = task[d] /\ queue'[d] = queue[d]
  BY <1>1, TaskGoes, QueueGoes
<1>3. QED
  BY <1>1, <1>2, WriterHolds

\* One task goes on, to no panic, and whatever it leaves behind is queued.
LEMMA WriterGrown ==
  ASSUME Types, WriterInv, NEW f, NEW by, Grown(f, by), version' = version, holder' = holder,
         \A d \in Conn : task'[d] = "dead" => task[d] = "dead"
  PROVE  WriterInv'
<1>1. \A d \in Conn : queue[d] # <<>> => queue'[d] # <<>> /\ Due(d)' = Due(d)
  BY GrownDue DEF Types
<1>2. QED
  BY <1>1, WriterStays

LEMMA WriterStep == Types /\ ClientOK /\ WriterInv /\ [Next]_sessVars => WriterInv'
<1> SUFFICES ASSUME Types, ClientOK, WriterInv, [Next]_sessVars PROVE WriterInv'
  OBVIOUS
<1> DEFINE P == WriterInv'
<1>1. ASSUME UNCHANGED <<version, holder, task, queue>> PROVE P
  BY <1>1 DEF WriterInv, WriterAt, Due
<1>2. ASSUME UNCHANGED sessVars PROVE P
  BY <1>1, <1>2 DEF sessVars, taskVars
<1>3. ASSUME NEW c \in Conn, \E s \in DOMAIN Samples : Send(c, s) PROVE P
  BY <1>1, <1>3 DEF Send, taskVars
<1>4. ASSUME NEW c \in Conn, SendRest(c) \/ Quit(c) PROVE P
  BY <1>1, <1>4 DEF SendRest, Quit, taskVars
<1>5. ASSUME NEW c \in Conn, DetailsBegin(c) PROVE P
  BY <1>5, WriterHolds DEF DetailsBegin, Begin
<1>6. ASSUME NEW c \in Conn, DetailsEnd(c) PROVE P
  <2>1. task'[c] = "loop" /\ \A d \in Conn \ {c} : task'[d] = task[d]
    BY <1>6 DEF DetailsEnd, Types, TypeOK
  <2>2. QED
    BY <1>6, <2>1, WriterHolds DEF DetailsEnd, Finish
<1>7. ASSUME NEW c \in Conn, WriteSkip(c) PROVE P
  <2>1. \A d \in Conn \ {c} : queue'[d] = queue[d]
    BY <1>7, Popped DEF WriteSkip, Types
  <2>2. QED
    BY <1>7, <2>1, WriterRests DEF WriteSkip, Running, taskVars
<1>8. ASSUME NEW c \in Conn, WritePanic(c) PROVE P
  <2>1. /\ task'[c] = "dead" /\ \A d \in Conn \ {c} : task'[d] = task[d]
        /\ UNCHANGED <<version, holder, queue>>
    BY <1>8, TaskGoes DEF WritePanic
  <2>2. holder[c] = "none" /\ queue[c] # <<>> /\ Panics(WrittenOf[Due(c).of])
    BY <1>8 DEF WritePanic, Writes
  <2>3. WriterAt(c)'
    BY <2>1, <2>2 DEF WriterAt, Due
  <2>4. \A d \in Conn \ {c} : WriterAt(d)'
    BY <2>1 DEF WriterInv, WriterAt, Due
  <2>5. QED
    BY <2>3, <2>4 DEF WriterInv
<1>9. ASSUME NEW c \in Conn, WriteBegin(c) PROVE P
  <2>1. /\ \A d \in Conn \ {c} : holder'[d] = holder[d]
        /\ UNCHANGED <<version, task, queue>>
    BY <1>9 DEF WriteBegin, Begin, Types, TypeOK
  <2>2. /\ queue[c] # <<>> /\ version[c] >= MinProtoVersion(Actions[Due(c).of])
        /\ WrittenOf[Due(c).of] # <<>> /\ ~Panics(WrittenOf[Due(c).of])
        /\ task[c] = "loop"
    BY <1>9 DEF WriteBegin, Writes, Running
  <2>3. WriterAt(c)'
    BY <2>1, <2>2 DEF WriterAt, Due
  <2>4. \A d \in Conn \ {c} : WriterAt(d)'
    BY <2>1 DEF WriterInv, WriterAt, Due
  <2>5. QED
    BY <2>3, <2>4 DEF WriterInv
<1>10. ASSUME NEW c \in Conn, WriteEnd(c) PROVE P
  <2>1. \A d \in Conn \ {c} : queue'[d] = queue[d]
    BY <1>10, Popped DEF WriteEnd, WriterInv, WriterAt, Types
  <2>2. task[c] # "dead"
    BY <1>10 DEF WriteEnd, Types, TypeOK
  <2>3. QED
    BY <1>10, <2>1, <2>2, WriterHolds DEF WriteEnd, Finish
<1>11. ASSUME NEW c \in Conn, WriteFail(c) PROVE P
  BY <1>11, WriterEnds DEF WriteFail
<1>12. ASSUME NEW c \in Conn, Read(c) PROVE P
  <2>1. Grown(Arrived(c).of, c) /\ Take(c, Arrived(c))
    BY <1>12, Reads DEF Types
  <2>2. UNCHANGED <<version, holder, task>>
    BY <2>1 DEF Take
  <2>3. QED
    BY <2>1, <2>2, WriterGrown
<1>13. ASSUME NEW c \in Conn, ReadBad(c) PROVE P
  BY <1>13, WriterEnds DEF ReadBad
<1>14. ASSUME NEW c \in Conn, ReadEof(c) PROVE P
  BY <1>14, WriterEnds DEF ReadEof
<1>15. ASSUME NEW c \in Conn, PongBegin(c) PROVE P
  BY <1>15, WriterHolds DEF PongBegin, Begin, Running
<1>16. ASSUME NEW c \in Conn, PongEnd(c) PROVE P
  <2>1. task[c] # "dead"
    BY <1>16 DEF PongEnd, Types, TypeOK
  <2>2. QED
    BY <1>16, <2>1, WriterHolds DEF PongEnd, Finish
<1>17. ASSUME NEW c \in Conn, Shutdown(c) PROVE P
  BY <1>1, <1>17 DEF Shutdown
<1>18. ASSUME NEW c \in Conn, Shut(c) PROVE P
  BY <1>18, WriterEnds DEF Shut
<1>19. ASSUME NEW c \in Conn, Close(c) PROVE P
  <2>1. holder[c] = "none"
    BY <1>19 DEF Close, Types, TypeOK
  <2>2. task'[c] = "left" /\ \A d \in Conn \ {c} : task'[d] = task[d]
    BY <1>19, TaskGoes DEF Close
  <2>3. QED
    BY <1>19, <2>1, <2>2, WriterRests DEF Close
<1>20. ASSUME NEW c \in Conn, Left(c) PROVE P
  <2>1. Grown("leave", c)
    BY <1>20, PlayerLeaves DEF Left, Types
  <2>2. task'[c] = "gone" /\ \A d \in Conn \ {c} : task'[d] = task[d]
    BY <1>20, TaskGoes DEF Left
  <2>3. QED
    BY <1>20, <2>1, <2>2, WriterGrown DEF Left
<1>21. ASSUME NEW c \in Conn, Cleanup(c) PROVE P
  <2>1. Grown("leave", c)
    BY <1>21, PlayerLeaves DEF Cleanup, Types
  <2>2. QED
    BY <1>21, <2>1, WriterGrown DEF Cleanup, taskVars
<1>22. QED
  BY <1>2, <1>3, <1>4, <1>5, <1>6, <1>7, <1>8, <1>9, <1>10, <1>11, <1>12, <1>13,
     <1>14, <1>15, <1>16, <1>17, <1>18, <1>19, <1>20, <1>21, Steps

-----------------------------------------------------------------------------
(* The invariant, and what follows from it.                                *)

StreamInv == Types /\ ClientOK /\ WireInv /\ WriterInv

LEMMA StreamInit == Init => StreamInv
<1> SUFFICES ASSUME Init PROVE StreamInv
  OBVIOUS
<1>1. /\ <<>> \in Seq(Queued) /\ <<>> \in Seq(Parts) /\ <<>> \in Seq(DOMAIN Samples)
      /\ <<>> \in Seq(DOMAIN Samples \cup {"?"}) /\ <<>> \in Seq(Items)
  OBVIOUS
<1>2. Types
  <2>1. TypeOK
    BY DEF Init, TypeOK
  <2>2. QueueOK
    BY <1>1 DEF Init, QueueOK
  <2>3. QED
    BY <2>1, <2>2 DEF Types
<1>3. ClientOK
  BY <1>1 DEF Init, ClientOK
<1>4. \A c \in Conn : task[c] = "details" /\ holder[c] = "none" /\ wire[c] = <<>>
  BY DEF Init
<1>5. WireInv
  <2>1. wire \in [Conn -> Seq(Items)]
    BY <1>1 DEF Init
  <2>2. \A c \in Conn : WireAt(c) /\ Shape(wire[c])
    BY <1>4 DEF WireAt, Shape, Whole, Early
  <2>3. QED
    BY <2>1, <2>2 DEF WireInv
<1>6. WriterInv
  BY <1>4 DEF WriterInv, WriterAt
<1>7. QED
  BY <1>2, <1>3, <1>5, <1>6 DEF StreamInv

LEMMA StreamStep == StreamInv /\ [Next]_sessVars => StreamInv'
BY TypeStep, ClientStep, WireStep, WriterStep DEF StreamInv

\* Types, queues and streams hold together: a part of a message is at the end of
\* a stream exactly as long as somebody holds the lock of stream_w, and what the
\* writer has begun is still the first of the queue.
THEOREM StreamsKept == Spec => []StreamInv
BY StreamInit, StreamStep, PTL DEF Spec

\* Whoever holds the lock of stream_w is part of the task's present stage, and a
\* task that is over has left nothing in its queue (Player's supervisor).
THEOREM StreamsTyped == Spec => []TypeOK
<1>1. StreamInv => TypeOK
  BY DEF StreamInv, Types
<1>2. QED
  BY StreamsKept, <1>1, PTL

\* However writer, answers to pings, shutdown_err and cleanups interleave, and
\* wherever the supervisor's select! cancels a write: the details once, whole
\* frames, and after a frame that was cut nothing but ERR.
THEOREM StreamsWellFormed == Spec => []StreamShape
<1>1. StreamInv => StreamShape
  BY DEF StreamInv, WireInv, StreamShape, Shape
<1>2. QED
  BY StreamsKept, <1>1, PTL

=============================================================================
