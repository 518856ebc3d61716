------------------------------- MODULE Codec --------------------------------
(***************************************************************************)
(* The map messages on the wire: what read_map_msg makes of the bytes that *)
(* a client sends, and what write_action makes of an action.               *)
(*                                                                         *)
(* Reader and writer go through a message datum by datum and keep the      *)
(* fields that are due, in order: what is left of the struct they are in,  *)
(* and of those around it.  What has been read is a function from the      *)
(* fields, each named by its place and its name: the place is the way from *)
(* the message's own struct to the one of the field.                       *)
(***************************************************************************)
EXTENDS Messages, FiniteSets

Size(buf) ==
  LET sum[i \in 0..Len(buf)] == IF i = 0 THEN 0 ELSE sum[i - 1] + buf[i].w
  IN  sum[Len(buf)]

-----------------------------------------------------------------------------
(* Fields that are due.                                                    *)

Slot(f, at) == [f |-> f, at |-> at]
Key(d) == <<d.at, d.f.n>>
Top(n) == <<<<>>, n>>

\* The fields of the structs that follow datum t of field d: one struct behind
\* a flag that is set, as many as a count says.
Called(d, t) ==
  LET n == IF d.f.k = "counted" THEN t.v ELSE IF d.f.k = "flagged" /\ t.v # 0 THEN 1 ELSE 0
      m == Len(d.f.l)
  IN  [j \in 1..(n * m) |->
         Slot(d.f.l[((j - 1) % m) + 1], Append(d.at, <<d.f.n, ((j - 1) \div m) + 1>>))]

-----------------------------------------------------------------------------
(* DecodeCursor, and MTDecode on top of it.                                *)

Fits(f, t) ==
  \/ f.k \in {"num", "counted"} /\ t.k = "num" /\ t.w = f.w
  \/ f.k \in {"bool", "flagged"} /\ t.k = "flag"
  \/ f.k \in {"checked", "raw"} /\ t.k = "txt" /\ Acceptable(t)
  \/ f.k = "opaque" /\ t.k = "bytes"
  \/ f.k \in {"mark", "optional"} /\ t.k = f.n
  \/ f.k = "none" /\ t = Num(2, 0)

\* Text is made UTF-8, and any byte but 0 sets a flag.
Kept(t) ==
  CASE t.k = "txt" -> Lossy(t)
    [] t.k = "flag" -> Flag(IF t.v = 0 THEN 0 ELSE 1)
    [] OTHER -> t

With(v, q, t) == [p \in DOMAIN v \cup {q} |-> IF p = q THEN t ELSE v[p]]

\* A reader: what is due, what it has read, how many data it has taken.  It
\* takes no more when nothing is due.
ReadStart(l) ==
  [due |-> [i \in 1..Len(l) |-> Slot(l[i], <<>>)], v |-> <<>>, n |-> 0, ok |-> TRUE]

TakeDatum(s, t) ==
  LET d == Head(s.due)
  IN  IF s.due = <<>> \/ ~s.ok THEN s
      ELSE IF ~Fits(d.f, t) THEN [s EXCEPT !.ok = FALSE]
      ELSE [due |-> Called(d, Kept(t)) \o Tail(s.due), v |-> With(s.v, Key(d), Kept(t)),
            n |-> s.n + 1, ok |-> TRUE]

ReadRun(l, buf) ==
  LET run[i \in 0..Len(buf)] == IF i = 0 THEN ReadStart(l) ELSE TakeDatum(run[i - 1], buf[i])
  IN  run

Decode(l, buf) == ReadRun(l, buf)[Len(buf)]

\* A layout with an optional part takes the whole buffer; it may end before.
TakesAll(l) == \E i \in 1..Len(l) : l[i].k = "optional"

Decodes(l, buf) ==
  LET s == Decode(l, buf)
  IN  /\ s.ok /\ (s.due = <<>> \/ Head(s.due).f.k = "optional")
      /\ TakesAll(l) => s.n = Len(buf)

-----------------------------------------------------------------------------
(* MTEncode.  What follows an optional mark is a count: without elements,  *)
(* neither is written.                                                     *)

\* The datum of a field; a text that has outgrown the bound is a panic.
Written(f, t) ==
  CASE f.k = "checked" /\ TooLong(t) -> Panic
    [] f.k \in {"mark", "optional"} -> Mark(f.n)
    [] f.k = "none" -> Num(2, 0)
    [] OTHER -> t

Absent(q, v) == q \notin DOMAIN v \/ v[q].v = 0

Ended(s, v) ==
  \/ s.due = <<>>
  \/ Head(s.due).f.k = "optional" /\ Absent(Key(s.due[2]), v)

WriteStart(l) == [due |-> [i \in 1..Len(l) |-> Slot(l[i], <<>>)], out |-> <<>>]

PutDatum(s, v) ==
  LET d == Head(s.due)
      t == Written(d.f, v[Key(d)])
  IN  IF Ended(s, v) THEN s
      ELSE [due |-> Called(d, t) \o Tail(s.due), out |-> Append(s.out, t)]

\* There is nothing to write but what has been read.
WriteRun(l, v) ==
  LET run[i \in 0..Cardinality(DOMAIN v)] ==
        IF i = 0 THEN WriteStart(l) ELSE PutDatum(run[i - 1], v)
  IN  run

Encode(l, v) == WriteRun(l, v)[Cardinality(DOMAIN v)].out

-----------------------------------------------------------------------------
(* Messages.                                                               *)

\* Nothing, or an action.
Bad == <<>>
Good(a) == <<a>>

\* A struct of one field.
One(n, t) == [q \in {Top(n)} |-> t]

\* A message with its length in front: the layout takes what it needs of the
\* body, and the rest is dropped.
ReadFramed(ty, buf) ==
  LET len == buf[2].v
      body == SubSeq(buf, 3, Len(buf))
  IN  IF \/ len > MaxMsg
         \/ ty = "VehicleSample" /\ len > MaxSample
         \/ ty = "SetRoomPlayerLimit" /\ len # 4
         \/ ~Decodes(ReadLayout[ty], body)
      THEN Bad ELSE Good(Act(ty, Decode(ReadLayout[ty], body).v))

\* read_lp_string_owh: strict UTF-8.
ReadMapName(t) ==
  IF t.k # "txt" \/ ~Acceptable(t) \/ t.v > 0 THEN Bad
  ELSE Good(Act("SetMapName", One("name", t)))

\* read_map_msg on a message that is complete: its action, or an error.
ReadMapMsg(buf) ==
  LET ty == buf[1].k
  IN  CASE ty \in Bare -> Good(Act(ty, <<>>))
        [] ty = "SetMapName" -> ReadMapName(buf[2])
        [] ty \in DOMAIN ReadLayout -> ReadFramed(ty, buf)
        [] OTHER -> Bad

Framed(ty, body) == <<Type(ty), Num(4, Size(body))>> \o body

\* write_action, up to the sender and the time that follow every message: the
\* limit of players is narrowed to 16 bits when it is read.
WriteAction(a) ==
  CASE a.ty \in Bare -> <<>>
    [] a.ty = "SetMapName" -> <<Type(a.ty), a.v[Top("name")]>>
    [] a.ty = "SetRoomPlayerLimit" -> Framed(a.ty, <<Num(2, a.v[Top("limit")].v % 65536)>>)
    [] OTHER -> Framed(a.ty, Encode(WriteLayout[a.ty], a.v))

-----------------------------------------------------------------------------
(* What others should get of a message.                                    *)

\* A complete message: its type, and what read_map_msg reads after it.
Message(buf) ==
  /\ Len(buf) > 0 /\ Tail(buf) \in Seq(Data)
  /\ buf = <<Type(buf[1].k)>> \o Tail(buf)
  /\ buf[1].k = "SetMapName" => Len(buf) = 2
  /\ buf[1].k \in DOMAIN ReadLayout => Len(buf) > 1

\* How many data of a body the reader's layout keeps: it may end before the
\* body does, and that there are no terrains is as good as nothing.
Told(l, body) ==
  LET n == Decode(l, body).n
  IN  IF n > 1 /\ body[n - 1] = Mark("TRNs") /\ body[n].v = 0 THEN n - 2 ELSE n

\* The body of a message as others should get it: text is made UTF-8, a variable
\* has no number in front, and the limit of players is a short one.
CleanBody(ty, body) ==
  CASE ty = "SetVariable" -> <<Kept(body[2]), Kept(body[3])>>
    [] ty = "SetRoomPlayerLimit" -> <<Num(2, body[1].v % 65536)>>
    [] OTHER -> [i \in 1..Told(ReadLayout[ty], body) |-> Kept(body[i])]

\* The whole message.  Of one without a body others get nothing.
Clean(buf) ==
  LET ty == buf[1].k
  IN  CASE ty \in Bare -> <<>>
        [] ty \in DOMAIN ReadLayout -> Framed(ty, CleanBody(ty, SubSeq(buf, 3, Len(buf))))
        [] OTHER -> [i \in 1..Len(buf) |-> Kept(buf[i])]

=============================================================================
