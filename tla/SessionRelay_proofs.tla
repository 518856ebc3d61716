------------------------ MODULE SessionRelay_proofs ------------------------
(***************************************************************************)
(* Theorems about what is read from the players of a room, and what of it  *)
(* is written to the others.                                               *)
(***************************************************************************)
EXTENDS Session_proofs, Codec_proofs

-----------------------------------------------------------------------------
(* The stream from a client.                                               *)

TwoParts(s) == Len(Samples[s]) > 1

\* The parts p are those of the messages s from the one after g on, part i
\* being of message f[i].
Parsed(p, f, g, s) ==
  /\ f \in [1..Len(p) -> 1..Len(s)]
  /\ \A i \in 1..Len(p) : p[i].of = s[f[i]]
  /\ IF Len(p) = 0 THEN g = Len(s)
     ELSE /\ f[1] = g + 1 /\ p[1].part = "type"
          /\ f[Len(p)] = Len(s)
          /\ p[Len(p)].part = "type" => ~TwoParts(s[Len(s)])
  /\ \A i \in 1..(Len(p) - 1) :
       IF p[i].part = "type" /\ TwoParts(s[f[i]])
         THEN p[i + 1].part = "body" /\ f[i + 1] = f[i]
         ELSE p[i + 1].part = "type" /\ f[i + 1] = f[i] + 1

Unread(c) == inbox[c] \o rest[c]

ReadInv ==
  /\ InStep
  /\ \A c \in Conn : Receives(c) => \E f : Parsed(Unread(c), f, Len(got[c]), sent[c])

-----------------------------------------------------------------------------
(* From one stream to the others.                                          *)

\* An action is the server's, or its sender has sent it.
Sourced(f) ==
  f.of = "leave" \/ \E n \in 1..Len(sent[f.by]) : sent[f.by][n] = f.of

\* A frame that may be written to c.
Fit(c, f) ==
  /\ version[c] >= MinProtoVersion(Actions[f.of])
  /\ f.of = "pong" \/ (WrittenOf[f.of] # <<>> /\ ~Panics(WrittenOf[f.of]) /\ Sourced(f))

QueueAt(c) == \A i \in 1..Len(queue[c]) : Sourced(queue[c][i])
FramesAt(c) == \A i \in 1..Len(wire[c]) : wire[c][i].k = "frame" => Fit(c, wire[c][i])

FrameInv ==
  /\ version \in Versions
  /\ \A c \in Conn : QueueAt(c) /\ FramesAt(c)

-----------------------------------------------------------------------------
(* The stream from a client.                                               *)

\* A message that is sent is parsed after the others.
LEMMA ParsedMore ==
  ASSUME NEW p \in Seq(Parts), NEW q \in Seq(Parts), NEW s \in Seq(DOMAIN Samples),
         NEW m \in DOMAIN Samples, NEW g \in Nat, NEW f, Parsed(p, f, g, s),
         Len(q) = IF TwoParts(m) THEN Len(p) + 2 ELSE Len(p) + 1,
         \A i \in 1..Len(p) : q[i] = p[i],
         q[Len(p) + 1] = TypeByte(m),
         TwoParts(m) => q[Len(p) + 2] = Body(m)
  PROVE  \E h : Parsed(q, h, g, Append(s, m))
<1> DEFINE t == Append(s, m)
           h == [i \in 1..Len(q) |-> IF i <= Len(p) THEN f[i] ELSE Len(s) + 1]
<1>1. /\ Len(p) \in Nat /\ Len(q) \in Nat /\ Len(s) \in Nat
      /\ Len(q) \in {Len(p) + 1, Len(p) + 2}
  OBVIOUS
<1>2. /\ Len(t) = Len(s) + 1 /\ t[Len(s) + 1] = m
      /\ \A i \in 1..Len(s) : t[i] = s[i]
  OBVIOUS
<1>3. /\ f \in [1..Len(p) -> 1..Len(s)]
      /\ \A i \in 1..Len(p) : p[i].of = s[f[i]]
      /\ IF Len(p) = 0 THEN g = Len(s)
         ELSE /\ f[1] = g + 1 /\ p[1].part = "type"
              /\ f[Len(p)] = Len(s)
              /\ p[Len(p)].part = "type" => ~TwoParts(s[Len(s)])
      /\ \A i \in 1..(Len(p) - 1) :
           IF p[i].part = "type" /\ TwoParts(s[f[i]])
             THEN p[i + 1].part = "body" /\ f[i + 1] = f[i]
             ELSE p[i + 1].part = "type" /\ f[i + 1] = f[i] + 1
  BY DEF Parsed
<1>4. /\ \A i \in 1..Len(p) : h[i] = f[i]
      /\ \A i \in (Len(p) + 1)..Len(q) : h[i] = Len(s) + 1
  BY <1>1
<1>5. /\ TypeByte(m).of = m /\ TypeByte(m).part = "type"
      /\ Body(m).of = m /\ Body(m).part = "body"
  BY DEF TypeByte, Body
<1> HIDE DEF t
<1>0. \A i \in 1..Len(p) : f[i] \in 1..Len(s) /\ t[f[i]] = s[f[i]]
  <2>1. f \in [1..Len(p) -> 1..Len(s)]
    BY <1>3
  <2>2. QED
    BY <1>2, <2>1
<1>6. h \in [1..Len(q) -> 1..Len(t)]
  BY <1>0, <1>1, <1>2
<1> HIDE DEF h
<1>7. ASSUME NEW i \in 1..Len(q) PROVE q[i].of = t[h[i]]
  <2>1. CASE i \in 1..Len(p)
    <3>1. q[i] = p[i] /\ h[i] = f[i] /\ t[f[i]] = s[f[i]]
      BY <1>0, <1>4, <2>1
    <3>2. p[i].of = s[f[i]]
      BY <1>3, <2>1
    <3>3. QED
      BY <3>1, <3>2
  <2>2. CASE i = Len(p) + 1
    <3>1. h[i] = Len(s) + 1 /\ t[h[i]] = m
      BY <1>1, <1>2, <1>4, <2>2
    <3>2. QED
      BY <1>5, <2>2, <3>1
  <2>3. CASE i = Len(p) + 2 /\ TwoParts(m)
    BY <1>1, <1>2, <1>4, <1>5, <2>3
  <2>4. QED
    BY <1>1, <2>1, <2>2, <2>3
<1>8. h[1] = g + 1 /\ q[1].part = "type"
  <2>1. CASE Len(p) = 0
    BY <1>1, <1>3, <1>4, <1>5, <2>1
  <2>2. CASE Len(p) # 0
    BY <1>1, <1>3, <1>4, <2>2
  <2>3. QED
    BY <2>1, <2>2
<1>9. h[Len(q)] = Len(t) /\ (q[Len(q)].part = "type" => ~TwoParts(t[Len(t)]))
  BY <1>1, <1>2, <1>4, <1>5
<1>10. ASSUME NEW i \in 1..(Len(q) - 1)
       PROVE  IF q[i].part = "type" /\ TwoParts(t[h[i]])
                THEN q[i + 1].part = "body" /\ h[i + 1] = h[i]
                ELSE q[i + 1].part = "type" /\ h[i + 1] = h[i] + 1
  <2>1. CASE i \in 1..(Len(p) - 1)
    <3>1. q[i] = p[i] /\ q[i + 1] = p[i + 1] /\ h[i] = f[i] /\ h[i + 1] = f[i + 1]
      BY <1>1, <1>4, <2>1
    <3>2. f[i] \in 1..Len(s) /\ t[f[i]] = s[f[i]]
      <4>1. i \in 1..Len(p)
        BY <1>1, <2>1
      <4>2. QED
        BY <1>0, <4>1
    <3>3. QED
      BY <1>3, <2>1, <3>1, <3>2
  <2>2. CASE i = Len(p)
    <3>0. i # 0 /\ i \in 1..Len(p) /\ i + 1 \in (Len(p) + 1)..Len(q)
      BY <1>1, <2>2
    <3>1. f[i] = Len(s)
      BY <1>3, <2>2, <3>0
    <3>2. q[i] = p[i] /\ h[i] = Len(s) /\ h[i + 1] = Len(s) + 1
      BY <1>4, <3>0, <3>1
    <3>3. t[h[i]] = s[Len(s)]
      BY <1>0, <3>0, <3>1, <3>2
    <3>4. q[i].part = "type" => ~TwoParts(s[Len(s)])
      BY <1>3, <2>2, <3>0, <3>2
    <3>5. q[i + 1].part = "type"
      BY <1>5, <2>2
    <3>6. QED
      BY <3>2, <3>3, <3>4, <3>5
  <2>3. CASE i = Len(p) + 1
    <3>1. TwoParts(m) /\ q[i + 1] = Body(m) /\ q[i] = TypeByte(m)
      BY <1>1, <2>3
    <3>2. h[i] = Len(s) + 1 /\ h[i + 1] = Len(s) + 1 /\ t[h[i]] = m
      BY <1>1, <1>2, <1>4, <2>3
    <3>3. QED
      BY <1>5, <3>1, <3>2
  <2>4. QED
    BY <1>1, <2>1, <2>2, <2>3
<1>11. Parsed(q, h, g, t)
  BY <1>1, <1>6, <1>7, <1>8, <1>9, <1>10 DEF Parsed
<1>12. QED
  BY <1>11 DEF t

\* When the first message has been read, the others are still parsed.
LEMMA ParsedLess ==
  ASSUME NEW p \in Seq(Parts), NEW q \in Seq(Parts), NEW s \in Seq(DOMAIN Samples),
         NEW g \in Nat, NEW f, Parsed(p, f, g, s),
         NEW k \in {1, 2}, k <= Len(p), k = IF TwoParts(p[1].of) THEN 2 ELSE 1,
         Len(q) = Len(p) - k, \A i \in 1..Len(q) : q[i] = p[i + k]
  PROVE  \E h : Parsed(q, h, g + 1, s)
<1> DEFINE h == [i \in 1..Len(q) |-> f[i + k]]
<1>1. Len(p) \in Nat \ {0} /\ Len(q) \in Nat /\ Len(s) \in Nat
  OBVIOUS
<1>2. /\ f \in [1..Len(p) -> 1..Len(s)]
      /\ \A i \in 1..Len(p) : p[i].of = s[f[i]]
      /\ f[1] = g + 1 /\ p[1].part = "type" /\ f[Len(p)] = Len(s)
      /\ p[Len(p)].part = "type" => ~TwoParts(s[Len(s)])
      /\ \A i \in 1..(Len(p) - 1) :
           IF p[i].part = "type" /\ TwoParts(s[f[i]])
             THEN p[i + 1].part = "body" /\ f[i + 1] = f[i]
             ELSE p[i + 1].part = "type" /\ f[i + 1] = f[i] + 1
  BY <1>1 DEF Parsed
<1>0. \A i \in 1..Len(q) : i + k \in 1..Len(p)
  BY <1>1
<1>3. h \in [1..Len(q) -> 1..Len(s)] /\ \A i \in 1..Len(q) : h[i] = f[i + k]
  <2>1. f \in [1..Len(p) -> 1..Len(s)]
    BY <1>2
  <2>2. QED
    BY <1>0, <2>1
<1> HIDE DEF h
<1>4. ASSUME NEW i \in 1..Len(q) PROVE q[i].of = s[h[i]]
  <2>1. p[i + k].of = s[f[i + k]]
    BY <1>0, <1>2
  <2>2. q[i] = p[i + k] /\ h[i] = f[i + k]
    BY <1>3
  <2>3. QED
    BY <2>1, <2>2
<1>5. TwoParts(s[f[1]]) <=> k = 2
  BY <1>1, <1>2
<1>6. f[k] = g + 1 /\ (k < Len(p) => p[k + 1].part = "type" /\ f[k + 1] = g + 2)
  <2>1. CASE k = 1
    BY <1>1, <1>2, <1>5, <2>1
  <2>2. CASE k = 2
    <3>1. 1 \in 1..(Len(p) - 1)
      BY <1>1, <2>2
    <3>2. p[2].part = "body" /\ f[2] = f[1]
      BY <1>2, <1>5, <2>2, <3>1
    <3>3. ASSUME 2 < Len(p) PROVE p[3].part = "type" /\ f[3] = f[2] + 1
      <4>1. 2 \in 1..(Len(p) - 1)
        BY <1>1, <3>3
      <4>2. /\ p[2].part = "body" => p[2 + 1].part = "type" /\ f[2 + 1] = f[2] + 1
            /\ 2 + 1 = 3
        BY <1>2, <4>1
      <4>3. QED
        BY <3>2, <4>2
    <3>4. QED
      BY <1>2, <2>2, <3>2, <3>3
  <2>3. QED
    BY <2>1, <2>2
<1>7. IF Len(q) = 0 THEN g + 1 = Len(s)
      ELSE /\ h[1] = g + 1 + 1 /\ q[1].part = "type"
           /\ h[Len(q)] = Len(s)
           /\ q[Len(q)].part = "type" => ~TwoParts(s[Len(s)])
  <2>1. CASE Len(q) = 0
    BY <1>1, <1>2, <1>6, <2>1
  <2>2. CASE Len(q) # 0
    <3>0. 1 \in 1..Len(q) /\ Len(q) \in 1..Len(q) /\ Len(q) + k = Len(p) /\ 1 + k = k + 1
          /\ k < Len(p)
      <4>1. \A m, n \in Nat : m # 0 /\ m = n - k =>
              1 \in 1..m /\ m \in 1..m /\ m + k = n /\ 1 + k = k + 1 /\ k < n
        OBVIOUS
      <4>2. Len(p) \in Nat /\ Len(q) \in Nat
        OBVIOUS
      <4>3. QED
        BY <2>2, <4>1, <4>2, Zenon
    <3>1. q[1] = p[k + 1] /\ h[1] = f[k + 1]
      BY <1>3, <3>0
    <3>2. q[Len(q)] = p[Len(p)] /\ h[Len(q)] = f[Len(p)]
      BY <1>3, <3>0
    <3>3. h[1] = g + 1 + 1 /\ q[1].part = "type"
      <4>1. g + 2 = g + 1 + 1
        OBVIOUS
      <4>2. QED
        BY <1>6, <3>0, <3>1, <4>1, Zenon
    <3>4. h[Len(q)] = Len(s) /\ (q[Len(q)].part = "type" => ~TwoParts(s[Len(s)]))
      BY <1>2, <3>2, Zenon
    <3>5. QED
      BY <2>2, <3>3, <3>4, Zenon
  <2>3. QED
    BY <2>1, <2>2
<1>8. ASSUME NEW i \in 1..(Len(q) - 1)
      PROVE  IF q[i].part = "type" /\ TwoParts(s[h[i]])
               THEN q[i + 1].part = "body" /\ h[i + 1] = h[i]
               ELSE q[i + 1].part = "type" /\ h[i + 1] = h[i] + 1
  <2> DEFINE j == i + k
  <2>1. i \in 1..Len(q) /\ i + 1 \in 1..Len(q) /\ j \in 1..(Len(p) - 1) /\ (i + 1) + k = j + 1
    BY <1>1
  <2>2. q[i] = p[j] /\ q[i + 1] = p[j + 1] /\ h[i] = f[j] /\ h[i + 1] = f[j + 1]
    BY <1>3, <2>1
  <2>3. IF p[j].part = "type" /\ TwoParts(s[f[j]])
          THEN p[j + 1].part = "body" /\ f[j + 1] = f[j]
          ELSE p[j + 1].part = "type" /\ f[j + 1] = f[j] + 1
    BY <1>2, <2>1
  <2>4. QED
    BY <2>2, <2>3
<1>9. QED
  BY <1>3, <1>4, <1>7, <1>8 DEF Parsed

\* The first parts of what is unread are those in the inbox.
LEMMA Joined ==
  ASSUME NEW S, NEW u \in Seq(S), NEW v \in Seq(S)
  PROVE  /\ u \o v \in Seq(S) /\ Len(u \o v) = Len(u) + Len(v)
         /\ \A i \in 1..Len(u) : (u \o v)[i] = u[i]
         /\ \A i \in 1..Len(v) : (u \o v)[Len(u) + i] = v[i]
         /\ u # <<>> => Len(u \o v) \in Nat \ {0} /\ (u \o v)[1] = u[1]
OBVIOUS

\* The rest of them when k are taken.
LEMMA Dropped ==
  ASSUME NEW S, NEW u \in Seq(S), NEW v \in Seq(S), NEW k \in Nat, k <= Len(u)
  PROVE  LET q == SubSeq(u, k + 1, Len(u)) \o v
         IN  /\ q \in Seq(S) /\ Len(q) = Len(u \o v) - k
             /\ \A i \in 1..Len(q) : q[i] = (u \o v)[i + k]
<1> DEFINE w == SubSeq(u, k + 1, Len(u))
           q == w \o v
<1>1. w \in Seq(S) /\ Len(w) = Len(u) - k /\ \A i \in 1..Len(w) : w[i] = u[i + k]
  <2>1. Len(u) \in Nat
    OBVIOUS
  <2>2. w \in Seq(S)
    OBVIOUS
  <2>3. Len(w) = Len(u) - k
    BY <2>1
  <2>4. \A i \in 1..Len(w) : w[i] = u[i + k]
    BY <2>1, <2>3
  <2>5. QED
    BY <2>2, <2>3, <2>4
<1> HIDE DEF w
<1>2. /\ q \in Seq(S) /\ Len(q) = Len(w) + Len(v)
      /\ Len(u) \in Nat /\ Len(v) \in Nat /\ Len(w) \in Nat
  <2>1. w \in Seq(S)
    BY <1>1
  <2>2. q \in Seq(S) /\ Len(q) = Len(w) + Len(v)
    BY <2>1, ConcatProperties
  <2>3. Len(u) \in Nat /\ Len(v) \in Nat /\ Len(w) \in Nat
    BY <2>1
  <2>4. QED
    BY <2>2, <2>3
<1>3. ASSUME NEW i \in 1..Len(q) PROVE q[i] = (u \o v)[i + k]
  <2>1. CASE i <= Len(w)
    BY <1>1, <1>2, <2>1
  <2>2. CASE i > Len(w)
    <3>1. q[i] = v[i - Len(w)]
      BY <1>1, <1>2, <2>2, ConcatProperties
    <3>2. i + k \in 1..(Len(u) + Len(v)) /\ ~(i + k <= Len(u)) /\ i + k - Len(u) = i - Len(w)
      BY <1>1, <1>2, <2>2
    <3>3. (u \o v)[i + k] = v[i + k - Len(u)]
      BY <3>2, ConcatProperties
    <3>4. QED
      BY <3>1, <3>2, <3>3
  <2>3. QED
    BY <1>1, <1>2, <2>1, <2>2
<1>4. Len(q) = Len(u \o v) - k
  <2>1. Len(u \o v) = Len(u) + Len(v)
    BY ConcatProperties
  <2>2. QED
    BY <1>1, <1>2, <2>1
<1>5. QED
  BY <1>2, <1>3, <1>4 DEF w

\* What has arrived at a reader that is in step is the next of the messages.
LEMMA ArrivesNext ==
  ASSUME ClientOK, ReadInv, NEW c \in Conn, Receives(c), Arrived(c) # Waiting
  PROVE  /\ Len(got[c]) + 1 \in 1..Len(sent[c])
         /\ Arrived(c).of = sent[c][Len(got[c]) + 1]
         /\ inbox[c] # <<>> /\ Arrived(c).of = inbox[c][1].of
<1> DEFINE p == Unread(c)
<1>1. PICK f : Parsed(p, f, Len(got[c]), sent[c])
  BY DEF ReadInv
<1>2. /\ inbox[c] \in Seq(Parts) /\ rest[c] \in Seq(Parts)
      /\ sent[c] \in Seq(DOMAIN Samples) /\ Len(got[c]) \in Nat
  BY DEF ClientOK
<1>3. inbox[c] # <<>>
  BY Arrives DEF Arrived
<1>4. p \in Seq(Parts) /\ Len(p) \in Nat \ {0} /\ p[1] = inbox[c][1]
  <2>1. p = inbox[c] \o rest[c]
    BY DEF Unread
  <2> DEFINE u == inbox[c]
             v == rest[c]
  <2>2. u \in Seq(Parts) /\ v \in Seq(Parts) /\ u # <<>>
    BY <1>2, <1>3
  <2> HIDE DEF u, v
  <2>3. u \o v \in Seq(Parts) /\ Len(u \o v) \in Nat \ {0} /\ (u \o v)[1] = u[1]
    BY <2>2, Joined
  <2>4. QED
    BY <2>1, <2>3 DEF u, v
<1> HIDE DEF p
<1>5. /\ f \in [1..Len(p) -> 1..Len(sent[c])] /\ f[1] = Len(got[c]) + 1
      /\ p[1].of = sent[c][f[1]] /\ p[1].part = "type"
  BY <1>1, <1>4 DEF Parsed
<1>6. f[1] \in 1..Len(sent[c])
  BY <1>4, <1>5
<1>7. Arrived(c).of = inbox[c][1].of
  BY <1>4, <1>5, Arrives
<1>8. QED
  BY <1>3, <1>4, <1>5, <1>6, <1>7

\* One more that is read leaves the history in step.
LEMMA StepsOn ==
  ASSUME ClientOK, InStep, NEW c \in Conn, NEW m,
         Len(got[c]) + 1 \in 1..Len(sent[c]), m = sent[c][Len(got[c]) + 1],
         got' = [got EXCEPT ![c] = Append(@, m)], sent' = sent
  PROVE  InStep'
<1> SUFFICES ASSUME NEW d \in Conn, NEW n \in 1..Len(got'[d])
             PROVE  n <= Len(sent[d]) /\ got'[d][n] = sent[d][n]
  BY DEF InStep
<1>1. got[c] \in Seq(DOMAIN Samples \cup {"?"}) /\ Len(got[c]) \in Nat
  BY DEF ClientOK
<1>2. CASE d # c
  <2>1. got'[d] = got[d]
    BY <1>2 DEF ClientOK
  <2>2. QED
    BY <2>1 DEF InStep
<1>3. CASE d = c
  <2>1. got'[c] = Append(got[c], m)
    BY DEF ClientOK
  <2>2. Len(got'[c]) = Len(got[c]) + 1 /\ got'[c][Len(got[c]) + 1] = m
        /\ \A i \in 1..Len(got[c]) : got'[c][i] = got[c][i]
    BY <1>1, <2>1
  <2>3. CASE n = Len(got[c]) + 1
    BY <1>1, <1>3, <2>2, <2>3
  <2>4. CASE n \in 1..Len(got[c])
    BY <1>3, <2>2, <2>4 DEF InStep
  <2>5. QED
    BY <1>1, <1>3, <2>2, <2>3, <2>4
<1>4. QED
  BY <1>2, <1>3

\* What can still be read of it stays as it was.
LEMMA ReadStays ==
  ASSUME ReadInv, UNCHANGED <<got, sent>>,
         \A c \in Conn : Receives(c)' => Receives(c) /\ Unread(c)' = Unread(c)
  PROVE  ReadInv'
<1>1. InStep'
  BY DEF ReadInv, InStep
<1>2. ASSUME NEW c \in Conn, Receives(c)'
      PROVE  \E f : Parsed(Unread(c)', f, Len(got'[c]), sent'[c])
  BY <1>2 DEF ReadInv
<1>3. QED
  BY <1>1, <1>2 DEF ReadInv

LEMMA SendStep ==
  ASSUME ClientOK, ReadInv, NEW c \in Conn, NEW s \in DOMAIN Samples, Send(c, s)
  PROVE  ReadInv'
<1>1. /\ rest[c] = <<>> /\ inbox' = [inbox EXCEPT ![c] = Append(@, TypeByte(s))]
      /\ rest' = [rest EXCEPT ![c] = IF TwoParts(s) THEN <<Body(s)>> ELSE <<>>]
      /\ sent' = [sent EXCEPT ![c] = Append(@, s)] /\ got' = got /\ task' = task
  BY DEF Send, TwoParts, taskVars
<1>2. /\ inbox'[c] = Append(inbox[c], TypeByte(s)) /\ sent'[c] = Append(sent[c], s)
      /\ rest'[c] = IF TwoParts(s) THEN <<Body(s)>> ELSE <<>>
      /\ \A d \in Conn \ {c} : inbox'[d] = inbox[d] /\ rest'[d] = rest[d] /\ sent'[d] = sent[d]
  BY <1>1 DEF ClientOK
<1>3. /\ inbox[c] \in Seq(Parts) /\ sent[c] \in Seq(DOMAIN Samples) /\ Len(got[c]) \in Nat
      /\ TypeByte(s) \in Parts /\ Body(s) \in Parts
  <2>1. TypeByte(s) \in Parts /\ Body(s) \in Parts
    BY DEF TypeByte, Body, Parts
  <2>2. QED
    BY <2>1 DEF ClientOK
<1>4. InStep'
  <2> SUFFICES ASSUME NEW d \in Conn, NEW n \in 1..Len(got[d])
               PROVE  n <= Len(sent'[d]) /\ got[d][n] = sent'[d][n]
    BY <1>1 DEF InStep
  <2>1. n <= Len(sent[d]) /\ got[d][n] = sent[d][n] /\ n \in Nat /\ n >= 1
    BY DEF ReadInv, InStep
  <2>2. sent[d] \in Seq(DOMAIN Samples)
    BY DEF ClientOK
  <2>3. CASE d = c
    <3>1. sent[c] \in Seq(DOMAIN Samples) /\ n \in 1..Len(sent[c])
      BY <2>1, <2>2, <2>3
    <3>2. Len(Append(sent[c], s)) = Len(sent[c]) + 1 /\ Append(sent[c], s)[n] = sent[c][n]
      BY <3>1
    <3>3. n <= Len(sent'[c])
      BY <1>2, <3>1, <3>2
    <3>4. QED
      BY <1>2, <2>1, <2>3, <3>2, <3>3
  <2>4. CASE d # c
    BY <1>2, <2>1, <2>4
  <2>5. QED
    BY <2>3, <2>4
<1>5. ASSUME Receives(c) PROVE \E f : Parsed(Unread(c)', f, Len(got'[c]), sent'[c])
  <2> DEFINE p == inbox[c]
             q == Append(inbox[c], TypeByte(s)) \o (IF TwoParts(s) THEN <<Body(s)>> ELSE <<>>)
  <2>1. Unread(c) = p
    BY <1>1, <1>3 DEF Unread
  <2>2. Unread(c)' = q
    BY <1>2 DEF Unread
  <2>3. PICK f : Parsed(p, f, Len(got[c]), sent[c])
    BY <1>5, <2>1 DEF ReadInv
  <2>4. /\ q \in Seq(Parts) /\ Len(q) = IF TwoParts(s) THEN Len(p) + 2 ELSE Len(p) + 1
        /\ \A i \in 1..Len(p) : q[i] = p[i]
        /\ q[Len(p) + 1] = TypeByte(s)
        /\ TwoParts(s) => q[Len(p) + 2] = Body(s)
    <3>1. CASE TwoParts(s)
      BY <1>3, <3>1
    <3>2. CASE ~TwoParts(s)
      BY <1>3, <3>2
    <3>3. QED
      BY <3>1, <3>2
  <2> HIDE DEF p, q
  <2>5. p \in Seq(Parts)
    BY <1>3 DEF p
  <2>6. \E h : Parsed(q, h, Len(got[c]), Append(sent[c], s))
    BY <1>3, <2>3, <2>4, <2>5, ParsedMore
  <2>7. QED
    BY <1>1, <1>2, <2>2, <2>6
<1>6. ASSUME NEW d \in Conn \ {c}, Receives(d)
      PROVE  \E f : Parsed(Unread(d)', f, Len(got'[d]), sent'[d])
  <2>1. Unread(d)' = Unread(d) /\ sent'[d] = sent[d] /\ got'[d] = got[d]
    BY <1>1, <1>2 DEF Unread
  <2>2. QED
    BY <1>6, <2>1 DEF ReadInv
<1>7. \A d \in Conn : Receives(d)' <=> Receives(d)
  BY <1>1 DEF Receives
<1>8. QED
  BY <1>4, <1>5, <1>6, <1>7 DEF ReadInv

LEMMA ReadStepOne ==
  ASSUME Types, ClientOK, ReadInv, NEW c \in Conn, Read(c)
  PROVE  ReadInv'
<1> DEFINE m == Arrived(c)
<1>1. Running(c) /\ Take(c, m) /\ m.of \in DOMAIN Actions
  BY Reads DEF Types
<1>2. /\ inbox[c] # <<>> /\ m.of = inbox[c][1].of /\ m.of \in DOMAIN Samples
      /\ m.n = IF TwoParts(m.of) THEN 2 ELSE 1
      /\ TwoParts(m.of) => Len(inbox[c]) > 1
  BY <1>1, ReadsSample DEF TwoParts
<1>3. Receives(c) /\ m # Waiting
  <2>1. Waiting.of = "" /\ "" \notin DOMAIN Actions
    BY SessionAssumption DEF Waiting
  <2>2. QED
    BY <1>1, <2>1 DEF Running, Receives
<1>4. Len(got[c]) + 1 \in 1..Len(sent[c]) /\ m.of = sent[c][Len(got[c]) + 1]
  BY <1>3, ArrivesNext
<1> HIDE DEF m
<1>5. /\ inbox' = [inbox EXCEPT ![c] = SubSeq(@, m.n + 1, Len(@))]
      /\ got' = [got EXCEPT ![c] = Append(@, m.of)]
      /\ UNCHANGED <<task, rest, sent>>
  BY <1>1 DEF Take
<1>6. InStep'
  BY <1>4, <1>5, StepsOn DEF ReadInv
<1>7. /\ inbox'[c] = SubSeq(inbox[c], m.n + 1, Len(inbox[c]))
      /\ got'[c] = Append(got[c], m.of)
      /\ \A d \in Conn \ {c} : inbox'[d] = inbox[d] /\ got'[d] = got[d]
  BY <1>5 DEF ClientOK
<1>8. \E h : Parsed(Unread(c)', h, Len(got'[c]), sent'[c])
  <2> DEFINE p == Unread(c)
             q == SubSeq(inbox[c], m.n + 1, Len(inbox[c])) \o rest[c]
  <2>1. PICK f : Parsed(p, f, Len(got[c]), sent[c])
    BY <1>3 DEF ReadInv
  <2>2. Unread(c)' = q
    BY <1>5, <1>7 DEF Unread
  <2>3. /\ inbox[c] \in Seq(Parts) /\ rest[c] \in Seq(Parts) /\ sent[c] \in Seq(DOMAIN Samples)
        /\ got[c] \in Seq(DOMAIN Samples \cup {"?"})
    BY DEF ClientOK
  <2>4. m.n \in {1, 2} /\ m.n <= Len(inbox[c]) /\ Len(inbox[c]) \in Nat
    BY <1>2, <2>3
  <2>0. p = inbox[c] \o rest[c] /\ m.n \in Nat
    BY <2>4 DEF Unread
  <2>5. p \in Seq(Parts) /\ p[1] = inbox[c][1] /\ Len(p) = Len(inbox[c]) + Len(rest[c])
    <3> DEFINE u == inbox[c]
               v == rest[c]
    <3>1. u \in Seq(Parts) /\ v \in Seq(Parts) /\ u # <<>>
      BY <1>2, <2>3
    <3> HIDE DEF u, v
    <3>2. u \o v \in Seq(Parts) /\ (u \o v)[1] = u[1] /\ Len(u \o v) = Len(u) + Len(v)
      BY <3>1, Joined
    <3>3. QED
      BY <2>0, <3>2 DEF u, v
  <2>6. /\ q \in Seq(Parts) /\ Len(q) = Len(p) - m.n
        /\ \A i \in 1..Len(q) : q[i] = p[i + m.n]
    <3> DEFINE u == inbox[c]
               v == rest[c]
               k == m.n
    <3>1. u \in Seq(Parts) /\ v \in Seq(Parts) /\ k \in Nat /\ k <= Len(u)
      BY <2>0, <2>3, <2>4
    <3>2. p = u \o v /\ q = SubSeq(u, k + 1, Len(u)) \o v
      BY <2>0
    <3> HIDE DEF u, v, k, p, q
    <3>3. LET w == SubSeq(u, k + 1, Len(u)) \o v
          IN  /\ w \in Seq(Parts) /\ Len(w) = Len(u \o v) - k
              /\ \A i \in 1..Len(w) : w[i] = (u \o v)[i + k]
      BY <3>1, Dropped
    <3>4. q \in Seq(Parts) /\ Len(q) = Len(p) - k /\ \A i \in 1..Len(q) : q[i] = p[i + k]
      BY <3>2, <3>3, Zenon
    <3>5. QED
      BY <3>4 DEF k
  <2> HIDE DEF p, q
  <2>7. Len(got[c]) \in Nat /\ Len(got'[c]) = Len(got[c]) + 1
    BY <1>7, <2>3
  <2>8. m.n <= Len(p) /\ m.n = IF TwoParts(p[1].of) THEN 2 ELSE 1
    <3>1. Len(rest[c]) \in Nat
      BY <2>3
    <3>2. m.n <= Len(p)
      <4>1. \A a \in {1, 2} : \A x, y \in Nat : a <= x => a <= x + y
        OBVIOUS
      <4>2. m.n <= Len(inbox[c]) + Len(rest[c])
        BY <2>4, <3>1, <4>1, Zenon
      <4>3. QED
        BY <2>5, <4>2, Zenon
    <3>3. QED
      BY <1>2, <2>5, <3>2, Zenon
  <2>9. \E h : Parsed(q, h, Len(got[c]) + 1, sent[c])
    BY <2>1, <2>3, <2>4, <2>5, <2>6, <2>7, <2>8, ParsedLess
  <2>10. QED
    BY <1>5, <2>2, <2>7, <2>9
<1>9. ASSUME NEW d \in Conn \ {c}, Receives(d)
      PROVE  \E f : Parsed(Unread(d)', f, Len(got'[d]), sent'[d])
  <2>1. Unread(d)' = Unread(d) /\ sent'[d] = sent[d] /\ got'[d] = got[d]
    BY <1>5, <1>7 DEF Unread
  <2>2. QED
    BY <1>9, <2>1 DEF ReadInv
<1>10. \A d \in Conn : Receives(d)' <=> Receives(d)
  BY <1>5 DEF Receives
<1>11. QED
  BY <1>6, <1>8, <1>9, <1>10 DEF ReadInv

LEMMA ReadStep == Types /\ ClientOK /\ ReadInv /\ [Next]_sessVars => ReadInv'
<1> SUFFICES ASSUME Types, ClientOK, ReadInv, [Next]_sessVars PROVE ReadInv'
  OBVIOUS
<1> DEFINE P == ReadInv'
<1>1. ASSUME UNCHANGED <<inbox, rest, sent, got>>, \A d \in Conn : Receives(d)' => Receives(d)
      PROVE  P
  BY <1>1, ReadStays DEF Unread
<1>2. ASSUME UNCHANGED sessVars PROVE P
  BY <1>1, <1>2 DEF sessVars, taskVars, clientVars, Receives
<1>3. ASSUME NEW c \in Conn, \E s \in DOMAIN Samples : Send(c, s) PROVE P
  BY <1>3, SendStep
<1>4. ASSUME NEW c \in Conn, SendRest(c) PROVE P
  <2>1. /\ inbox' = [inbox EXCEPT ![c] = @ \o rest[c]] /\ rest' = [rest EXCEPT ![c] = <<>>]
        /\ UNCHANGED <<task, sent, got>>
    BY <1>4 DEF SendRest, taskVars
  <2>2. /\ inbox'[c] = inbox[c] \o rest[c] /\ rest'[c] = <<>>
        /\ \A d \in Conn \ {c} : inbox'[d] = inbox[d] /\ rest'[d] = rest[d]
        /\ inbox[c] \in Seq(Parts) /\ rest[c] \in Seq(Parts)
    BY <2>1 DEF ClientOK
  <2>3. ASSUME NEW d \in Conn PROVE Unread(d)' = Unread(d)
    <3>1. CASE d = c
      <4>1. inbox[c] \o rest[c] \in Seq(Parts)
        BY <2>2
      <4>2. (inbox[c] \o rest[c]) \o <<>> = inbox[c] \o rest[c]
        BY <4>1, ConcatEmptySeq
      <4>3. QED
        BY <2>2, <3>1, <4>2 DEF Unread
    <3>2. CASE d # c
      BY <2>2, <3>2 DEF Unread
    <3>3. QED
      BY <3>1, <3>2
  <2>4. QED
    BY <2>1, <2>3, ReadStays DEF Receives
<1>5. ASSUME NEW c \in Conn, Quit(c) PROVE P
  BY <1>1, <1>5 DEF Quit, taskVars, Receives
<1>6. ASSUME NEW c \in Conn, Read(c) PROVE P
  BY <1>6, ReadStepOne
<1>7. ASSUME NEW c \in Conn, ReadBad(c) PROVE P
  <2>1. /\ Running(c) /\ Arrived(c) # Waiting /\ UNCHANGED <<inbox, rest, sent>>
        /\ task' = [task EXCEPT ![c] = "over"]
        /\ got' = [got EXCEPT ![c] = Append(@, Arrived(c).of)]
    BY <1>7 DEF ReadBad, End, clientVars
  <2>2. Receives(c)
    BY <2>1 DEF Running, Receives
  <2>3. InStep'
    BY <2>1, <2>2, ArrivesNext, StepsOn DEF ReadInv
  <2>4. /\ ~Receives(c)'
        /\ \A d \in Conn \ {c} : task'[d] = task[d] /\ got'[d] = got[d]
    <3>1. task'[c] = "over" /\ \A d \in Conn \ {c} : task'[d] = task[d]
      BY <2>1, TaskGoes
    <3>2. \A d \in Conn \ {c} : got'[d] = got[d]
      BY <2>1 DEF ClientOK
    <3>3. QED
      BY <3>1, <3>2 DEF Receives
  <2>5. ASSUME NEW d \in Conn, Receives(d)'
        PROVE  \E f : Parsed(Unread(d)', f, Len(got'[d]), sent'[d])
    <3>1. d # c /\ Receives(d)
      BY <2>4, <2>5 DEF Receives
    <3>2. Unread(d)' = Unread(d) /\ got'[d] = got[d] /\ sent' = sent
      BY <2>1, <2>4, <3>1 DEF Unread
    <3>3. QED
      BY <3>1, <3>2 DEF ReadInv
  <2>6. QED
    BY <2>3, <2>5 DEF ReadInv
<1>8. ASSUME NEW c \in Conn, NEW how, End(c, how), got' = got PROVE P
  <2>1. task' = [task EXCEPT ![c] = "over"] /\ UNCHANGED <<inbox, rest, sent>>
    BY <1>8 DEF End, clientVars
  <2>2. \A d \in Conn : Receives(d)' => Receives(d)
    BY <2>1, TaskGoes DEF Receives
  <2>3. QED
    BY <1>1, <1>8, <2>1, <2>2
<1>9. ASSUME NEW c \in Conn, WriteFail(c) \/ ReadEof(c) \/ Shut(c) PROVE P
  BY <1>8, <1>9 DEF WriteFail, ReadEof, Shut
<1>10. ASSUME NEW c \in Conn, DetailsEnd(c) PROVE P
  <2>1. /\ task' = [task EXCEPT ![c] = "loop"] /\ task[c] = "details"
        /\ UNCHANGED <<inbox, rest, sent, got>>
    BY <1>10 DEF DetailsEnd, clientVars, Types, TypeOK
  <2>2. \A d \in Conn : Receives(d)' => Receives(d)
    BY <2>1, TaskGoes DEF Receives
  <2>3. QED
    BY <1>1, <2>1, <2>2
<1>11. ASSUME NEW c \in Conn, WritePanic(c) \/ Close(c) \/ Left(c) PROVE P
  <2>1. /\ \E to \in {"dead", "left", "gone"} : task' = [task EXCEPT ![c] = to]
        /\ UNCHANGED <<inbox, rest, sent, got>>
    BY <1>11 DEF WritePanic, Close, Left, clientVars
  <2>2. \A d \in Conn : Receives(d)' => Receives(d)
    BY <2>1, TaskGoes DEF Receives
  <2>3. QED
    BY <1>1, <2>1, <2>2
<1>12. ASSUME NEW c \in Conn,
              \/ DetailsBegin(c) \/ WriteSkip(c) \/ WriteBegin(c) \/ WriteEnd(c)
              \/ PongBegin(c) \/ PongEnd(c) \/ Shutdown(c) \/ Cleanup(c)
       PROVE  P
  <2>1. UNCHANGED <<task, inbox, rest, sent, got>>
    BY <1>12 DEF DetailsBegin, WriteSkip, WriteBegin, WriteEnd, PongBegin, PongEnd, Shutdown,
       Cleanup, taskVars, clientVars
  <2>2. QED
    BY <1>1, <2>1 DEF Receives
<1>13. QED
  BY <1>2, <1>3, <1>4, <1>5, <1>6, <1>7, <1>9, <1>10, <1>11, <1>12, Steps

-----------------------------------------------------------------------------
(* What is relayed.                                                        *)

\* What has been sent stays so.
LEMMA SentStays ==
  ASSUME ClientOK, NEW c \in Conn, NEW s, sent' = [sent EXCEPT ![c] = Append(@, s)],
         NEW f, f.by \in Conn, Sourced(f)
  PROVE  Sourced(f)'
<1>1. CASE f.of = "leave"
  BY <1>1 DEF Sourced
<1>2. CASE f.by # c
  BY <1>2 DEF Sourced, ClientOK
<1>3. CASE f.of # "leave" /\ f.by = c
  <2>1. PICK n \in 1..Len(sent[c]) : sent[c][n] = f.of
    BY <1>3 DEF Sourced
  <2>2. sent[c] \in Seq(DOMAIN Samples) /\ sent'[c] = Append(sent[c], s)
    BY DEF ClientOK
  <2>3. n \in 1..Len(sent'[c]) /\ sent'[c][n] = f.of
    BY <2>1, <2>2
  <2>4. QED
    BY <1>3, <2>3 DEF Sourced
<1>4. QED
  BY <1>1, <1>2, <1>3

\* Nothing is sent, and every new item of a queue or a stream is in order.
LEMMA FramesKept ==
  ASSUME FrameInv, version' = version, sent' = sent,
         \A d \in Conn : \A i \in 1..Len(queue'[d]) :
           (\E j \in 1..Len(queue[d]) : queue[d][j] = queue'[d][i]) \/ Sourced(queue'[d][i]),
         \A d \in Conn : \A i \in 1..Len(wire'[d]) :
           \/ \E j \in 1..Len(wire[d]) : wire[d][j] = wire'[d][i]
           \/ wire'[d][i].k = "frame" => Fit(d, wire'[d][i])
  PROVE  FrameInv'
<1>1. ASSUME NEW d \in Conn, NEW i \in 1..Len(queue'[d]) PROVE Sourced(queue[d][i])'
  <2>1. Sourced(queue'[d][i])
    BY DEF FrameInv, QueueAt
  <2>2. QED
    BY <2>1 DEF Sourced
<1>2. ASSUME NEW d \in Conn, NEW i \in 1..Len(wire'[d]), wire'[d][i].k = "frame"
      PROVE  Fit(d, wire[d][i])'
  <2>1. Fit(d, wire'[d][i])
    BY <1>2 DEF FrameInv, FramesAt
  <2>2. QED
    BY <2>1 DEF Fit, Sourced
<1>3. QED
  BY <1>1, <1>2 DEF FrameInv, QueueAt, FramesAt

\* Queues to which nothing but an action in order has been added.
LEMMA GrownQueues ==
  ASSUME QueueOK, NEW f, NEW by, Grown(f, by), Sourced([of |-> f, by |-> by])
  PROVE  \A d \in Conn : \A i \in 1..Len(queue'[d]) :
           (\E j \in 1..Len(queue[d]) : queue[d][j] = queue'[d][i]) \/ Sourced(queue'[d][i])
<1> SUFFICES ASSUME NEW d \in Conn, NEW i \in 1..Len(queue'[d])
             PROVE  \/ \E j \in 1..Len(queue[d]) : queue[d][j] = queue'[d][i]
                    \/ Sourced(queue'[d][i])
  OBVIOUS
<1>1. queue[d] \in Seq(Queued)
  BY DEF QueueOK
<1>2. CASE queue'[d] = queue[d]
  BY <1>2
<1>3. CASE queue'[d] = Append(queue[d], [of |-> f, by |-> by])
  <2>1. CASE i \in 1..Len(queue[d])
    BY <1>1, <1>3, <2>1
  <2>2. CASE i = Len(queue[d]) + 1
    BY <1>1, <1>3, <2>2
  <2>3. QED
    BY <1>1, <1>3, <2>1, <2>2
<1>4. QED
  BY <1>2, <1>3 DEF Grown

LEMMA GrownInOrder ==
  ASSUME QueueOK, FrameInv, NEW f, NEW by, Grown(f, by), Sourced([of |-> f, by |-> by]),
         UNCHANGED <<version, sent, wire>>
  PROVE  FrameInv'
BY GrownQueues, FramesKept

\* Queues that are emptied from the front hold nothing new.
LEMMA NothingQueued ==
  ASSUME QueueOK, NEW c \in Conn, queue' = queue \/ queue' = [queue EXCEPT ![c] = <<>>]
                                   \/ (queue[c] # <<>> /\ Pop(c))
  PROVE  \A d \in Conn : \A i \in 1..Len(queue'[d]) :
           \E j \in 1..Len(queue[d]) : queue[d][j] = queue'[d][i]
<1> SUFFICES ASSUME NEW d \in Conn, NEW i \in 1..Len(queue'[d])
             PROVE  \E j \in 1..Len(queue[d]) : queue[d][j] = queue'[d][i]
  OBVIOUS
<1>1. queue[d] \in Seq(Queued)
  BY DEF QueueOK
<1>2. CASE queue'[d] = queue[d]
  BY <1>2
<1>3. CASE queue'[d] = <<>>
  BY <1>3
<1>4. CASE queue[d] # <<>> /\ queue'[d] = Tail(queue[d])
  <2>1. i + 1 \in 1..Len(queue[d]) /\ queue'[d][i] = queue[d][i + 1]
    BY <1>1, <1>4
  <2>2. QED
    BY <2>1
<1>5. QED
  BY <1>2, <1>3, <1>4 DEF Pop, QueueOK

\* What is added to a stream that is no frame.
LEMMA NothingFramed ==
  ASSUME WireInv, NEW c \in Conn, NEW x \in {Part, Err},
         wire' = wire \/ wire' = [wire EXCEPT ![c] = Append(@, x)]
  PROVE  \A d \in Conn : \A i \in 1..Len(wire'[d]) :
           \/ \E j \in 1..Len(wire[d]) : wire[d][j] = wire'[d][i]
           \/ wire'[d][i].k = "frame" => Fit(d, wire'[d][i])
<1> SUFFICES ASSUME NEW d \in Conn, NEW i \in 1..Len(wire'[d])
             PROVE  \/ \E j \in 1..Len(wire[d]) : wire[d][j] = wire'[d][i]
                    \/ wire'[d][i].k # "frame"
  OBVIOUS
<1>1. wire[d] \in Seq(Items)
  BY DEF WireInv
<1>2. x.k # "frame"
  BY DEF Part, Err
<1>3. CASE wire'[d] = wire[d]
  BY <1>3
<1>4. CASE wire'[d] = Append(wire[d], x)
  <2>1. CASE i \in 1..Len(wire[d])
    BY <1>1, <1>4, <2>1
  <2>2. CASE i = Len(wire[d]) + 1
    BY <1>1, <1>2, <1>4, <2>2
  <2>3. QED
    BY <1>1, <1>4, <2>1, <2>2
<1>5. QED
  BY <1>3, <1>4 DEF WireInv

\* A frame, or the details, in the place of its part.
LEMMA Finished ==
  ASSUME WireInv, NEW c \in Conn, holder[c] # "none", NEW item \in Items, Finish(c, item),
         \/ item = RoomDetails /\ task[c] = "details"
         \/ item.k = "frame" /\ task[c] = "loop"
  PROVE  /\ Len(wire'[c]) = Len(wire[c]) /\ Len(wire[c]) # 0
         /\ wire'[c][Len(wire[c])] = item
         /\ \A i \in 1..(Len(wire[c]) - 1) : wire'[c][i] = wire[c][i]
         /\ \A d \in Conn \ {c} : wire'[d] = wire[d]
<1> DEFINE w == wire[c]
           v == Append(Front(w), item)
<1>1. w \in Seq(Items) /\ Shape(w) /\ Open(w)
      /\ (task[c] = "details" => Early(w)) /\ (task[c] = "loop" => Detailed(w))
  BY DEF WireInv, WireAt
<1>2. /\ Last(w) = Part /\ Len(v) = Len(w) /\ v[Len(w)] = item
      /\ \A i \in 1..(Len(w) - 1) : v[i] = w[i]
  BY <1>1, ItemReplaces
<1>3. wire \in [Conn -> Seq(Items)]
  BY DEF WireInv
<1>4. wire' = [wire EXCEPT ![c] = v]
  BY <1>2, <1>3 DEF Finish
<1>5. wire'[c] = v /\ \A d \in Conn \ {c} : wire'[d] = wire[d]
  BY <1>3, <1>4
<1>6. Len(w) # 0
  BY <1>1 DEF Open
<1> HIDE DEF v
<1>7. QED
  BY <1>2, <1>5, <1>6

\* A frame that is complete is in order.
LEMMA FinishFits ==
  ASSUME WireInv, NEW c \in Conn, holder[c] # "none", NEW item \in Items, Finish(c, item),
         \/ item = RoomDetails /\ task[c] = "details"
         \/ item.k = "frame" /\ task[c] = "loop" /\ Fit(c, item)
  PROVE  \A d \in Conn : \A i \in 1..Len(wire'[d]) :
           \/ \E j \in 1..Len(wire[d]) : wire[d][j] = wire'[d][i]
           \/ wire'[d][i].k = "frame" => Fit(d, wire'[d][i])
<1> DEFINE w == wire[c]
           v == wire'[c]
<1>1. w \in Seq(Items)
  BY DEF WireInv
<1>2. /\ Len(v) = Len(w) /\ v[Len(w)] = item
      /\ \A i \in 1..(Len(w) - 1) : v[i] = w[i]
  BY Finished
<1>3. \A d \in Conn \ {c} : wire'[d] = wire[d]
  BY Finished
<1>4. RoomDetails.k = "details"
  BY DEF RoomDetails
<1> HIDE DEF v
<1>5. ASSUME NEW i \in 1..Len(v)
      PROVE  \/ \E j \in 1..Len(w) : w[j] = v[i]
             \/ v[i].k = "frame" => Fit(c, v[i])
  <2>1. CASE i = Len(w)
    BY <1>2, <1>4, <2>1
  <2>2. CASE i # Len(w)
    <3>1. i \in 1..(Len(w) - 1) /\ i \in 1..Len(w)
      BY <1>1, <1>2, <2>2
    <3>2. QED
      BY <1>2, <3>1
  <2>3. QED
    BY <2>1, <2>2
<1>6. QED
  BY <1>3, <1>5 DEF v

LEMMA FrameStep == StreamInv /\ ReadInv /\ FrameInv /\ [Next]_sessVars => FrameInv'
<1> SUFFICES ASSUME Types, ClientOK, WireInv, WriterInv, ReadInv, FrameInv, [Next]_sessVars
             PROVE  FrameInv'
  BY DEF StreamInv
<1> DEFINE P == FrameInv'
<1>0. QueueOK
  BY DEF Types
<1>1. ASSUME UNCHANGED <<version, sent, queue, wire>> PROVE P
  BY <1>1 DEF FrameInv, QueueAt, FramesAt, Fit, Sourced
<1>2. ASSUME UNCHANGED sessVars PROVE P
  BY <1>1, <1>2 DEF sessVars, clientVars
<1>3. ASSUME NEW c \in Conn, \E s \in DOMAIN Samples : Send(c, s) PROVE P
  <2>1. PICK s \in DOMAIN Samples : Send(c, s)
    BY <1>3
  <2>2. sent' = [sent EXCEPT ![c] = Append(@, s)] /\ UNCHANGED <<version, queue, wire>>
    BY <2>1 DEF Send
  <2>3. ASSUME NEW d \in Conn PROVE QueueAt(d)'
    <3> SUFFICES ASSUME NEW i \in 1..Len(queue[d]) PROVE Sourced(queue[d][i])'
      BY <2>2 DEF QueueAt
    <3>1. queue[d][i].by \in Conn
      <4>1. queue[d] \in Seq(Queued)
        BY <1>0 DEF QueueOK
      <4>2. queue[d][i] \in Queued
        BY <4>1
      <4>3. QED
        BY <4>2 DEF Queued
    <3>2. Sourced(queue[d][i])
      BY DEF FrameInv, QueueAt
    <3>3. QED
      BY <2>2, <3>1, <3>2, SentStays DEF Sourced
  <2>4. ASSUME NEW d \in Conn PROVE FramesAt(d)'
    <3> SUFFICES ASSUME NEW i \in 1..Len(wire[d]), wire[d][i].k = "frame"
                 PROVE  Fit(d, wire[d][i])'
      BY <2>2 DEF FramesAt
    <3>1. wire[d][i] \in Frames
      BY DEF WireInv, Items, Part, Err, RoomDetails
    <3>2. Fit(d, wire[d][i]) /\ wire[d][i].by \in Conn
      BY <3>1 DEF FrameInv, FramesAt, Frames
    <3>3. Sourced(wire[d][i]) => Sourced(wire[d][i])'
      BY <2>2, <3>2, SentStays DEF Sourced
    <3>4. QED
      BY <2>2, <3>2, <3>3 DEF Fit
  <2>5. QED
    BY <2>2, <2>3, <2>4 DEF FrameInv
<1>4. ASSUME NEW c \in Conn, SendRest(c) \/ Quit(c) PROVE P
  BY <1>1, <1>4 DEF SendRest, Quit
<1>5. ASSUME NEW c \in Conn, NEW who, Begin(c, who), UNCHANGED <<version, sent, queue>> PROVE P
  <2>1. wire' = [wire EXCEPT ![c] = Append(@, Part)]
    BY <1>5 DEF Begin
  <2>2. QED
    BY <1>0, <1>5, <2>1, NothingQueued, NothingFramed, FramesKept
<1>6. ASSUME NEW c \in Conn, NEW how, End(c, how), wire' = wire PROVE P
  <2>1. queue' = [queue EXCEPT ![c] = <<>>] /\ UNCHANGED <<version, sent>>
    BY <1>6 DEF End, clientVars
  <2>2. QED
    BY <1>0, <1>6, <2>1, NothingQueued, FramesKept
<1>7. ASSUME NEW c \in Conn, wire' = [wire EXCEPT ![c] = Append(@, Err)],
             UNCHANGED <<version, sent, queue>>
      PROVE  P
  BY <1>0, <1>7, NothingQueued, NothingFramed, FramesKept
<1>8. ASSUME NEW c \in Conn, DetailsEnd(c) PROVE P
  <2>1. /\ task[c] = "details" /\ holder[c] # "none" /\ Finish(c, RoomDetails)
        /\ UNCHANGED <<version, sent, queue>> /\ RoomDetails \in Items
    BY <1>8 DEF DetailsEnd, clientVars, Types, TypeOK, Items
  <2>2. QED
    BY <1>0, <2>1, FinishFits, NothingQueued, FramesKept
<1>9. ASSUME NEW c \in Conn, WriteSkip(c) PROVE P
  <2>1. queue[c] # <<>> /\ Pop(c) /\ UNCHANGED <<version, sent, wire>>
    BY <1>9 DEF WriteSkip, clientVars
  <2>2. QED
    BY <1>0, <2>1, NothingQueued, FramesKept
<1>10. ASSUME NEW c \in Conn, WriteEnd(c) PROVE P
  <2> DEFINE f == Frame(Due(c).of, Due(c).by)
  <2>1. /\ holder[c] = "writer" /\ task[c] = "loop" /\ Finish(c, f) /\ Pop(c)
        /\ UNCHANGED <<version, sent>>
    BY <1>10 DEF WriteEnd, clientVars, Types, TypeOK
  <2>2. /\ queue[c] # <<>> /\ version[c] >= MinProtoVersion(Actions[Due(c).of])
        /\ WrittenOf[Due(c).of] # <<>> /\ ~Panics(WrittenOf[Due(c).of])
    BY <2>1 DEF WriterInv, WriterAt
  <2>3. queue[c] \in Seq(Queued) /\ Due(c) = queue[c][1] /\ 1 \in 1..Len(queue[c])
    BY <1>0, <2>2 DEF QueueOK, Due
  <2>4. Due(c) \in Queued /\ Sourced(Due(c))
    BY <2>3 DEF FrameInv, QueueAt
  <2>5. f \in Items /\ f.k = "frame" /\ f.of = Due(c).of /\ f.by = Due(c).by
    BY <2>4 DEF Frame, Items, Frames, Queued
  <2> HIDE DEF f
  <2>6. Fit(c, f)
    BY <2>2, <2>4, <2>5 DEF Fit, Sourced
  <2>7. QED
    BY <1>0, <2>1, <2>2, <2>5, <2>6, FinishFits, NothingQueued, FramesKept
<1>11. ASSUME NEW c \in Conn, Read(c) PROVE P
  <2>1. /\ Grown(Arrived(c).of, c) /\ Running(c) /\ Take(c, Arrived(c))
        /\ Arrived(c).of \in DOMAIN Actions
    BY <1>0, <1>11, Reads DEF Types
  <2>2. Receives(c) /\ Arrived(c) # Waiting
    <3>1. Waiting.of = "" /\ "" \notin DOMAIN Actions
      BY SessionAssumption DEF Waiting
    <3>2. QED
      BY <2>1, <3>1 DEF Running, Receives
  <2>3. Len(got[c]) + 1 \in 1..Len(sent[c]) /\ Arrived(c).of = sent[c][Len(got[c]) + 1]
    BY <2>2, ArrivesNext
  <2>4. Sourced([of |-> Arrived(c).of, by |-> c])
    BY <2>3 DEF Sourced
  <2>5. UNCHANGED <<version, sent, wire>>
    BY <2>1 DEF Take
  <2>6. QED
    BY <1>0, <2>1, <2>4, <2>5, GrownInOrder
<1>12. ASSUME NEW c \in Conn, PongEnd(c) PROVE P
  <2> DEFINE f == Frame("pong", c)
  <2>1. /\ holder[c] # "none" /\ task[c] = "loop" /\ Finish(c, f)
        /\ UNCHANGED <<version, sent, queue>>
    BY <1>12 DEF PongEnd, clientVars, Types, TypeOK
  <2>2. f \in Items /\ f.k = "frame" /\ f.of = "pong"
    BY SessionAssumption DEF Frame, Items, Frames
  <2>3. version[c] >= MinProtoVersion(Actions["pong"])
    <3>1. MinProtoVersion(Actions["pong"]) = 0
      BY SessionAssumption DEF MinProtoVersion
    <3>2. version[c] \in Nat
      BY SessionAssumption DEF FrameInv
    <3>3. QED
      BY <3>1, <3>2
  <2> HIDE DEF f
  <2>4. Fit(c, f)
    BY <2>2, <2>3 DEF Fit
  <2>5. QED
    BY <1>0, <2>1, <2>2, <2>4, FinishFits, NothingQueued, FramesKept
<1>13. ASSUME NEW c \in Conn, Shutdown(c) PROVE P
  <2>1. UNCHANGED <<version, sent, queue>>
    BY <1>13 DEF Shutdown, clientVars
  <2>2. wire' = wire \/ wire' = [wire EXCEPT ![c] = Append(@, Err)]
    BY <1>13 DEF Shutdown
  <2>3. QED
    BY <1>1, <1>7, <2>1, <2>2
<1>14. ASSUME NEW c \in Conn, Close(c) PROVE P
  <2>1. UNCHANGED <<version, sent, queue>>
    BY <1>14 DEF Close, clientVars
  <2>2. wire' = wire \/ wire' = [wire EXCEPT ![c] = Append(@, Err)]
    BY <1>14 DEF Close
  <2>3. QED
    BY <1>1, <1>7, <2>1, <2>2
<1>15. ASSUME NEW c \in Conn, Left(c) PROVE P
  <2>1. Grown("leave", c) /\ UNCHANGED <<version, sent, wire>>
    BY <1>0, <1>15, PlayerLeaves DEF Left, clientVars, Types
  <2>2. Sourced([of |-> "leave", by |-> c])
    BY DEF Sourced
  <2>3. QED
    BY <1>0, <2>1, <2>2, GrownInOrder
<1>16. ASSUME NEW c \in Conn, Cleanup(c) PROVE P
  <2>1. Grown("leave", c) /\ UNCHANGED <<version, sent>>
    BY <1>0, <1>16, PlayerLeaves DEF Cleanup, clientVars, Types
  <2>2. wire' = wire \/ wire' = [wire EXCEPT ![c] = Append(@, Err)]
    BY <1>16 DEF Cleanup
  <2>3. Sourced([of |-> "leave", by |-> c])
    BY DEF Sourced
  <2>4. QED
    BY <1>0, <2>1, <2>2, <2>3, GrownQueues, NothingFramed, FramesKept
<1>17. ASSUME NEW c \in Conn, WriteFail(c) \/ ReadEof(c) \/ ReadBad(c) \/ Shut(c) PROVE P
  BY <1>6, <1>17 DEF WriteFail, ReadEof, ReadBad, Shut
<1>18. ASSUME NEW c \in Conn, DetailsBegin(c) \/ WriteBegin(c) \/ PongBegin(c) PROVE P
  BY <1>5, <1>18 DEF DetailsBegin, WriteBegin, PongBegin, clientVars
<1>19. ASSUME NEW c \in Conn, WritePanic(c) PROVE P
  BY <1>1, <1>19 DEF WritePanic, clientVars
<1>20. QED
  BY <1>2, <1>3, <1>4, <1>8, <1>9, <1>10, <1>11, <1>12, <1>13, <1>14, <1>15, <1>16,
     <1>17, <1>18, <1>19, Steps

-----------------------------------------------------------------------------
(* The order of what is relayed.                                           *)

\* An action that a client has sent, on its way to another or written to it.
Passing(x) == x.k = "frame" /\ x.of \notin {"leave", "pong"}

\* What has been written to a client and what is to be, as if all of it were.
PathOf(w, q) ==
  [i \in 1..(Len(w) + Len(q)) |-> IF i <= Len(w) THEN w[i]
                                  ELSE Frame(q[i - Len(w)].of, q[i - Len(w)].by)]

\* What p, of n items, has of player d's actions is what has been read from
\* him, g, in the order in which it was read: item i is the f[i]-th of them.
Follows(p, n, g, d, f) ==
  /\ \A i \in 1..n : Passing(p[i]) /\ p[i].by = d => f[i] \in 1..Len(g) /\ g[f[i]] = p[i].of
  /\ \A i, j \in 1..n : /\ Passing(p[i]) /\ p[i].by = d
                        /\ Passing(p[j]) /\ p[j].by = d /\ i < j
                        => f[i] < f[j]

InOrder(w, q, g, d) == \E f : Follows(PathOf(w, q), Len(w) + Len(q), g, d, f)

OrderInv == \A c, d \in Conn : InOrder(wire[c], queue[c], got[d], d)

\* h is g, or g and more.
Longer(g, h) == \A i \in 1..Len(g) : i \in 1..Len(h) /\ h[i] = g[i]

LEMMA PathItems ==
  ASSUME NEW w \in Seq(Items), NEW q \in Seq(Queued)
  PROVE  /\ Len(w) \in Nat /\ Len(q) \in Nat
         /\ \A i \in 1..Len(w) : PathOf(w, q)[i] = w[i]
         /\ \A i \in 1..Len(q) : PathOf(w, q)[Len(w) + i] = Frame(q[i].of, q[i].by)
BY DEF PathOf

\* Of what follows a player's actions, whatever part of it does.
LEMMA Thinned ==
  ASSUME NEW w, NEW q, NEW v, NEW r, NEW e, NEW g, NEW h, NEW d,
         InOrder(w, q, g, d), Longer(g, h),
         \A i \in 1..(Len(v) + Len(r)) : Passing(PathOf(v, r)[i]) =>
           e[i] \in 1..(Len(w) + Len(q)) /\ PathOf(w, q)[e[i]] = PathOf(v, r)[i],
         \A i, j \in 1..(Len(v) + Len(r)) :
           Passing(PathOf(v, r)[i]) /\ Passing(PathOf(v, r)[j]) /\ i < j => e[i] < e[j]
  PROVE  InOrder(v, r, h, d)
<1> DEFINE p == PathOf(w, q)
           s == PathOf(v, r)
           n == Len(w) + Len(q)
           m == Len(v) + Len(r)
<1>1. PICK f : Follows(p, n, g, d, f)
  BY DEF InOrder
<1>2. /\ \A i \in 1..m : Passing(s[i]) => e[i] \in 1..n /\ p[e[i]] = s[i]
      /\ \A i, j \in 1..m : Passing(s[i]) /\ Passing(s[j]) /\ i < j => e[i] < e[j]
  OBVIOUS
<1> DEFINE k == [i \in 1..m |-> f[e[i]]]
<1>3. Follows(s, m, h, d, k)
  <2> HIDE DEF p, s, n, m
  <2>1. ASSUME NEW i \in 1..m, Passing(s[i]), s[i].by = d
        PROVE  k[i] \in 1..Len(h) /\ h[k[i]] = s[i].of
    <3>1. k[i] = f[e[i]] /\ e[i] \in 1..n /\ p[e[i]] = s[i]
      BY <1>2, <2>1
    <3>2. f[e[i]] \in 1..Len(g) /\ g[f[e[i]]] = s[i].of
      BY <1>1, <2>1, <3>1 DEF Follows
    <3>3. QED
      BY <3>1, <3>2 DEF Longer
  <2>2. ASSUME NEW i \in 1..m, NEW j \in 1..m, Passing(s[i]), s[i].by = d,
               Passing(s[j]), s[j].by = d, i < j
        PROVE  k[i] < k[j]
    <3>1. /\ k[i] = f[e[i]] /\ e[i] \in 1..n /\ p[e[i]] = s[i]
          /\ k[j] = f[e[j]] /\ e[j] \in 1..n /\ p[e[j]] = s[j] /\ e[i] < e[j]
      BY <1>2, <2>2
    <3>2. QED
      BY <1>1, <2>2, <3>1 DEF Follows
  <2> HIDE DEF k
  <2>3. QED
    BY <2>1, <2>2 DEF Follows
<1>4. QED
  BY <1>3 DEF InOrder

\* What is added that no client has sent changes no order.
LEMMA NothingPasses ==
  ASSUME NEW w \in Seq(Items), NEW q \in Seq(Queued),
         NEW v \in Seq(Items), NEW r \in Seq(Queued), NEW g, NEW h, NEW d, NEW by,
         InOrder(w, q, g, d), Longer(g, h),
         v = w \/ v = Append(w, Part) \/ v = Append(w, Err),
         r = q \/ r = <<>> \/ r = Append(q, [of |-> "leave", by |-> by])
  PROVE  InOrder(v, r, h, d)
<1> DEFINE p == PathOf(w, q)
           s == PathOf(v, r)
           m == Len(v) + Len(r)
           e == [i \in 1..m |-> IF i <= Len(w) THEN i ELSE i - (Len(v) - Len(w))]
<1>1. /\ Len(w) \in Nat /\ Len(q) \in Nat /\ Len(v) \in Nat /\ Len(r) \in Nat
      /\ \A i \in 1..Len(w) : p[i] = w[i]
      /\ \A i \in 1..Len(q) : p[Len(w) + i] = Frame(q[i].of, q[i].by)
      /\ \A i \in 1..Len(v) : s[i] = v[i]
      /\ \A i \in 1..Len(r) : s[Len(v) + i] = Frame(r[i].of, r[i].by)
  BY PathItems
<1>2. /\ Len(v) \in {Len(w), Len(w) + 1}
      /\ \A i \in 1..Len(w) : i \in 1..Len(v) /\ v[i] = w[i]
      /\ Len(v) = Len(w) + 1 => v[Len(v)] \in {Part, Err}
  <2>1. CASE v = w
    BY <1>1, <2>1
  <2>2. CASE \E x \in {Part, Err} : v = Append(w, x)
    BY <1>1, <2>2
  <2>3. QED
    BY <2>1, <2>2
<1>3. /\ Len(r) \in 0..(Len(q) + 1)
      /\ \A i \in 1..Len(r) : i <= Len(q) => r[i] = q[i]
      /\ Len(r) = Len(q) + 1 => r[Len(r)].of = "leave"
  <2>1. CASE r = q
    BY <1>1, <2>1
  <2>2. CASE r = <<>>
    BY <1>1, <2>2
  <2>3. CASE r = Append(q, [of |-> "leave", by |-> by])
    BY <1>1, <2>3
  <2>4. QED
    BY <2>1, <2>2, <2>3
<1> HIDE DEF p, s
<1>4. ASSUME NEW i \in 1..m, Passing(s[i])
      PROVE  /\ e[i] \in 1..(Len(w) + Len(q)) /\ p[e[i]] = s[i]
             /\ i <= Len(w) \/ i > Len(v)
  <2>1. CASE i <= Len(w)
    BY <1>1, <1>2, <2>1
  <2>2. CASE i > Len(w) /\ i <= Len(v)
    <3>1. i = Len(v) /\ Len(v) = Len(w) + 1
      BY <1>1, <1>2, <2>2
    <3>2. s[i] \in {Part, Err}
      BY <1>1, <1>2, <3>1
    <3>3. QED
      BY <1>4, <3>2 DEF Passing, Part, Err
  <2>3. CASE i > Len(v)
    <3> DEFINE j == i - Len(v)
    <3>1. j \in 1..Len(r) /\ i = Len(v) + j /\ i > Len(w) /\ e[i] = Len(w) + j
      BY <1>1, <1>2, <2>3
    <3> HIDE DEF j, e
    <3>2. s[i] = Frame(r[j].of, r[j].by)
      BY <1>1, <3>1
    <3>3. r[j].of # "leave"
      BY <1>4, <3>2 DEF Passing, Frame
    <3>4. j \in 1..Len(q)
      BY <1>1, <1>3, <3>1, <3>3
    <3>5. r[j] = q[j] /\ p[Len(w) + j] = Frame(q[j].of, q[j].by)
      BY <1>1, <1>3, <3>1, <3>4
    <3>6. e[i] \in 1..(Len(w) + Len(q))
      BY <1>1, <3>1, <3>4
    <3>7. QED
      BY <2>3, <3>1, <3>2, <3>5, <3>6
  <2>4. QED
    BY <1>1, <1>2, <2>1, <2>2, <2>3
<1>5. ASSUME NEW i \in 1..m, NEW j \in 1..m, Passing(s[i]), Passing(s[j]), i < j
      PROVE  e[i] < e[j]
  BY <1>1, <1>2, <1>4, <1>5
<1> HIDE DEF e, m
<1>6. QED
  BY <1>4, <1>5, Thinned DEF p, s, m

\* A part that becomes the details or an answer changes no order.
LEMMA NothingFinished ==
  ASSUME NEW w \in Seq(Items), NEW q \in Seq(Queued), NEW v \in Seq(Items),
         NEW g, NEW d, InOrder(w, q, g, d),
         Len(v) = Len(w), Len(w) # 0, ~Passing(v[Len(w)]),
         \A i \in 1..(Len(w) - 1) : v[i] = w[i]
  PROVE  InOrder(v, q, g, d)
<1> DEFINE p == PathOf(w, q)
           s == PathOf(v, q)
           m == Len(v) + Len(q)
           e == [i \in 1..m |-> i]
<1>1. /\ Len(w) \in Nat /\ Len(q) \in Nat
      /\ \A i \in 1..Len(w) : p[i] = w[i]
      /\ \A i \in 1..Len(q) : p[Len(w) + i] = Frame(q[i].of, q[i].by)
      /\ \A i \in 1..Len(v) : s[i] = v[i]
      /\ \A i \in 1..Len(q) : s[Len(v) + i] = Frame(q[i].of, q[i].by)
  BY PathItems
<1> HIDE DEF p, s
<1>2. ASSUME NEW i \in 1..m, Passing(s[i]) PROVE p[i] = s[i]
  <2>1. CASE i \in 1..(Len(w) - 1)
    BY <1>1, <2>1
  <2>2. CASE i = Len(w)
    BY <1>1, <1>2, <2>2
  <2>3. CASE i > Len(w)
    <3> DEFINE j == i - Len(w)
    <3>1. j \in 1..Len(q) /\ i = Len(w) + j
      BY <1>1, <2>3
    <3> HIDE DEF j
    <3>2. QED
      BY <1>1, <3>1
  <2>4. QED
    BY <1>1, <2>1, <2>2, <2>3
<1>3. /\ \A i \in 1..m : e[i] = i
      /\ m = Len(w) + Len(q)
  OBVIOUS
<1> HIDE DEF e
<1>4. /\ \A i \in 1..m : Passing(s[i]) => e[i] \in 1..(Len(w) + Len(q)) /\ p[e[i]] = s[i]
      /\ \A i, j \in 1..m : Passing(s[i]) /\ Passing(s[j]) /\ i < j => e[i] < e[j]
  BY <1>2, <1>3
<1>5. Longer(g, g)
  BY DEF Longer
<1> HIDE DEF m
<1>6. QED
  BY <1>4, <1>5, Thinned DEF p, s, m

\* An action that is taken off the queue and not written.
LEMMA OnePassedOver ==
  ASSUME NEW w \in Seq(Items), NEW q \in Seq(Queued), q # <<>>,
         NEW g, NEW d, InOrder(w, q, g, d)
  PROVE  InOrder(w, Tail(q), g, d)
<1> DEFINE r == Tail(q)
           p == PathOf(w, q)
           s == PathOf(w, r)
           m == Len(w) + Len(r)
           e == [i \in 1..m |-> IF i <= Len(w) THEN i ELSE i + 1]
<1>1. /\ r \in Seq(Queued) /\ Len(q) = Len(r) + 1
      /\ \A i \in 1..Len(r) : r[i] = q[i + 1]
  OBVIOUS
<1> HIDE DEF r
<1>2. /\ Len(w) \in Nat /\ Len(q) \in Nat /\ Len(r) \in Nat
      /\ \A i \in 1..Len(w) : p[i] = w[i] /\ s[i] = w[i]
      /\ \A i \in 1..Len(q) : p[Len(w) + i] = Frame(q[i].of, q[i].by)
      /\ \A i \in 1..Len(r) : s[Len(w) + i] = Frame(r[i].of, r[i].by)
  BY <1>1, PathItems
<1> HIDE DEF p, s
<1>3. ASSUME NEW i \in 1..m PROVE e[i] \in 1..(Len(w) + Len(q)) /\ p[e[i]] = s[i]
  <2>1. CASE i <= Len(w)
    BY <1>1, <1>2, <2>1
  <2>2. CASE i > Len(w)
    <3> DEFINE j == i - Len(w)
    <3>1. /\ j \in 1..Len(r) /\ i = Len(w) + j /\ e[i] = Len(w) + (j + 1)
          /\ j + 1 \in 1..Len(q) /\ e[i] \in 1..(Len(w) + Len(q))
      BY <1>1, <1>2, <2>2
    <3> HIDE DEF j, e
    <3>2. s[i] = Frame(r[j].of, r[j].by) /\ r[j] = q[j + 1]
      BY <1>1, <1>2, <3>1
    <3>3. p[e[i]] = Frame(q[j + 1].of, q[j + 1].by)
      BY <1>2, <3>1
    <3>4. QED
      BY <3>1, <3>2, <3>3
  <2>3. QED
    BY <1>2, <2>1, <2>2
<1>4. \A i, j \in 1..m : i < j => e[i] < e[j]
  BY <1>2
<1>5. Longer(g, g)
  BY DEF Longer
<1> HIDE DEF e, m
<1>6. InOrder(w, r, g, d)
  BY <1>3, <1>4, <1>5, Thinned DEF p, s, m
<1>7. QED
  BY <1>6 DEF r

\* One that is written is where it was.
LEMMA OneWritten ==
  ASSUME NEW w \in Seq(Items), NEW q \in Seq(Queued), q # <<>>, NEW v \in Seq(Items),
         NEW g, NEW d, InOrder(w, q, g, d),
         Len(v) = Len(w), Len(w) # 0, v[Len(w)] = Frame(q[1].of, q[1].by),
         \A i \in 1..(Len(w) - 1) : v[i] = w[i]
  PROVE  InOrder(v, Tail(q), g, d)
<1> DEFINE r == Tail(q)
           p == PathOf(w, q)
           s == PathOf(v, r)
           m == Len(v) + Len(r)
           e == [i \in 1..m |-> IF i < Len(w) THEN i ELSE i + 1]
<1>1. /\ r \in Seq(Queued) /\ Len(q) = Len(r) + 1
      /\ \A i \in 1..Len(r) : r[i] = q[i + 1]
  OBVIOUS
<1> HIDE DEF r
<1>2. /\ Len(w) \in Nat \ {0} /\ Len(q) \in Nat /\ Len(r) \in Nat
      /\ \A i \in 1..Len(w) : p[i] = w[i]
      /\ \A i \in 1..Len(q) : p[Len(w) + i] = Frame(q[i].of, q[i].by)
      /\ \A i \in 1..Len(v) : s[i] = v[i]
      /\ \A i \in 1..Len(r) : s[Len(v) + i] = Frame(r[i].of, r[i].by)
  BY <1>1, PathItems
<1> HIDE DEF p, s
<1>3. ASSUME NEW i \in 1..m PROVE e[i] \in 1..(Len(w) + Len(q)) /\ p[e[i]] = s[i]
  <2>1. CASE i < Len(w)
    BY <1>1, <1>2, <2>1
  <2>2. CASE i = Len(w)
    <3>1. e[i] = Len(w) + 1 /\ 1 \in 1..Len(q) /\ e[i] \in 1..(Len(w) + Len(q))
      BY <1>1, <1>2, <2>2
    <3> HIDE DEF e
    <3>2. QED
      BY <1>2, <2>2, <3>1
  <2>3. CASE i > Len(w)
    <3> DEFINE j == i - Len(w)
    <3>1. /\ j \in 1..Len(r) /\ i = Len(v) + j /\ e[i] = Len(w) + (j + 1)
          /\ j + 1 \in 1..Len(q) /\ e[i] \in 1..(Len(w) + Len(q))
      BY <1>1, <1>2, <2>3
    <3> HIDE DEF j, e
    <3>2. s[i] = Frame(r[j].of, r[j].by) /\ r[j] = q[j + 1]
      BY <1>1, <1>2, <3>1
    <3>3. p[e[i]] = Frame(q[j + 1].of, q[j + 1].by)
      BY <1>2, <3>1
    <3>4. QED
      BY <3>1, <3>2, <3>3
  <2>4. QED
    BY <1>2, <2>1, <2>2, <2>3
<1>4. \A i, j \in 1..m : i < j => e[i] < e[j]
  BY <1>2
<1>5. Longer(g, g)
  BY DEF Longer
<1> HIDE DEF e, m
<1>6. InOrder(v, r, g, d)
  BY <1>3, <1>4, <1>5, Thinned DEF p, s, m
<1>7. QED
  BY <1>6 DEF r

\* One that is read goes behind all that were.
LEMMA OneQueued ==
  ASSUME NEW w \in Seq(Items), NEW q \in Seq(Queued), NEW of \in DOMAIN Actions,
         NEW by \in Conn, NEW S, NEW g \in Seq(S), NEW h, NEW d,
         InOrder(w, q, g, d), h = IF d = by THEN Append(g, of) ELSE g
  PROVE  InOrder(w, Append(q, [of |-> of, by |-> by]), h, d)
<1> DEFINE r == Append(q, [of |-> of, by |-> by])
           p == PathOf(w, q)
           s == PathOf(w, r)
           n == Len(w) + Len(q)
           m == Len(w) + Len(r)
<1>1. [of |-> of, by |-> by] \in Queued
  BY DEF Queued
<1>2. /\ r \in Seq(Queued) /\ Len(r) = Len(q) + 1 /\ r[Len(q) + 1] = [of |-> of, by |-> by]
      /\ \A i \in 1..Len(q) : r[i] = q[i]
  BY <1>1
<1> HIDE DEF r
<1>3. /\ Len(w) \in Nat /\ Len(q) \in Nat /\ Len(r) \in Nat
      /\ \A i \in 1..Len(w) : p[i] = w[i] /\ s[i] = w[i]
      /\ \A i \in 1..Len(q) : p[Len(w) + i] = Frame(q[i].of, q[i].by)
      /\ \A i \in 1..Len(r) : s[Len(w) + i] = Frame(r[i].of, r[i].by)
  BY <1>2, PathItems
<1>4. PICK f : Follows(p, n, g, d, f)
  BY DEF InOrder
<1> HIDE DEF p, s
<1>5. n \in Nat /\ m = n + 1
  BY <1>2, <1>3
<1>6. \A i \in 1..n : s[i] = p[i]
  <2> SUFFICES ASSUME NEW i \in 1..n PROVE s[i] = p[i]
    OBVIOUS
  <2>1. CASE i <= Len(w)
    BY <1>3, <2>1
  <2>2. CASE i > Len(w)
    <3> DEFINE j == i - Len(w)
    <3>1. j \in 1..Len(q) /\ j \in 1..Len(r) /\ i = Len(w) + j
      BY <1>2, <1>3, <2>2
    <3> HIDE DEF j
    <3>2. QED
      BY <1>2, <1>3, <3>1
  <2>3. QED
    BY <1>3, <2>1, <2>2
<1>7. s[m].by = by /\ s[m].of = of
  <2>1. m = Len(w) + (Len(q) + 1) /\ Len(q) + 1 \in 1..Len(r)
    BY <1>2, <1>3
  <2>2. s[m] = Frame(r[Len(q) + 1].of, r[Len(q) + 1].by)
    BY <1>3, <2>1
  <2>3. QED
    BY <1>2, <2>2 DEF Frame
<1>8. /\ Len(g) \in Nat /\ \A i \in 1..Len(g) : i \in 1..Len(h) /\ h[i] = g[i]
      /\ d = by => Len(g) + 1 \in 1..Len(h) /\ h[Len(g) + 1] = of
  <2>1. CASE d = by
    BY <2>1
  <2>2. CASE d # by
    BY <2>2
  <2>3. QED
    BY <2>1, <2>2
<1> HIDE DEF n, m
<1> DEFINE k == [i \in 1..m |-> IF i = m THEN Len(g) + 1 ELSE f[i]]
<1>9. ASSUME NEW i \in 1..m, Passing(s[i]), s[i].by = d
      PROVE  /\ k[i] \in 1..Len(h) /\ h[k[i]] = s[i].of
             /\ i # m => k[i] <= Len(g) /\ k[i] = f[i] /\ i \in 1..n /\ k[i] \in Nat
             /\ i = m => k[i] = Len(g) + 1
  <2>1. CASE i = m
    BY <1>7, <1>8, <1>9, <2>1
  <2>2. CASE i # m
    <3>1. i \in 1..n /\ k[i] = f[i]
      BY <1>5, <2>2
    <3>2. s[i] = p[i]
      BY <1>6, <3>1
    <3>3. f[i] \in 1..Len(g) /\ g[f[i]] = s[i].of
      BY <1>4, <1>9, <3>1, <3>2 DEF Follows
    <3>4. QED
      BY <1>8, <2>2, <3>1, <3>3
  <2>3. QED
    BY <2>1, <2>2
<1> HIDE DEF k
<1>10. ASSUME NEW i \in 1..m, NEW j \in 1..m, Passing(s[i]), s[i].by = d,
              Passing(s[j]), s[j].by = d, i < j
       PROVE  k[i] < k[j]
  <2>1. CASE j = m
    <3>1. i # m
      BY <1>5, <1>10, <2>1
    <3>2. QED
      BY <1>8, <1>9, <1>10, <2>1, <3>1
  <2>2. CASE j # m
    <3>1. i # m
      BY <1>5, <1>10, <2>2
    <3>2. k[i] = f[i] /\ k[j] = f[j] /\ i \in 1..n /\ j \in 1..n
      BY <1>9, <1>10, <2>2, <3>1
    <3>3. s[i] = p[i] /\ s[j] = p[j]
      BY <1>6, <3>2
    <3>4. QED
      BY <1>4, <1>10, <3>2, <3>3 DEF Follows
  <2>3. QED
    BY <2>1, <2>2
<1>11. Follows(s, m, h, d, k)
  BY <1>9, <1>10 DEF Follows
<1>12. QED
  BY <1>11 DEF InOrder, s, m, r

\* One more that is read.
LEMMA GotLonger ==
  ASSUME NEW S, NEW c \in Conn, NEW m, got \in [Conn -> Seq(S)],
         got' = [got EXCEPT ![c] = Append(@, m)]
  PROVE  \A d \in Conn : Longer(got[d], got'[d])
<1> SUFFICES ASSUME NEW d \in Conn PROVE Longer(got[d], got'[d])
  OBVIOUS
<1>1. got[d] \in Seq(S)
  OBVIOUS
<1>2. CASE d = c
  <2>1. got'[d] = Append(got[d], m)
    BY <1>2
  <2>2. QED
    BY <1>1, <2>1 DEF Longer
<1>3. CASE d # c
  BY <1>3 DEF Longer
<1>4. QED
  BY <1>2, <1>3

\* What is read from a client may grow, and a client's path may get what passes
\* none of its actions on.
LEMMA QuietStep ==
  ASSUME StreamInv, StreamInv', OrderInv, NEW c \in Conn, NEW by,
         \A d \in Conn : Longer(got[d], got'[d]),
         wire'[c] = wire[c] \/ wire'[c] = Append(wire[c], Part)
                           \/ wire'[c] = Append(wire[c], Err),
         queue'[c] = queue[c] \/ queue'[c] = <<>>
                             \/ queue'[c] = Append(queue[c], [of |-> "leave", by |-> by])
  PROVE  \A d \in Conn : InOrder(wire'[c], queue'[c], got'[d], d)
<1>1. /\ wire[c] \in Seq(Items) /\ wire'[c] \in Seq(Items)
      /\ queue[c] \in Seq(Queued) /\ queue'[c] \in Seq(Queued)
  BY DEF StreamInv, WireInv, Types, QueueOK
<1>2. QED
  BY <1>1, NothingPasses DEF OrderInv

\* As it is with those whom a step does not touch.
LEMMA OthersInOrder ==
  ASSUME StreamInv, StreamInv', OrderInv, NEW c \in Conn, got' = got,
         \A d \in Conn \ {c} : wire'[d] = wire[d] /\ queue'[d] = queue[d],
         \A d \in Conn : InOrder(wire'[c], queue'[c], got[d], d)
  PROVE  OrderInv'
BY DEF OrderInv

LEMMA OrderStep == StreamInv /\ StreamInv' /\ OrderInv /\ [Next]_sessVars => OrderInv'
<1> SUFFICES ASSUME StreamInv, StreamInv', OrderInv, [Next]_sessVars PROVE OrderInv'
  OBVIOUS
<1> DEFINE P == OrderInv'
<1>0. /\ wire \in [Conn -> Seq(Items)] /\ queue \in [Conn -> Seq(Queued)]
      /\ wire' \in [Conn -> Seq(Items)] /\ queue' \in [Conn -> Seq(Queued)]
      /\ got \in [Conn -> Seq(DOMAIN Samples \cup {"?"})]
  BY DEF StreamInv, Types, QueueOK, WireInv, ClientOK
<1>1. ASSUME UNCHANGED <<queue, wire, got>> PROVE P
  BY <1>1 DEF OrderInv
<1>2. ASSUME UNCHANGED sessVars PROVE P
  BY <1>1, <1>2 DEF sessVars
<1>3. ASSUME \A d \in Conn : Longer(got[d], got'[d]),
             \A d \in Conn : \/ wire'[d] = wire[d]
                             \/ wire'[d] = Append(wire[d], Part)
                             \/ wire'[d] = Append(wire[d], Err),
             \A d \in Conn : \/ queue'[d] = queue[d] \/ queue'[d] = <<>>
                             \/ \E by : queue'[d] = Append(queue[d], [of |-> "leave", by |-> by])
      PROVE  P
  BY <1>3, QuietStep DEF OrderInv
<1>4. \A d \in Conn : Longer(got[d], got[d])
  BY DEF Longer
<1>5. ASSUME NEW c \in Conn, (\E s \in DOMAIN Samples : Send(c, s))
                             \/ SendRest(c) \/ Quit(c) \/ WritePanic(c)
      PROVE  P
  BY <1>1, <1>5 DEF Send, SendRest, Quit, WritePanic
<1>6. ASSUME NEW c \in Conn, NEW who, Begin(c, who), UNCHANGED <<queue, got>> PROVE P
  <2>1. \A d \in Conn : wire'[d] = wire[d] \/ wire'[d] = Append(wire[d], Part)
    BY <1>0, <1>6 DEF Begin
  <2>2. QED
    BY <1>3, <1>4, <1>6, <2>1
<1>7. ASSUME NEW c \in Conn, DetailsBegin(c) \/ WriteBegin(c) \/ PongBegin(c) PROVE P
  BY <1>6, <1>7 DEF DetailsBegin, WriteBegin, PongBegin
<1>8. ASSUME NEW c \in Conn, NEW how, End(c, how), wire' = wire,
             \A d \in Conn : Longer(got[d], got'[d])
      PROVE  P
  <2>1. \A d \in Conn : queue'[d] = queue[d] \/ queue'[d] = <<>>
    BY <1>0, <1>8 DEF End
  <2>2. QED
    BY <1>3, <1>8, <2>1
<1>9. ASSUME NEW c \in Conn, WriteFail(c) \/ ReadEof(c) \/ Shut(c) PROVE P
  BY <1>4, <1>8, <1>9 DEF WriteFail, ReadEof, Shut
<1>10. ASSUME NEW c \in Conn, ReadBad(c) PROVE P
  <2>1. /\ End(c, "ERR") /\ wire' = wire
        /\ got' = [got EXCEPT ![c] = Append(@, Arrived(c).of)]
    BY <1>10 DEF ReadBad
  <2>2. \A d \in Conn : Longer(got[d], got'[d])
    BY <1>0, <1>4, <2>1, GotLonger
  <2>3. QED
    BY <1>8, <2>1, <2>2
<1>11. ASSUME NEW c \in Conn, DetailsEnd(c) \/ PongEnd(c) PROVE P
  <2> DEFINE item == IF DetailsEnd(c) THEN RoomDetails ELSE Frame("pong", c)
  <2>1. /\ holder[c] # "none" /\ item \in Items /\ Finish(c, item) /\ ~Passing(item)
        /\ UNCHANGED <<queue, got>>
        /\ \/ item = RoomDetails /\ task[c] = "details"
           \/ item.k = "frame" /\ task[c] = "loop"
    <3>1. CASE DetailsEnd(c)
      BY <3>1 DEF DetailsEnd, StreamInv, Types, TypeOK, Items, RoomDetails, Passing
    <3>2. CASE ~DetailsEnd(c)
      <4>1. PongEnd(c) /\ item = Frame("pong", c)
        BY <1>11, <3>2
      <4> HIDE DEF item
      <4>2. item \in Items /\ item.k = "frame" /\ ~Passing(item)
        BY <4>1, SessionAssumption DEF Frame, Frames, Items, Passing
      <4>3. QED
        BY <4>1, <4>2 DEF PongEnd, StreamInv, Types, TypeOK
    <3>3. QED
      BY <3>1, <3>2
  <2> HIDE DEF item
  <2>2. /\ Len(wire'[c]) = Len(wire[c]) /\ Len(wire[c]) # 0
        /\ wire'[c][Len(wire[c])] = item
        /\ \A i \in 1..(Len(wire[c]) - 1) : wire'[c][i] = wire[c][i]
        /\ \A d \in Conn \ {c} : wire'[d] = wire[d]
    BY <2>1, Finished DEF StreamInv
  <2>3. wire[c] \in Seq(Items) /\ wire'[c] \in Seq(Items) /\ queue[c] \in Seq(Queued)
    BY <1>0
  <2>4. ASSUME NEW d \in Conn PROVE InOrder(wire'[c], queue'[c], got[d], d)
    <3>1. InOrder(wire[c], queue[c], got[d], d) /\ queue' = queue
      BY <2>1 DEF OrderInv
    <3>2. InOrder(wire'[c], queue[c], got[d], d)
      BY <2>1, <2>2, <2>3, <3>1, NothingFinished
    <3>3. QED
      BY <3>1, <3>2
  <2>5. QED
    BY <2>1, <2>2, <2>4, OthersInOrder
<1>12. ASSUME NEW c \in Conn, WriteSkip(c) PROVE P
  <2>1. queue[c] # <<>> /\ Pop(c) /\ UNCHANGED <<wire, got>>
    BY <1>12 DEF WriteSkip
  <2>2. queue'[c] = Tail(queue[c]) /\ \A d \in Conn \ {c} : queue'[d] = queue[d]
    BY <1>0, <2>1 DEF Pop
  <2>3. wire[c] \in Seq(Items) /\ queue[c] \in Seq(Queued)
    BY <1>0
  <2>4. ASSUME NEW d \in Conn PROVE InOrder(wire'[c], queue'[c], got[d], d)
    <3>1. InOrder(wire[c], queue[c], got[d], d)
      BY DEF OrderInv
    <3>2. InOrder(wire[c], Tail(queue[c]), got[d], d)
      BY <2>1, <2>3, <3>1, OnePassedOver
    <3>3. QED
      BY <2>1, <2>2, <3>2
  <2>5. QED
    BY <2>1, <2>2, <2>4, OthersInOrder
<1>13. ASSUME NEW c \in Conn, WriteEnd(c) PROVE P
  <2> DEFINE f == Frame(Due(c).of, Due(c).by)
  <2>1. /\ holder[c] = "writer" /\ task[c] = "loop" /\ Finish(c, f) /\ Pop(c) /\ got' = got
    BY <1>13 DEF WriteEnd, StreamInv, Types, TypeOK
  <2>2. wire[c] \in Seq(Items) /\ wire'[c] \in Seq(Items) /\ queue[c] \in Seq(Queued)
    BY <1>0
  <2>3. queue[c] # <<>>
    BY <2>1 DEF StreamInv, WriterInv, WriterAt
  <2>4. Due(c) = queue[c][1] /\ 1 \in 1..Len(queue[c]) /\ queue[c][1] \in Queued
    BY <2>2, <2>3 DEF Due
  <2>5. f \in Items /\ f.k = "frame" /\ f = Frame(queue[c][1].of, queue[c][1].by)
    BY <2>4 DEF Frame, Items, Frames, Queued
  <2> HIDE DEF f
  <2>6. /\ Len(wire'[c]) = Len(wire[c]) /\ Len(wire[c]) # 0
        /\ wire'[c][Len(wire[c])] = f
        /\ \A i \in 1..(Len(wire[c]) - 1) : wire'[c][i] = wire[c][i]
        /\ \A d \in Conn \ {c} : wire'[d] = wire[d]
    BY <2>1, <2>5, Finished DEF StreamInv
  <2>7. queue'[c] = Tail(queue[c]) /\ \A d \in Conn \ {c} : queue'[d] = queue[d]
    BY <1>0, <2>1 DEF Pop
  <2>8. ASSUME NEW d \in Conn PROVE InOrder(wire'[c], queue'[c], got[d], d)
    <3>1. InOrder(wire[c], queue[c], got[d], d)
      BY DEF OrderInv
    <3>2. InOrder(wire'[c], Tail(queue[c]), got[d], d)
      BY <2>2, <2>3, <2>5, <2>6, <3>1, OneWritten
    <3>3. QED
      BY <2>7, <3>2
  <2>9. QED
    BY <2>1, <2>6, <2>7, <2>8, OthersInOrder
<1>14. ASSUME NEW c \in Conn, Read(c) PROVE P
  <2> DEFINE of == Arrived(c).of
  <2>1. Grown(of, c) /\ Take(c, Arrived(c)) /\ of \in DOMAIN Actions
    BY <1>14, Reads DEF StreamInv, Types
  <2>2. wire' = wire /\ got' = [got EXCEPT ![c] = Append(@, of)]
    BY <2>1 DEF Take
  <2> HIDE DEF of
  <2>3. \A d \in Conn : got'[d] = IF d = c THEN Append(got[d], of) ELSE got[d]
    BY <1>0, <2>2
  <2>4. \A d \in Conn : Longer(got[d], got'[d])
    BY <1>0, <2>2, GotLonger
  <2>5. ASSUME NEW d \in Conn, NEW by \in Conn
        PROVE  InOrder(wire'[d], queue'[d], got'[by], by)
    <3>1. CASE queue'[d] = queue[d]
      BY <2>2, <2>4, <3>1, QuietStep
    <3>2. CASE queue'[d] = Append(queue[d], [of |-> of, by |-> c])
      <4>1. wire[d] \in Seq(Items) /\ queue[d] \in Seq(Queued)
            /\ got[by] \in Seq(DOMAIN Samples \cup {"?"})
        BY <1>0
      <4>2. InOrder(wire[d], queue[d], got[by], by)
        BY DEF OrderInv
      <4>3. got'[by] = IF by = c THEN Append(got[by], of) ELSE got[by]
        BY <2>3
      <4>4. InOrder(wire[d], Append(queue[d], [of |-> of, by |-> c]), got'[by], by)
        BY <2>1, <4>1, <4>2, <4>3, OneQueued
      <4>5. QED
        BY <2>2, <3>2, <4>4
    <3>3. QED
      BY <2>1, <3>1, <3>2 DEF Grown
  <2>6. QED
    BY <2>5 DEF OrderInv
<1>15. ASSUME NEW c \in Conn, Shutdown(c) \/ Close(c) PROVE P
  <2>1. UNCHANGED <<queue, got>>
    BY <1>15 DEF Shutdown, Close
  <2>2. wire' = wire \/ wire' = [wire EXCEPT ![c] = Append(@, Err)]
    BY <1>15 DEF Shutdown, Close
  <2>3. \A d \in Conn : wire'[d] = wire[d] \/ wire'[d] = Append(wire[d], Err)
    BY <1>0, <2>2
  <2>4. QED
    BY <1>3, <1>4, <2>1, <2>3
<1>16. ASSUME NEW c \in Conn, Left(c) \/ Cleanup(c) PROVE P
  <2>1. Grown("leave", c) /\ got' = got
    BY <1>16, PlayerLeaves DEF Left, Cleanup, StreamInv, Types
  <2>2. wire' = wire \/ wire' = [wire EXCEPT ![c] = Append(@, Err)]
    BY <1>16 DEF Left, Cleanup
  <2>3. \A d \in Conn : wire'[d] = wire[d] \/ wire'[d] = Append(wire[d], Err)
    BY <1>0, <2>2
  <2>4. \A d \in Conn : \/ queue'[d] = queue[d]
                        \/ \E by : queue'[d] = Append(queue[d], [of |-> "leave", by |-> by])
    BY <2>1 DEF Grown
  <2>5. QED
    BY <1>3, <1>4, <2>1, <2>3, <2>4
<1>17. QED
  BY <1>2, <1>5, <1>7, <1>9, <1>10, <1>11, <1>12, <1>13, <1>14, <1>15, <1>16, Steps

-----------------------------------------------------------------------------
(* The invariant, and what follows from it.                                *)

RelayInv == StreamInv /\ ReadInv /\ FrameInv /\ OrderInv

LEMMA RelayInit == Init => RelayInv
<1> SUFFICES ASSUME Init PROVE RelayInv
  OBVIOUS
<1>1. \A c \in Conn : /\ wire[c] = <<>> /\ queue[c] = <<>> /\ got[c] = <<>>
                      /\ sent[c] = <<>> /\ inbox[c] = <<>> /\ rest[c] = <<>>
  BY DEF Init
<1>2. ReadInv
  <2>1. InStep
    BY <1>1 DEF InStep
  <2>2. ASSUME NEW c \in Conn PROVE Parsed(Unread(c), <<>>, Len(got[c]), sent[c])
    <3>1. Unread(c) = <<>> /\ Len(got[c]) = 0 /\ sent[c] = <<>>
      BY <1>1 DEF Unread
    <3>2. QED
      BY <3>1 DEF Parsed
  <2>3. QED
    BY <2>1, <2>2 DEF ReadInv
<1>3. FrameInv
  <2>1. version \in Versions
    BY DEF Init
  <2>2. \A c \in Conn : QueueAt(c) /\ FramesAt(c)
    BY <1>1 DEF QueueAt, FramesAt
  <2>3. QED
    BY <2>1, <2>2 DEF FrameInv
<1>4. OrderInv
  <2>1. \A g, d : Follows(PathOf(<<>>, <<>>), Len(<<>>) + Len(<<>>), g, d, <<>>)
    BY DEF Follows
  <2>2. \A g, d : InOrder(<<>>, <<>>, g, d)
    BY <2>1 DEF InOrder
  <2>3. QED
    BY <1>1, <2>2 DEF OrderInv
<1>5. QED
  BY <1>2, <1>3, <1>4, StreamInit DEF RelayInv

LEMMA RelayStep == RelayInv /\ [Next]_sessVars => RelayInv'
<1>1. StreamInv /\ ReadInv /\ [Next]_sessVars => ReadInv'
  BY ReadStep DEF StreamInv
<1>2. QED
  BY <1>1, StreamStep, FrameStep, OrderStep DEF RelayInv

\* What is unread parses as the messages sent and not read, what is queued has
\* been sent by whose it is, and what is written was fit to be written to whom
\* it was written.
THEOREM AllKept == Spec => []RelayInv
BY RelayInit, RelayStep, PTL DEF Spec

\* A reader (read_map_msg) never starts in the midst of a message: what it has
\* read is what its client has sent, one by one.
THEOREM ReadsInStep == Spec => []InStep
<1>1. RelayInv => InStep
  BY DEF RelayInv, ReadInv
<1>2. QED
  BY AllKept, <1>1, PTL

\* write_player_actions never writes a client a message of a type that it is too
\* old to parse.
THEOREM OldClientsSpared == Spec => []TypeGate
<1>1. RelayInv => TypeGate
  <2> SUFFICES ASSUME RelayInv, NEW c \in Conn, NEW i \in 1..Len(wire[c]),
                      version[c] < 6, wire[c][i].k = "frame",
                      Actions[wire[c][i].of].ty \in {"PlayerTestMode", "VehicleSample"}
               PROVE  FALSE
    BY DEF TypeGate
  <2>1. version[c] >= MinProtoVersion(Actions[wire[c][i].of])
    BY DEF RelayInv, FrameInv, FramesAt, Fit
  <2>2. MinProtoVersion(Actions[wire[c][i].of]) = 6
    BY DEF MinProtoVersion
  <2>3. version[c] \in Nat
    BY SessionAssumption DEF RelayInv, FrameInv
  <2>4. QED
    BY <2>1, <2>2, <2>3
<1>2. QED
  BY AllKept, <1>1, PTL

-----------------------------------------------------------------------------
(* The codec, and what players get.                                        *)

\* What is made of a message by itself, from module Codec_proofs.
LEMMA SampleFaithful ==
  ASSUME NEW s \in DOMAIN Samples, s \in DOMAIN Actions
  PROVE  IF Panics(WrittenOf[s]) THEN Outgrown(Samples[s])
         ELSE WrittenOf[s] = CleanOf[s]
<1> DEFINE buf == Samples[s]
           a == Head(ReadMapMsg(buf))
           w == WriteAction(a)
<1>1. /\ Message(buf) /\ ReadMapMsg(buf) # Bad /\ Actions[s] = a
      /\ WrittenOf[s] = w /\ CleanOf[s] = Clean(buf)
  BY CodecAssumption
<1>2. IF Panics(w) THEN \E i \in 1..Len(buf) : Swollen(buf[i]) ELSE w = Clean(buf)
  BY <1>1, MessageFaithful
<1> HIDE DEF buf, a, w
<1>3. (\E i \in 1..Len(buf) : Swollen(buf[i])) => Outgrown(buf)
  BY DEF Swollen, Outgrown
<1>5. CASE Panics(w)
  BY <1>1, <1>2, <1>3, <1>5 DEF buf
<1>6. CASE ~Panics(w)
  BY <1>1, <1>2, <1>6
<1>7. QED
  BY <1>5, <1>6

LEMMA SentFaithful == RelayInv => CodecFaithful
<1> SUFFICES ASSUME RelayInv, NEW c \in Conn, NEW n \in 1..Len(sent[c]),
                    sent[c][n] \in DOMAIN Actions
             PROVE  IF Panics(WrittenOf[sent[c][n]]) THEN Outgrown(Samples[sent[c][n]])
                    ELSE WrittenOf[sent[c][n]] = CleanOf[sent[c][n]]
  BY DEF CodecFaithful
<1>1. sent \in [Conn -> Seq(DOMAIN Samples)]
  BY DEF RelayInv, StreamInv, ClientOK
<1>2. sent[c][n] \in DOMAIN Samples
  <2>1. sent[c] \in Seq(DOMAIN Samples)
    BY <1>1
  <2>2. QED
    BY <2>1, ElementOfSeq
<1>3. QED
  BY <1>2, SampleFaithful

\* Whatever clients send: what the writer makes of a message that has been read
\* (write_action after read_map_msg) is what was sent with its text made UTF-8,
\* unless a text has outgrown the bound, which makes it panic.
THEOREM WritesWhatWasSent == Spec => []CodecFaithful
BY AllKept, SentFaithful, PTL

\* What a player gets from another is, field for field, what that one sent, in the
\* order in which it was sent and nothing twice: the codec keeps each message, and
\* the queues, the room and the locks neither swap messages nor mix them up.
THEOREM RelaysExactly == Spec => []RelayExact
<1>1. RelayInv /\ CodecFaithful => RelayExact
  <2> SUFFICES ASSUME RelayInv, CodecFaithful, NEW c \in Conn, NEW d \in Conn,
                      NEW through \in BOOLEAN
               PROVE  LET at == {i \in 1..Len(wire[c]) :
                                   /\ wire[c][i].k = "frame" /\ wire[c][i].by = d
                                   /\ wire[c][i].of \notin {"leave", "pong"}
                                   /\ IsEphemeral(Actions[wire[c][i].of]) # through}
                      IN  \E n \in [at -> 1..Len(sent[d])] :
                            /\ \A i \in at : CleanOf[sent[d][n[i]]] = WrittenOf[wire[c][i].of]
                            /\ \A i, j \in at : i < j => n[i] < n[j]
    BY Zenon DEF RelayExact
  <2> DEFINE at == {i \in 1..Len(wire[c]) :
                      /\ wire[c][i].k = "frame" /\ wire[c][i].by = d
                      /\ wire[c][i].of \notin {"leave", "pong"}
                      /\ IsEphemeral(Actions[wire[c][i].of]) # through}
  <2>0. \A i \in at : /\ i \in 1..Len(wire[c]) /\ wire[c][i].k = "frame"
                      /\ wire[c][i].by = d /\ wire[c][i].of \notin {"leave", "pong"}
    OBVIOUS
  <2> HIDE DEF at
  <2> DEFINE p == PathOf(wire[c], queue[c])
             m == Len(wire[c]) + Len(queue[c])
  <2>1. PICK f : Follows(p, m, got[d], d, f)
    BY DEF RelayInv, OrderInv, InOrder
  <2>2. wire[c] \in Seq(Items) /\ queue[c] \in Seq(Queued)
    BY DEF RelayInv, StreamInv, Types, QueueOK, WireInv
  <2>3. \A i \in 1..Len(wire[c]) : i \in 1..m /\ p[i] = wire[c][i]
    <3>1. /\ Len(wire[c]) \in Nat /\ Len(queue[c]) \in Nat
          /\ \A i \in 1..Len(wire[c]) : p[i] = wire[c][i]
      BY <2>2, PathItems, Zenon
    <3>2. \A k, l \in Nat : \A i \in 1..k : i \in 1..(k + l)
      OBVIOUS
    <3>3. QED
      BY <3>1, <3>2, Zenon
  <2> HIDE DEF p, m
  <2>4. \A i \in at : i \in 1..m /\ p[i] = wire[c][i] /\ Passing(p[i]) /\ p[i].by = d
    BY <2>0, <2>3 DEF Passing
  <2>5. ASSUME NEW i \in at
        PROVE  f[i] \in 1..Len(sent[d]) /\ sent[d][f[i]] = wire[c][i].of
    <3>1. f[i] \in 1..Len(got[d]) /\ got[d][f[i]] = wire[c][i].of
      BY <2>1, <2>4 DEF Follows
    <3>2. f[i] <= Len(sent[d]) /\ got[d][f[i]] = sent[d][f[i]]
      BY <3>1 DEF RelayInv, ReadInv, InStep
    <3>3. Len(sent[d]) \in Nat
      BY DEF RelayInv, StreamInv, ClientOK
    <3>4. QED
      BY <3>1, <3>2, <3>3
  <2>6. ASSUME NEW i \in at PROVE CleanOf[wire[c][i].of] = WrittenOf[wire[c][i].of]
    <3> DEFINE x == wire[c][i]
    <3>1. x \in Items /\ x.k = "frame" /\ x.of \notin {"leave", "pong"}
      BY <2>0, <2>2
    <3>2. x \in Frames
      BY <3>1 DEF Items, Part, Err, RoomDetails
    <3>3. x.of \in DOMAIN Actions
      BY <3>2 DEF Frames
    <3>4. Fit(c, x)
      BY <2>0, <3>1 DEF RelayInv, FrameInv, FramesAt
    <3>5. ~Panics(WrittenOf[x.of])
      BY <3>1, <3>4 DEF Fit
    <3> HIDE DEF x
    <3>6. sent[d][f[i]] = x.of /\ f[i] \in 1..Len(sent[d])
      BY <2>5 DEF x
    <3>7. WrittenOf[x.of] = CleanOf[x.of]
      BY <3>3, <3>5, <3>6 DEF CodecFaithful
    <3>8. QED
      BY <3>7 DEF x
  <2> DEFINE n == [i \in at |-> f[i]]
  <2>7. n \in [at -> 1..Len(sent[d])]
    BY <2>5
  <2>8. \A i \in at : CleanOf[sent[d][n[i]]] = WrittenOf[wire[c][i].of]
    BY <2>5, <2>6
  <2>9. \A i, j \in at : i < j => n[i] < n[j]
    BY <2>1, <2>4 DEF Follows
  <2> HIDE DEF n
  <2>10. \E k \in [at -> 1..Len(sent[d])] :
           /\ \A i \in at : CleanOf[sent[d][k[i]]] = WrittenOf[wire[c][i].of]
           /\ \A i, j \in at : i < j => k[i] < k[j]
    BY <2>7, <2>8, <2>9
  <2>11. QED
    BY <2>10 DEF at
<1>2. QED
  BY AllKept, SentFaithful, <1>1, PTL

\* A task dies in writing (.expect("string lt b'ER'")) only at a text of the
\* action's sender that has grown: no other message, no leave, no answer to a ping
\* and nothing that the server has put into a queue by itself can kill it.
THEOREM DiesOfGrownText == Spec => []PanicOnlyGrown
<1>1. RelayInv /\ CodecFaithful => PanicOnlyGrown
  <2> SUFFICES ASSUME RelayInv, CodecFaithful, NEW c \in Conn, task[c] = "dead"
               PROVE  \E n \in 1..Len(sent[Due(c).by]) : Outgrown(Samples[sent[Due(c).by][n]])
    BY DEF PanicOnlyGrown
  <2>1. queue[c] # <<>> /\ Panics(WrittenOf[Due(c).of])
    BY DEF RelayInv, StreamInv, WriterInv, WriterAt
  <2>2. queue[c] \in Seq(Queued) /\ Due(c) = queue[c][1] /\ 1 \in 1..Len(queue[c])
    BY <2>1 DEF RelayInv, StreamInv, Types, QueueOK, Due
  <2>3. Due(c) \in Queued /\ Sourced(Due(c))
    BY <2>2 DEF RelayInv, FrameInv, QueueAt
  <2>4. Due(c).of # "leave"
    BY <2>1, SessionAssumption
  <2>5. PICK n \in 1..Len(sent[Due(c).by]) : sent[Due(c).by][n] = Due(c).of
    BY <2>3, <2>4 DEF Sourced
  <2>6. Due(c).by \in Conn /\ Due(c).of \in DOMAIN Actions
    BY <2>3 DEF Queued
  <2>7. Outgrown(Samples[Due(c).of])
    BY <2>1, <2>5, <2>6 DEF CodecFaithful
  <2>8. QED
    BY <2>5, <2>7
<1>2. QED
  BY AllKept, SentFaithful, <1>1, PTL

=============================================================================
