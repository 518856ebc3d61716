--------------------------- MODULE RoomOrder_proofs ---------------------------
(***************************************************************************)
(* Theorems about the order of what a room accepts and relays, and about   *)
(* the limit that joins are checked against.  They stand on TypeOK of      *)
(* module Room_proofs and on invariants of their own.                      *)
(***************************************************************************)
EXTENDS Room_proofs, WellFoundedInduction

-----------------------------------------------------------------------------
(* The limit.                                                              *)

\* A nonempty set of positions has a last one.
LEMMA LastOf ==
  ASSUME NEW n \in Nat, NEW I \in SUBSET (1..n), I # {}
  PROVE  \E i \in I : \A j \in I : i >= j
<1> DEFINE R == OpToRel(<, Nat)
           T == {n - i : i \in I}
<1> HIDE DEF R
<1>1. T \subseteq Nat /\ T # {}
  <2>1. \A i \in I : n - i \in Nat
    OBVIOUS
  <2>2. QED
    BY <2>1
<1>2. PICK x \in T : \A y \in T : <<y, x>> \notin R
  <2> HIDE DEF T
  <2>1. IsWellFoundedOn(R, Nat)
    BY NatLessThanWellFounded DEF R
  <2>2. QED
    BY <1>1, <2>1, WFMin
<1>3. \A y \in T : ~(y < x)
  BY <1>1, <1>2 DEF OpToRel, R
<1>4. PICK i \in I : x = n - i
  OBVIOUS
<1>5. \A j \in I : i >= j
  <2> SUFFICES ASSUME NEW j \in I PROVE i >= j
    OBVIOUS
  <2>1. n - j \in T
    OBVIOUS
  <2>2. ~(n - j < n - i)
    <3> HIDE DEF T
    <3> QED
      BY <1>3, <1>4, <2>1
  <2>3. i \in Nat /\ j \in Nat
    OBVIOUS
  <2>4. QED
    BY <2>2, <2>3
<1>6. QED
  BY <1>5

\* The owner's last change of the limit, or 0.
LastChange(es) == SelectLastInSeq(es, IsOwnerLimit)

LEMMA LastChangeIs ==
  ASSUME NEW es \in Seq(Entry)
  PROVE  \/ /\ LastChange(es) = 0
            /\ \A k \in 1..Len(es) : ~IsOwnerLimit(es[k])
         \/ /\ LastChange(es) \in 1..Len(es)
            /\ IsOwnerLimit(es[LastChange(es)])
            /\ \A k \in 1..Len(es) : IsOwnerLimit(es[k]) => k <= LastChange(es)
<1> DEFINE I == {i \in 1..Len(es) : IsOwnerLimit(es[i])}
<1>1. LastChange(es) = IF I # {} THEN Max(I) ELSE 0
  BY DEF LastChange, SelectLastInSeq
<1>2. CASE I = {}
  BY <1>1, <1>2
<1>3. CASE I # {}
  <2>1. \E i \in I : \A j \in I : i >= j
    <3> HIDE DEF I
    <3>1. Len(es) \in Nat /\ I \in SUBSET (1..Len(es))
      BY DEF I
    <3>2. QED
      BY <1>3, <3>1, LastOf
  <2>2. Max(I) \in I /\ \A j \in I : Max(I) >= j
    <3> HIDE DEF I
    <3> QED
      BY <2>1 DEF Max
  <2>3. QED
    BY <1>1, <1>3, <2>2
<1>4. QED
  BY <1>2, <1>3

LEMMA LimitIs ==
  ASSUME NEW es \in Seq(Entry), NEW l
  PROVE  LimitAfter(es, l) = IF LastChange(es) = 0 THEN l ELSE es[LastChange(es)].n
<1>1. LimitAfter(es, l) = IF LastChange(es) \in DOMAIN es THEN es[LastChange(es)].n ELSE l
  BY DEF LimitAfter, LastChange
<1>2. DOMAIN es = 1..Len(es) /\ Len(es) \in Nat
  OBVIOUS
<1>3. LastChange(es) \in DOMAIN es <=> LastChange(es) # 0
  BY <1>2, LastChangeIs
<1>4. QED
  BY <1>1, <1>3

\* Applying two batches one after the other is applying both.
LEMMA LimitOfBoth ==
  ASSUME NEW s \in Seq(Entry), NEW t \in Seq(Entry), NEW l
  PROVE  LimitAfter(s \o t, l) = LimitAfter(t, LimitAfter(s, l))
<1> DEFINE u == s \o t
<1>1. /\ u \in Seq(Entry) /\ Len(u) = Len(s) + Len(t)
      /\ Len(s) \in Nat /\ Len(t) \in Nat
      /\ \A k \in 1..Len(s) : u[k] = s[k]
      /\ \A k \in 1..Len(t) : u[Len(s) + k] = t[k]
  BY ConcatProperties
<1> HIDE DEF u
<1>2. CASE LastChange(t) = 0
  <2>1. \A k \in 1..Len(t) : ~IsOwnerLimit(t[k])
    BY <1>1, <1>2, LastChangeIs
  <2>2. \A k \in 1..Len(u) : k > Len(s) => ~IsOwnerLimit(u[k])
    <3> SUFFICES ASSUME NEW k \in 1..Len(u), k > Len(s) PROVE ~IsOwnerLimit(u[k])
      OBVIOUS
    <3>1. k - Len(s) \in 1..Len(t) /\ u[k] = t[k - Len(s)]
      BY <1>1
    <3>2. QED
      BY <2>1, <3>1
  <2>3. LastChange(u) = LastChange(s)
    <3>1. CASE LastChange(s) = 0
      <4>1. \A k \in 1..Len(s) : ~IsOwnerLimit(s[k])
        BY <1>1, <3>1, LastChangeIs
      <4>2. ASSUME NEW k \in 1..Len(u) PROVE ~IsOwnerLimit(u[k])
        <5>1. CASE k > Len(s)
          BY <2>2, <5>1
        <5>2. CASE k <= Len(s)
          <6>1. k \in 1..Len(s) /\ u[k] = s[k]
            BY <1>1, <5>2
          <6>2. QED
            BY <4>1, <6>1
        <5>3. QED
          BY <1>1, <5>1, <5>2
      <4>3. QED
        BY <1>1, <3>1, <4>2, LastChangeIs
    <3>2. CASE LastChange(s) # 0
      <4>1. /\ LastChange(s) \in 1..Len(s) /\ IsOwnerLimit(s[LastChange(s)])
            /\ \A k \in 1..Len(s) : IsOwnerLimit(s[k]) => k <= LastChange(s)
        BY <3>2, LastChangeIs
      <4>2. LastChange(s) \in 1..Len(u) /\ IsOwnerLimit(u[LastChange(s)])
        BY <1>1, <4>1
      <4>3. \A k \in 1..Len(u) : IsOwnerLimit(u[k]) => k <= LastChange(s)
        BY <1>1, <2>2, <4>1
      <4>4. /\ LastChange(u) \in 1..Len(u) /\ IsOwnerLimit(u[LastChange(u)])
            /\ \A k \in 1..Len(u) : IsOwnerLimit(u[k]) => k <= LastChange(u)
        BY <1>1, <4>2, LastChangeIs
      <4>5. QED
        BY <1>1, <4>2, <4>3, <4>4
    <3>3. QED
      BY <3>1, <3>2
  <2>4. LastChange(s) # 0 => u[LastChange(s)] = s[LastChange(s)]
    BY <1>1, LastChangeIs
  <2>5. LimitAfter(t, LimitAfter(s, l)) = LimitAfter(s, l)
    BY <1>2, LimitIs
  <2>6. LimitAfter(u, l) = LimitAfter(s, l)
    BY <1>1, <2>3, <2>4, LimitIs
  <2>7. QED
    BY <2>5, <2>6 DEF u
<1>3. CASE LastChange(t) # 0
  <2>1. /\ LastChange(t) \in 1..Len(t) /\ IsOwnerLimit(t[LastChange(t)])
        /\ \A k \in 1..Len(t) : IsOwnerLimit(t[k]) => k <= LastChange(t)
    BY <1>3, LastChangeIs
  <2> DEFINE m == Len(s) + LastChange(t)
  <2>2. m \in 1..Len(u) /\ u[m] = t[LastChange(t)] /\ IsOwnerLimit(u[m])
    BY <1>1, <2>1
  <2>3. \A k \in 1..Len(u) : IsOwnerLimit(u[k]) => k <= m
    <3> SUFFICES ASSUME NEW k \in 1..Len(u), IsOwnerLimit(u[k]), k > Len(s) PROVE k <= m
      BY <1>1, <2>1
    <3>1. k - Len(s) \in 1..Len(t) /\ u[k] = t[k - Len(s)]
      BY <1>1
    <3>2. QED
      BY <1>1, <2>1, <3>1
  <2> HIDE DEF m
  <2>4. /\ LastChange(u) \in 1..Len(u) /\ IsOwnerLimit(u[LastChange(u)])
        /\ \A k \in 1..Len(u) : IsOwnerLimit(u[k]) => k <= LastChange(u)
    BY <1>1, <2>2, LastChangeIs
  <2>5. LastChange(u) = m /\ m # 0
    BY <1>1, <2>2, <2>3, <2>4
  <2>6. LimitAfter(t, LimitAfter(s, l)) = t[LastChange(t)].n
    BY <1>3, LimitIs
  <2>7. LimitAfter(u, l) = t[LastChange(t)].n
    BY <1>1, <2>2, <2>5, LimitIs
  <2>8. QED
    BY <2>6, <2>7 DEF u
<1>4. QED
  BY <1>2, <1>3

\* Where the limit stands while the action loop works: between Apply and
\* Extend it is ahead of the log.
LimitInv ==
  /\ loop \notin {"apply", "extend"} => batch = <<>>
  /\ limit = LimitAfter(IF loop = "extend" THEN log \o batch ELSE log, Creation)

LEMMA LimitInit == Init => LimitInv
<1> SUFFICES ASSUME Init PROVE LimitInv
  OBVIOUS
<1>1. <<>> \in Seq(Entry) /\ 1..Len(<<>>) = {}
  OBVIOUS
<1>2. LimitAfter(<<>>, Creation) = Creation
  <2>1. LastChange(<<>>) = 0
    BY <1>1, LastChangeIs
  <2>2. QED
    BY <1>1, <2>1, LimitIs
<1>3. QED
  BY <1>2 DEF Init, LimitInv

LEMMA LimitQuiet ==
  ASSUME LimitInv, UNCHANGED <<limit, log, batch>>,
         loop' = loop \/ {loop, loop'} \cap {"apply", "extend"} = {}
  PROVE  LimitInv'
  BY DEF LimitInv

LEMMA LimitStep == TypeOK /\ LimitInv /\ [Next]_vars => LimitInv'
<1> SUFFICES ASSUME TypeOK, LimitInv, [Next]_vars PROVE LimitInv'
  OBVIOUS
<1> USE DEF vars, roomVars, loopVars
<1>1. CASE Receive
  BY <1>1 DEF Receive, LimitInv
<1>2. CASE Apply
  <2>1. limit' = LimitAfter(log \o batch, Creation)
    BY <1>2, LimitOfBoth DEF Apply, LimitInv, TypeOK, RoomTypes
  <2>2. QED
    BY <1>2, <2>1 DEF Apply, LimitInv
<1>3. CASE Extend
  BY <1>3 DEF Extend, LimitInv
<1>4. CASE BeginPass \/ EndPass \/ LoopExit
  BY <1>4, LimitQuiet DEF BeginPass, EndPass, LoopExit
<1>5. CASE List \/ Expire \/ Unlist \/ UNCHANGED vars
  BY <1>5, LimitQuiet DEF List, Expire, Unlist
<1>6. ASSUME NEW c \in Conn, VisitStale(c) \/ VisitSync(c) PROVE LimitInv'
  BY <1>6, LimitQuiet DEF VisitStale, VisitSync, SyncBegin
<1>7. ASSUME NEW c \in Conn, EnterStep(c) PROVE LimitInv'
  BY <1>7, LimitQuiet
     DEF EnterStep, CreateJoin, Scan, JoinMsg, Push, Kick, KickLeft
<1>8. ASSUME NEW c \in Conn, SyncStep(c) \/ TaskStep(c) PROVE LimitInv'
  BY <1>8, LimitQuiet
     DEF SyncStep, SyncSend, SyncFull, SyncClosed, TaskStep, SelfSync, SyncBegin, Shutdown, WritePanic,
         Ended, TaskLeft
<1>9. ASSUME NEW c \in Conn, PeerStep(c) PROVE LimitInv'
  BY <1>9, LimitQuiet DEF PeerStep, Admit, Act, Eph, PeerEnds, ActRefused, Ended
<1>10. ASSUME NEW c \in Conn, Write(c) \/ Overflow(c) \/ CleanupLeft(c) PROVE LimitInv'
  BY <1>10, LimitQuiet DEF Write, Overflow, CleanupLeft
<1>11. ASSUME NEW c \in Conn, NEW d \in Conn, EphSend(c, d) PROVE LimitInv'
  BY <1>11, LimitQuiet DEF EphSend
<1>12. ASSUME NEW c \in Conn, NEW by \in Conn \cup {Cleaner}, SendLeave(c, by) PROVE LimitInv'
  BY <1>12, LimitQuiet DEF SendLeave
<1>13. QED
  BY <1>1, <1>2, <1>3, <1>4, <1>5, <1>6, <1>7, <1>8, <1>9, <1>10, <1>11, <1>12
     DEF Next, LoopStep

\* Between two batches the limit that joins are checked against is the one
\* that the log gives to whoever reads it (apply_server_side, Room::run).
THEOREM LimitFollows == Spec => []LimitFollowsLog
<1>1. Inv /\ LimitInv /\ [Next]_vars => LimitInv'
  BY LimitStep DEF Inv
<1>2. LimitInv => LimitFollowsLog
  BY DEF LimitInv, LimitFollowsLog
<1>3. QED
  BY <1>1, <1>2, LimitInit, Invariant, PTL DEF Spec

-----------------------------------------------------------------------------
(* Ephemeral actions.                                                      *)

\* The position i of queue q holds an ephemeral action of c.
IsEph(q, i, c) == q[i].kind = "eph" /\ q[i].from = c

\* A queue q holds the ephemeral actions of c in order, none newer than the
\* last that c has sent, and only older ones if that is still to come.
EphSorted(q, c, last, coming) ==
  /\ \A i, j \in 1..Len(q) : i < j /\ IsEph(q, i, c) /\ IsEph(q, j, c) => q[i].n < q[j].n
  /\ \A i \in 1..Len(q) : IsEph(q, i, c) => q[i].n <= last /\ (coming => q[i].n < last)

EphInv == \A c, d \in Conn : EphSorted(queue[d], c, ephs[c], d \in fan[c])

LEMMA EphItemN ==
  ASSUME NEW q \in Seq(Item), NEW i \in 1..Len(q), NEW c, IsEph(q, i, c)
  PROVE  q[i].n \in Nat
<1>1. q[i] \in Item
  OBVIOUS
<1>2. QED
  BY <1>1 DEF Item, IsEph

\* A log item, or the one that is coming.
LEMMA EphAppend ==
  ASSUME NEW q \in Seq(Item), NEW e \in Item, NEW c \in Conn, NEW last \in Nat,
         NEW coming \in BOOLEAN, NEW coming2 \in BOOLEAN,
         EphSorted(q, c, last, coming),
         coming2 => coming,
         e.kind = "eph" /\ e.from = c => coming /\ ~coming2 /\ e.n = last
  PROVE  EphSorted(Append(q, e), c, last, coming2)
<1> DEFINE r == Append(q, e)
<1>1. /\ Len(r) = Len(q) + 1 /\ Len(q) \in Nat
      /\ \A i \in 1..Len(q) : r[i] = q[i]
      /\ r[Len(q) + 1] = e
  BY AppendProperties
<1> HIDE DEF r
<1>2. \A i \in 1..Len(r) :
        IsEph(r, i, c) => \/ i \in 1..Len(q) /\ IsEph(q, i, c) /\ r[i] = q[i]
                          \/ i = Len(q) + 1 /\ coming /\ ~coming2 /\ r[i].n = last
  BY <1>1 DEF IsEph
<1>3. \A i \in 1..Len(q) : IsEph(q, i, c) => q[i].n \in Nat
  BY EphItemN
<1>4. \A i \in 1..Len(r) : IsEph(r, i, c) => r[i].n <= last /\ (coming2 => r[i].n < last)
  BY <1>1, <1>2, <1>3 DEF EphSorted
<1>5. ASSUME NEW i \in 1..Len(r), NEW j \in 1..Len(r), i < j, IsEph(r, i, c), IsEph(r, j, c)
      PROVE  r[i].n < r[j].n
  <2>1. i \in 1..Len(q) /\ IsEph(q, i, c) /\ r[i] = q[i]
    BY <1>1, <1>2, <1>5
  <2>2. CASE j \in 1..Len(q) /\ IsEph(q, j, c) /\ r[j] = q[j]
    BY <1>5, <2>1, <2>2 DEF EphSorted
  <2>3. CASE coming /\ r[j].n = last
    BY <2>1, <2>3 DEF EphSorted
  <2>4. QED
    BY <1>2, <1>5, <2>2, <2>3
<1>6. QED
  BY <1>4, <1>5 DEF EphSorted, r

LEMMA EphTail ==
  ASSUME NEW q \in Seq(Item), q # <<>>, NEW c \in Conn, NEW last, NEW coming,
         EphSorted(q, c, last, coming)
  PROVE  EphSorted(Tail(q), c, last, coming)
<1>1. /\ Len(Tail(q)) = Len(q) - 1 /\ Len(q) \in Nat
      /\ \A i \in 1..Len(Tail(q)) : i + 1 \in 1..Len(q) /\ Tail(q)[i] = q[i + 1]
  BY HeadTailProperties
<1> DEFINE r == Tail(q)
<1> HIDE DEF r
<1>2. \A i \in 1..Len(r) : IsEph(r, i, c) => i + 1 \in 1..Len(q) /\ IsEph(q, i + 1, c)
  BY <1>1 DEF IsEph, r
<1>3. \A i \in 1..Len(r) : IsEph(r, i, c) => r[i].n <= last /\ (coming => r[i].n < last)
  BY <1>1, <1>2 DEF EphSorted, r
<1>4. ASSUME NEW i \in 1..Len(r), NEW j \in 1..Len(r), i < j, IsEph(r, i, c), IsEph(r, j, c)
      PROVE  r[i].n < r[j].n
  <2>1. i + 1 < j + 1
    BY <1>1, <1>4 DEF r
  <2>2. QED
    BY <1>1, <1>2, <1>4, <2>1 DEF EphSorted, r
<1>5. QED
  BY <1>3, <1>4 DEF EphSorted, r

LEMMA EphEmpty ==
  ASSUME NEW c, NEW last, NEW coming
  PROVE  EphSorted(<<>>, c, last, coming)
<1>1. 1..Len(<<>>) = {}
  OBVIOUS
<1>2. QED
  BY <1>1 DEF EphSorted

LEMMA EphQuiet ==
  ASSUME EphInv, UNCHANGED <<queue, ephs, fan>>
  PROVE  EphInv'
  BY DEF EphInv

LEMMA EphSyncSend ==
  ASSUME TypeOK, SyncInv, EphInv, NEW c \in Conn, SyncSend(c)
  PROVE  EphInv'
<1>1. sent[c] + 1 \in Nat \ {0}
  BY DEF TypeOK, SyncTypes
<1>2. LogItem(sent[c] + 1) \in Item
  BY <1>1, LogItemType
<1>3. LogItem(sent[c] + 1).kind # "eph"
  BY DEF LogItem
<1>4. ASSUME NEW x \in Conn, NEW d \in Conn
      PROVE  EphSorted(queue'[d], x, ephs[x], d \in fan[x])
  <2>1. EphSorted(queue[d], x, ephs[x], d \in fan[x]) /\ ephs[x] \in Nat /\ queue[d] \in Seq(Item)
    BY DEF EphInv, TypeOK, SyncTypes, PeerTypes
  <2>2. CASE d = c
    <3>1. queue'[d] = Append(queue[d], LogItem(sent[c] + 1))
      BY <2>2 DEF SyncSend, TypeOK, SyncTypes
    <3> DEFINE item == LogItem(sent[c] + 1)
               coming == d \in fan[x]
    <3>2. item \in Item /\ item.kind # "eph" /\ coming \in BOOLEAN
      BY <1>2, <1>3
    <3> HIDE DEF item
    <3>3. EphSorted(Append(queue[d], item), x, ephs[x], coming)
      BY <2>1, <3>2, EphAppend
    <3>4. QED
      BY <3>1, <3>3 DEF item
  <2>3. CASE d # c
    BY <2>1, <2>3 DEF SyncSend, TypeOK, SyncTypes
  <2>4. QED
    BY <2>2, <2>3
<1>5. UNCHANGED <<ephs, fan>>
  BY DEF SyncSend, peerVars
<1>6. QED
  BY <1>4, <1>5 DEF EphInv

\* A queue that loses its head, or everything.
LEMMA EphLess ==
  ASSUME TypeOK, EphInv, NEW c \in Conn, UNCHANGED <<ephs, fan>>,
         \/ queue[c] # <<>> /\ queue' = [queue EXCEPT ![c] = Tail(@)]
         \/ queue' = [queue EXCEPT ![c] = <<>>]
  PROVE  EphInv'
<1>1. ASSUME NEW x \in Conn, NEW d \in Conn
      PROVE  EphSorted(queue'[d], x, ephs[x], d \in fan[x])
  <2>1. EphSorted(queue[d], x, ephs[x], d \in fan[x]) /\ queue[d] \in Seq(Item)
    BY DEF EphInv, TypeOK, SyncTypes
  <2>2. \/ queue'[d] = queue[d]
        \/ queue[d] # <<>> /\ queue'[d] = Tail(queue[d])
        \/ queue'[d] = <<>>
    BY DEF TypeOK, SyncTypes
  <2>3. QED
    BY <2>1, <2>2, EphTail, EphEmpty
<1>2. QED
  BY <1>1 DEF EphInv

\* The next number is newer than all that are queued.
LEMMA EphBegin ==
  ASSUME TypeOK, EphInv, NEW c \in Conn, Eph(c)
  PROVE  EphInv'
<1>1. ASSUME NEW x \in Conn, NEW d \in Conn
      PROVE  EphSorted(queue[d], x, ephs'[x], d \in fan'[x])
  <2>1. EphSorted(queue[d], x, ephs[x], d \in fan[x]) /\ queue[d] \in Seq(Item) /\ ephs[x] \in Nat
    BY DEF EphInv, TypeOK, SyncTypes, PeerTypes
  <2>2. CASE x = c
    <3>1. ephs'[x] = ephs[x] + 1
      BY <2>2 DEF Eph, TypeOK, PeerTypes
    <3>2. \A i \in 1..Len(queue[d]) : IsEph(queue[d], i, x) => queue[d][i].n \in Nat
      BY <2>1, EphItemN
    <3>3. QED
      BY <2>1, <3>1, <3>2 DEF EphSorted
  <2>3. CASE x # c
    <3>1. ephs'[x] = ephs[x] /\ fan'[x] = fan[x]
      BY <2>3 DEF Eph, TypeOK, PeerTypes
    <3>2. QED
      BY <2>1, <3>1
  <2>4. QED
    BY <2>2, <2>3
<1>2. QED
  BY <1>1 DEF EphInv, Eph, syncVars

LEMMA EphSends ==
  ASSUME TypeOK, EphInv, NEW c \in Conn, NEW d \in Conn, EphSend(c, d)
  PROVE  EphInv'
<1> DEFINE item == EphItem(c, ephs[c])
<1>1. /\ item \in Item /\ item.kind = "eph" /\ item.from = c /\ item.n = ephs[c]
  BY EphItemType DEF EphItem, TypeOK, PeerTypes
<1>2. /\ d \in fan[c] /\ UNCHANGED ephs
      /\ fan' = [fan EXCEPT ![c] = @ \ {d}]
      /\ \/ queue' = queue
         \/ queue' = [queue EXCEPT ![d] = Append(@, item)]
  BY DEF EphSend
<1> HIDE DEF item
<1>3. ASSUME NEW x \in Conn, NEW y \in Conn
      PROVE  EphSorted(queue'[y], x, ephs[x], y \in fan'[x])
  <2> DEFINE coming == y \in fan[x]
             coming2 == y \in fan'[x]
  <2>1. EphSorted(queue[y], x, ephs[x], coming) /\ queue[y] \in Seq(Item) /\ ephs[x] \in Nat
    BY DEF EphInv, TypeOK, SyncTypes, PeerTypes
  <2>2. (coming2 => coming) /\ coming \in BOOLEAN /\ coming2 \in BOOLEAN
    BY <1>2 DEF TypeOK, PeerTypes
  <2>3. x = c /\ y = d => coming /\ ~coming2
    BY <1>2 DEF TypeOK, PeerTypes
  <2> HIDE DEF coming, coming2
  <2>4. CASE queue'[y] = queue[y]
    <3>1. EphSorted(queue[y], x, ephs[x], coming2)
      BY <2>1, <2>2 DEF EphSorted
    <3>2. QED
      BY <2>4, <3>1 DEF coming2
  <2>5. CASE y = d /\ queue'[y] = Append(queue[y], item)
    <3>1. EphSorted(Append(queue[y], item), x, ephs[x], coming2)
      BY <1>1, <2>1, <2>2, <2>3, <2>5, EphAppend
    <3>2. QED
      BY <2>5, <3>1 DEF coming2
  <2>6. queue'[y] = queue[y] \/ (y = d /\ queue'[y] = Append(queue[y], item))
    BY <1>2 DEF TypeOK, SyncTypes
  <2>7. QED
    BY <2>4, <2>5, <2>6
<1>4. QED
  BY <1>2, <1>3 DEF EphInv

LEMMA EphStep == TypeOK /\ SyncInv /\ EphInv /\ [Next]_vars => EphInv'
<1> SUFFICES ASSUME TypeOK, SyncInv, EphInv, [Next]_vars PROVE EphInv'
  OBVIOUS
<1> USE DEF vars, roomVars, loopVars, syncVars, peerVars, connVars
<1>1. CASE Receive \/ Apply \/ Extend \/ BeginPass \/ EndPass
  BY <1>1, EphQuiet DEF Receive, Apply, Extend, BeginPass, EndPass
<1>2. CASE List \/ Expire \/ LoopExit \/ Unlist \/ UNCHANGED vars
  BY <1>2, EphQuiet DEF List, Expire, LoopExit, Unlist
<1>3. ASSUME NEW c \in Conn, VisitStale(c) \/ VisitSync(c) \/ SelfSync(c) PROVE EphInv'
  BY <1>3, EphQuiet DEF VisitStale, VisitSync, SelfSync, SyncBegin
<1>4. ASSUME NEW c \in Conn, EnterStep(c) PROVE EphInv'
  BY <1>4, EphQuiet DEF EnterStep, CreateJoin, Scan, JoinMsg, Push, Kick, KickLeft
<1>5. ASSUME NEW c \in Conn, SyncFull(c) \/ SyncClosed(c) PROVE EphInv'
  BY <1>5, EphQuiet DEF SyncFull, SyncClosed
<1>6. ASSUME NEW c \in Conn, SyncSend(c) PROVE EphInv'
  BY <1>6, EphSyncSend
<1>7. ASSUME NEW c \in Conn, Shutdown(c) \/ PeerEnds(c) \/ ActRefused(c) \/ WritePanic(c) \/ Write(c) PROVE EphInv'
  BY <1>7, EphLess DEF Shutdown, PeerEnds, ActRefused, WritePanic, Ended, Write
<1>8. ASSUME NEW c \in Conn, TaskLeft(c) \/ Overflow(c) \/ CleanupLeft(c) PROVE EphInv'
  BY <1>8, EphQuiet DEF TaskLeft, Overflow, CleanupLeft
<1>9. ASSUME NEW c \in Conn, Admit(c) \/ Act(c) PROVE EphInv'
  BY <1>9, EphQuiet DEF Admit, Act
<1>10. ASSUME NEW c \in Conn, Eph(c) PROVE EphInv'
  BY <1>10, EphBegin
<1>11. ASSUME NEW c \in Conn, NEW d \in Conn, EphSend(c, d) PROVE EphInv'
  BY <1>11, EphSends
<1>12. ASSUME NEW c \in Conn, NEW by \in Conn \cup {Cleaner}, SendLeave(c, by) PROVE EphInv'
  BY <1>12, EphQuiet DEF SendLeave
<1>13. QED
  BY <1>1, <1>2, <1>3, <1>4, <1>5, <1>6, <1>7, <1>8, <1>9, <1>10, <1>11, <1>12
     DEF Next, LoopStep, SyncStep, TaskStep, PeerStep

\* In every queue the ephemeral actions of a sender are in order, and older
\* than the one it is sending (read_player_actions): a position is never
\* relayed after a newer one.
THEOREM EphemeralOrder == Spec => []EphOrder
<1>1. Init => EphInv
  BY EphEmpty DEF Init, EphInv
<1>2. Inv /\ EphInv /\ [Next]_vars => EphInv'
  BY EphStep DEF Inv
<1>3. EphInv => EphOrder
  BY DEF EphInv, EphSorted, IsEph, EphOrder
<1>4. QED
  BY <1>1, <1>2, <1>3, Invariant, PTL DEF Spec

=============================================================================
