-------------------------- MODULE RoomMembers_proofs --------------------------
(***************************************************************************)
(* Theorems about joins and leaves: SenderOrder and LeaveExact, which look *)
(* at all that a room has accepted, whether it is still in the channel, in *)
(* a batch or in the log.                                                  *)
(***************************************************************************)
EXTENDS RoomOrder_proofs, FiniteSetTheorems

-----------------------------------------------------------------------------
(* Sequences of entries, and one entry more.                               *)

\* Some entry of kind k, or any entry, is from c.
HasIn(s, k, c) == \E i \in 1..Len(s) : s[i].kind = k /\ s[i].from = c
AnyIn(s, c) == \E i \in 1..Len(s) : s[i].from = c

\* Whoever sends anything has joined before.
Announced(s) ==
  \A i \in 1..Len(s) : \E j \in 1..i : s[j].kind = "join" /\ s[j].from = s[i].from

\* Nobody has two entries of kind k.
Unique(s, k) ==
  \A i, j \in 1..Len(s) :
    s[i].kind = k /\ s[j].kind = k /\ s[i].from = s[j].from => i = j

\* The actions of a sender are numbered upwards, ...
Rising(s) ==
  \A i, j \in 1..Len(s) :
    i < j /\ s[i].kind = "act" /\ s[j].kind = "act" /\ s[i].from = s[j].from
      => s[i].n < s[j].n

\* ... up to the number a gives.
UpTo(s, a) == \A i \in 1..Len(s) : s[i].kind = "act" => s[i].n <= a[s[i].from]

LEMMA AppendAt ==
  ASSUME NEW s \in Seq(Entry), NEW e \in Entry
  PROVE  /\ Append(s, e) \in Seq(Entry)
         /\ Len(Append(s, e)) = Len(s) + 1 /\ Len(s) \in Nat
         /\ \A i \in 1..Len(s) : Append(s, e)[i] = s[i] /\ s[i] \in Entry
         /\ Append(s, e)[Len(s) + 1] = e
         /\ \A i \in 1..Len(Append(s, e)) : i \in 1..Len(s) \/ i = Len(s) + 1
  BY AppendProperties

LEMMA HasAppend ==
  ASSUME NEW s \in Seq(Entry), NEW e \in Entry, NEW k, NEW c
  PROVE  /\ HasIn(Append(s, e), k, c) <=> HasIn(s, k, c) \/ (e.kind = k /\ e.from = c)
         /\ AnyIn(Append(s, e), c) <=> AnyIn(s, c) \/ e.from = c
<1> DEFINE r == Append(s, e)
<1>1. /\ Len(r) = Len(s) + 1 /\ Len(s) \in Nat
      /\ \A i \in 1..Len(s) : i \in 1..Len(r) /\ r[i] = s[i]
      /\ r[Len(s) + 1] = e /\ Len(s) + 1 \in 1..Len(r)
      /\ \A i \in 1..Len(r) : i \in 1..Len(s) \/ i = Len(s) + 1
  BY AppendAt
<1> HIDE DEF r
<1>2. HasIn(r, k, c) <=> HasIn(s, k, c) \/ (e.kind = k /\ e.from = c)
  BY <1>1 DEF HasIn
<1>3. AnyIn(r, c) <=> AnyIn(s, c) \/ e.from = c
  BY <1>1 DEF AnyIn
<1>4. QED
  BY <1>2, <1>3 DEF r

LEMMA AnnouncedAppend ==
  ASSUME NEW s \in Seq(Entry), NEW e \in Entry, Announced(s),
         e.kind = "join" \/ HasIn(s, "join", e.from)
  PROVE  Announced(Append(s, e))
<1> DEFINE r == Append(s, e)
<1>1. /\ Len(r) = Len(s) + 1 /\ Len(s) \in Nat
      /\ \A i \in 1..Len(s) : r[i] = s[i]
      /\ r[Len(s) + 1] = e
  BY AppendAt
<1> HIDE DEF r
<1>2. ASSUME NEW i \in 1..Len(r)
      PROVE  \E j \in 1..i : r[j].kind = "join" /\ r[j].from = r[i].from
  <2>1. CASE i \in 1..Len(s)
    <3>1. PICK j \in 1..i : s[j].kind = "join" /\ s[j].from = s[i].from
      BY <2>1 DEF Announced
    <3>2. j \in 1..Len(s) /\ r[j] = s[j] /\ r[i] = s[i]
      BY <1>1, <2>1
    <3>3. QED
      BY <3>1, <3>2
  <2>2. CASE i = Len(s) + 1 /\ e.kind = "join"
    <3>1. i \in 1..i /\ r[i] = e
      BY <1>1, <2>2
    <3>2. QED
      BY <2>2, <3>1
  <2>3. CASE i = Len(s) + 1 /\ HasIn(s, "join", e.from)
    <3>1. PICK j \in 1..Len(s) : s[j].kind = "join" /\ s[j].from = e.from
      BY <2>3 DEF HasIn
    <3>2. j \in 1..i /\ r[j] = s[j] /\ r[i] = e
      BY <1>1, <2>3
    <3>3. QED
      BY <3>1, <3>2
  <2>4. QED
    BY <1>1, <2>1, <2>2, <2>3
<1>3. QED
  BY <1>2 DEF Announced, r

LEMMA UniqueAppend ==
  ASSUME NEW s \in Seq(Entry), NEW e \in Entry, NEW k, Unique(s, k),
         e.kind = k => ~HasIn(s, k, e.from)
  PROVE  Unique(Append(s, e), k)
<1> DEFINE r == Append(s, e)
<1>1. /\ Len(r) = Len(s) + 1 /\ Len(s) \in Nat
      /\ \A i \in 1..Len(s) : r[i] = s[i]
      /\ r[Len(s) + 1] = e
      /\ \A i \in 1..Len(r) : i \in 1..Len(s) \/ i = Len(s) + 1
  BY AppendAt
<1> HIDE DEF r
<1>2. QED
  BY <1>1 DEF Unique, HasIn, r

LEMMA RisingAppend ==
  ASSUME NEW s \in Seq(Entry), NEW e \in Entry,
         NEW a \in [Conn -> Nat], NEW b \in [Conn -> Nat], Rising(s), UpTo(s, a),
         \A c \in Conn : a[c] <= b[c],
         e.kind = "act" => a[e.from] < e.n /\ e.n <= b[e.from]
  PROVE  Rising(Append(s, e)) /\ UpTo(Append(s, e), b)
<1> DEFINE r == Append(s, e)
<1>1. /\ Len(r) = Len(s) + 1 /\ Len(s) \in Nat
      /\ \A i \in 1..Len(s) : r[i] = s[i] /\ s[i] \in Entry
      /\ r[Len(s) + 1] = e
      /\ \A i \in 1..Len(r) : i \in 1..Len(s) \/ i = Len(s) + 1
  BY AppendAt
<1> HIDE DEF r
<1>2. e.from \in Conn /\ e.n \in Nat /\ a[e.from] \in Nat /\ b[e.from] \in Nat
  BY EntryFields
<1>3. \A i \in 1..Len(s) : /\ s[i].from \in Conn /\ s[i].n \in Nat
                           /\ a[s[i].from] \in Nat /\ b[s[i].from] \in Nat
                           /\ a[s[i].from] <= b[s[i].from]
  BY <1>1, EntryFields
<1>4. UpTo(r, b)
  BY <1>1, <1>2, <1>3 DEF UpTo
<1>5. ASSUME NEW i \in 1..Len(r), NEW j \in 1..Len(r), i < j,
             r[i].kind = "act", r[j].kind = "act", r[i].from = r[j].from
      PROVE  r[i].n < r[j].n
  <2>1. i \in 1..Len(s) /\ r[i] = s[i]
    BY <1>1, <1>5
  <2>2. CASE j \in 1..Len(s)
    BY <1>1, <1>5, <2>1, <2>2 DEF Rising
  <2>3. CASE j = Len(s) + 1
    <3>1. s[i].n <= a[e.from]
      BY <1>1, <1>5, <2>1, <2>3 DEF UpTo
    <3>2. a[e.from] < r[j].n
      BY <1>1, <1>5, <2>3
    <3>3. QED
      BY <1>1, <1>2, <1>3, <2>1, <2>3, <3>1, <3>2
  <2>4. QED
    BY <1>1, <2>2, <2>3
<1>6. QED
  BY <1>4, <1>5 DEF Rising, r

\* The beginning of a sequence has these properties too.
LEMMA Beginning ==
  ASSUME NEW s \in Seq(Entry), NEW t \in Seq(Entry), NEW a
  PROVE  /\ Announced(s \o t) => Announced(s)
         /\ \A k : Unique(s \o t, k) => Unique(s, k)
         /\ Rising(s \o t) => Rising(s)
         /\ UpTo(s \o t, a) => UpTo(s, a)
         /\ \A c : AnyIn(s, c) => AnyIn(s \o t, c)
<1> DEFINE u == s \o t
<1>1. /\ Len(u) = Len(s) + Len(t) /\ Len(s) \in Nat /\ Len(t) \in Nat
      /\ \A i \in 1..Len(s) : u[i] = s[i]
  BY ConcatProperties
<1> HIDE DEF u
<1>2. \A i \in 1..Len(s) : i \in 1..Len(u) /\ \A j \in 1..i : j \in 1..Len(s)
  BY <1>1
<1>3. Announced(u) => Announced(s)
  BY <1>1, <1>2 DEF Announced
<1>4. \A k : Unique(u, k) => Unique(s, k)
  BY <1>1, <1>2 DEF Unique
<1>5. Rising(u) => Rising(s)
  BY <1>1, <1>2 DEF Rising
<1>6. UpTo(u, a) => UpTo(s, a)
  BY <1>1, <1>2 DEF UpTo
<1>7. \A c : AnyIn(s, c) => AnyIn(u, c)
  BY <1>1, <1>2 DEF AnyIn
<1>8. QED
  BY <1>3, <1>4, <1>5, <1>6, <1>7 DEF u

-----------------------------------------------------------------------------
(* What the steps do to what has been accepted, and to those who leave.    *)

LEMMA AcceptedType ==
  ASSUME TypeOK
  PROVE  Accepted \in Seq(Entry)
  BY DEF TypeOK, RoomTypes, Accepted

LEMMA Accepts ==
  ASSUME TypeOK, NEW k \in {"join", "leave", "act", "limit"}, NEW c \in Conn, NEW n \in Nat,
         AddAction(k, c, n), UNCHANGED <<log, batch>>
  PROVE  /\ loop = "dead" => Accepted' = Accepted
         /\ loop # "dead" => Accepted' = Append(Accepted, [kind |-> k, from |-> c, n |-> n])
         /\ [kind |-> k, from |-> c, n |-> n] \in Entry
<1> DEFINE e == [kind |-> k, from |-> c, n |-> n]
<1>1. e \in Entry
  BY DEF Entry
<1> HIDE DEF e
<1>2. log \o batch \in Seq(Entry) /\ roomQ \in Seq(Entry)
  BY DEF TypeOK, RoomTypes
<1>3. (log \o batch) \o Append(roomQ, e) = Append((log \o batch) \o roomQ, e)
  BY <1>1, <1>2
<1>4. QED
  BY <1>1, <1>3 DEF AddAction, Accepted, e

LEMMA AcceptedMoves ==
  ASSUME TypeOK, LimitInv, Receive \/ Extend
  PROVE  Accepted' = Accepted
<1>1. log \in Seq(Entry) /\ batch \in Seq(Entry) /\ roomQ \in Seq(Entry)
  BY DEF TypeOK, RoomTypes
<1>2. CASE Receive
  <2>1. batch = <<>> /\ batch' = roomQ /\ roomQ' = <<>> /\ log' = log
    BY <1>2 DEF Receive, LimitInv
  <2>2. QED
    BY <1>1, <2>1 DEF Accepted
<1>3. CASE Extend
  <2>1. log' = log \o batch /\ batch' = <<>> /\ roomQ' = roomQ
    BY <1>3 DEF Extend
  <2>2. QED
    BY <1>1, <2>1 DEF Accepted
<1>4. QED
  BY <1>2, <1>3

\* Somebody has removed c and has still to say so.
IsLeaving(c) == \E by \in Conn \cup {Cleaner} : <<c, by>> \in leaving

LEMMA Leaves ==
  ASSUME NEW c \in Conn, NEW by \in Conn \cup {Cleaner}, PlayerLeft(c, by)
  PROVE  /\ players' = players \ {c}
         /\ \A d \in Conn : IsLeaving(d)' <=> IsLeaving(d) \/ (d = c /\ c \in players)
  BY DEF PlayerLeft, IsLeaving

-----------------------------------------------------------------------------
(* Where a task is, and what that says about its place in the room.        *)

Inside == {"start", "sync", "run", "end", "dead"}

StageAt(c) ==
  /\ task[c] = "create" => c = Creator /\ c \in players /\ listed = "no"
  /\ listed = "no" /\ c # Creator => task[c] = "out"
  /\ c \in players => task[c] \in Inside \cup {"create"}
  /\ IsLeaving(c) => task[c] \in Inside \cup {"leave", "gone"}
  /\ c \in stale \cup cleanup => ~RxOpen(c)

StageInv == \A c \in Conn : StageAt(c)

LEMMA StageQuiet ==
  ASSUME StageInv, UNCHANGED <<players, leaving, task>>,
         listed' = listed \/ (listed' # "no" /\ task[Creator] # "create"),
         \A d \in Conn : d \in stale' \/ d \in cleanup'
                           => d \in stale \/ d \in cleanup \/ ~RxOpen(d)
  PROVE  StageInv'
  BY DEF StageInv, StageAt, IsLeaving, RxOpen

\* One task goes on, and nobody enters or leaves the list.
LEMMA StageGo ==
  ASSUME TypeOK, StageInv, NEW c \in Conn, NEW to,
         task' = [task EXCEPT ![c] = to],
         UNCHANGED <<players, leaving, listed, stale, cleanup>>,
         to # "create", listed # "no" \/ c = Creator,
         task[c] \in Inside => to \in Inside,
         task[c] = "create" => to \in Inside,
         task[c] \in {"leave", "gone"} => to \in {"leave", "gone"},
         ~RxOpen(c) => to \in {"end", "leave", "gone", "dead"}
  PROVE  StageInv'
<1> USE DEF TypeOK, ConnTypes
<1>1. ASSUME NEW d \in Conn PROVE StageAt(d)'
  <2>1. StageAt(d) /\ StageAt(c) /\ (IsLeaving(d)' <=> IsLeaving(d))
    BY DEF StageInv, IsLeaving
  <2>2. CASE d = c
    <3>1. task'[d] = to
      BY <2>2
    <3>2. QED
      BY <2>1, <2>2, <3>1 DEF StageAt, RxOpen, Inside
  <2>3. CASE d # c
    <3>1. task'[d] = task[d]
      BY <2>3
    <3>2. QED
      BY <2>1, <3>1 DEF StageAt, RxOpen
  <2>4. QED
    BY <2>2, <2>3
<1>2. QED
  BY <1>1 DEF StageInv

LEMMA StagePush ==
  ASSUME TypeOK, StageInv, NEW c \in Conn, Push(c)
  PROVE  StageInv'
<1> USE DEF TypeOK, ConnTypes
<1>1. /\ task[c] = "push" /\ task' = [task EXCEPT ![c] = "start"]
      /\ players' = players \cup {c}
      /\ UNCHANGED <<leaving, listed, stale, cleanup>>
  BY DEF Push, loopVars
<1>2. ASSUME NEW d \in Conn PROVE StageAt(d)'
  <2>1. StageAt(d) /\ (IsLeaving(d)' <=> IsLeaving(d))
    BY <1>1 DEF StageInv, IsLeaving
  <2>2. CASE d = c
    <3>1. task'[d] = "start" /\ task[d] = "push"
      BY <1>1, <2>2
    <3>2. QED
      BY <1>1, <2>1, <2>2, <3>1 DEF StageAt, RxOpen, Inside
  <2>3. CASE d # c
    <3>1. task'[d] = task[d] /\ (d \in players' <=> d \in players)
      BY <1>1, <2>3
    <3>2. QED
      BY <1>1, <2>1, <3>1 DEF StageAt, RxOpen
  <2>4. QED
    BY <2>2, <2>3
<1>3. QED
  BY <1>2 DEF StageInv

\* c leaves the list; its task goes on to leave or gone, or stays.
LEMMA StageLeft ==
  ASSUME TypeOK, StageInv, NEW c \in Conn, NEW by \in Conn \cup {Cleaner}, PlayerLeft(c, by),
         task[c] # "create",
         \/ UNCHANGED task
         \/ task[c] = "end" /\ task' \in {[task EXCEPT ![c] = "leave"], [task EXCEPT ![c] = "gone"]},
         UNCHANGED <<listed, stale>>, cleanup' \subseteq cleanup
  PROVE  StageInv'
<1> USE DEF TypeOK, ConnTypes
<1>1. ASSUME NEW d \in Conn PROVE StageAt(d)'
  <2>1. StageAt(d)
    BY DEF StageInv
  <2>2. /\ d \in players' <=> d \in players /\ d # c
        /\ IsLeaving(d)' <=> IsLeaving(d) \/ (d = c /\ c \in players)
    BY Leaves
  <2>3. CASE task'[d] = task[d]
    BY <2>1, <2>2, <2>3 DEF StageAt, RxOpen
  <2>4. CASE d = c /\ task[c] = "end" /\ task'[c] \in {"leave", "gone"}
    BY <2>1, <2>2, <2>4 DEF StageAt, RxOpen, Inside
  <2>5. QED
    BY <2>3, <2>4
<1>2. QED
  BY <1>1 DEF StageInv

LEMMA StageSendLeave ==
  ASSUME TypeOK, StageInv, NEW c \in Conn, NEW by \in Conn \cup {Cleaner}, SendLeave(c, by)
  PROVE  StageInv'
<1> USE DEF TypeOK, ConnTypes
<1>1. ASSUME NEW d \in Conn PROVE StageAt(d)'
  <2>1. /\ StageAt(d) /\ (IsLeaving(d)' => IsLeaving(d))
        /\ UNCHANGED <<players, listed, stale, cleanup>>
    BY DEF StageInv, IsLeaving, SendLeave
  <2>2. CASE task'[d] = task[d]
    BY <2>1, <2>2 DEF StageAt, RxOpen
  <2>3. CASE task[d] = "leave" /\ task'[d] = "gone"
    BY <2>1, <2>3 DEF StageAt, RxOpen, Inside
  <2>4. QED
    BY <2>2, <2>3 DEF SendLeave
<1>2. QED
  BY <1>1 DEF StageInv

LEMMA StageStep == TypeOK /\ SyncInv /\ StageInv /\ [Next]_vars => StageInv'
<1> SUFFICES ASSUME TypeOK, SyncInv, StageInv, [Next]_vars PROVE StageInv'
  OBVIOUS
<1> USE DEF vars, roomVars, loopVars, syncVars, peerVars, connVars
<1>1. ASSUME NEW c \in Conn, task[c] # "out" PROVE listed # "no" \/ c = Creator
  BY <1>1 DEF StageInv, StageAt
<1>2. CASE Receive \/ Apply \/ Extend \/ BeginPass \/ EndPass
  BY <1>2, StageQuiet DEF Receive, Apply, Extend, BeginPass, EndPass, RxOpen
<1>3. CASE List \/ Expire \/ LoopExit \/ UNCHANGED vars
  BY <1>3, StageQuiet DEF List, Expire, LoopExit, RxOpen
<1>4. CASE Unlist
  <2>1. task[Creator] # "create"
    BY <1>4, RoomAssumption DEF Unlist, StageInv, StageAt
  <2>2. QED
    BY <1>4, <2>1, StageQuiet DEF Unlist, RxOpen
<1>5. ASSUME NEW c \in Conn, VisitStale(c) PROVE StageInv'
  BY <1>5, StageQuiet DEF VisitStale, RxOpen
<1>6. ASSUME NEW c \in Conn, VisitSync(c) PROVE StageInv'
  BY <1>6, StageQuiet DEF VisitSync, SyncBegin, Synced, RxOpen
<1>7. ASSUME NEW c \in Conn, CreateJoin(c) \/ Scan(c) \/ JoinMsg(c) PROVE StageInv'
  BY <1>1, <1>7, StageGo DEF CreateJoin, Scan, JoinMsg, Inside, RxOpen
<1>8. ASSUME NEW c \in Conn, Admit(c) PROVE StageInv'
  BY <1>8, StageGo DEF Admit, Inside, RxOpen
<1>9. ASSUME NEW c \in Conn, Push(c) PROVE StageInv'
  BY <1>9, StagePush
<1>10. ASSUME NEW c \in Conn, NEW p \in Conn, Kick(c, p) PROVE StageInv'
  BY <1>10, StageQuiet DEF Kick, RxOpen
<1>11. ASSUME NEW c \in Conn, NEW p \in Conn, KickLeft(c, p) PROVE StageInv'
  <2>1. task[p] # "create"
    BY <1>11 DEF KickLeft, StageInv, StageAt
  <2>2. QED
    BY <1>11, <2>1, StageLeft DEF KickLeft
<1>12. ASSUME NEW c \in Conn, SelfSync(c) PROVE StageInv'
  BY <1>1, <1>12, StageGo, StageQuiet DEF SelfSync, SyncBegin, Synced, Inside, RxOpen
<1>13. ASSUME NEW c \in Conn, SyncStep(c) PROVE StageInv'
  <2>1. syncer[c] = "self" => task[c] = "sync"
    BY DEF SyncInv, SyncAt
  <2>2. UNCHANGED <<players, leaving, listed, stale, cleanup>>
    BY <1>13 DEF SyncStep, SyncSend, SyncFull, SyncClosed
  <2>3. UNCHANGED task \/ (syncer[c] = "self" /\ task' = [task EXCEPT ![c] = "run"])
    BY <1>13 DEF SyncStep, SyncSend, SyncFull, SyncClosed, Synced
  <2>4. QED
    BY <1>1, <2>1, <2>2, <2>3, StageGo, StageQuiet DEF Inside, RxOpen
<1>14. ASSUME NEW c \in Conn, Shutdown(c) \/ PeerEnds(c) \/ ActRefused(c) \/ WritePanic(c) PROVE StageInv'
  BY <1>1, <1>14, StageGo DEF Shutdown, PeerEnds, ActRefused, WritePanic, Ended, Inside, RxOpen
<1>15. ASSUME NEW c \in Conn, TaskLeft(c) PROVE StageInv'
  BY <1>15, StageLeft DEF TaskLeft
<1>16. ASSUME NEW c \in Conn, CleanupLeft(c) PROVE StageInv'
  <2>1. task[c] # "create"
    BY <1>16 DEF CleanupLeft, StageInv, StageAt, RxOpen
  <2>2. QED
    BY <1>16, <2>1, StageLeft DEF CleanupLeft
<1>17. ASSUME NEW c \in Conn, Act(c) \/ Eph(c) \/ Write(c) \/ Overflow(c) PROVE StageInv'
  BY <1>17, StageQuiet DEF Act, Eph, Write, Overflow, RxOpen
<1>18. ASSUME NEW c \in Conn, NEW d \in Conn, EphSend(c, d) PROVE StageInv'
  BY <1>18, StageQuiet DEF EphSend, RxOpen
<1>19. ASSUME NEW c \in Conn, NEW by \in Conn \cup {Cleaner}, SendLeave(c, by) PROVE StageInv'
  BY <1>19, StageSendLeave
<1>20. QED
  BY <1>2, <1>3, <1>4, <1>5, <1>6, <1>7, <1>8, <1>9, <1>10, <1>11, <1>12, <1>13,
     <1>14, <1>15, <1>16, <1>17, <1>18, <1>19
     DEF Next, LoopStep, EnterStep, TaskStep, PeerStep

-----------------------------------------------------------------------------
(* Joins come first.                                                       *)

Before == {"out", "admitted", "kick", "create"}
Joined == {"push", "start", "sync", "run", "end", "leave", "dead"}

\* Nothing is from a connection that has not joined, and while the action
\* loop lives everybody else has joined, those removed included.
JoinInv ==
  /\ \A c \in Conn : task[c] \in Before => ~AnyIn(Accepted, c)
  /\ loop # "dead" =>
       \A c \in Conn : task[c] \in Joined \/ IsLeaving(c) => HasIn(Accepted, "join", c)
  /\ Announced(Accepted) /\ Unique(Accepted, "join")
  /\ Rising(Accepted) /\ UpTo(Accepted, acts)

\* Nothing is accepted, or a room without action loop does not accept it.
LEMMA JoinKeeps ==
  ASSUME JoinInv, Accepted' = Accepted, UNCHANGED acts,
         \A c \in Conn : task'[c] \in Before => task[c] \in Before,
         loop' # "dead" =>
           /\ loop # "dead"
           /\ \A c \in Conn : (task'[c] \in Joined \/ IsLeaving(c)')
                                => task[c] \in Joined \/ IsLeaving(c)
  PROVE  JoinInv'
  BY DEF JoinInv

LEMMA JoinQuiet ==
  ASSUME JoinInv, Accepted' = Accepted, UNCHANGED <<acts, task, leaving>>,
         loop' # "dead" => loop # "dead"
  PROVE  JoinInv'
<1>1. \A c \in Conn : IsLeaving(c)' <=> IsLeaving(c)
  BY DEF IsLeaving
<1>2. QED
  BY <1>1, JoinKeeps

\* One task goes on.
LEMMA JoinGo ==
  ASSUME TypeOK, JoinInv, NEW c \in Conn, NEW to, task' = [task EXCEPT ![c] = to],
         Accepted' = Accepted, UNCHANGED <<acts, leaving, loop>>,
         to \in Before => task[c] \in Before,
         to \in Joined => task[c] \in Joined \/ loop = "dead"
  PROVE  JoinInv'
<1>1. \A d \in Conn : (IsLeaving(d)' <=> IsLeaving(d)) /\ (d # c => task'[d] = task[d])
                      /\ task'[c] = to
  BY DEF IsLeaving, TypeOK, ConnTypes
<1>2. QED
  BY <1>1, JoinKeeps

LEMMA JoinLeft ==
  ASSUME TypeOK, StageInv, JoinInv, NEW c \in Conn, NEW by \in Conn \cup {Cleaner},
         PlayerLeft(c, by), task[c] # "create", Accepted' = Accepted, UNCHANGED <<acts, loop>>,
         \/ UNCHANGED task
         \/ task[c] = "end" /\ task' \in {[task EXCEPT ![c] = "leave"], [task EXCEPT ![c] = "gone"]}
  PROVE  JoinInv'
<1>1. \A d \in Conn : IsLeaving(d)' => IsLeaving(d) \/ (d = c /\ task[c] \in Joined)
  BY Leaves DEF StageInv, StageAt, Inside, Joined
<1>2. \A d \in Conn : /\ task'[d] \in Before => task[d] \in Before
                      /\ task'[d] \in Joined => task[d] \in Joined
  BY DEF TypeOK, ConnTypes, Before, Joined
<1>3. QED
  BY <1>1, <1>2, JoinKeeps

\* The first entry of c.
LEMMA JoinJoins ==
  ASSUME TypeOK, JoinInv, NEW c \in Conn, CreateJoin(c) \/ JoinMsg(c)
  PROVE  JoinInv'
<1> DEFINE e == [kind |-> "join", from |-> c, n |-> 0]
<1>1. /\ task[c] \in Before /\ AddAction("join", c, 0)
      /\ UNCHANGED <<log, batch, acts, leaving, loop>>
      /\ \E to \in {"start", "push"} : task' = [task EXCEPT ![c] = to]
  BY DEF CreateJoin, JoinMsg, loopVars, peerVars, Before
<1>2. PICK to \in {"start", "push"} : task' = [task EXCEPT ![c] = to]
  BY <1>1
<1>3. to \notin Before /\ to \in Joined
  BY DEF Before, Joined
<1>4. /\ loop = "dead" => Accepted' = Accepted
      /\ loop # "dead" => Accepted' = Append(Accepted, e)
      /\ e \in Entry /\ e.kind = "join" /\ e.from = c
  BY <1>1, Accepts
<1> HIDE DEF e
<1>5. CASE loop = "dead"
  BY <1>1, <1>2, <1>3, <1>4, <1>5, JoinGo
<1>6. CASE loop # "dead"
  <2>1. Accepted \in Seq(Entry) /\ acts \in [Conn -> Nat] /\ task \in [Conn -> Task]
    BY AcceptedType DEF TypeOK, PeerTypes, ConnTypes
  <2> DEFINE s == Accepted
  <2>2. ASSUME NEW d \in Conn
        PROVE  /\ HasIn(Accepted', "join", d) <=> HasIn(s, "join", d) \/ d = c
               /\ AnyIn(Accepted', d) <=> AnyIn(s, d) \/ d = c
    <3>1. /\ HasIn(Append(s, e), "join", d) <=> HasIn(s, "join", d) \/ (e.kind = "join" /\ e.from = d)
          /\ AnyIn(Append(s, e), d) <=> AnyIn(s, d) \/ e.from = d
      BY <1>4, <2>1, HasAppend
    <3>2. QED
      BY <1>4, <1>6, <3>1
  <2>3. ~AnyIn(s, c)
    BY <1>1 DEF JoinInv
  <2>4. ~HasIn(s, "join", c)
    BY <2>3 DEF AnyIn, HasIn
  <2>5. Announced(Accepted') /\ Unique(Accepted', "join")
    BY <1>4, <1>6, <2>1, <2>4, AnnouncedAppend, UniqueAppend DEF JoinInv
  <2>6. Rising(Accepted') /\ UpTo(Accepted', acts')
    <3>1. Rising(s) /\ UpTo(s, acts) /\ acts' = acts /\ e.kind # "act"
      BY <1>1, <1>4 DEF JoinInv
    <3>2. \A d \in Conn : acts[d] <= acts[d]
      BY <2>1
    <3>3. Rising(Append(s, e)) /\ UpTo(Append(s, e), acts)
      BY <1>4, <2>1, <3>1, <3>2, RisingAppend
    <3>4. QED
      BY <1>4, <1>6, <3>1, <3>3
  <2>7. \A d \in Conn : (IsLeaving(d)' <=> IsLeaving(d)) /\ (d # c => task'[d] = task[d])
    BY <1>1, <1>2, <2>1 DEF IsLeaving
  <2>8. \A d \in Conn : task'[d] \in Before => ~AnyIn(Accepted', d)
    BY <1>2, <1>3, <2>1, <2>2, <2>7 DEF JoinInv
  <2>9. \A d \in Conn : task'[d] \in Joined \/ IsLeaving(d)' => HasIn(Accepted', "join", d)
    BY <1>6, <2>2, <2>7 DEF JoinInv
  <2>10. QED
    BY <2>5, <2>6, <2>8, <2>9 DEF JoinInv
<1>7. QED
  BY <1>5, <1>6

\* An entry of one who has joined.
LEMMA JoinAdds ==
  ASSUME TypeOK, JoinInv, loop # "dead", NEW e \in Entry, e.kind # "join",
         Accepted' = Append(Accepted, e), UNCHANGED loop,
         task[e.from] \in Joined \/ IsLeaving(e.from), task[e.from] \notin Before,
         acts' \in [Conn -> Nat], \A c \in Conn : acts[c] <= acts'[c],
         e.kind = "act" => acts[e.from] < e.n /\ e.n <= acts'[e.from],
         \A c \in Conn : task'[c] \in Before => task[c] \in Before,
         \A c \in Conn : (task'[c] \in Joined \/ IsLeaving(c)') => task[c] \in Joined \/ IsLeaving(c)
  PROVE  JoinInv'
<1>1. Accepted \in Seq(Entry) /\ acts \in [Conn -> Nat] /\ e.from \in Conn
  BY AcceptedType, EntryFields DEF TypeOK, PeerTypes
<1>2. \A d \in Conn : /\ HasIn(Accepted', "join", d) <=> HasIn(Accepted, "join", d)
                      /\ AnyIn(Accepted', d) <=> AnyIn(Accepted, d) \/ d = e.from
  BY <1>1, HasAppend
<1>3. HasIn(Accepted, "join", e.from)
  BY <1>1 DEF JoinInv
<1>4. Announced(Accepted') /\ Unique(Accepted', "join")
  BY <1>1, <1>3, AnnouncedAppend, UniqueAppend DEF JoinInv
<1>5. Rising(Accepted') /\ UpTo(Accepted', acts')
  BY <1>1, RisingAppend DEF JoinInv
<1>6. \A d \in Conn : task'[d] \in Before => ~AnyIn(Accepted', d)
  BY <1>2 DEF JoinInv
<1>7. \A d \in Conn : task'[d] \in Joined \/ IsLeaving(d)' => HasIn(Accepted', "join", d)
  BY <1>2 DEF JoinInv
<1>8. QED
  BY <1>4, <1>5, <1>6, <1>7 DEF JoinInv

LEMMA JoinActs ==
  ASSUME TypeOK, JoinInv, NEW c \in Conn, Act(c)
  PROVE  JoinInv'
<1>1. /\ task[c] = "run" /\ loop # "dead" /\ UNCHANGED <<log, batch, loop, task, leaving>>
      /\ acts \in [Conn -> Nat] /\ acts' = [acts EXCEPT ![c] = @ + 1]
  BY DEF Act, loopVars, connVars, TypeOK, PeerTypes
<1>2. PICK k \in {"act", "limit"}, n \in Nat :
        AddAction(k, c, n) /\ (k = "act" => n = acts[c] + 1)
  BY <1>1, RoomAssumption DEF Act
<1> DEFINE e == [kind |-> k, from |-> c, n |-> n]
<1>3. /\ Accepted' = Append(Accepted, e) /\ e \in Entry
      /\ e.kind = k /\ e.from = c /\ e.n = n
  BY <1>1, <1>2, Accepts
<1> HIDE DEF e
<1>4. /\ acts' \in [Conn -> Nat] /\ \A d \in Conn : acts[d] <= acts'[d]
      /\ e.kind = "act" => acts[e.from] < e.n /\ e.n <= acts'[e.from]
  BY <1>1, <1>2, <1>3
<1>5. /\ task[e.from] \in Joined /\ task[e.from] \notin Before /\ e.kind # "join"
      /\ \A d \in Conn : IsLeaving(d)' <=> IsLeaving(d)
  BY <1>1, <1>3 DEF Joined, Before, IsLeaving
<1>6. QED
  BY <1>1, <1>3, <1>4, <1>5, JoinAdds

LEMMA JoinLeaves ==
  ASSUME TypeOK, StageInv, JoinInv, NEW c \in Conn, NEW by \in Conn \cup {Cleaner},
         SendLeave(c, by)
  PROVE  JoinInv'
<1> DEFINE e == [kind |-> "leave", from |-> c, n |-> 0]
<1>1. /\ IsLeaving(c) /\ AddAction("leave", c, 0) /\ UNCHANGED <<log, batch, loop, acts>>
      /\ leaving' = leaving \ {<<c, by>>}
      /\ task' = task \/ (task[c] = "leave" /\ task' = [task EXCEPT ![c] = "gone"])
  BY DEF SendLeave, IsLeaving, peerVars
<1>2. /\ loop = "dead" => Accepted' = Accepted
      /\ loop # "dead" => Accepted' = Append(Accepted, e)
      /\ e \in Entry /\ e.kind = "leave" /\ e.from = c
  BY <1>1, Accepts
<1> HIDE DEF e
<1>3. \A d \in Conn : /\ IsLeaving(d)' => IsLeaving(d)
                      /\ task'[d] \in Before => task[d] \in Before
                      /\ task'[d] \in Joined => task[d] \in Joined
  BY <1>1 DEF IsLeaving, TypeOK, ConnTypes, Before, Joined
<1>4. task[c] \notin Before
  BY <1>1 DEF StageInv, StageAt, Before, Inside
<1>5. CASE loop = "dead"
  BY <1>1, <1>2, <1>3, <1>5, JoinKeeps
<1>6. CASE loop # "dead"
  <2>1. acts' \in [Conn -> Nat] /\ \A d \in Conn : acts[d] <= acts'[d]
    BY <1>1 DEF TypeOK, PeerTypes
  <2>2. QED
    BY <1>1, <1>2, <1>3, <1>4, <1>6, <2>1, JoinAdds
<1>7. QED
  BY <1>5, <1>6

LEMMA JoinExit ==
  ASSUME TypeOK, JoinInv, LoopExit
  PROVE  JoinInv'
<1>1. /\ log \o batch \in Seq(Entry) /\ roomQ \in Seq(Entry)
      /\ Accepted = (log \o batch) \o roomQ
  BY DEF TypeOK, RoomTypes, Accepted
<1>2. /\ loop' = "dead" /\ roomQ' = <<>> /\ UNCHANGED <<log, batch, task, acts>>
  BY DEF LoopExit, connVars, peerVars
<1>3. Accepted' = log \o batch
  BY <1>1, <1>2 DEF Accepted
<1>4. /\ Announced(Accepted') /\ Unique(Accepted', "join")
      /\ Rising(Accepted') /\ UpTo(Accepted', acts)
      /\ \A c : AnyIn(Accepted', c) => AnyIn(Accepted, c)
  BY <1>1, <1>3, Beginning DEF JoinInv
<1>5. QED
  BY <1>2, <1>4 DEF JoinInv

LEMMA JoinStep == TypeOK /\ SyncInv /\ LimitInv /\ StageInv /\ JoinInv /\ [Next]_vars => JoinInv'
<1> SUFFICES ASSUME TypeOK, SyncInv, LimitInv, StageInv, JoinInv, [Next]_vars PROVE JoinInv'
  OBVIOUS
<1> USE DEF vars, roomVars, loopVars, syncVars, peerVars, connVars
<1>1. UNCHANGED <<log, batch, roomQ>> => Accepted' = Accepted
  BY DEF Accepted
<1>2. CASE Receive \/ Extend
  BY <1>2, AcceptedMoves, JoinQuiet DEF Receive, Extend
<1>3. CASE Apply \/ BeginPass \/ EndPass
  BY <1>1, <1>3, JoinQuiet DEF Apply, BeginPass, EndPass
<1>4. CASE List \/ Expire \/ Unlist \/ UNCHANGED vars
  BY <1>1, <1>4, JoinQuiet DEF List, Expire, Unlist
<1>5. CASE LoopExit
  BY <1>5, JoinExit
<1>6. ASSUME NEW c \in Conn, VisitStale(c) PROVE JoinInv'
  BY <1>1, <1>6, JoinQuiet DEF VisitStale
<1>7. ASSUME NEW c \in Conn, VisitSync(c) PROVE JoinInv'
  BY <1>1, <1>7, JoinQuiet DEF VisitSync, SyncBegin, Synced
<1>8. ASSUME NEW c \in Conn, CreateJoin(c) \/ JoinMsg(c) PROVE JoinInv'
  BY <1>8, JoinJoins
<1>9. ASSUME NEW c \in Conn, Admit(c) \/ Scan(c) PROVE JoinInv'
  BY <1>1, <1>9, JoinGo DEF Admit, Scan, Before, Joined
<1>10. ASSUME NEW c \in Conn, Push(c) PROVE JoinInv'
  BY <1>1, <1>10, JoinGo DEF Push, Before, Joined
<1>11. ASSUME NEW c \in Conn, NEW p \in Conn, Kick(c, p) PROVE JoinInv'
  BY <1>1, <1>11, JoinQuiet DEF Kick
<1>12. ASSUME NEW c \in Conn, NEW p \in Conn, KickLeft(c, p) PROVE JoinInv'
  <2>1. task[p] # "create"
    BY <1>12 DEF KickLeft, StageInv, StageAt
  <2>2. QED
    BY <1>1, <1>12, <2>1, JoinLeft DEF KickLeft
<1>13. ASSUME NEW c \in Conn, SelfSync(c) PROVE JoinInv'
  BY <1>1, <1>13, JoinGo, JoinQuiet DEF SelfSync, SyncBegin, Synced, Before, Joined
<1>14. ASSUME NEW c \in Conn, SyncStep(c) PROVE JoinInv'
  <2>1. syncer[c] = "self" => task[c] = "sync"
    BY DEF SyncInv, SyncAt
  <2>2. UNCHANGED <<leaving, acts, loop, log, batch, roomQ>>
    BY <1>14 DEF SyncStep, SyncSend, SyncFull, SyncClosed
  <2>3. UNCHANGED task \/ (syncer[c] = "self" /\ task' = [task EXCEPT ![c] = "run"])
    BY <1>14 DEF SyncStep, SyncSend, SyncFull, SyncClosed, Synced
  <2>4. QED
    BY <1>1, <2>1, <2>2, <2>3, JoinGo, JoinQuiet DEF Before, Joined
<1>15. ASSUME NEW c \in Conn, Shutdown(c) \/ PeerEnds(c) \/ ActRefused(c) \/ WritePanic(c) PROVE JoinInv'
  BY <1>1, <1>15, JoinGo DEF Shutdown, PeerEnds, ActRefused, WritePanic, Ended, Before, Joined
<1>16. ASSUME NEW c \in Conn, TaskLeft(c) PROVE JoinInv'
  BY <1>1, <1>16, JoinLeft DEF TaskLeft
<1>17. ASSUME NEW c \in Conn, CleanupLeft(c) PROVE JoinInv'
  <2>1. task[c] # "create"
    BY <1>17 DEF CleanupLeft, StageInv, StageAt, RxOpen
  <2>2. QED
    BY <1>1, <1>17, <2>1, JoinLeft DEF CleanupLeft
<1>18. ASSUME NEW c \in Conn, Act(c) PROVE JoinInv'
  BY <1>18, JoinActs
<1>19. ASSUME NEW c \in Conn, Eph(c) \/ Write(c) \/ Overflow(c) PROVE JoinInv'
  BY <1>1, <1>19, JoinQuiet DEF Eph, Write, Overflow
<1>20. ASSUME NEW c \in Conn, NEW d \in Conn, EphSend(c, d) PROVE JoinInv'
  BY <1>1, <1>20, JoinQuiet DEF EphSend
<1>21. ASSUME NEW c \in Conn, NEW by \in Conn \cup {Cleaner}, SendLeave(c, by) PROVE JoinInv'
  BY <1>21, JoinLeaves
<1>22. QED
  BY <1>2, <1>3, <1>4, <1>5, <1>6, <1>7, <1>8, <1>9, <1>10, <1>11, <1>12, <1>13,
     <1>14, <1>15, <1>16, <1>17, <1>18, <1>19, <1>20, <1>21
     DEF Next, LoopStep, EnterStep, TaskStep, PeerStep

LEMMA MembersInit == Init => StageInv /\ JoinInv
<1> SUFFICES ASSUME Init PROVE StageInv /\ JoinInv
  OBVIOUS
<1>1. StageInv
  BY RoomAssumption DEF Init, StageInv, StageAt, IsLeaving, Inside
<1>2. Accepted = <<>> /\ 1..Len(Accepted) = {}
  <2>1. Accepted = <<>>
    BY DEF Init, Accepted
  <2>2. QED
    BY <2>1
<1>3. JoinInv
  BY <1>1, <1>2
     DEF Init, JoinInv, Before, Joined, IsLeaving, AnyIn, Announced, Unique, Rising, UpTo
<1>4. QED
  BY <1>1, <1>3

LEMMA AtMostOne ==
  ASSUME NEW S, \A x, y \in S : x = y
  PROVE  /\ IsFiniteSet(S)
         /\ Cardinality(S) = IF S = {} THEN 0 ELSE 1
<1>1. CASE S = {}
  BY <1>1, FS_EmptySet
<1>2. CASE S # {}
  <2>1. PICK x \in S : S = {x}
    BY <1>2
  <2>2. QED
    BY <1>2, <2>1, FS_Singleton
<1>3. QED
  BY <1>1, <1>2

\* The invariants of the room that joins and leaves need.
MembersInv == LimitInv /\ StageInv /\ JoinInv

LEMMA MembersAlways == Spec => [](Inv /\ MembersInv)
<1>1. Inv /\ MembersInv /\ [Next]_vars => MembersInv'
  BY LimitStep, StageStep, JoinStep DEF Inv, MembersInv
<1>2. Init => MembersInv
  BY LimitInit, MembersInit DEF MembersInv
<1>3. QED
  BY <1>1, <1>2, Invariant, PTL DEF Spec

\* Everything a connection sends comes after its one join, in the order in
\* which it was sent (add_player_via_join, read_player_actions).
THEOREM SendersInOrder == Spec => []SenderOrder
<1>1. Inv /\ MembersInv => SenderOrder
  <2> SUFFICES ASSUME TypeOK, JoinInv, NEW c \in Conn
               PROVE  /\ Cardinality(At("join", c)) <= 1
                      /\ \A i \in 1..Len(Accepted) :
                           Accepted[i].from = c => \E j \in At("join", c) : j <= i
                      /\ \A i, j \in At("act", c) : i < j => Accepted[i].n < Accepted[j].n
    BY DEF Inv, MembersInv, SenderOrder
  <2>1. \A x, y \in At("join", c) : x = y
    BY DEF At, JoinInv, Unique
  <2>2. Cardinality(At("join", c)) <= 1
    BY <2>1, AtMostOne
  <2>3. ASSUME NEW i \in 1..Len(Accepted), Accepted[i].from = c
        PROVE  \E j \in At("join", c) : j <= i
    <3>1. PICK j \in 1..i : Accepted[j].kind = "join" /\ Accepted[j].from = c
      BY <2>3 DEF JoinInv, Announced
    <3>2. Len(Accepted) \in Nat
      BY AcceptedType
    <3>3. j \in At("join", c) /\ j <= i
      BY <3>1, <3>2 DEF At
    <3>4. QED
      BY <3>3
  <2>4. \A i, j \in At("act", c) : i < j => Accepted[i].n < Accepted[j].n
    BY DEF At, JoinInv, Rising
  <2>5. QED
    BY <2>2, <2>3, <2>4
<1>2. QED
  BY <1>1, MembersAlways, PTL

-----------------------------------------------------------------------------
(* One leave for each removal.                                             *)

After == Inside \cup {"leave", "gone"}

\* c is a player, or its removal is under way, or has been announced, and
\* never two of these.
LeaveAt(c) ==
  /\ task[c] = "push" \/ c \in players \/ IsLeaving(c) => ~HasIn(Accepted, "leave", c)
  /\ c \in players => ~IsLeaving(c)
  /\ \A x, y \in Conn \cup {Cleaner} : <<c, x>> \in leaving /\ <<c, y>> \in leaving => x = y
  /\ task[c] \in After /\ HasIn(Accepted, "join", c) /\ c \notin players
       => IsLeaving(c) \/ HasIn(Accepted, "leave", c)

LeaveInv == loop # "dead" => Unique(Accepted, "leave") /\ \A c \in Conn : LeaveAt(c)

LEMMA LeaveQuiet ==
  ASSUME LeaveInv, Accepted' = Accepted, UNCHANGED <<players, leaving>>,
         loop' # "dead" => loop # "dead",
         \A c \in Conn : /\ task'[c] = "push" => task[c] = "push"
                         /\ task'[c] \in After => \/ task[c] \in After \/ c \in players
                                                  \/ ~HasIn(Accepted, "join", c)
  PROVE  LeaveInv'
<1>1. \A c \in Conn : IsLeaving(c)' <=> IsLeaving(c)
  BY DEF IsLeaving
<1>2. QED
  BY <1>1 DEF LeaveInv, LeaveAt

\* One task goes on.
LEMMA LeaveGo ==
  ASSUME TypeOK, LeaveInv, NEW c \in Conn, NEW to, task' = [task EXCEPT ![c] = to],
         Accepted' = Accepted, UNCHANGED <<players, leaving, loop>>,
         to # "push" \/ loop = "dead",
         to \in After => \/ task[c] \in After \/ c \in players \/ loop = "dead"
                         \/ ~HasIn(Accepted, "join", c)
  PROVE  LeaveInv'
<1>1. CASE loop = "dead"
  BY <1>1 DEF LeaveInv
<1>2. CASE loop # "dead"
  <2>1. \A d \in Conn : task'[d] = IF d = c THEN to ELSE task[d]
    BY DEF TypeOK, ConnTypes
  <2>2. QED
    BY <1>2, <2>1, LeaveQuiet
<1>3. QED
  BY <1>1, <1>2

\* An entry of another kind: a join is of a player, or of somebody who is
\* about to be one.
LEMMA LeaveAdds ==
  ASSUME TypeOK, LeaveInv, NEW e \in Entry, e.kind # "leave",
         Accepted' = Append(Accepted, e), UNCHANGED <<players, leaving, loop>>,
         \A c \in Conn :
           /\ task'[c] = "push" => task[c] = "push" \/ ~HasIn(Accepted, "leave", c)
           /\ task'[c] \in After => task[c] \in After \/ c \in players,
         e.kind = "join" => e.from \in players \/ task'[e.from] \notin After
  PROVE  LeaveInv'
<1> SUFFICES ASSUME loop # "dead" PROVE Unique(Accepted', "leave") /\ \A c \in Conn : LeaveAt(c)'
  BY DEF LeaveInv
<1>1. Accepted \in Seq(Entry) /\ Unique(Accepted, "leave") /\ \A c \in Conn : LeaveAt(c)
  BY AcceptedType DEF LeaveInv
<1>2. Unique(Accepted', "leave")
  BY <1>1, UniqueAppend
<1>3. ASSUME NEW c \in Conn PROVE LeaveAt(c)'
  <2>1. /\ HasIn(Accepted', "leave", c) <=> HasIn(Accepted, "leave", c)
        /\ HasIn(Accepted', "join", c) <=> HasIn(Accepted, "join", c) \/ (e.kind = "join" /\ e.from = c)
    BY <1>1, HasAppend
  <2>2. IsLeaving(c)' <=> IsLeaving(c)
    BY DEF IsLeaving
  <2>3. QED
    BY <1>1, <2>1, <2>2 DEF LeaveAt
<1>4. QED
  BY <1>2, <1>3

LEMMA LeaveJoins ==
  ASSUME TypeOK, StageInv, JoinInv, LeaveInv, NEW c \in Conn, CreateJoin(c) \/ JoinMsg(c)
  PROVE  LeaveInv'
<1> DEFINE e == [kind |-> "join", from |-> c, n |-> 0]
<1>1. /\ AddAction("join", c, 0)
      /\ UNCHANGED <<log, batch, players, leaving, loop>>
      /\ task[c] \in Before
      /\ \/ task[c] = "create" /\ task' = [task EXCEPT ![c] = "start"]
         \/ task' = [task EXCEPT ![c] = "push"]
  BY DEF CreateJoin, JoinMsg, loopVars, Before
<1>2. /\ loop = "dead" => Accepted' = Accepted
      /\ loop # "dead" => Accepted' = Append(Accepted, e)
      /\ e \in Entry /\ e.kind = "join" /\ e.from = c
  BY <1>1, Accepts
<1> HIDE DEF e
<1>3. CASE loop = "dead"
  BY <1>1, <1>3 DEF LeaveInv
<1>4. CASE loop # "dead"
  <2>1. ~HasIn(Accepted, "leave", c)
    BY <1>1 DEF JoinInv, AnyIn, HasIn
  <2>2. task[c] = "create" => c \in players
    BY DEF StageInv, StageAt
  <2>3. \A d \in Conn : /\ task'[d] = "push" => task[d] = "push" \/ ~HasIn(Accepted, "leave", d)
                        /\ task'[d] \in After => task[d] \in After \/ d \in players
    BY <1>1, <2>1, <2>2 DEF TypeOK, ConnTypes, After, Inside
  <2>4. c \in players \/ task'[c] \notin After
    BY <1>1, <2>2 DEF TypeOK, ConnTypes, After, Inside
  <2>5. QED
    BY <1>1, <1>2, <1>4, <2>3, <2>4, LeaveAdds
<1>5. QED
  BY <1>3, <1>4

LEMMA LeavePush ==
  ASSUME TypeOK, StageInv, LeaveInv, NEW c \in Conn, Push(c)
  PROVE  LeaveInv'
<1> SUFFICES ASSUME loop # "dead" PROVE Unique(Accepted', "leave") /\ \A d \in Conn : LeaveAt(d)'
  BY DEF LeaveInv, Push, loopVars
<1>1. /\ Accepted' = Accepted /\ Unique(Accepted, "leave") /\ \A d \in Conn : LeaveAt(d)
      /\ task[c] = "push" /\ task' = [task EXCEPT ![c] = "start"]
      /\ players' = players \cup {c} /\ UNCHANGED leaving
  BY DEF LeaveInv, Push, Accepted, loopVars
<1>2. ~IsLeaving(c) /\ ~HasIn(Accepted, "leave", c)
  BY <1>1 DEF StageInv, StageAt, LeaveAt, Inside
<1>3. ASSUME NEW d \in Conn PROVE LeaveAt(d)'
  <2>1. LeaveAt(d) /\ (IsLeaving(d)' <=> IsLeaving(d))
    BY <1>1 DEF IsLeaving
  <2>2. CASE d = c
    <3>1. task'[d] = "start" /\ d \in players'
      BY <1>1, <2>2 DEF TypeOK, ConnTypes
    <3>2. QED
      BY <1>1, <1>2, <2>1, <2>2, <3>1 DEF LeaveAt
  <2>3. CASE d # c
    <3>1. task'[d] = task[d] /\ (d \in players' <=> d \in players)
      BY <1>1, <2>3 DEF TypeOK, ConnTypes
    <3>2. QED
      BY <1>1, <2>1, <3>1 DEF LeaveAt
  <2>4. QED
    BY <2>2, <2>3
<1>4. QED
  BY <1>1, <1>3

\* player_left: a player becomes one whose leave is due, once.
LEMMA LeaveLeft ==
  ASSUME TypeOK, LeaveInv, NEW c \in Conn, NEW by \in Conn \cup {Cleaner},
         PlayerLeft(c, by), Accepted' = Accepted, UNCHANGED loop,
         \A d \in Conn : /\ task'[d] = "push" => task[d] = "push"
                         /\ task'[d] \in After => task[d] \in After
  PROVE  LeaveInv'
<1> SUFFICES ASSUME loop # "dead" PROVE Unique(Accepted', "leave") /\ \A d \in Conn : LeaveAt(d)'
  BY DEF LeaveInv
<1>1. Accepted' = Accepted /\ Unique(Accepted, "leave") /\ \A d \in Conn : LeaveAt(d)
  BY DEF LeaveInv
<1>2. ASSUME NEW d \in Conn PROVE LeaveAt(d)'
  <2>1. /\ d \in players' <=> d \in players /\ d # c
        /\ IsLeaving(d)' <=> IsLeaving(d) \/ (d = c /\ c \in players)
    BY Leaves
  <2>2. LeaveAt(d)
    BY <1>1
  <2>3. \A x, y \in Conn \cup {Cleaner} : <<d, x>> \in leaving' /\ <<d, y>> \in leaving' => x = y
    <3>1. CASE d = c /\ c \in players
      <4>1. \A x \in Conn \cup {Cleaner} : <<d, x>> \notin leaving
        BY <2>2, <3>1 DEF LeaveAt, IsLeaving
      <4>2. leaving' = leaving \cup {<<c, by>>}
        BY <3>1 DEF PlayerLeft
      <4>3. QED
        BY <3>1, <4>1, <4>2
    <3>2. CASE d # c \/ c \notin players
      <4>1. \A x \in Conn \cup {Cleaner} : <<d, x>> \in leaving' => <<d, x>> \in leaving
        BY <3>2 DEF PlayerLeft
      <4>2. QED
        BY <2>2, <4>1 DEF LeaveAt
    <3>3. QED
      BY <3>1, <3>2
  <2>4. QED
    BY <1>1, <2>1, <2>2, <2>3 DEF LeaveAt
<1>3. QED
  BY <1>1, <1>2

\* The leave is sent, and is no longer due.
LEMMA LeaveLeaves ==
  ASSUME TypeOK, StageInv, LeaveInv, NEW c \in Conn, NEW by \in Conn \cup {Cleaner},
         SendLeave(c, by)
  PROVE  LeaveInv'
<1> SUFFICES ASSUME loop # "dead" PROVE Unique(Accepted', "leave") /\ \A d \in Conn : LeaveAt(d)'
  BY DEF LeaveInv, SendLeave
<1> DEFINE e == [kind |-> "leave", from |-> c, n |-> 0]
<1>1. /\ <<c, by>> \in leaving /\ AddAction("leave", c, 0)
      /\ UNCHANGED <<log, batch, loop, players>>
      /\ leaving' = leaving \ {<<c, by>>}
      /\ task' = task \/ (task[c] = "leave" /\ task' = [task EXCEPT ![c] = "gone"])
  BY DEF SendLeave
<1>2. /\ Accepted' = Append(Accepted, e)
      /\ e \in Entry /\ e.kind = "leave" /\ e.from = c
  BY <1>1, Accepts
<1> HIDE DEF e
<1>3. /\ Accepted \in Seq(Entry) /\ Unique(Accepted, "leave")
      /\ \A d \in Conn : LeaveAt(d)
  BY AcceptedType DEF LeaveInv
<1>4. IsLeaving(c)
  BY <1>1 DEF IsLeaving
<1>5. ~HasIn(Accepted, "leave", c) /\ c \notin players /\ task[c] # "push"
  BY <1>3, <1>4 DEF LeaveAt, StageInv, StageAt, Inside
<1>6. Unique(Accepted', "leave")
  BY <1>2, <1>3, <1>5, UniqueAppend
<1>7. ASSUME NEW d \in Conn PROVE LeaveAt(d)'
  <2>1. /\ HasIn(Accepted', "leave", d) <=> HasIn(Accepted, "leave", d) \/ d = c
        /\ HasIn(Accepted', "join", d) <=> HasIn(Accepted, "join", d)
    <3>1. /\ HasIn(Append(Accepted, e), "leave", d) <=>
               HasIn(Accepted, "leave", d) \/ (e.kind = "leave" /\ e.from = d)
          /\ HasIn(Append(Accepted, e), "join", d) <=>
               HasIn(Accepted, "join", d) \/ (e.kind = "join" /\ e.from = d)
      BY <1>2, <1>3, HasAppend
    <3>2. QED
      BY <1>2, <3>1
  <2>2. LeaveAt(d)
    BY <1>3
  <2>3. /\ task'[d] = "push" => task[d] = "push"
        /\ task'[d] \in After => task[d] \in After
    BY <1>1 DEF TypeOK, ConnTypes, After, Inside
  <2>4. \A x, y \in Conn \cup {Cleaner} : <<d, x>> \in leaving' /\ <<d, y>> \in leaving' => x = y
    BY <1>1, <2>2 DEF LeaveAt
  <2>5. CASE d = c
    <3>1. ~IsLeaving(d)'
      BY <1>1, <2>2, <2>5 DEF LeaveAt, IsLeaving
    <3>2. task'[d] # "push" /\ d \notin players'
      BY <1>1, <1>5, <2>3, <2>5
    <3>3. QED
      BY <2>1, <2>4, <2>5, <3>1, <3>2 DEF LeaveAt
  <2>6. CASE d # c
    <3>1. (IsLeaving(d)' <=> IsLeaving(d)) /\ (d \in players' <=> d \in players)
      BY <1>1, <2>6 DEF IsLeaving
    <3>2. QED
      BY <2>1, <2>2, <2>3, <2>4, <2>6, <3>1 DEF LeaveAt
  <2>7. QED
    BY <2>5, <2>6
<1>8. QED
  BY <1>6, <1>7

LEMMA LeaveActs ==
  ASSUME TypeOK, LeaveInv, NEW c \in Conn, Act(c)
  PROVE  LeaveInv'
<1>1. loop # "dead" /\ UNCHANGED <<log, batch, loop, players, task, leaving>>
  BY DEF Act, loopVars, connVars
<1>2. PICK k \in {"act", "limit"}, n \in Nat : AddAction(k, c, n)
  <2>1. acts[c] + 1 \in Nat
    BY DEF TypeOK, PeerTypes
  <2>2. QED
    BY <1>1, <2>1, RoomAssumption DEF Act
<1> DEFINE e == [kind |-> k, from |-> c, n |-> n]
<1>3. Accepted' = Append(Accepted, e) /\ e \in Entry /\ e.kind \notin {"join", "leave"}
  BY <1>1, <1>2, Accepts
<1> HIDE DEF e
<1>4. QED
  BY <1>1, <1>3, LeaveAdds

LEMMA LeaveStep ==
  TypeOK /\ SyncInv /\ LimitInv /\ StageInv /\ JoinInv /\ LeaveInv /\ [Next]_vars => LeaveInv'
<1> SUFFICES ASSUME TypeOK, SyncInv, LimitInv, StageInv, JoinInv, LeaveInv, [Next]_vars
             PROVE  LeaveInv'
  OBVIOUS
<1> USE DEF vars, roomVars, loopVars, syncVars, peerVars, connVars
<1>1. UNCHANGED <<log, batch, roomQ>> => Accepted' = Accepted
  BY DEF Accepted
<1>2. CASE Receive \/ Extend
  BY <1>2, AcceptedMoves, LeaveQuiet DEF Receive, Extend
<1>3. CASE Apply \/ BeginPass \/ EndPass
  BY <1>1, <1>3, LeaveQuiet DEF Apply, BeginPass, EndPass
<1>4. CASE List \/ Expire \/ Unlist \/ UNCHANGED vars
  BY <1>1, <1>4, LeaveQuiet DEF List, Expire, Unlist
<1>5. CASE LoopExit
  BY <1>5 DEF LoopExit, LeaveInv
<1>6. ASSUME NEW c \in Conn, VisitStale(c) PROVE LeaveInv'
  BY <1>1, <1>6, LeaveQuiet DEF VisitStale
<1>7. ASSUME NEW c \in Conn, VisitSync(c) PROVE LeaveInv'
  BY <1>1, <1>7, LeaveQuiet DEF VisitSync, SyncBegin, Synced
<1>8. ASSUME NEW c \in Conn, CreateJoin(c) \/ JoinMsg(c) PROVE LeaveInv'
  BY <1>8, LeaveJoins
<1>9. ASSUME NEW c \in Conn, Admit(c) PROVE LeaveInv'
  <2>1. ~HasIn(Accepted, "join", c)
    BY <1>9 DEF Admit, JoinInv, Before, AnyIn, HasIn
  <2>2. QED
    BY <1>1, <1>9, <2>1, LeaveGo DEF Admit
<1>10. ASSUME NEW c \in Conn, Scan(c) PROVE LeaveInv'
  BY <1>1, <1>10, LeaveGo DEF Scan, After, Inside
<1>11. ASSUME NEW c \in Conn, Push(c) PROVE LeaveInv'
  BY <1>11, LeavePush
<1>12. ASSUME NEW c \in Conn, NEW p \in Conn, Kick(c, p) PROVE LeaveInv'
  BY <1>1, <1>12, LeaveQuiet DEF Kick
<1>13. ASSUME NEW c \in Conn, NEW p \in Conn, KickLeft(c, p) PROVE LeaveInv'
  BY <1>1, <1>13, LeaveLeft DEF KickLeft
<1>14. ASSUME NEW c \in Conn, SelfSync(c) PROVE LeaveInv'
  BY <1>1, <1>14, LeaveGo, LeaveQuiet DEF SelfSync, SyncBegin, Synced, After, Inside
<1>15. ASSUME NEW c \in Conn, SyncStep(c) PROVE LeaveInv'
  <2>1. syncer[c] = "self" => task[c] = "sync"
    BY DEF SyncInv, SyncAt
  <2>2. UNCHANGED <<players, leaving, loop, log, batch, roomQ>>
    BY <1>15 DEF SyncStep, SyncSend, SyncFull, SyncClosed
  <2>3. UNCHANGED task \/ (syncer[c] = "self" /\ task' = [task EXCEPT ![c] = "run"])
    BY <1>15 DEF SyncStep, SyncSend, SyncFull, SyncClosed, Synced
  <2>4. QED
    BY <1>1, <2>1, <2>2, <2>3, LeaveGo, LeaveQuiet DEF After, Inside
<1>16. ASSUME NEW c \in Conn, Shutdown(c) \/ PeerEnds(c) \/ ActRefused(c) \/ WritePanic(c) PROVE LeaveInv'
  BY <1>1, <1>16, LeaveGo DEF Shutdown, PeerEnds, ActRefused, WritePanic, Ended, After, Inside
<1>17. ASSUME NEW c \in Conn, TaskLeft(c) PROVE LeaveInv'
  <2>1. \A d \in Conn : /\ task'[d] = "push" => task[d] = "push"
                        /\ task'[d] \in After => task[d] \in After
    BY <1>17 DEF TaskLeft, TypeOK, ConnTypes, After, Inside
  <2>2. QED
    BY <1>1, <1>17, <2>1, LeaveLeft DEF TaskLeft
<1>18. ASSUME NEW c \in Conn, CleanupLeft(c) PROVE LeaveInv'
  BY <1>1, <1>18, LeaveLeft DEF CleanupLeft
<1>19. ASSUME NEW c \in Conn, Act(c) PROVE LeaveInv'
  BY <1>19, LeaveActs
<1>20. ASSUME NEW c \in Conn, Eph(c) \/ Write(c) \/ Overflow(c) PROVE LeaveInv'
  BY <1>1, <1>20, LeaveQuiet DEF Eph, Write, Overflow
<1>21. ASSUME NEW c \in Conn, NEW d \in Conn, EphSend(c, d) PROVE LeaveInv'
  BY <1>1, <1>21, LeaveQuiet DEF EphSend
<1>22. ASSUME NEW c \in Conn, NEW by \in Conn \cup {Cleaner}, SendLeave(c, by) PROVE LeaveInv'
  BY <1>22, LeaveLeaves
<1>23. QED
  BY <1>2, <1>3, <1>4, <1>5, <1>6, <1>7, <1>8, <1>9, <1>10, <1>11, <1>12, <1>13,
     <1>14, <1>15, <1>16, <1>17, <1>18, <1>19, <1>20, <1>21, <1>22
     DEF Next, LoopStep, EnterStep, TaskStep, PeerStep

\* While the room lives, a connection that was a player and is none has one
\* leave, on its way or accepted, and no other connection has any
\* (player_left, whoever calls it and how often).
THEOREM LeavesExact == Spec => []LeaveExact
<1>1. Inv /\ MembersInv /\ LeaveInv => LeaveExact
  <2> SUFFICES ASSUME TypeOK, StageInv, JoinInv, LeaveInv, loop # "dead", NEW c \in Conn
               PROVE  LET pending == {x \in leaving : x[1] = c}
                      IN  Cardinality(At("leave", c)) + Cardinality(pending) =
                            IF task[c] \notin {"out", "admitted", "kick", "push"}
                                 /\ At("join", c) # {} /\ c \notin players
                              THEN 1 ELSE 0
    BY DEF Inv, MembersInv, LeaveExact
  <2> DEFINE pending == {x \in leaving : x[1] = c}
             L == At("leave", c)
             J == At("join", c)
  <2>1. StageAt(c) /\ LeaveAt(c) /\ Unique(Accepted, "leave") /\ task[c] \in Task
    BY DEF StageInv, LeaveInv, TypeOK, ConnTypes
  <2>2. (L # {} <=> HasIn(Accepted, "leave", c)) /\ (J # {} <=> HasIn(Accepted, "join", c))
    BY DEF At, HasIn
  <2>3. pending # {} <=> IsLeaving(c)
    <3>1. \A x \in leaving : \E d \in Conn, by \in Conn \cup {Cleaner} : x = <<d, by>>
      BY DEF TypeOK, LoopTypes
    <3>2. pending # {} => IsLeaving(c)
      <4> SUFFICES ASSUME NEW x \in pending PROVE IsLeaving(c)
        OBVIOUS
      <4>1. PICK d \in Conn, by \in Conn \cup {Cleaner} : x = <<d, by>>
        BY <3>1
      <4>2. x \in leaving /\ d = c
        BY <4>1
      <4>3. QED
        BY <4>1, <4>2 DEF IsLeaving
    <3>3. IsLeaving(c) => pending # {}
      <4> SUFFICES ASSUME NEW by \in Conn \cup {Cleaner}, <<c, by>> \in leaving
                   PROVE  pending # {}
        BY DEF IsLeaving
      <4>1. <<c, by>> \in pending
        OBVIOUS
      <4>2. QED
        BY <4>1
    <3>4. QED
      BY <3>2, <3>3
  <2>4. \A x, y \in pending : x = y
    <3> SUFFICES ASSUME NEW x \in pending, NEW y \in pending PROVE x = y
      OBVIOUS
    <3>1. PICK u \in Conn \cup {Cleaner} : x = <<c, u>>
      BY DEF TypeOK, LoopTypes
    <3>2. PICK v \in Conn \cup {Cleaner} : y = <<c, v>>
      BY DEF TypeOK, LoopTypes
    <3>3. <<c, u>> \in leaving /\ <<c, v>> \in leaving
      BY <3>1, <3>2
    <3>4. u = v
      BY <2>1, <3>3 DEF LeaveAt
    <3>5. QED
      BY <3>1, <3>2, <3>4
  <2>5. \A x, y \in L : x = y
    BY <2>1 DEF At, Unique
  <2> HIDE DEF pending, L, J
  <2>6. /\ Cardinality(L) = IF L = {} THEN 0 ELSE 1
        /\ Cardinality(pending) = IF pending = {} THEN 0 ELSE 1
    BY <2>4, <2>5, AtMostOne
  <2>7. ~HasIn(Accepted, "join", c) => ~HasIn(Accepted, "leave", c) /\ ~IsLeaving(c)
    <3>1. HasIn(Accepted, "leave", c) => HasIn(Accepted, "join", c)
      <4> SUFFICES ASSUME NEW i \in 1..Len(Accepted), Accepted[i].from = c
                   PROVE  HasIn(Accepted, "join", c)
        BY DEF HasIn
      <4>1. PICK j \in 1..i : Accepted[j].kind = "join" /\ Accepted[j].from = c
        BY DEF JoinInv, Announced
      <4>2. j \in 1..Len(Accepted)
        BY AcceptedType
      <4>3. QED
        BY <4>1, <4>2 DEF HasIn
    <3>2. QED
      BY <3>1 DEF JoinInv
  <2>8. task[c] \in Before => ~HasIn(Accepted, "join", c)
    BY DEF JoinInv, AnyIn, HasIn
  <2>9. CASE task[c] \notin {"out", "admitted", "kick", "push"} /\ J # {} /\ c \notin players
    <3>1. task[c] \in After
      BY <2>1, <2>2, <2>8, <2>9 DEF Task, After, Inside, Before
    <3>2. IsLeaving(c) \/ HasIn(Accepted, "leave", c)
      BY <2>1, <2>2, <2>9, <3>1 DEF LeaveAt
    <3>3. ~(IsLeaving(c) /\ HasIn(Accepted, "leave", c))
      BY <2>1 DEF LeaveAt
    <3>4. Cardinality(L) + Cardinality(pending) = 1
      BY <2>2, <2>3, <2>6, <3>2, <3>3
    <3>5. QED
      BY <2>9, <3>4 DEF L, J, pending
  <2>10. CASE ~(task[c] \notin {"out", "admitted", "kick", "push"} /\ J # {} /\ c \notin players)
    <3>1. ~IsLeaving(c) /\ ~HasIn(Accepted, "leave", c)
      <4>1. CASE task[c] \in {"out", "admitted", "kick"}
        BY <2>7, <2>8, <4>1 DEF Before
      <4>2. CASE task[c] = "push"
        BY <2>1, <4>2 DEF LeaveAt, StageAt, Inside
      <4>3. CASE J = {}
        BY <2>2, <2>7, <4>3
      <4>4. CASE c \in players
        BY <2>1, <4>4 DEF LeaveAt
      <4>5. QED
        BY <2>10, <4>1, <4>2, <4>3, <4>4
    <3>2. Cardinality(L) + Cardinality(pending) = 0
      BY <2>2, <2>3, <2>6, <3>1
    <3>3. QED
      BY <2>10, <3>2 DEF L, J, pending
  <2>11. QED
    BY <2>9, <2>10
<1>2. Inv /\ MembersInv /\ LeaveInv /\ [Next]_vars => LeaveInv'
  BY LeaveStep DEF Inv, MembersInv
<1>3. Init => LeaveInv
  <2> SUFFICES ASSUME Init PROVE LeaveInv
    OBVIOUS
  <2>1. Accepted = <<>> /\ 1..Len(<<>>) = {}
    BY DEF Init, Accepted
  <2>2. \A k, c : ~HasIn(Accepted, k, c)
    BY <2>1 DEF HasIn
  <2>3. Unique(Accepted, "leave")
    BY <2>1 DEF Unique
  <2>4. QED
    BY <2>2, <2>3 DEF Init, LeaveInv, LeaveAt, IsLeaving
<1>4. QED
  BY <1>1, <1>2, <1>3, MembersAlways, PTL DEF Spec

=============================================================================
