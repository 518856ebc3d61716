----------------------------- MODULE Room_proofs -----------------------------
(* Proofs about Room, for every value of its constants.                     *)
EXTENDS Room, SequenceTheorems, TLAPS

USE DEF Cleaner

LEMMA TypeInit == Init => TypeOK
<1> SUFFICES ASSUME Init PROVE TypeOK
  OBVIOUS
<1>1. /\ roomQ \in Seq(Entry) /\ batch \in Seq(Entry) /\ log \in Seq(Entry)
      /\ queue \in [Conn -> Seq(Item)] /\ view \in [Conn -> Seq(Entry)]
  BY DEF Init
<1>2. /\ players \subseteq Conn /\ limit \in Nat
      /\ visit \subseteq Conn /\ stale \subseteq Conn /\ cleanup \subseteq Conn
      /\ leaving \subseteq Conn \X (Conn \cup {Cleaner})
  BY RoomAssumption DEF Init
<1>3. /\ listed \in {"no", "yes", "removed"} /\ expired \in BOOLEAN
      /\ loop \in {"recv", "apply", "extend", "begin", "sync", "dead"}
  BY DEF Init
<1>4. /\ task \in [Conn -> Task]
      /\ rem \in [Conn -> SUBSET Conn]
      /\ shut \in [Conn -> BOOLEAN] /\ doomed \in [Conn -> BOOLEAN]
      /\ lastSync \in [Conn -> Nat] /\ sent \in [Conn -> Nat]
      /\ syncer \in [Conn -> {"none", "loop", "self"}]
      /\ fan \in [Conn -> SUBSET Conn]
      /\ acts \in [Conn -> Nat] /\ ephs \in [Conn -> Nat]
  BY DEF Init, Task
<1>5. QED
  BY <1>1, <1>2, <1>3, <1>4
     DEF TypeOK, RoomTypes, LoopTypes, SyncTypes, PeerTypes, ConnTypes

LEMMA EntryFields ==
  ASSUME NEW e \in Entry
  PROVE  e.from \in Conn /\ e.n \in Nat
  BY DEF Entry

LEMMA LimitType ==
  ASSUME NEW es \in Seq(Entry), NEW l \in Nat
  PROVE  LimitAfter(es, l) \in Nat
<1> DEFINE i == SelectLastInSeq(es, IsOwnerLimit)
<1>1. LimitAfter(es, l) = IF i \in DOMAIN es THEN es[i].n ELSE l
  BY DEF LimitAfter
<1> HIDE DEF i
<1>2. CASE i \in DOMAIN es
  <2>1. es[i] \in Entry
    BY <1>2
  <2>2. QED
    BY <2>1, <1>1, <1>2, EntryFields
<1>3. CASE i \notin DOMAIN es
  BY <1>1, <1>3
<1>4. QED
  BY <1>2, <1>3

LEMMA AddActionType ==
  ASSUME roomQ \in Seq(Entry), NEW k \in {"join", "leave", "act", "limit"},
         NEW c \in Conn, NEW n \in Nat, AddAction(k, c, n)
  PROVE  roomQ' \in Seq(Entry)
<1>1. [kind |-> k, from |-> c, n |-> n] \in Entry
  BY DEF Entry
<1>2. roomQ' = Append(roomQ, [kind |-> k, from |-> c, n |-> n]) \/ roomQ' = roomQ
  BY DEF AddAction
<1>3. QED
  BY <1>1, <1>2

-----------------------------------------------------------------------------
(* TypeOK is preserved by every action. Only Write looks at more than the  *)
(* types: the position at the head of a queue is one of the log.           *)

LEMMA SyncedType ==
  ASSUME TypeOK, NEW c \in Conn, NEW by \in {"none", "loop", "self"}, Synced(c, by)
  PROVE  /\ syncer' \in [Conn -> {"none", "loop", "self"}]
         /\ visit' \subseteq Conn
         /\ task' \in [Conn -> Task]
  BY DEF Synced, TypeOK, LoopTypes, SyncTypes, ConnTypes, Task

LEMMA PlayerLeftType ==
  ASSUME TypeOK, NEW c \in Conn, NEW by \in Conn \cup {Cleaner}, PlayerLeft(c, by)
  PROVE  players' \subseteq Conn /\ leaving' \subseteq Conn \X (Conn \cup {Cleaner})
  BY DEF PlayerLeft, TypeOK, RoomTypes, LoopTypes

LEMMA LogItemType ==
  ASSUME NEW p \in Nat \ {0}
  PROVE  LogItem(p) \in Item
  BY DEF LogItem, Item

LEMMA EphItemType ==
  ASSUME NEW c \in Conn, NEW k \in Nat
  PROVE  EphItem(c, k) \in Item
  BY DEF EphItem, Item

LEMMA HeadLog ==
  ASSUME TypeOK, SyncInv, QueueInv, NEW c \in Conn, queue[c] # <<>>,
         Head(queue[c]).kind = "log"
  PROVE  Head(queue[c]).pos \in 1..Len(log)
<1>1. queue[c] \in Seq(Item) /\ sent[c] \in Nat /\ lastSync[c] \in Nat
  BY DEF TypeOK, SyncTypes
<1>2. 1 \in 1..Len(queue[c]) /\ Head(queue[c]) = queue[c][1] /\ queue[c][1] \in Item
  BY <1>1
<1>3. queue[c][1].pos \in Nat \ {0}
  BY <1>2 DEF Item
<1>4. queue[c][1].pos <= sent[c] /\ sent[c] <= lastSync[c] /\ lastSync[c] <= Len(log)
  BY <1>2 DEF QueueInv, Published, SyncInv, SyncAt
<1>5. log \in Seq(Entry)
  BY DEF TypeOK, RoomTypes
<1>6. QED
  BY <1>1, <1>2, <1>3, <1>4, <1>5

LEMMA EndedType ==
  ASSUME TypeOK, NEW c \in Conn, NEW to \in {"end", "dead"}, Ended(c, to)
  PROVE  TypeOK'
<1> USE DEF roomVars, loopVars, peerVars
<1>1. task' \in [Conn -> Task]
  BY DEF Ended, TypeOK, ConnTypes, Task
<1>2. queue' \in [Conn -> Seq(Item)]
  BY DEF Ended, TypeOK, SyncTypes
<1>3. QED
  BY <1>1, <1>2 DEF Ended, TypeOK, RoomTypes, LoopTypes, SyncTypes, PeerTypes, ConnTypes

LEMMA SyncBeginType ==
  ASSUME TypeOK, NEW c \in Conn, NEW by \in {"loop", "self"}, SyncBegin(c, by)
  PROVE  TypeOK'
<1> USE DEF roomVars, peerVars
<1>1. Len(log) \in Nat
  BY DEF TypeOK, RoomTypes
<1>2. lastSync' \in [Conn -> Nat]
  BY <1>1 DEF SyncBegin, TypeOK, SyncTypes
<1>3. /\ syncer' \in [Conn -> {"none", "loop", "self"}]
      /\ visit' \subseteq Conn
      /\ task' \in [Conn -> Task]
  BY DEF SyncBegin, Synced, TypeOK, LoopTypes, SyncTypes, ConnTypes, Task
<1>4. QED
  BY <1>2, <1>3 DEF SyncBegin, TypeOK, RoomTypes, LoopTypes, SyncTypes, PeerTypes, ConnTypes

LEMMA TypeStep == TypeOK /\ SyncInv /\ QueueInv /\ [Next]_vars => TypeOK'
<1> SUFFICES ASSUME TypeOK, SyncInv, QueueInv, [Next]_vars PROVE TypeOK'
  OBVIOUS
<1> USE DEF vars, roomVars, loopVars, syncVars, peerVars, connVars, TypeOK
<1>1. CASE Receive
  BY <1>1 DEF Receive, RoomTypes, LoopTypes, SyncTypes, PeerTypes, ConnTypes
<1>2. CASE Extend
  BY <1>2 DEF Extend, RoomTypes, LoopTypes, SyncTypes, PeerTypes, ConnTypes
<1>3. CASE BeginPass
  BY <1>3 DEF BeginPass, RoomTypes, LoopTypes, SyncTypes, PeerTypes, ConnTypes
<1>4. CASE EndPass
  BY <1>4 DEF EndPass, RoomTypes, LoopTypes, SyncTypes, PeerTypes, ConnTypes
<1>5. CASE List
  BY <1>5 DEF List, RoomTypes, LoopTypes, SyncTypes, PeerTypes, ConnTypes
<1>6. CASE Expire
  BY <1>6 DEF Expire, RoomTypes, LoopTypes, SyncTypes, PeerTypes, ConnTypes
<1>7. CASE LoopExit
  BY <1>7 DEF LoopExit, RoomTypes, LoopTypes, SyncTypes, PeerTypes, ConnTypes
<1>8. CASE Unlist
  BY <1>8 DEF Unlist, RoomTypes, LoopTypes, SyncTypes, PeerTypes, ConnTypes
<1>9. CASE Apply
  <2>1. limit' \in Nat
    BY <1>9, LimitType DEF Apply, RoomTypes
  <2>2. QED
    BY <1>9, <2>1 DEF Apply, RoomTypes, LoopTypes, SyncTypes, PeerTypes, ConnTypes
<1>10. ASSUME NEW c \in Conn, Admit(c) PROVE TypeOK'
  BY <1>10 DEF Admit, Task, RoomTypes, LoopTypes, SyncTypes, PeerTypes, ConnTypes
<1>11. ASSUME NEW c \in Conn, Scan(c) PROVE TypeOK'
  BY <1>11 DEF Scan, Task, RoomTypes, LoopTypes, SyncTypes, PeerTypes, ConnTypes
<1>12. ASSUME NEW c \in Conn, Push(c) PROVE TypeOK'
  BY <1>12 DEF Push, Task, RoomTypes, LoopTypes, SyncTypes, PeerTypes, ConnTypes
<1>13. ASSUME NEW c \in Conn, Overflow(c) PROVE TypeOK'
  BY <1>13 DEF Overflow, Task, RoomTypes, LoopTypes, SyncTypes, PeerTypes, ConnTypes
<1>14. ASSUME NEW c \in Conn, VisitStale(c) PROVE TypeOK'
  BY <1>14 DEF VisitStale, Task, RoomTypes, LoopTypes, SyncTypes, PeerTypes, ConnTypes
<1>15. ASSUME NEW c \in Conn, CreateJoin(c) PROVE TypeOK'
  <2>1. roomQ' \in Seq(Entry)
    BY <1>15, AddActionType DEF CreateJoin, RoomTypes
  <2>2. RoomTypes' /\ LoopTypes' /\ SyncTypes' /\ PeerTypes'
    BY <1>15, <2>1 DEF CreateJoin, RoomTypes, LoopTypes, SyncTypes, PeerTypes
  <2>3. ConnTypes'
    BY <1>15 DEF CreateJoin, Task, ConnTypes
  <2>4. QED
    BY <2>2, <2>3
<1>16. ASSUME NEW c \in Conn, JoinMsg(c) PROVE TypeOK'
  <2>1. roomQ' \in Seq(Entry)
    BY <1>16, AddActionType DEF JoinMsg, RoomTypes
  <2>2. RoomTypes' /\ LoopTypes' /\ SyncTypes' /\ PeerTypes'
    BY <1>16, <2>1 DEF JoinMsg, RoomTypes, LoopTypes, SyncTypes, PeerTypes
  <2>3. ConnTypes'
    BY <1>16 DEF JoinMsg, Task, ConnTypes
  <2>4. QED
    BY <2>2, <2>3
<1>17. ASSUME NEW c \in Conn, Act(c) PROVE TypeOK'
  <2>1. acts[c] + 1 \in Nat
    BY DEF PeerTypes
  <2>2. roomQ' \in Seq(Entry)
    BY <1>17, <2>1, AddActionType, RoomAssumption DEF Act, RoomTypes
  <2>3. RoomTypes' /\ LoopTypes' /\ SyncTypes' /\ ConnTypes'
    BY <1>17, <2>2 DEF Act, RoomTypes, LoopTypes, SyncTypes, ConnTypes
  <2>4. PeerTypes'
    BY <1>17, <2>1 DEF Act, PeerTypes
  <2>5. QED
    BY <2>3, <2>4
<1>18. ASSUME NEW c \in Conn, Eph(c) PROVE TypeOK'
  <2>1. RoomTypes' /\ LoopTypes' /\ SyncTypes' /\ ConnTypes'
    BY <1>18 DEF Eph, RoomTypes, LoopTypes, SyncTypes, ConnTypes
  <2>2. fan' \in [Conn -> SUBSET Conn]
    BY <1>18 DEF Eph, RoomTypes, PeerTypes
  <2>3. PeerTypes'
    BY <1>18, <2>2 DEF Eph, PeerTypes
  <2>4. QED
    BY <2>1, <2>3
<1>19. ASSUME NEW c \in Conn, PeerEnds(c) PROVE TypeOK'
  BY <1>19, EndedType DEF PeerEnds
<1>20. ASSUME NEW c \in Conn, ActRefused(c) PROVE TypeOK'
  BY <1>20, EndedType DEF ActRefused
<1>21. ASSUME NEW c \in Conn, Shutdown(c) \/ WritePanic(c) PROVE TypeOK'
  BY <1>21, EndedType DEF Shutdown, WritePanic
<1>22. ASSUME NEW c \in Conn, TaskLeft(c) PROVE TypeOK'
  <2>1. players' \subseteq Conn /\ leaving' \subseteq Conn \X (Conn \cup {Cleaner})
    BY <1>22, PlayerLeftType DEF TaskLeft
  <2>2. RoomTypes' /\ LoopTypes' /\ SyncTypes' /\ PeerTypes'
    BY <1>22, <2>1 DEF TaskLeft, RoomTypes, LoopTypes, SyncTypes, PeerTypes
  <2>3. ConnTypes'
    BY <1>22 DEF TaskLeft, Task, ConnTypes
  <2>4. QED
    BY <2>2, <2>3
<1>23. ASSUME NEW c \in Conn, CleanupLeft(c) PROVE TypeOK'
  <2>1. players' \subseteq Conn /\ leaving' \subseteq Conn \X (Conn \cup {Cleaner})
    BY <1>23, PlayerLeftType DEF CleanupLeft
  <2>2. RoomTypes' /\ LoopTypes' /\ SyncTypes' /\ PeerTypes'
    BY <1>23, <2>1 DEF CleanupLeft, RoomTypes, LoopTypes, SyncTypes, PeerTypes
  <2>3. ConnTypes'
    BY <1>23 DEF CleanupLeft, ConnTypes
  <2>4. QED
    BY <2>2, <2>3
<1>24. ASSUME NEW c \in Conn, Write(c) PROVE TypeOK'
  <2>1. RoomTypes' /\ LoopTypes' /\ ConnTypes'
    BY <1>24 DEF Write, RoomTypes, LoopTypes, ConnTypes
  <2>2. queue' \in [Conn -> Seq(Item)]
    BY <1>24 DEF Write, SyncTypes
  <2>3. SyncTypes'
    BY <1>24, <2>2 DEF Write, SyncTypes
  <2>4. view' \in [Conn -> Seq(Entry)]
    <3>1. CASE Head(queue[c]).kind = "log"
      <4>1. log[Head(queue[c]).pos] \in Entry
        BY <1>24, <3>1, HeadLog DEF Write, RoomTypes
      <4>2. view' = [view EXCEPT ![c] = Append(@, log[Head(queue[c]).pos])]
        BY <1>24, <3>1 DEF Write
      <4>3. QED
        BY <4>1, <4>2 DEF PeerTypes
    <3>2. CASE Head(queue[c]).kind # "log"
      BY <1>24, <3>2 DEF Write, PeerTypes
    <3>3. QED
      BY <3>1, <3>2
  <2>5. PeerTypes'
    BY <1>24, <2>4 DEF Write, PeerTypes
  <2>6. QED
    BY <2>1, <2>3, <2>5
<1>25. ASSUME NEW c \in Conn, VisitSync(c) PROVE TypeOK'
  BY <1>25, SyncBeginType DEF VisitSync
<1>26. ASSUME NEW c \in Conn, SelfSync(c) PROVE TypeOK'
  BY <1>26, SyncBeginType DEF SelfSync
<1>27. ASSUME NEW c \in Conn, SyncSend(c) PROVE TypeOK'
  <2>1. syncer[c] \in {"none", "loop", "self"} /\ sent[c] + 1 \in Nat \ {0}
    BY DEF SyncTypes
  <2>2. /\ syncer' \in [Conn -> {"none", "loop", "self"}]
        /\ visit' \subseteq Conn
        /\ task' \in [Conn -> Task]
    BY <1>27, <2>1, SyncedType DEF SyncSend, SyncTypes, LoopTypes, ConnTypes
  <2>3. queue' \in [Conn -> Seq(Item)]
    <3>1. LogItem(sent[c] + 1) \in Item
      BY <2>1, LogItemType
    <3>2. QED
      BY <1>27, <3>1 DEF SyncSend, SyncTypes
  <2>4. sent' \in [Conn -> Nat]
    BY <1>27, <2>1 DEF SyncSend, SyncTypes
  <2>5. QED
    BY <1>27, <2>2, <2>3, <2>4
       DEF SyncSend, RoomTypes, LoopTypes, SyncTypes, PeerTypes, ConnTypes
<1>28. ASSUME NEW c \in Conn, SyncFull(c) PROVE TypeOK'
  <2>1. syncer[c] \in {"none", "loop", "self"} /\ lastSync[c] \in Nat
    BY DEF SyncTypes
  <2>2. /\ syncer' \in [Conn -> {"none", "loop", "self"}]
        /\ visit' \subseteq Conn
        /\ task' \in [Conn -> Task]
    BY <1>28, <2>1, SyncedType DEF SyncFull
  <2>3. sent' \in [Conn -> Nat] /\ doomed' \in [Conn -> BOOLEAN]
    BY <1>28, <2>1 DEF SyncFull, SyncTypes
  <2>4. QED
    BY <1>28, <2>2, <2>3
       DEF SyncFull, RoomTypes, LoopTypes, SyncTypes, PeerTypes, ConnTypes
<1>29. ASSUME NEW c \in Conn, SyncClosed(c) PROVE TypeOK'
  <2>1. syncer[c] \in {"none", "loop", "self"} /\ lastSync[c] \in Nat
    BY DEF SyncTypes
  <2>2. /\ syncer' \in [Conn -> {"none", "loop", "self"}]
        /\ visit' \subseteq Conn
        /\ task' \in [Conn -> Task]
    BY <1>29, <2>1, SyncedType DEF SyncClosed
  <2>3. sent' \in [Conn -> Nat] /\ doomed' \in [Conn -> BOOLEAN]
    BY <1>29, <2>1 DEF SyncClosed, SyncTypes
  <2>4. QED
    BY <1>29, <2>2, <2>3
       DEF SyncClosed, RoomTypes, LoopTypes, SyncTypes, PeerTypes, ConnTypes
<1>30. ASSUME NEW c \in Conn, NEW d \in Conn, Kick(c, d) PROVE TypeOK'
  BY <1>30 DEF Kick, RoomTypes, LoopTypes, SyncTypes, PeerTypes, ConnTypes
<1>31. ASSUME NEW c \in Conn, NEW d \in Conn, KickLeft(c, d) PROVE TypeOK'
  <2>1. players' \subseteq Conn /\ leaving' \subseteq Conn \X (Conn \cup {Cleaner})
    BY <1>31, PlayerLeftType DEF KickLeft
  <2>2. RoomTypes' /\ LoopTypes' /\ SyncTypes' /\ PeerTypes'
    BY <1>31, <2>1 DEF KickLeft, RoomTypes, LoopTypes, SyncTypes, PeerTypes
  <2>3. ConnTypes'
    BY <1>31 DEF KickLeft, ConnTypes
  <2>4. QED
    BY <2>2, <2>3
<1>32. ASSUME NEW c \in Conn, NEW d \in Conn, EphSend(c, d) PROVE TypeOK'
  <2>1. RoomTypes' /\ LoopTypes' /\ ConnTypes'
    BY <1>32 DEF EphSend, RoomTypes, LoopTypes, ConnTypes
  <2>2. EphItem(c, ephs[c]) \in Item
    BY EphItemType DEF PeerTypes
  <2>3. queue' \in [Conn -> Seq(Item)]
    BY <1>32, <2>2 DEF EphSend, SyncTypes
  <2>4. SyncTypes'
    BY <1>32, <2>3 DEF EphSend, SyncTypes
  <2>5. PeerTypes'
    BY <1>32 DEF EphSend, PeerTypes
  <2>6. QED
    BY <2>1, <2>4, <2>5
<1>33. ASSUME NEW c \in Conn, NEW by \in Conn \cup {Cleaner}, SendLeave(c, by) PROVE TypeOK'
  <2>1. roomQ' \in Seq(Entry)
    BY <1>33, AddActionType DEF SendLeave, RoomTypes
  <2>2. RoomTypes' /\ LoopTypes' /\ SyncTypes' /\ PeerTypes'
    BY <1>33, <2>1 DEF SendLeave, RoomTypes, LoopTypes, SyncTypes, PeerTypes
  <2>3. ConnTypes'
    BY <1>33 DEF SendLeave, Task, ConnTypes
  <2>4. QED
    BY <2>2, <2>3
<1>34. CASE UNCHANGED vars
  BY <1>34 DEF RoomTypes, LoopTypes, SyncTypes, PeerTypes, ConnTypes
<1>35. QED
  BY <1>1, <1>2, <1>3, <1>4, <1>5, <1>6, <1>7, <1>8, <1>9, <1>10, <1>11,
     <1>12, <1>13, <1>14, <1>15, <1>16, <1>17, <1>18, <1>19, <1>20, <1>21,
     <1>22, <1>23, <1>24, <1>25, <1>26, <1>27, <1>28, <1>29, <1>30, <1>31,
     <1>32, <1>33, <1>34
     DEF Next, LoopStep, EnterStep, SyncStep, TaskStep, PeerStep

-----------------------------------------------------------------------------
(* SyncInv. Most actions leave sync_actions alone.                         *)

LEMMA SyncQuiet ==
  ASSUME SyncInv, UNCHANGED <<sent, lastSync, syncer, log>>,
         \A c \in Conn : task'[c] = "sync" <=> task[c] = "sync",
         \A c \in Conn : syncer[c] = "loop" => loop' = "sync" /\ c \in visit'
  PROVE  SyncInv'
  BY DEF SyncInv, SyncAt

\* The first step of sync_actions.
LEMMA SyncBeginInv ==
  ASSUME TypeOK, SyncInv, NEW c \in Conn, NEW by \in {"loop", "self"},
         SyncBegin(c, by),
         by = "loop" => loop = "sync" /\ c \in visit,
         by = "self" => task[c] = "start"
  PROVE  SyncInv'
<1> USE DEF TypeOK, RoomTypes, SyncTypes, ConnTypes, roomVars
<1>1. SUFFICES ASSUME NEW d \in Conn PROVE SyncAt(d)'
  BY DEF SyncInv
<1>2. SyncAt(c) /\ SyncAt(d) /\ Len(log) \in Nat
  BY DEF SyncInv
<1>3. CASE lastSync[c] >= Len(log)
  BY <1>2, <1>3 DEF SyncBegin, Synced, SyncAt
<1>4. CASE lastSync[c] < Len(log)
  <2>1. CASE d = c
    BY <1>2, <1>4, <2>1 DEF SyncBegin, SyncAt
  <2>2. CASE d # c
    BY <1>2, <1>4, <2>2 DEF SyncBegin, SyncAt
  <2>3. QED
    BY <2>1, <2>2
<1>5. QED
  BY <1>2, <1>3, <1>4

\* The last step of sync_actions.
LEMMA SyncedInv ==
  ASSUME TypeOK, SyncInv, NEW c \in Conn, syncer[c] # "none",
         Synced(c, syncer[c]), sent' = [sent EXCEPT ![c] = lastSync[c]],
         UNCHANGED <<lastSync, log, loop>>
  PROVE  SyncInv'
<1> USE DEF TypeOK, RoomTypes, SyncTypes, ConnTypes
<1>1. SUFFICES ASSUME NEW d \in Conn PROVE SyncAt(d)'
  BY DEF SyncInv
<1>2. SyncAt(c) /\ SyncAt(d)
  BY DEF SyncInv
<1>3. CASE d = c
  BY <1>2, <1>3 DEF Synced, SyncAt
<1>4. CASE d # c
  BY <1>2, <1>4 DEF Synced, SyncAt
<1>5. QED
  BY <1>3, <1>4

LEMMA SyncStepInv ==
  ASSUME TypeOK, SyncInv, NEW c \in Conn, SyncStep(c)
  PROVE  SyncInv'
<1> USE DEF TypeOK, RoomTypes, SyncTypes, ConnTypes, roomVars
<1>1. CASE SyncSend(c) /\ sent[c] + 1 = lastSync[c]
  <2>1. sent' = [sent EXCEPT ![c] = lastSync[c]]
    BY <1>1 DEF SyncSend
  <2>2. QED
    BY <1>1, <2>1, SyncedInv DEF SyncSend
<1>2. CASE SyncSend(c) /\ sent[c] + 1 # lastSync[c]
  <2>1. SUFFICES ASSUME NEW d \in Conn PROVE SyncAt(d)'
    BY DEF SyncInv
  <2>2. SyncAt(c) /\ SyncAt(d)
    BY DEF SyncInv
  <2>3. CASE d = c
    BY <1>2, <2>2, <2>3 DEF SyncSend, SyncAt
  <2>4. CASE d # c
    BY <1>2, <2>2, <2>4 DEF SyncSend, SyncAt
  <2>5. QED
    BY <2>3, <2>4
<1>3. CASE SyncFull(c)
  BY <1>3, SyncedInv DEF SyncFull
<1>4. CASE SyncClosed(c)
  BY <1>4, SyncedInv DEF SyncClosed
<1>5. QED
  BY <1>1, <1>2, <1>3, <1>4 DEF SyncStep

LEMMA SyncInvStep == TypeOK /\ SyncInv /\ [Next]_vars => SyncInv'
<1> SUFFICES ASSUME TypeOK, SyncInv, [Next]_vars PROVE SyncInv'
  OBVIOUS
<1> USE DEF vars, roomVars, loopVars, syncVars, peerVars, connVars
<1>1. CASE Receive
  BY <1>1, SyncQuiet DEF Receive, SyncInv, SyncAt
<1>2. CASE Apply
  BY <1>2, SyncQuiet DEF Apply, SyncInv, SyncAt
<1>3. CASE List
  BY <1>3, SyncQuiet DEF List, SyncInv, SyncAt
<1>4. CASE Expire
  BY <1>4, SyncQuiet DEF Expire, SyncInv, SyncAt
<1>5. CASE LoopExit
  BY <1>5, SyncQuiet DEF LoopExit, SyncInv, SyncAt
<1>6. CASE Unlist
  BY <1>6, SyncQuiet DEF Unlist, SyncInv, SyncAt
<1>7. CASE BeginPass
  BY <1>7, SyncQuiet DEF BeginPass, SyncInv, SyncAt
<1>8. CASE EndPass
  BY <1>8, SyncQuiet DEF EndPass, SyncInv, SyncAt
<1>9. CASE Extend
  <2>1. log' \in Seq(Entry) /\ Len(log') >= Len(log) /\ Len(log) \in Nat
    BY <1>9, ConcatProperties DEF Extend, TypeOK, RoomTypes
  <2>2. QED
    BY <1>9, <2>1 DEF Extend, ActionsWritable, SyncInv, SyncAt, TypeOK, SyncTypes
<1>10. ASSUME NEW c \in Conn, VisitStale(c) PROVE SyncInv'
  BY <1>10, SyncQuiet DEF VisitStale, SyncInv, SyncAt, TypeOK, ConnTypes, Visiting
<1>11. ASSUME NEW c \in Conn, CreateJoin(c) PROVE SyncInv'
  BY <1>11, SyncQuiet DEF CreateJoin, SyncInv, SyncAt, TypeOK, ConnTypes
<1>12. ASSUME NEW c \in Conn, Admit(c) PROVE SyncInv'
  BY <1>12, SyncQuiet DEF Admit, SyncInv, SyncAt, TypeOK, ConnTypes
<1>13. ASSUME NEW c \in Conn, Scan(c) PROVE SyncInv'
  BY <1>13, SyncQuiet DEF Scan, SyncInv, SyncAt, TypeOK, ConnTypes
<1>14. ASSUME NEW c \in Conn, JoinMsg(c) PROVE SyncInv'
  BY <1>14, SyncQuiet DEF JoinMsg, SyncInv, SyncAt, TypeOK, ConnTypes
<1>15. ASSUME NEW c \in Conn, Push(c) PROVE SyncInv'
  BY <1>15, SyncQuiet DEF Push, SyncInv, SyncAt, TypeOK, ConnTypes
<1>16. ASSUME NEW c \in Conn, Act(c) PROVE SyncInv'
  BY <1>16, SyncQuiet DEF Act, SyncInv, SyncAt, TypeOK, ConnTypes
<1>17. ASSUME NEW c \in Conn, Eph(c) PROVE SyncInv'
  BY <1>17, SyncQuiet DEF Eph, SyncInv, SyncAt, TypeOK, ConnTypes
<1>18. ASSUME NEW c \in Conn, Write(c) PROVE SyncInv'
  BY <1>18, SyncQuiet DEF Write, SyncInv, SyncAt, TypeOK, ConnTypes
<1>19. ASSUME NEW c \in Conn, Overflow(c) PROVE SyncInv'
  BY <1>19, SyncQuiet DEF Overflow, SyncInv, SyncAt, TypeOK, ConnTypes
<1>20. ASSUME NEW c \in Conn, CleanupLeft(c) PROVE SyncInv'
  BY <1>20, SyncQuiet DEF CleanupLeft, SyncInv, SyncAt, TypeOK, ConnTypes
<1>21. ASSUME NEW c \in Conn, TaskLeft(c) PROVE SyncInv'
  BY <1>21, SyncQuiet DEF TaskLeft, SyncInv, SyncAt, TypeOK, ConnTypes
<1>22. ASSUME NEW c \in Conn, PeerEnds(c) \/ ActRefused(c) \/ Shutdown(c) \/ WritePanic(c) PROVE SyncInv'
  BY <1>22, SyncQuiet DEF PeerEnds, ActRefused, Shutdown, WritePanic, Ended, SyncInv, SyncAt, TypeOK, ConnTypes
<1>23. ASSUME NEW c \in Conn, VisitSync(c) PROVE SyncInv'
  BY <1>23, SyncBeginInv DEF VisitSync, Visiting
<1>24. ASSUME NEW c \in Conn, SelfSync(c) PROVE SyncInv'
  BY <1>24, SyncBeginInv DEF SelfSync
<1>25. ASSUME NEW c \in Conn, SyncStep(c) PROVE SyncInv'
  BY <1>25, SyncStepInv
<1>26. ASSUME NEW c \in Conn, NEW d \in Conn, Kick(c, d) PROVE SyncInv'
  BY <1>26, SyncQuiet DEF Kick, SyncInv, SyncAt
<1>27. ASSUME NEW c \in Conn, NEW d \in Conn, KickLeft(c, d) PROVE SyncInv'
  BY <1>27, SyncQuiet DEF KickLeft, SyncInv, SyncAt
<1>28. ASSUME NEW c \in Conn, NEW d \in Conn, EphSend(c, d) PROVE SyncInv'
  BY <1>28, SyncQuiet DEF EphSend, SyncInv, SyncAt
<1>29. ASSUME NEW c \in Conn, NEW by \in Conn \cup {Cleaner}, SendLeave(c, by) PROVE SyncInv'
  BY <1>29, SyncQuiet DEF SendLeave, SyncInv, SyncAt, TypeOK, ConnTypes
<1>30. CASE UNCHANGED vars
  BY <1>30, SyncQuiet DEF SyncInv, SyncAt
<1>31. QED
  BY <1>1, <1>2, <1>3, <1>4, <1>5, <1>6, <1>7, <1>8, <1>9, <1>10, <1>11,
     <1>12, <1>13, <1>14, <1>15, <1>16, <1>17, <1>18, <1>19, <1>20, <1>21,
     <1>22, <1>23, <1>24, <1>25, <1>26, <1>27, <1>28, <1>29, <1>30
     DEF Next, LoopStep, EnterStep, TaskStep, PeerStep

-----------------------------------------------------------------------------
(* PassInv.                                                                *)

\* Players may leave, and tasks may move, as long as no pass is disturbed
\* and nobody starts to run unsynced.
LEMMA PassQuiet ==
  ASSUME PassInv, UNCHANGED <<lastSync, log, visit>>,
         loop = "sync" => players \subseteq players',
         loop' = loop \/ (loop # "sync" /\ loop # "begin" /\ loop' # "sync"),
         \A c \in players' \ players : task'[c] \notin {"sync", "run"},
         \A c \in Conn : task'[c] \in {"sync", "run"} => task[c] \in {"sync", "run"},
         players' \subseteq Conn
  PROVE  PassInv'
  BY DEF PassInv

LEMMA PassBeginInv ==
  ASSUME TypeOK, SyncInv, PassInv, NEW c \in Conn, NEW by \in {"loop", "self"},
         SyncBegin(c, by),
         by = "loop" => loop = "sync"
  PROVE  PassInv'
<1> USE DEF TypeOK, RoomTypes, SyncTypes, ConnTypes, roomVars
<1>1. SyncAt(c) /\ Len(log) \in Nat
  BY DEF SyncInv
<1>2. CASE lastSync[c] >= Len(log)
  BY <1>1, <1>2 DEF SyncBegin, Synced, SyncAt, PassInv
<1>3. CASE lastSync[c] < Len(log)
  BY <1>1, <1>3 DEF SyncBegin, PassInv
<1>4. QED
  BY <1>1, <1>2, <1>3

LEMMA PassSyncedInv ==
  ASSUME TypeOK, SyncInv, PassInv, NEW c \in Conn, syncer[c] # "none",
         Synced(c, syncer[c]), UNCHANGED <<lastSync, log, loop, players>>
  PROVE  PassInv'
<1>1. SyncAt(c)
  BY DEF SyncInv
<1>2. QED
  BY <1>1 DEF Synced, SyncAt, PassInv, TypeOK, RoomTypes, SyncTypes, ConnTypes

LEMMA PassStepInv ==
  ASSUME TypeOK, SyncInv, PassInv, NEW c \in Conn, SyncStep(c)
  PROVE  PassInv'
<1> USE DEF roomVars
<1>1. CASE SyncSend(c) /\ sent[c] + 1 = lastSync[c]
  BY <1>1, PassSyncedInv DEF SyncSend
<1>2. CASE SyncSend(c) /\ sent[c] + 1 # lastSync[c]
  BY <1>2 DEF SyncSend, PassInv
<1>3. CASE SyncFull(c)
  BY <1>3, PassSyncedInv DEF SyncFull
<1>4. CASE SyncClosed(c)
  BY <1>4, PassSyncedInv DEF SyncClosed
<1>5. QED
  BY <1>1, <1>2, <1>3, <1>4 DEF SyncStep

LEMMA PassInvStep == TypeOK /\ SyncInv /\ PassInv /\ [Next]_vars => PassInv'
<1> SUFFICES ASSUME TypeOK, SyncInv, PassInv, [Next]_vars PROVE PassInv'
  OBVIOUS
<1> USE DEF vars, roomVars, loopVars, syncVars, peerVars, connVars
<1>1. CASE Receive
  BY <1>1, PassQuiet DEF Receive, TypeOK, RoomTypes
<1>2. CASE Apply
  BY <1>2, PassQuiet DEF Apply, TypeOK, RoomTypes
<1>3. CASE List
  BY <1>3, PassQuiet DEF List, TypeOK, RoomTypes
<1>4. CASE Expire
  BY <1>4, PassQuiet DEF Expire, TypeOK, RoomTypes
<1>5. CASE LoopExit
  BY <1>5, PassQuiet DEF LoopExit, TypeOK, RoomTypes
<1>6. CASE Unlist
  BY <1>6, PassQuiet DEF Unlist, TypeOK, RoomTypes
<1>7. CASE Extend
  BY <1>7 DEF Extend, PassInv
<1>8. CASE BeginPass
  BY <1>8 DEF BeginPass, PassInv
<1>9. CASE EndPass
  BY <1>9 DEF EndPass, PassInv
<1>10. ASSUME NEW c \in Conn, VisitStale(c) PROVE PassInv'
  BY <1>10 DEF VisitStale, Visiting, RxOpen, PassInv
<1>11. ASSUME NEW c \in Conn, CreateJoin(c) PROVE PassInv'
  BY <1>11, PassQuiet DEF CreateJoin, TypeOK, RoomTypes, ConnTypes
<1>12. ASSUME NEW c \in Conn, Admit(c) PROVE PassInv'
  BY <1>12, PassQuiet DEF Admit, TypeOK, RoomTypes, ConnTypes
<1>13. ASSUME NEW c \in Conn, Scan(c) PROVE PassInv'
  BY <1>13, PassQuiet DEF Scan, TypeOK, RoomTypes, ConnTypes
<1>14. ASSUME NEW c \in Conn, JoinMsg(c) PROVE PassInv'
  BY <1>14, PassQuiet DEF JoinMsg, TypeOK, RoomTypes, ConnTypes
<1>15. ASSUME NEW c \in Conn, Act(c) PROVE PassInv'
  BY <1>15, PassQuiet DEF Act, TypeOK, RoomTypes, ConnTypes
<1>16. ASSUME NEW c \in Conn, Eph(c) PROVE PassInv'
  BY <1>16, PassQuiet DEF Eph, TypeOK, RoomTypes, ConnTypes
<1>17. ASSUME NEW c \in Conn, Write(c) PROVE PassInv'
  BY <1>17, PassQuiet DEF Write, TypeOK, RoomTypes, ConnTypes
<1>18. ASSUME NEW c \in Conn, Overflow(c) PROVE PassInv'
  BY <1>18, PassQuiet DEF Overflow, TypeOK, RoomTypes, ConnTypes
<1>19. ASSUME NEW c \in Conn, Push(c) PROVE PassInv'
  BY <1>19, PassQuiet DEF Push, PlayersWritable, TypeOK, RoomTypes, ConnTypes
<1>20. ASSUME NEW c \in Conn, CleanupLeft(c) PROVE PassInv'
  BY <1>20, PassQuiet DEF CleanupLeft, PlayerLeft, PlayersWritable, TypeOK, RoomTypes, ConnTypes
<1>21. ASSUME NEW c \in Conn, TaskLeft(c) PROVE PassInv'
  BY <1>21, PassQuiet DEF TaskLeft, PlayerLeft, PlayersWritable, TypeOK, RoomTypes, ConnTypes
<1>22. ASSUME NEW c \in Conn, PeerEnds(c) \/ ActRefused(c) \/ Shutdown(c) \/ WritePanic(c) PROVE PassInv'
  BY <1>22, PassQuiet DEF PeerEnds, ActRefused, Shutdown, WritePanic, Ended, TypeOK, RoomTypes, ConnTypes
<1>23. ASSUME NEW c \in Conn, VisitSync(c) PROVE PassInv'
  BY <1>23, PassBeginInv DEF VisitSync, Visiting
<1>24. ASSUME NEW c \in Conn, SelfSync(c) PROVE PassInv'
  BY <1>24, PassBeginInv DEF SelfSync
<1>25. ASSUME NEW c \in Conn, SyncStep(c) PROVE PassInv'
  BY <1>25, PassStepInv
<1>26. ASSUME NEW c \in Conn, NEW d \in Conn, Kick(c, d) PROVE PassInv'
  BY <1>26, PassQuiet DEF Kick, TypeOK, RoomTypes, ConnTypes
<1>27. ASSUME NEW c \in Conn, NEW d \in Conn, KickLeft(c, d) PROVE PassInv'
  BY <1>27, PassQuiet DEF KickLeft, PlayerLeft, PlayersWritable, TypeOK, RoomTypes, ConnTypes
<1>28. ASSUME NEW c \in Conn, NEW d \in Conn, EphSend(c, d) PROVE PassInv'
  BY <1>28, PassQuiet DEF EphSend, TypeOK, RoomTypes, ConnTypes
<1>29. ASSUME NEW c \in Conn, NEW by \in Conn \cup {Cleaner}, SendLeave(c, by) PROVE PassInv'
  BY <1>29, PassQuiet DEF SendLeave, TypeOK, RoomTypes, ConnTypes
<1>30. CASE UNCHANGED vars
  BY <1>30, PassQuiet DEF TypeOK, RoomTypes, ConnTypes
<1>31. QED
  BY <1>1, <1>2, <1>3, <1>4, <1>5, <1>6, <1>7, <1>8, <1>9, <1>10, <1>11,
     <1>12, <1>13, <1>14, <1>15, <1>16, <1>17, <1>18, <1>19, <1>20, <1>21,
     <1>22, <1>23, <1>24, <1>25, <1>26, <1>27, <1>28, <1>29, <1>30
     DEF Next, LoopStep, EnterStep, TaskStep, PeerStep

-----------------------------------------------------------------------------
(* QueueInv.                                                               *)

LEMMA QueueQuiet ==
  ASSUME QueueInv, UNCHANGED <<queue, sent>>
  PROVE  QueueInv'
  BY DEF QueueInv, Published

\* A new item at the end of one queue.
LEMMA QueueAppend ==
  ASSUME TypeOK, QueueInv, NEW c \in Conn, NEW item \in Item,
         queue' = [queue EXCEPT ![c] = Append(@, item)],
         sent' \in [Conn -> Nat], \A d \in Conn : sent[d] <= sent'[d],
         item.kind = "log" => item.pos <= sent'[c]
  PROVE  QueueInv'
<1> USE DEF TypeOK, SyncTypes
<1>1. SUFFICES ASSUME NEW d \in Conn, NEW i \in 1..Len(queue'[d]),
                      queue'[d][i].kind = "log"
               PROVE  queue'[d][i].pos <= sent'[d]
  BY DEF QueueInv, Published
<1>2. queue[d] \in Seq(Item) /\ sent[d] \in Nat /\ sent'[d] \in Nat
  OBVIOUS
<1>3. CASE d = c /\ i = Len(queue[c]) + 1
  <2>1. queue'[d][i] = item
    BY <1>2, <1>3
  <2>2. QED
    BY <1>1, <1>3, <2>1
<1>4. CASE ~(d = c /\ i = Len(queue[c]) + 1)
  <2>1. i \in 1..Len(queue[d]) /\ queue'[d][i] = queue[d][i]
    BY <1>2, <1>4
  <2>2. queue[d][i].kind = "log" => queue[d][i].pos <= sent[d]
    BY <2>1 DEF QueueInv, Published
  <2>3. queue[d][i] \in Item
    BY <1>2, <2>1
  <2>4. queue[d][i].kind = "log" => queue[d][i].pos \in Nat
    BY <2>3 DEF Item
  <2>5. QED
    BY <1>1, <1>2, <2>1, <2>2, <2>4
<1>5. QED
  BY <1>3, <1>4

\* sync_actions passes over positions it does not send.
LEMMA QueueSkip ==
  ASSUME TypeOK, SyncInv, QueueInv, NEW c \in Conn, UNCHANGED queue,
         sent' = [sent EXCEPT ![c] = lastSync[c]]
  PROVE  QueueInv'
<1> USE DEF TypeOK, SyncTypes
<1>1. SUFFICES ASSUME NEW d \in Conn, NEW i \in 1..Len(queue[d]),
                      queue[d][i].kind = "log"
               PROVE  queue[d][i].pos <= sent'[d]
  BY DEF QueueInv, Published
<1>2. queue[d][i].pos <= sent[d] /\ sent[d] <= lastSync[d]
  BY <1>1 DEF QueueInv, Published, SyncInv, SyncAt
<1>3. queue[d][i] \in Item
  OBVIOUS
<1>4. queue[d][i].pos \in Nat
  BY <1>1, <1>3 DEF Item
<1>5. QED
  BY <1>2, <1>4

LEMMA QueueInvStep == TypeOK /\ SyncInv /\ QueueInv /\ [Next]_vars => QueueInv'
<1> SUFFICES ASSUME TypeOK, SyncInv, QueueInv, [Next]_vars PROVE QueueInv'
  OBVIOUS
<1> USE DEF vars, roomVars, loopVars, syncVars, peerVars, connVars
<1>1. CASE Receive
  BY <1>1, QueueQuiet DEF Receive
<1>2. CASE Apply
  BY <1>2, QueueQuiet DEF Apply
<1>3. CASE Extend
  BY <1>3, QueueQuiet DEF Extend
<1>4. CASE BeginPass
  BY <1>4, QueueQuiet DEF BeginPass
<1>5. CASE EndPass
  BY <1>5, QueueQuiet DEF EndPass
<1>6. CASE List
  BY <1>6, QueueQuiet DEF List
<1>7. CASE Expire
  BY <1>7, QueueQuiet DEF Expire
<1>8. CASE LoopExit
  BY <1>8, QueueQuiet DEF LoopExit
<1>9. CASE Unlist
  BY <1>9, QueueQuiet DEF Unlist
<1>10. ASSUME NEW c \in Conn, VisitStale(c) PROVE QueueInv'
  BY <1>10, QueueQuiet DEF VisitStale
<1>11. ASSUME NEW c \in Conn, CreateJoin(c) PROVE QueueInv'
  BY <1>11, QueueQuiet DEF CreateJoin
<1>12. ASSUME NEW c \in Conn, Admit(c) PROVE QueueInv'
  BY <1>12, QueueQuiet DEF Admit
<1>13. ASSUME NEW c \in Conn, Scan(c) PROVE QueueInv'
  BY <1>13, QueueQuiet DEF Scan
<1>14. ASSUME NEW c \in Conn, JoinMsg(c) PROVE QueueInv'
  BY <1>14, QueueQuiet DEF JoinMsg
<1>15. ASSUME NEW c \in Conn, Push(c) PROVE QueueInv'
  BY <1>15, QueueQuiet DEF Push
<1>16. ASSUME NEW c \in Conn, Act(c) PROVE QueueInv'
  BY <1>16, QueueQuiet DEF Act
<1>17. ASSUME NEW c \in Conn, Eph(c) PROVE QueueInv'
  BY <1>17, QueueQuiet DEF Eph
<1>18. ASSUME NEW c \in Conn, Overflow(c) PROVE QueueInv'
  BY <1>18, QueueQuiet DEF Overflow
<1>19. ASSUME NEW c \in Conn, CleanupLeft(c) PROVE QueueInv'
  BY <1>19, QueueQuiet DEF CleanupLeft
<1>20. ASSUME NEW c \in Conn, TaskLeft(c) PROVE QueueInv'
  BY <1>20, QueueQuiet DEF TaskLeft
<1>21. ASSUME NEW c \in Conn, Write(c) PROVE QueueInv'
  <2>1. queue[c] \in Seq(Item) /\ queue[c] # <<>>
    BY <1>21 DEF Write, TypeOK, SyncTypes
  <2>2. \A i \in 1..Len(Tail(queue[c])) :
          i + 1 \in 1..Len(queue[c]) /\ Tail(queue[c])[i] = queue[c][i + 1]
    BY <2>1
  <2>3. QED
    BY <1>21, <2>2 DEF Write, QueueInv, Published, TypeOK, SyncTypes
<1>22. ASSUME NEW c \in Conn, PeerEnds(c) \/ ActRefused(c) \/ Shutdown(c) \/ WritePanic(c) PROVE QueueInv'
  <2>1. queue' = [queue EXCEPT ![c] = <<>>] /\ sent' = sent
    BY <1>22 DEF PeerEnds, ActRefused, Shutdown, WritePanic, Ended
  <2>2. \A d \in Conn : d # c => queue'[d] = queue[d]
    BY <2>1 DEF TypeOK, SyncTypes
  <2>3. 1..Len(queue'[c]) = {}
    BY <2>1 DEF TypeOK, SyncTypes
  <2>4. QED
    BY <2>1, <2>2, <2>3 DEF QueueInv, Published
<1>23. ASSUME NEW c \in Conn, VisitSync(c) PROVE QueueInv'
  BY <1>23, QueueQuiet DEF VisitSync, SyncBegin
<1>24. ASSUME NEW c \in Conn, SelfSync(c) PROVE QueueInv'
  BY <1>24, QueueQuiet DEF SelfSync, SyncBegin
<1>25. ASSUME NEW c \in Conn, SyncSend(c) PROVE QueueInv'
  <2>1. sent[c] \in Nat /\ LogItem(sent[c] + 1) \in Item
    BY LogItemType DEF TypeOK, SyncTypes
  <2>2. sent' \in [Conn -> Nat] /\ \A d \in Conn : sent[d] <= sent'[d]
    BY <1>25, <2>1 DEF SyncSend, TypeOK, SyncTypes
  <2>3. LogItem(sent[c] + 1).pos <= sent'[c]
    BY <1>25, <2>1 DEF SyncSend, LogItem, TypeOK, SyncTypes
  <2>4. QED
    BY <1>25, <2>1, <2>2, <2>3, QueueAppend DEF SyncSend
<1>26. ASSUME NEW c \in Conn, SyncFull(c) PROVE QueueInv'
  BY <1>26, QueueSkip DEF SyncFull
<1>27. ASSUME NEW c \in Conn, SyncClosed(c) PROVE QueueInv'
  BY <1>27, QueueSkip DEF SyncClosed
<1>28. ASSUME NEW c \in Conn, NEW d \in Conn, Kick(c, d) PROVE QueueInv'
  BY <1>28, QueueQuiet DEF Kick
<1>29. ASSUME NEW c \in Conn, NEW d \in Conn, KickLeft(c, d) PROVE QueueInv'
  BY <1>29, QueueQuiet DEF KickLeft
<1>30. ASSUME NEW c \in Conn, NEW d \in Conn, EphSend(c, d) PROVE QueueInv'
  <2>1. EphItem(c, ephs[c]) \in Item /\ EphItem(c, ephs[c]).kind # "log"
    BY EphItemType DEF TypeOK, PeerTypes, EphItem
  <2>2. sent' \in [Conn -> Nat] /\ \A x \in Conn : sent[x] <= sent'[x]
    BY <1>30 DEF EphSend, TypeOK, SyncTypes
  <2>3. CASE queue' = queue
    BY <1>30, <2>3, QueueQuiet DEF EphSend
  <2>4. CASE queue' = [queue EXCEPT ![d] = Append(@, EphItem(c, ephs[c]))]
    BY <2>1, <2>2, <2>4, QueueAppend
  <2>5. QED
    BY <1>30, <2>3, <2>4 DEF EphSend
<1>31. ASSUME NEW c \in Conn, NEW by \in Conn \cup {Cleaner}, SendLeave(c, by) PROVE QueueInv'
  BY <1>31, QueueQuiet DEF SendLeave
<1>32. CASE UNCHANGED vars
  BY <1>32, QueueQuiet
<1>33. QED
  BY <1>1, <1>2, <1>3, <1>4, <1>5, <1>6, <1>7, <1>8, <1>9, <1>10, <1>11,
     <1>12, <1>13, <1>14, <1>15, <1>16, <1>17, <1>18, <1>19, <1>20, <1>21,
     <1>22, <1>23, <1>24, <1>25, <1>26, <1>27, <1>28, <1>29, <1>30, <1>31,
     <1>32
     DEF Next, LoopStep, EnterStep, TaskStep, PeerStep, SyncStep


-----------------------------------------------------------------------------
(* ViewInv.                                                                *)

\* Steps that leave the queues and views alone and open no receiver.
LEMMA ViewQuiet ==
  ASSUME ViewInv, UNCHANGED <<queue, sent, view, log, doomed>>,
         \A c \in Conn : RxOpen(c)' => RxOpen(c)
  PROVE  ViewInv'
  BY DEF ViewInv, Continues

\* The log grows at its end.
LEMMA ViewExtend ==
  ASSUME TypeOK, SyncInv, ViewInv, Extend
  PROVE  ViewInv'
<1> USE DEF TypeOK, RoomTypes, SyncTypes, PeerTypes, syncVars, peerVars, connVars
<1>1. SUFFICES ASSUME NEW c \in Conn, ~doomed[c] PROVE Continues(c)'
  BY DEF ViewInv, Extend
<1>2. Continues(c) /\ SyncAt(c)
  BY <1>1 DEF ViewInv, SyncInv
<1>3. /\ Len(view[c]) \in Nat /\ Len(log) \in Nat /\ sent[c] \in Nat /\ lastSync[c] \in Nat
      /\ Len(view[c]) <= Len(log)
  BY <1>2 DEF SyncAt, Continues
<1>4. \A k \in 1..Len(log) : log'[k] = log[k]
  BY ConcatProperties DEF Extend
<1>5. \A k \in 1..Len(view[c]) : view[c][k] = log'[k]
  BY <1>2, <1>3, <1>4 DEF Continues
<1>6. UNCHANGED <<queue, sent, view, task>>
  BY DEF Extend
<1>7. QED
  BY <1>2, <1>5, <1>6 DEF Continues, RxOpen

\* The next position is sent.
LEMMA ViewSend ==
  ASSUME TypeOK, SyncInv, QueueInv, ViewInv, NEW c \in Conn, SyncSend(c)
  PROVE  ViewInv'
<1> USE DEF TypeOK, SyncTypes, PeerTypes, roomVars, peerVars
<1> DEFINE q == queue[c]
           item == LogItem(sent[c] + 1)
<1>1. q \in Seq(Item) /\ sent[c] \in Nat /\ item \in Item /\ Len(view[c]) \in Nat
  BY LogItemType
<1>2. /\ queue' = [queue EXCEPT ![c] = Append(@, item)]
      /\ sent' = [sent EXCEPT ![c] = @ + 1]
      /\ UNCHANGED <<view, log, doomed>>
  BY DEF SyncSend
<1>3. \A d \in Conn : RxOpen(d)' => RxOpen(d)
  BY DEF SyncSend, Synced, RxOpen, ConnTypes
<1>4. SUFFICES ASSUME NEW d \in Conn, ~doomed[d] PROVE Continues(d)'
  BY <1>2 DEF ViewInv
<1>5. Continues(d) /\ Published(d)
  BY <1>4 DEF ViewInv, QueueInv
<1>6. CASE d # c
  BY <1>2, <1>3, <1>5, <1>6 DEF Continues
<1>7. CASE d = c
  <2>1. queue'[c] = Append(q, item) /\ sent'[c] = sent[c] + 1 /\ view'[c] = view[c]
    BY <1>2
  <2>2. /\ Len(Append(q, item)) = Len(q) + 1
        /\ \A i \in 1..Len(q) : Append(q, item)[i] = q[i]
        /\ Append(q, item)[Len(q) + 1] = item
    BY <1>1, AppendProperties
  <2>3. item.kind = "log" /\ item.pos = sent[c] + 1
    BY DEF LogItem
  <2>4. \A i \in 1..Len(q) : q[i].kind = "log" =>
          q[i].pos \in Nat /\ Len(view[c]) < q[i].pos /\ q[i].pos <= sent[c]
    <3>1. \A i \in 1..Len(q) : q[i] \in Item
      BY <1>1
    <3>2. \A i \in 1..Len(q) : q[i].kind = "log" => q[i].pos \in Nat
      BY <3>1 DEF Item
    <3>3. QED
      BY <1>5, <1>7, <3>2 DEF Continues, Published
  <2> HIDE DEF q, item
  <2>5. Len(q) \in Nat
    BY <1>1
  <2>6. \A i \in 1..Len(q) + 1 : i \in 1..Len(q) \/ i = Len(q) + 1
    BY <2>5
  <2>7. Len(view[c]) <= sent[c] + 1 /\ Len(view[c]) < item.pos
    BY <1>1, <1>5, <1>7, <2>3 DEF Continues
  <2>8. \A i \in 1..Len(q) + 1 :
          Append(q, item)[i].kind = "log" => Len(view[c]) < Append(q, item)[i].pos
    BY <2>2, <2>4, <2>6, <2>7
  <2>9. \A i, j \in 1..Len(q) :
          i < j /\ q[i].kind = "log" /\ q[j].kind = "log" => q[i].pos < q[j].pos
    BY <1>5, <1>7 DEF Continues, q
  <2>10. \A i, j \in 1..Len(q) + 1 :
           i < j /\ Append(q, item)[i].kind = "log" /\ Append(q, item)[j].kind = "log"
             => Append(q, item)[i].pos < Append(q, item)[j].pos
    <3>1. SUFFICES ASSUME NEW i \in 1..Len(q) + 1, NEW j \in 1..Len(q) + 1, i < j,
                          Append(q, item)[i].kind = "log",
                          Append(q, item)[j].kind = "log"
                   PROVE  Append(q, item)[i].pos < Append(q, item)[j].pos
      OBVIOUS
    <3>2. i \in 1..Len(q) /\ Append(q, item)[i] = q[i]
      BY <2>2, <2>5, <3>1
    <3>3. CASE j \in 1..Len(q)
      BY <2>2, <2>9, <3>1, <3>2, <3>3
    <3>4. CASE j = Len(q) + 1
      BY <1>1, <2>2, <2>3, <2>4, <3>1, <3>2, <3>4
    <3>5. QED
      BY <2>6, <3>3, <3>4
  <2>11. ASSUME RxOpen(c)', NEW p \in Len(view[c]) + 1..sent[c] + 1
         PROVE  \E i \in 1..Len(q) + 1 : Append(q, item)[i] = LogItem(p)
    <3>1. CASE p = sent[c] + 1
      BY <2>2, <2>5, <3>1 DEF item
    <3>2. CASE p \in Len(view[c]) + 1..sent[c]
      <4>1. PICK i \in 1..Len(q) : q[i] = LogItem(p)
        BY <1>3, <1>5, <1>7, <2>11, <3>2 DEF Continues, q
      <4>2. QED
        BY <2>2, <2>5, <4>1
    <3>3. p = sent[c] + 1 \/ p \in Len(view[c]) + 1..sent[c]
      BY <1>1
    <3>4. QED
      BY <3>1, <3>2, <3>3
  <2>12. \A k \in 1..Len(view[c]) : view[c][k] = log[k]
    BY <1>5, <1>7 DEF Continues
  <2>13. Len(queue'[c]) = Len(q) + 1 /\ queue'[c] = Append(q, item) /\ log' = log
    BY <1>2, <2>1, <2>2
  <2>14. Continues(c)'
    BY <2>1, <2>7, <2>8, <2>10, <2>11, <2>12, <2>13 DEF Continues
  <2>15. QED
    BY <1>7, <2>14
<1>8. QED
  BY <1>6, <1>7

\* sync_actions gives up: the player is doomed, or its receiver is closed.
LEMMA ViewSkip ==
  ASSUME TypeOK, SyncInv, ViewInv, NEW c \in Conn, SyncFull(c) \/ SyncClosed(c)
  PROVE  ViewInv'
<1> USE DEF TypeOK, SyncTypes, PeerTypes, roomVars, peerVars
<1>1. /\ sent' = [sent EXCEPT ![c] = lastSync[c]]
      /\ UNCHANGED <<queue, view, log>>
      /\ \A d \in Conn : RxOpen(d)' => RxOpen(d)
  BY DEF SyncFull, SyncClosed, Synced, RxOpen, ConnTypes, SyncInv, SyncAt
<1>2. /\ \A d \in Conn : doomed[d] => doomed'[d]
      /\ doomed'[c] \/ ~RxOpen(c)
  BY DEF SyncFull, SyncClosed
<1>3. SUFFICES ASSUME NEW d \in Conn, ~doomed'[d] PROVE Continues(d)'
  BY DEF ViewInv
<1>4. Continues(d) /\ SyncAt(d)
  BY <1>2, <1>3 DEF ViewInv, SyncInv
<1>5. CASE d # c
  BY <1>1, <1>4, <1>5 DEF Continues
<1>6. CASE d = c
  <2>1. ~RxOpen(d)' /\ sent'[d] = lastSync[d] /\ sent[d] <= lastSync[d]
    BY <1>1, <1>2, <1>3, <1>4, <1>6 DEF SyncAt
  <2>2. Len(view[d]) <= sent'[d]
    BY <1>4, <2>1 DEF Continues
  <2>3. QED
    BY <1>1, <1>4, <2>1, <2>2 DEF Continues
<1>7. QED
  BY <1>5, <1>6

\* The writer takes the head of the queue.
LEMMA ViewWrite ==
  ASSUME TypeOK, SyncInv, QueueInv, ViewInv, NEW c \in Conn, Write(c)
  PROVE  ViewInv'
<1> DEFINE q == queue[c]
           h == Head(queue[c])
<1>1. q \in Seq(Item) /\ q # <<>> /\ sent[c] \in Nat /\ view[c] \in Seq(Entry)
  BY DEF Write, TypeOK, SyncTypes, PeerTypes
<1>2. /\ queue'[c] = Tail(queue[c])
      /\ h.kind = "log" => view'[c] = Append(view[c], log[h.pos])
      /\ h.kind # "log" => view'[c] = view[c]
      /\ \A d \in Conn : d # c => queue'[d] = queue[d] /\ view'[d] = view[d]
      /\ UNCHANGED <<sent, log, doomed, task>>
  BY DEF Write, TypeOK, SyncTypes, PeerTypes, roomVars, connVars
<1>3. /\ Len(q) >= 1 /\ h = q[1] /\ Len(Tail(q)) = Len(q) - 1
      /\ \A i \in 1..Len(q) - 1 : Tail(q)[i] = q[i + 1]
  BY <1>1
<1>4. SUFFICES ASSUME NEW d \in Conn, ~doomed[d] PROVE Continues(d)'
  BY <1>2 DEF ViewInv
<1>5. Continues(d) /\ Published(d)
  BY <1>4 DEF ViewInv, QueueInv
<1>6. CASE d # c
  BY <1>2, <1>5, <1>6 DEF Continues, RxOpen
<1>7. CASE d = c
  <2>1. /\ queue'[c] = Tail(q) /\ sent'[c] = sent[c] /\ log' = log
        /\ RxOpen(c)' <=> RxOpen(c)
    BY <1>2 DEF RxOpen
  <2>2. /\ Len(view[c]) <= sent[c]
        /\ \A k \in 1..Len(view[c]) : view[c][k] = log[k]
    BY <1>5, <1>7 DEF Continues
  <2>3. /\ \A i \in 1..Len(q) : q[i].kind = "log" => Len(view[c]) < q[i].pos
        /\ \A i, j \in 1..Len(q) :
             i < j /\ q[i].kind = "log" /\ q[j].kind = "log" => q[i].pos < q[j].pos
    BY <1>5, <1>7 DEF Continues
  <2>4. RxOpen(c) => \A p \in Len(view[c]) + 1..sent[c] :
                       \E i \in 1..Len(q) : q[i] = LogItem(p)
    BY <1>5, <1>7 DEF Continues
  <2>5. \A i \in 1..Len(q) : q[i].kind = "log" =>
          q[i].pos \in Nat /\ q[i].pos <= sent[c]
    <3>1. \A i \in 1..Len(q) : q[i] \in Item
      BY <1>1
    <3>2. \A i \in 1..Len(q) : q[i].kind = "log" => q[i].pos \in Nat
      BY <3>1 DEF Item
    <3>3. QED
      BY <1>5, <1>7, <3>2 DEF Published
  <2>6. RxOpen(c)
    BY DEF Write, RxOpen
  <2>7. Len(view[c]) \in Nat /\ Len(q) \in Nat
    BY <1>1
  <2> HIDE DEF q, h
  <2>8. \A i \in 1..Len(Tail(q)) : i + 1 \in 1..Len(q) /\ Tail(q)[i] = q[i + 1]
    BY <1>3, <2>7
  <2>9. \A i, j \in 1..Len(Tail(q)) :
          i < j /\ Tail(q)[i].kind = "log" /\ Tail(q)[j].kind = "log"
            => Tail(q)[i].pos < Tail(q)[j].pos
    <3>1. SUFFICES ASSUME NEW i \in 1..Len(Tail(q)), NEW j \in 1..Len(Tail(q)), i < j,
                          Tail(q)[i].kind = "log", Tail(q)[j].kind = "log"
                   PROVE  Tail(q)[i].pos < Tail(q)[j].pos
      OBVIOUS
    <3>2. i + 1 \in 1..Len(q) /\ j + 1 \in 1..Len(q) /\ i + 1 < j + 1
      BY <1>3, <2>7, <3>1
    <3>3. Tail(q)[i] = q[i + 1] /\ Tail(q)[j] = q[j + 1]
      BY <2>8
    <3>4. QED
      BY <2>3, <3>1, <3>2, <3>3
  <2>10. CASE h.kind # "log"
    <3>1. view'[c] = view[c]
      BY <1>2, <2>10
    <3>2. \A i \in 1..Len(Tail(q)) :
            Tail(q)[i].kind = "log" => Len(view[c]) < Tail(q)[i].pos
      BY <2>3, <2>8
    <3>3. ASSUME NEW p \in Len(view[c]) + 1..sent[c]
          PROVE  \E i \in 1..Len(Tail(q)) : Tail(q)[i] = LogItem(p)
      <4>1. PICK i \in 1..Len(q) : q[i] = LogItem(p)
        BY <2>4, <2>6
      <4>2. i # 1
        BY <1>3, <2>10, <4>1 DEF LogItem
      <4>3. i - 1 \in 1..Len(q) - 1 /\ (i - 1) + 1 = i
        BY <2>7, <4>2
      <4>4. Tail(q)[i - 1] = q[i]
        BY <1>3, <4>3
      <4>5. QED
        BY <1>3, <4>1, <4>3, <4>4
    <3>4. Continues(c)'
      BY <2>1, <2>2, <2>9, <3>1, <3>2, <3>3 DEF Continues
    <3>5. QED
      BY <1>7, <3>4
  <2>11. CASE h.kind = "log"
    <3>1. 1 \in 1..Len(q) /\ q[1].kind = "log" /\ q[1].pos \in Nat
          /\ Len(view[c]) < q[1].pos /\ q[1].pos <= sent[c]
      BY <1>3, <2>3, <2>5, <2>7, <2>11
    <3>2. q[1].pos = Len(view[c]) + 1
      <4>1. Len(view[c]) + 1 \in Len(view[c]) + 1..sent[c]
        BY <1>1, <2>7, <3>1
      <4>2. PICK i \in 1..Len(q) : q[i] = LogItem(Len(view[c]) + 1)
        BY <2>4, <2>6, <4>1
      <4>3. q[i].kind = "log" /\ q[i].pos = Len(view[c]) + 1
        BY <4>2 DEF LogItem
      <4>4. CASE i = 1
        BY <4>3, <4>4
      <4>5. CASE i # 1
        <5>1. 1 < i
          BY <2>7, <4>5
        <5>2. q[1].pos < q[i].pos
          BY <2>3, <3>1, <4>3, <5>1
        <5>3. QED
          BY <2>7, <3>1, <4>3, <5>2
      <4>6. QED
        BY <4>4, <4>5
    <3>3. view'[c] = Append(view[c], log[Len(view[c]) + 1])
      BY <1>2, <1>3, <2>11, <3>2
    <3>4. log[Len(view[c]) + 1] \in Entry
      <4>1. Head(queue[c]).pos \in 1..Len(log)
        BY <2>11, HeadLog DEF Write, h
      <4>2. Len(view[c]) + 1 \in 1..Len(log)
        BY <1>3, <3>2, <4>1 DEF h
      <4>3. QED
        BY <4>2 DEF TypeOK, RoomTypes
    <3>5. /\ Len(view'[c]) = Len(view[c]) + 1
          /\ \A k \in 1..Len(view[c]) : view'[c][k] = view[c][k]
          /\ view'[c][Len(view[c]) + 1] = log[Len(view[c]) + 1]
      BY <1>1, <3>3, <3>4, AppendProperties
    <3>6. Len(view[c]) + 1 <= sent[c]
      BY <3>1, <3>2
    <3>7. \A k \in 1..Len(view'[c]) : view'[c][k] = log[k]
      BY <2>2, <2>7, <3>5
    <3>8. \A i \in 1..Len(Tail(q)) :
            Tail(q)[i].kind = "log" => Len(view[c]) + 1 < Tail(q)[i].pos
      <4>1. SUFFICES ASSUME NEW i \in 1..Len(Tail(q)), Tail(q)[i].kind = "log"
                     PROVE  Len(view[c]) + 1 < Tail(q)[i].pos
        OBVIOUS
      <4>2. i + 1 \in 1..Len(q) /\ 1 < i + 1 /\ Tail(q)[i] = q[i + 1]
        BY <1>3, <2>7, <2>8
      <4>3. q[1].pos < q[i + 1].pos
        BY <2>3, <3>1, <4>1, <4>2
      <4>4. QED
        BY <3>2, <4>2, <4>3
    <3>9. ASSUME NEW p \in Len(view[c]) + 2..sent[c]
          PROVE  \E i \in 1..Len(Tail(q)) : Tail(q)[i] = LogItem(p)
      <4>1. p \in Len(view[c]) + 1..sent[c] /\ p # Len(view[c]) + 1
        BY <1>1, <2>7
      <4>2. PICK i \in 1..Len(q) : q[i] = LogItem(p)
        BY <2>4, <2>6, <4>1
      <4>3. q[i].pos = p
        BY <4>2 DEF LogItem
      <4>4. i # 1
        BY <3>2, <4>1, <4>3
      <4>5. i - 1 \in 1..Len(q) - 1 /\ (i - 1) + 1 = i
        BY <2>7, <4>4
      <4>6. Tail(q)[i - 1] = q[i]
        BY <1>3, <4>5
      <4>7. QED
        BY <1>3, <4>2, <4>5, <4>6
    <3>10. \A p \in Len(view'[c]) + 1..sent[c] :
             \E i \in 1..Len(Tail(q)) : Tail(q)[i] = LogItem(p)
      BY <2>7, <3>5, <3>9
    <3>11. Continues(c)'
      BY <2>1, <2>9, <3>5, <3>6, <3>7, <3>8, <3>10 DEF Continues
    <3>12. QED
      BY <1>7, <3>11
  <2>12. QED
    BY <2>10, <2>11
<1>8. QED
  BY <1>6, <1>7

\* An ephemeral action is queued behind everything else.
LEMMA ViewEph ==
  ASSUME TypeOK, ViewInv, NEW c \in Conn, NEW d \in Conn, EphSend(c, d)
  PROVE  ViewInv'
<1> DEFINE q == queue[d]
           item == EphItem(c, ephs[c])
<1>1. UNCHANGED <<sent, view, log, doomed, task>>
  BY DEF EphSend, roomVars, connVars
<1>2. CASE queue' = queue
  BY <1>1, <1>2, ViewQuiet DEF RxOpen
<1>3. CASE queue' = [queue EXCEPT ![d] = Append(@, item)]
  <2>1. SUFFICES ASSUME NEW x \in Conn, ~doomed[x] PROVE Continues(x)'
    BY <1>1 DEF ViewInv
  <2>2. Continues(x)
    BY <2>1 DEF ViewInv
  <2>3. CASE x # d
    <3>1. queue'[x] = queue[x]
      BY <1>3, <2>3 DEF TypeOK, SyncTypes
    <3>2. QED
      BY <1>1, <2>2, <3>1 DEF Continues, RxOpen
  <2>4. CASE x = d
    <3>1. /\ q \in Seq(Item) /\ item \in Item /\ item.kind # "log"
          /\ queue'[d] = Append(q, item)
      BY <1>3, EphItemType DEF EphItem, TypeOK, SyncTypes, PeerTypes
    <3> HIDE DEF q, item
    <3>2. /\ Len(queue'[d]) = Len(q) + 1 /\ Len(q) \in Nat
          /\ \A i \in 1..Len(q) : queue'[d][i] = q[i]
          /\ queue'[d][Len(q) + 1] = item
      BY <3>1, AppendProperties
    <3>3. \A i \in 1..Len(queue'[d]) :
            queue'[d][i].kind = "log" => i \in 1..Len(q) /\ queue'[d][i] = q[i]
      BY <3>1, <3>2
    <3>4. /\ Len(view[d]) <= sent[d]
          /\ \A k \in 1..Len(view[d]) : view[d][k] = log[k]
          /\ \A i \in 1..Len(q) : q[i].kind = "log" => Len(view[d]) < q[i].pos
          /\ \A i, j \in 1..Len(q) :
               i < j /\ q[i].kind = "log" /\ q[j].kind = "log" => q[i].pos < q[j].pos
          /\ RxOpen(d) => \A p \in Len(view[d]) + 1..sent[d] :
                            \E i \in 1..Len(q) : q[i] = LogItem(p)
      BY <2>2, <2>4 DEF Continues, q
    <3>5. /\ \A i \in 1..Len(queue'[d]) :
               queue'[d][i].kind = "log" => Len(view[d]) < queue'[d][i].pos
          /\ \A i, j \in 1..Len(queue'[d]) :
               i < j /\ queue'[d][i].kind = "log" /\ queue'[d][j].kind = "log"
                 => queue'[d][i].pos < queue'[d][j].pos
      BY <3>3, <3>4
    <3>6. RxOpen(d) => \A p \in Len(view[d]) + 1..sent[d] :
                         \E i \in 1..Len(queue'[d]) : queue'[d][i] = LogItem(p)
      <4>1. \A i \in 1..Len(q) : i \in 1..Len(queue'[d]) /\ queue'[d][i] = q[i]
        BY <3>2
      <4>2. QED
        BY <3>4, <4>1
    <3>7. RxOpen(d)' <=> RxOpen(d)
      BY <1>1 DEF RxOpen
    <3>8. Continues(d)'
      BY <1>1, <3>4, <3>5, <3>6, <3>7 DEF Continues
    <3>9. QED
      BY <2>4, <3>8
  <2>5. QED
    BY <2>3, <2>4
<1>4. QED
  BY <1>2, <1>3 DEF EphSend

\* A connection ends: its receiver is closed and its queue is gone.
LEMMA ViewEnded ==
  ASSUME TypeOK, ViewInv, NEW c \in Conn, NEW to \in {"end", "dead"}, Ended(c, to)
  PROVE  ViewInv'
<1> USE DEF TypeOK, SyncTypes, ConnTypes, roomVars, peerVars
<1>1. SUFFICES ASSUME NEW d \in Conn, ~doomed[d] PROVE Continues(d)'
  BY DEF ViewInv, Ended
<1>2. Continues(d)
  BY <1>1 DEF ViewInv
<1>3. UNCHANGED <<sent, view, log, doomed>> /\ queue' = [queue EXCEPT ![c] = <<>>]
  BY DEF Ended
<1>4. CASE d # c
  BY <1>2, <1>3, <1>4 DEF Ended, Continues, RxOpen
<1>5. CASE d = c
  <2>1. ~RxOpen(d)'
    BY <1>5 DEF Ended, RxOpen
  <2>2. 1..Len(queue'[d]) = {}
    BY <1>3, <1>5
  <2>3. QED
    BY <1>2, <1>3, <2>1, <2>2 DEF Continues
<1>6. QED
  BY <1>4, <1>5

LEMMA ViewInvStep == TypeOK /\ SyncInv /\ QueueInv /\ ViewInv /\ [Next]_vars => ViewInv'
<1> SUFFICES ASSUME TypeOK, SyncInv, QueueInv, ViewInv, [Next]_vars PROVE ViewInv'
  OBVIOUS
<1> USE DEF vars, roomVars, loopVars, syncVars, peerVars, connVars
<1>1. CASE Receive
  BY <1>1, ViewQuiet DEF Receive, RxOpen
<1>2. CASE Apply
  BY <1>2, ViewQuiet DEF Apply, RxOpen
<1>3. CASE BeginPass
  BY <1>3, ViewQuiet DEF BeginPass, RxOpen
<1>4. CASE EndPass
  BY <1>4, ViewQuiet DEF EndPass, RxOpen
<1>5. CASE List
  BY <1>5, ViewQuiet DEF List, RxOpen
<1>6. CASE Expire
  BY <1>6, ViewQuiet DEF Expire, RxOpen
<1>7. CASE LoopExit
  BY <1>7, ViewQuiet DEF LoopExit, RxOpen
<1>8. CASE Unlist
  BY <1>8, ViewQuiet DEF Unlist, RxOpen
<1>9. CASE Extend
  BY <1>9, ViewExtend
<1>10. ASSUME NEW c \in Conn, VisitStale(c) PROVE ViewInv'
  BY <1>10, ViewQuiet DEF VisitStale, RxOpen
<1>11. ASSUME NEW c \in Conn, Act(c) PROVE ViewInv'
  BY <1>11, ViewQuiet DEF Act, RxOpen
<1>12. ASSUME NEW c \in Conn, Eph(c) PROVE ViewInv'
  BY <1>12, ViewQuiet DEF Eph, RxOpen
<1>13. ASSUME NEW c \in Conn, Overflow(c) PROVE ViewInv'
  BY <1>13, ViewQuiet DEF Overflow, RxOpen
<1>14. ASSUME NEW c \in Conn, CleanupLeft(c) PROVE ViewInv'
  BY <1>14, ViewQuiet DEF CleanupLeft, RxOpen
<1>15. ASSUME NEW c \in Conn, CreateJoin(c) PROVE ViewInv'
  BY <1>15, ViewQuiet DEF CreateJoin, RxOpen, TypeOK, ConnTypes
<1>16. ASSUME NEW c \in Conn, Admit(c) PROVE ViewInv'
  BY <1>16, ViewQuiet DEF Admit, RxOpen, TypeOK, ConnTypes
<1>17. ASSUME NEW c \in Conn, Scan(c) PROVE ViewInv'
  BY <1>17, ViewQuiet DEF Scan, RxOpen, TypeOK, ConnTypes
<1>18. ASSUME NEW c \in Conn, JoinMsg(c) PROVE ViewInv'
  BY <1>18, ViewQuiet DEF JoinMsg, RxOpen, TypeOK, ConnTypes
<1>19. ASSUME NEW c \in Conn, Push(c) PROVE ViewInv'
  BY <1>19, ViewQuiet DEF Push, RxOpen, TypeOK, ConnTypes
<1>20. ASSUME NEW c \in Conn, TaskLeft(c) PROVE ViewInv'
  BY <1>20, ViewQuiet DEF TaskLeft, RxOpen, TypeOK, ConnTypes
<1>21. ASSUME NEW c \in Conn, Write(c) PROVE ViewInv'
  BY <1>21, ViewWrite
<1>22. ASSUME NEW c \in Conn, PeerEnds(c) \/ ActRefused(c) \/ Shutdown(c) \/ WritePanic(c) PROVE ViewInv'
  BY <1>22, ViewEnded DEF PeerEnds, ActRefused, Shutdown, WritePanic
<1>23. ASSUME NEW c \in Conn, VisitSync(c) PROVE ViewInv'
  BY <1>23, ViewQuiet DEF VisitSync, SyncBegin, Synced, RxOpen
<1>24. ASSUME NEW c \in Conn, SelfSync(c) PROVE ViewInv'
  BY <1>24, ViewQuiet DEF SelfSync, SyncBegin, Synced, RxOpen, TypeOK, ConnTypes
<1>25. ASSUME NEW c \in Conn, SyncSend(c) PROVE ViewInv'
  BY <1>25, ViewSend
<1>26. ASSUME NEW c \in Conn, SyncFull(c) \/ SyncClosed(c) PROVE ViewInv'
  BY <1>26, ViewSkip
<1>27. ASSUME NEW c \in Conn, NEW d \in Conn, Kick(c, d) PROVE ViewInv'
  BY <1>27, ViewQuiet DEF Kick, RxOpen
<1>28. ASSUME NEW c \in Conn, NEW d \in Conn, KickLeft(c, d) PROVE ViewInv'
  BY <1>28, ViewQuiet DEF KickLeft, RxOpen
<1>29. ASSUME NEW c \in Conn, NEW d \in Conn, EphSend(c, d) PROVE ViewInv'
  BY <1>29, ViewEph
<1>30. ASSUME NEW c \in Conn, NEW by \in Conn \cup {Cleaner}, SendLeave(c, by) PROVE ViewInv'
  BY <1>30, ViewQuiet DEF SendLeave, RxOpen, TypeOK, ConnTypes
<1>31. CASE UNCHANGED vars
  BY <1>31, ViewQuiet DEF RxOpen
<1>32. QED
  BY <1>1, <1>2, <1>3, <1>4, <1>5, <1>6, <1>7, <1>8, <1>9, <1>10, <1>11,
     <1>12, <1>13, <1>14, <1>15, <1>16, <1>17, <1>18, <1>19, <1>20, <1>21,
     <1>22, <1>23, <1>24, <1>25, <1>26, <1>27, <1>28, <1>29, <1>30, <1>31
     DEF Next, LoopStep, EnterStep, TaskStep, PeerStep, SyncStep

-----------------------------------------------------------------------------
(* The invariant, and what follows from it.                                *)

\* Inv holds in every state of every behaviour of the room.
THEOREM Invariant == Spec => []Inv
<1>1. Init => Inv
  <2> SUFFICES ASSUME Init PROVE Inv
    OBVIOUS
  <2>1. TypeOK
    BY TypeInit
  <2>2. SyncInv /\ QueueInv
    BY DEF Init, SyncInv, SyncAt, QueueInv, Published
  <2>3. PassInv
    BY RoomAssumption DEF Init, PassInv
  <2>4. ViewInv
    BY DEF Init, ViewInv, Continues
  <2>5. QED
    BY <2>1, <2>2, <2>3, <2>4 DEF Inv
<1>2. Inv /\ [Next]_vars => Inv'
  BY TypeStep, SyncInvStep, QueueInvStep, ViewInvStep, PassInvStep DEF Inv
<1>3. QED
  BY <1>1, <1>2, PTL DEF Spec

\* The variables keep their types.
THEOREM Typed == Spec => []TypeOK
<1>1. Inv => TypeOK
  BY DEF Inv
<1>2. QED
  BY <1>1, Invariant, PTL

LEMMA PrefixPointwise ==
  ASSUME NEW S, NEW s \in Seq(S), NEW t \in Seq(S), Len(s) <= Len(t),
         \A k \in 1..Len(s) : s[k] = t[k]
  PROVE  IsPrefix(s, t)
<1> DEFINE a == SubSeq(s, 1, Len(s))
           b == SubSeq(t, 1, Len(s))
<1>1. /\ a \in Seq(S) /\ Len(a) = Len(s)
      /\ \A k \in 1..Len(s) : a[k] = s[k]
  BY SubSeqProperties
<1>2. /\ b \in Seq(S) /\ Len(b) = Len(s)
      /\ \A k \in 1..Len(s) : b[k] = t[k]
  BY SubSeqProperties
<1> HIDE DEF a, b
<1>3. a = b
  BY <1>1, <1>2
<1>4. QED
  BY <1>3 DEF IsPrefix, a, b

\* A player whose queue never overflowed has been written a prefix of the
\* log, however the action loop, the player's own first sync, its writer and
\* the ephemeral actions of the others interleave.
THEOREM Prefix == Spec => []ViewIsPrefix
<1>1. Inv => ViewIsPrefix
  <2> SUFFICES ASSUME Inv, NEW c \in Conn, ~doomed[c] PROVE IsPrefix(view[c], log)
    BY DEF ViewIsPrefix
  <2>1. Continues(c) /\ SyncAt(c)
    BY DEF Inv, ViewInv, SyncInv
  <2>2. view[c] \in Seq(Entry) /\ log \in Seq(Entry) /\ sent[c] \in Nat /\ lastSync[c] \in Nat
    BY DEF Inv, TypeOK, RoomTypes, SyncTypes, PeerTypes
  <2>3. Len(view[c]) <= Len(log) /\ \A k \in 1..Len(view[c]) : view[c][k] = log[k]
    BY <2>1, <2>2 DEF Continues, SyncAt
  <2>4. QED
    BY <2>2, <2>3, PrefixPointwise
<1>2. QED
  BY <1>1, Invariant, PTL

\* Between two passes every player past its initial sync has been synced to
\* the end of the log.
THEOREM AllSynced == Spec => []NothingMissed
<1>1. Inv => NothingMissed
  BY DEF Inv, PassInv, NothingMissed
<1>2. QED
  BY <1>1, Invariant, PTL

\* And one that has nothing left to write, and never overflowed, has it all.
THEOREM Convergence == Spec => []Converged
<1>1. Inv => Converged
  <2> SUFFICES ASSUME Inv, loop \in {"recv", "apply", "extend", "dead"},
                      NEW c \in players, task[c] = "run", ~doomed[c],
                      \A i \in 1..Len(queue[c]) : queue[c][i].kind = "eph"
               PROVE  view[c] = log
    BY DEF Converged
  <2>1. c \in Conn
    BY DEF Inv, TypeOK, RoomTypes
  <2>2. Continues(c) /\ SyncAt(c) /\ RxOpen(c)
    BY <2>1 DEF Inv, ViewInv, SyncInv, RxOpen
  <2>3. view[c] \in Seq(Entry) /\ log \in Seq(Entry) /\ sent[c] \in Nat
    BY <2>1 DEF Inv, TypeOK, RoomTypes, SyncTypes, PeerTypes
  <2>4. lastSync[c] = Len(log)
    BY DEF Inv, PassInv
  <2>5. sent[c] = lastSync[c]
    <3>1. syncer[c] = "none"
      <4>1. syncer[c] # "self" /\ syncer[c] # "loop"
        BY <2>2 DEF SyncAt
      <4>2. QED
        BY <2>1, <4>1 DEF Inv, TypeOK, SyncTypes
    <3>2. QED
      BY <2>2, <3>1 DEF SyncAt
  <2>6. Len(view[c]) = Len(log)
    <3>1. SUFFICES ASSUME Len(view[c]) < sent[c] PROVE FALSE
      BY <2>2, <2>3, <2>4, <2>5 DEF Continues
    <3>2. Len(view[c]) + 1 \in Len(view[c]) + 1..sent[c]
      BY <2>3, <3>1
    <3>3. PICK i \in 1..Len(queue[c]) : queue[c][i] = LogItem(Len(view[c]) + 1)
      BY <2>2, <3>2 DEF Continues
    <3>4. QED
      BY <3>3 DEF LogItem
  <2>7. QED
    BY <2>2, <2>3, <2>6 DEF Continues
<1>2. QED
  BY <1>1, Invariant, PTL

-----------------------------------------------------------------------------
(* Every step of the room is a step of SharedLog, or changes nothing there. *)

LEMMA StatusAt ==
  ASSUME NEW c \in Conn,
         \A d \in Conn : d # c => doomed'[d] = doomed[d] /\ task'[d] = task[d]
  PROVE  status' = [status EXCEPT ![c] = status'[c]]
  BY DEF status, RxOpen

\* A step that moves the task of c, or dooms it, and leaves log and views.
LEMMA StatusStep ==
  ASSUME NEW c \in Conn, UNCHANGED <<log, view>>,
         \A d \in Conn : d # c => doomed'[d] = doomed[d] /\ task'[d] = task[d],
         \/ status'[c] = status[c]
         \/ status[c] = "out" /\ status'[c] \in {"in", "condemned"}
         \/ status[c] = "in" /\ status'[c] = "condemned"
         \/ status[c] # "dropped" /\ status'[c] = "dropped"
  PROVE  [Promise!Next]_(Promise!sharedVars)
<1>1. status' = [status EXCEPT ![c] = status'[c]]
  BY StatusAt
<1>2. CASE status'[c] = status[c]
  <2>1. status' = status
    BY <1>1, <1>2 DEF status
  <2>2. QED
    BY <2>1 DEF Promise!sharedVars
<1>3. CASE status[c] = "out" /\ status'[c] = "in"
  <2>1. Promise!Enter(c)
    BY <1>1, <1>3 DEF Promise!Enter
  <2>2. QED
    BY <2>1 DEF Promise!Next
<1>4. CASE status[c] \in {"out", "in"} /\ status'[c] = "condemned"
  <2>1. Promise!Condemn(c)
    BY <1>1, <1>4 DEF Promise!Condemn
  <2>2. QED
    BY <2>1 DEF Promise!Next
<1>5. CASE status[c] # "dropped" /\ status'[c] = "dropped"
  <2>1. Promise!Drop(c)
    BY <1>1, <1>5 DEF Promise!Drop
  <2>2. QED
    BY <2>1 DEF Promise!Next
<1>6. QED
  BY <1>2, <1>3, <1>4, <1>5

LEMMA StatusQuiet ==
  ASSUME UNCHANGED <<log, view, doomed, task>>
  PROVE  [Promise!Next]_(Promise!sharedVars)
<1>1. status' = status
  BY DEF status, RxOpen
<1>2. QED
  BY <1>1 DEF Promise!sharedVars

\* The log is extended.
LEMMA ExtendPublishes ==
  ASSUME TypeOK, Extend
  PROVE  [Promise!Next]_(Promise!sharedVars)
<1>1. /\ log \in Seq(Entry) /\ batch \in Seq(Entry) /\ log' = log \o batch
      /\ UNCHANGED <<view, doomed, task>>
  BY DEF Extend, TypeOK, RoomTypes, syncVars, peerVars, connVars
<1>2. /\ log' \in Seq(Entry) /\ Len(log) <= Len(log')
      /\ \A k \in 1..Len(log) : log[k] = log'[k]
  BY <1>1, ConcatProperties
<1>3. IsPrefix(log, log')
  BY <1>1, <1>2, PrefixPointwise
<1>4. \A k \in 1..Len(log') : log'[k] \in Entry
  BY <1>2
<1>5. status' = status
  BY <1>1 DEF status, RxOpen
<1>6. Promise!Publish
  <2>1. Promise!IsPrefix(log, log')
    BY <1>3 DEF IsPrefix, Promise!IsPrefix
  <2>2. QED
    BY <1>1, <1>4, <1>5, <2>1 DEF Promise!Publish
<1>7. QED
  BY <1>6 DEF Promise!Next

\* The writer delivers the next action, or anything to a doomed player.
LEMMA WriteReads ==
  ASSUME Inv, Inv', NEW c \in Conn, Write(c)
  PROVE  [Promise!Next]_(Promise!sharedVars)
<1> DEFINE h == Head(queue[c])
<1>1. /\ UNCHANGED <<log, doomed, task, sent, lastSync>>
      /\ task[c] = "run" /\ queue[c] # <<>>
      /\ h.kind = "log" => view' = [view EXCEPT ![c] = Append(@, log[h.pos])]
      /\ h.kind # "log" => view' = view
  BY DEF Write, roomVars, connVars
<1>2. CASE h.kind # "log"
  BY <1>1, <1>2, StatusQuiet
<1>3. CASE h.kind = "log"
  <2>1. /\ view \in [Conn -> Seq(Entry)] /\ log \in Seq(Entry)
        /\ sent[c] \in Nat /\ lastSync[c] \in Nat /\ h.pos \in 1..Len(log)
    BY <1>1, <1>3, HeadLog DEF Inv, TypeOK, RoomTypes, SyncTypes, PeerTypes
  <2>2. status' = status
    BY <1>1 DEF status, RxOpen
  <2>3. status[c] = IF doomed[c] THEN "condemned" ELSE "in"
    BY <1>1 DEF status, RxOpen
  <2> HIDE DEF h
  <2>4. view' = [view EXCEPT ![c] = Append(@, log[h.pos])]
    BY <1>1, <1>3
  <2>5. CASE doomed[c]
    <3>1. Promise!ReadAny(c)
      BY <1>1, <2>1, <2>2, <2>3, <2>4, <2>5 DEF Promise!ReadAny
    <3>2. QED
      BY <3>1 DEF Promise!Next
  <2>6. CASE ~doomed[c]
    <3>1. Continues(c)' /\ SyncAt(c)
      BY <1>1, <2>6 DEF Inv, ViewInv, SyncInv
    <3>2. /\ view'[c] = Append(view[c], log[h.pos])
          /\ Len(view'[c]) = Len(view[c]) + 1
          /\ view'[c][Len(view[c]) + 1] = log[h.pos]
          /\ Len(view[c]) \in Nat
      <4>1. view'[c] = Append(view[c], log[h.pos]) /\ view[c] \in Seq(Entry)
            /\ log[h.pos] \in Entry
        BY <2>1, <2>4
      <4>2. QED
        BY <4>1, AppendProperties
    <3>3. Len(view[c]) + 1 <= sent[c] /\ log[h.pos] = log[Len(view[c]) + 1]
      <4>1. /\ Len(view'[c]) <= sent[c]
            /\ \A k \in 1..Len(view'[c]) : view'[c][k] = log[k]
        BY <1>1, <3>1 DEF Continues
      <4>2. Len(view[c]) + 1 \in 1..Len(view'[c])
        BY <3>2
      <4>3. QED
        BY <3>2, <4>1, <4>2
    <3>4. Len(view[c]) < Len(log)
      BY <2>1, <3>1, <3>2, <3>3 DEF SyncAt
    <3>5. view' = [view EXCEPT ![c] = Append(@, log[Len(@) + 1])]
      BY <2>4, <3>3
    <3>6. Promise!Read(c)
      BY <1>1, <2>2, <2>3, <2>6, <3>4, <3>5 DEF Promise!Read
    <3>7. QED
      BY <3>6 DEF Promise!Next
  <2>7. QED
    BY <2>5, <2>6
<1>4. QED
  BY <1>2, <1>3

LEMMA StepSimulation == Inv /\ Inv' /\ [Next]_vars => [Promise!Next]_(Promise!sharedVars)
<1> SUFFICES ASSUME Inv, Inv', [Next]_vars PROVE [Promise!Next]_(Promise!sharedVars)
  OBVIOUS
<1> USE DEF vars, roomVars, loopVars, syncVars, peerVars, connVars
<1>1. CASE Receive
  BY <1>1, StatusQuiet DEF Receive
<1>2. CASE Apply
  BY <1>2, StatusQuiet DEF Apply
<1>3. CASE BeginPass
  BY <1>3, StatusQuiet DEF BeginPass
<1>4. CASE EndPass
  BY <1>4, StatusQuiet DEF EndPass
<1>5. CASE List
  BY <1>5, StatusQuiet DEF List
<1>6. CASE Expire
  BY <1>6, StatusQuiet DEF Expire
<1>7. CASE LoopExit
  BY <1>7, StatusQuiet DEF LoopExit
<1>8. CASE Unlist
  BY <1>8, StatusQuiet DEF Unlist
<1>9. CASE Extend
  BY <1>9, ExtendPublishes DEF Inv
<1>10. ASSUME NEW c \in Conn, VisitStale(c) PROVE [Promise!Next]_(Promise!sharedVars)
  BY <1>10, StatusQuiet DEF VisitStale
<1>11. ASSUME NEW c \in Conn, Act(c) PROVE [Promise!Next]_(Promise!sharedVars)
  BY <1>11, StatusQuiet DEF Act
<1>12. ASSUME NEW c \in Conn, Eph(c) PROVE [Promise!Next]_(Promise!sharedVars)
  BY <1>12, StatusQuiet DEF Eph
<1>13. ASSUME NEW c \in Conn, Overflow(c) PROVE [Promise!Next]_(Promise!sharedVars)
  BY <1>13, StatusQuiet DEF Overflow
<1>14. ASSUME NEW c \in Conn, CleanupLeft(c) PROVE [Promise!Next]_(Promise!sharedVars)
  BY <1>14, StatusQuiet DEF CleanupLeft
<1>15. ASSUME NEW c \in Conn, CreateJoin(c) PROVE [Promise!Next]_(Promise!sharedVars)
  BY <1>15, StatusStep DEF CreateJoin, status, RxOpen, Inv, TypeOK, ConnTypes
<1>16. ASSUME NEW c \in Conn, Admit(c) PROVE [Promise!Next]_(Promise!sharedVars)
  BY <1>16, StatusStep DEF Admit, status, RxOpen, Inv, TypeOK, ConnTypes
<1>17. ASSUME NEW c \in Conn, Scan(c) PROVE [Promise!Next]_(Promise!sharedVars)
  BY <1>17, StatusStep DEF Scan, status, RxOpen, Inv, TypeOK, ConnTypes
<1>18. ASSUME NEW c \in Conn, JoinMsg(c) PROVE [Promise!Next]_(Promise!sharedVars)
  BY <1>18, StatusStep DEF JoinMsg, status, RxOpen, Inv, TypeOK, ConnTypes
<1>19. ASSUME NEW c \in Conn, Push(c) PROVE [Promise!Next]_(Promise!sharedVars)
  BY <1>19, StatusStep DEF Push, status, RxOpen, Inv, TypeOK, ConnTypes
<1>20. ASSUME NEW c \in Conn, TaskLeft(c) PROVE [Promise!Next]_(Promise!sharedVars)
  BY <1>20, StatusStep DEF TaskLeft, status, RxOpen, Inv, TypeOK, ConnTypes
<1>21. ASSUME NEW c \in Conn, Write(c) PROVE [Promise!Next]_(Promise!sharedVars)
  BY <1>21, WriteReads
<1>22. ASSUME NEW c \in Conn, PeerEnds(c) \/ ActRefused(c) \/ Shutdown(c) \/ WritePanic(c) PROVE [Promise!Next]_(Promise!sharedVars)
  BY <1>22, StatusStep DEF PeerEnds, ActRefused, Shutdown, WritePanic, Ended, status, RxOpen, Inv, TypeOK, ConnTypes
<1>23. ASSUME NEW c \in Conn, VisitSync(c) PROVE [Promise!Next]_(Promise!sharedVars)
  BY <1>23, StatusQuiet DEF VisitSync, SyncBegin, Synced
<1>24. ASSUME NEW c \in Conn, SelfSync(c) PROVE [Promise!Next]_(Promise!sharedVars)
  BY <1>24, StatusStep DEF SelfSync, SyncBegin, Synced, status, RxOpen, Inv, TypeOK, ConnTypes
<1>25. ASSUME NEW c \in Conn, SyncStep(c) PROVE [Promise!Next]_(Promise!sharedVars)
  <2>1. SyncAt(c)
    BY DEF Inv, SyncInv
  <2>2. QED
    BY <1>25, <2>1, StatusStep
       DEF SyncStep, SyncSend, SyncFull, SyncClosed, Synced, SyncAt, status, RxOpen,
           Inv, TypeOK, SyncTypes, ConnTypes
<1>26. ASSUME NEW c \in Conn, NEW d \in Conn, Kick(c, d) PROVE [Promise!Next]_(Promise!sharedVars)
  BY <1>26, StatusQuiet DEF Kick
<1>27. ASSUME NEW c \in Conn, NEW d \in Conn, KickLeft(c, d) PROVE [Promise!Next]_(Promise!sharedVars)
  BY <1>27, StatusQuiet DEF KickLeft
<1>28. ASSUME NEW c \in Conn, NEW d \in Conn, EphSend(c, d) PROVE [Promise!Next]_(Promise!sharedVars)
  BY <1>28, StatusQuiet DEF EphSend
<1>29. ASSUME NEW c \in Conn, NEW by \in Conn \cup {Cleaner}, SendLeave(c, by) PROVE [Promise!Next]_(Promise!sharedVars)
  <2>1. CASE by = c
    BY <1>29, <2>1, StatusStep DEF SendLeave, status, RxOpen, Inv, TypeOK, ConnTypes
  <2>2. CASE by # c
    BY <1>29, <2>2, StatusQuiet DEF SendLeave
  <2>3. QED
    BY <2>1, <2>2
<1>30. CASE UNCHANGED vars
  BY <1>30, StatusQuiet
<1>31. QED
  BY <1>1, <1>2, <1>3, <1>4, <1>5, <1>6, <1>7, <1>8, <1>9, <1>10, <1>11,
     <1>12, <1>13, <1>14, <1>15, <1>16, <1>17, <1>18, <1>19, <1>20, <1>21,
     <1>22, <1>23, <1>24, <1>25, <1>26, <1>27, <1>28, <1>29, <1>30
     DEF Next, LoopStep, EnterStep, TaskStep, PeerStep

\* The room implements SharedLog: what the players read is one log, in order
\* and without a gap unless they are condemned and dropped.
THEOREM Refinement == Spec => Promise!Safe
<1>1. Init => Promise!Init
  BY RoomAssumption DEF Init, Promise!Init, status, RxOpen
<1>2. Inv /\ Inv' /\ [Next]_vars => [Promise!Next]_(Promise!sharedVars)
  BY StepSimulation
<1>3. QED
  BY <1>1, <1>2, Invariant, PTL DEF Spec, Promise!Safe

=============================================================================
