------------------------- MODULE IdleWaiter_proofs -------------------------
(***************************************************************************)
(* Theorems about Lobby and IdleWaiter: the number of players that the     *)
(* server shows and exits by, the streak of empty lines that a waiter      *)
(* counts, and what a restart takes away.                                  *)
(***************************************************************************)
EXTENDS IdleWaiter, FiniteSetTheorems, TLAPS

-----------------------------------------------------------------------------
(* Types.                                                                  *)

\* A room whose expiry loop runs has not been empty for longer than Stale.
EmptyInv == \A r \in Room : r \notin expired => empty[r] <= Stale

\* What holds of a waiter by the stage it is in.
StageInv ==
  /\ wait = "off" => streak = 0 /\ lastTs = 0
  /\ wait = "on" /\ mode = "stats" => streak < ZeroSamples
  /\ wait = "done" => server # "up"
  /\ wait # "done" => lost = {}

\* What a step may be.
LEMMA Steps ==
  ASSUME NEW ACTION P, [Next]_vars, UNCHANGED vars => P,
         \A c \in Conn : \/ Admit(c) \/ Refuse(c) \/ Enter(c) \/ Quit(c) \/ Left(c)
                         \/ \E r \in Room : Make(c, r) \/ Lookup(c, r)
                         => (Observed => P),
         \A r \in Room : Insert(r) \/ Visit(r) => (Observed => P),
         \A r \in Room : Again(r) \/ AgainDone(r) => (Observed => P),
         BeginPass \/ EndScan \/ Publish \/ Purge => (Observed => P),
         Tick => P, Start => P, PollStats => P, PollConns => P, Restart => P
  PROVE  P
BY DEF Next, ServerStep, Now, ConnStep, PassStep, Poll

LEMMA Bounds ==
  ASSUME NEW n \in Nat, NEW b \in Nat
  PROVE  /\ UpTo(n, b) \in 0..b /\ UpTo(n, b) <= n
         /\ UpTo(n, b) = n \/ (UpTo(n, b) = b /\ b <= n)
BY DEF UpTo

\* Every room has a number of players.
LEMMA Players ==
  ASSUME NEW S \in SUBSET Conn
  PROVE  IsFiniteSet(S) /\ Cardinality(S) \in Nat
BY LobbyAssumption, FS_Subset, FS_CardinalityType

LEMMA LobbyTypes ==
  ASSUME TypeOK, EmptyInv
  PROVE  /\ Stale \in Nat /\ StatsEvery \in Nat \ {0} /\ IdleExit \in Nat
         /\ PollEvery \in Nat \ {0} /\ ZeroSamples \in Nat \ {0} /\ Needed \in Nat
         /\ AgeBound \in Nat /\ AgeBound = PollEvery + 1
         /\ mode = "stats" => AgeBound <= StatsEvery
BY LobbyAssumption, WaiterAssumption DEF TypeOK, AgeBound

\* Of what the observer keeps, only zeros changes.
LEMMA ObservedTypes == TypeOK /\ Observed => zeros' \in 0..ZeroSamples
<1> SUFFICES ASSUME TypeOK, Observed PROVE zeros' \in 0..ZeroSamples
  OBVIOUS
<1>1. zeros \in Nat /\ zeros + 1 \in Nat /\ ZeroSamples \in Nat
  BY WaiterAssumption DEF TypeOK
<1>2. UpTo(zeros + 1, ZeroSamples) \in 0..ZeroSamples
  BY <1>1, Bounds
<1>3. QED
  BY <1>1, <1>2 DEF TypeOK, Observed

LEMMA TypeStep == TypeOK /\ EmptyInv /\ [Next]_vars => TypeOK' /\ EmptyInv'
<1> SUFFICES ASSUME TypeOK, EmptyInv, [Next]_vars PROVE TypeOK' /\ EmptyInv'
  OBVIOUS
<1> DEFINE P == TypeOK' /\ EmptyInv'
<1>0. /\ Stale \in Nat /\ StatsEvery \in Nat \ {0} /\ IdleExit \in Nat
      /\ PollEvery \in Nat \ {0} /\ ZeroSamples \in Nat \ {0} /\ Needed \in Nat
  BY LobbyTypes
<1>1. ASSUME UNCHANGED vars PROVE P
  BY <1>1 DEF vars, lobbyVars, waiterVars, histVars, roomVars, connVars, passVars, statVars,
              TypeOK, EmptyInv
<1>2. ASSUME NEW c \in Conn, Observed,
             \/ Admit(c) \/ Refuse(c) \/ Enter(c) \/ Quit(c) \/ Left(c)
             \/ \E r \in Room : Make(c, r) \/ Lookup(c, r)
      PROVE  P
  <2>1. zeros' \in 0..ZeroSamples
    BY <1>2, ObservedTypes
  <2>2. CASE Admit(c) \/ Refuse(c) \/ Enter(c) \/ Quit(c) \/ Left(c)
    <3>1. CASE Admit(c)
      BY <1>2, <2>1, <3>1
         DEF Admit, Move, Observed, waiterVars, roomVars, passVars, statVars, TypeOK, EmptyInv
    <3>2. CASE Refuse(c)
      BY <1>2, <2>1, <3>2
         DEF Refuse, Move, Observed, waiterVars, roomVars, passVars, statVars, TypeOK, EmptyInv
    <3>3. CASE Enter(c)
      BY <1>2, <2>1, <3>3
         DEF Enter, Move, Observed, waiterVars, roomVars, passVars, statVars, TypeOK, EmptyInv
    <3>4. CASE Quit(c)
      BY <1>2, <2>1, <3>4
         DEF Quit, Move, Observed, waiterVars, roomVars, passVars, statVars, TypeOK, EmptyInv
    <3>5. CASE Left(c)
      BY <1>2, <2>1, <3>5
         DEF Left, Move, Observed, waiterVars, roomVars, passVars, statVars, TypeOK, EmptyInv
    <3>6. QED
      BY <2>2, <3>1, <3>2, <3>3, <3>4, <3>5
  <2>3. CASE \E r \in Room : Make(c, r) \/ Lookup(c, r)
    <3>1. PICK r \in Room : Make(c, r) \/ Lookup(c, r)
      BY <2>3
    <3>2. CASE Make(c, r)
      BY <1>2, <2>1, <3>2 DEF Make, Observed, waiterVars, passVars, statVars, TypeOK, EmptyInv
    <3>3. CASE Lookup(c, r)
      BY <1>2, <2>1, <3>3
         DEF Lookup, Observed, waiterVars, roomVars, passVars, statVars, TypeOK, EmptyInv
    <3>4. QED
      BY <3>1, <3>2, <3>3
  <2>4. QED
    BY <1>2, <2>2, <2>3
<1>3. ASSUME NEW r \in Room, Observed, Insert(r) \/ Visit(r) PROVE P
  <2>1. zeros' \in 0..ZeroSamples
    BY <1>3, ObservedTypes
  <2>2. CASE Insert(r)
    BY <1>3, <2>1, <2>2
       DEF Insert, Observed, waiterVars, connVars, passVars, statVars, TypeOK, EmptyInv
  <2>3. CASE Visit(r)
    <3>1. Cardinality(PlayersOf(r)) \in Nat
      BY Players DEF PlayersOf
    <3>2. total' \in Nat
      BY <2>3, <3>1 DEF Visit, TypeOK
    <3>3. QED
      BY <1>3, <2>1, <2>3, <3>2
         DEF Visit, Observed, waiterVars, roomVars, connVars, statVars, TypeOK, EmptyInv
  <2>4. QED
    BY <1>3, <2>2, <2>3
<1>4. ASSUME Observed, BeginPass \/ EndScan \/ Publish \/ Purge PROVE P
  <2>1. zeros' \in 0..ZeroSamples
    BY <1>4, ObservedTypes
  <2>2. CASE BeginPass \/ EndScan
    <3>1. still' \in BOOLEAN
      BY <2>2, Zenon DEF BeginPass, EndScan, TypeOK
    <3>2. /\ todo' \subseteq Room /\ dead' \subseteq Room /\ total' \in Nat
          /\ pc' \in {"sleep", "wake", "scan", "publish", "purge"}
      <4>1. \/ todo' = Listed /\ dead' = {} /\ total' = 0 /\ pc' = "scan"
            \/ todo' = Listed \ dead /\ dead' = dead /\ total' = total /\ pc' = "publish"
        BY <2>2, Zenon DEF BeginPass, EndScan
      <4>2. QED
        BY <4>1 DEF Listed, TypeOK
    <3>3. UNCHANGED <<roomVars, connVars, exits, server, statVars>>
      BY <2>2 DEF BeginPass, EndScan
    <3>4. QED
      BY <1>4, <2>1, <3>1, <3>2, <3>3
         DEF Observed, waiterVars, roomVars, connVars, statVars, TypeOK, EmptyInv
  <2>3. CASE Publish
    <3>1. due' \in 0..StatsEvery /\ idle' \in 0..IdleExit
      BY <1>0, <2>3 DEF Publish, TypeOK
    <3>2. line' \in [stamp : 0..2, zero : BOOLEAN]
      <4> DEFINE zero == total = 0 /\ todo = {}
                 next == [stamp |-> Stamp(line.stamp), zero |-> zero]
      <4>1. zero \in BOOLEAN /\ Stamp(line.stamp) \in 0..2
        BY DEF Stamp
      <4>2. line' = next \/ line' = line
        BY <2>3 DEF Publish
      <4> HIDE DEF zero
      <4>3. next \in [stamp : 0..2, zero : BOOLEAN]
        BY <4>1
      <4> HIDE DEF next
      <4>4. QED
        BY <4>2, <4>3 DEF TypeOK
    <3>3. QED
      BY <1>4, <2>1, <2>3, <3>1, <3>2
         DEF Publish, Observed, waiterVars, roomVars, connVars, TypeOK, EmptyInv
  <2>4. CASE Purge
    BY <1>4, <2>1, <2>4
       DEF Purge, Observed, waiterVars, connVars, statVars, TypeOK, EmptyInv
  <2>5. QED
    BY <1>4, <2>2, <2>3, <2>4
<1>5. ASSUME Tick PROVE P
  <2>1. /\ empty' \in [Room -> 0..Stale + 1] /\ expired' \subseteq Room
        /\ EmptyInv'
    BY <1>0, <1>5 DEF Tick, Second, ExpiryTicks, Running, TypeOK, EmptyInv
  <2>2. due' \in 0..StatsEvery /\ idle' \in 0..IdleExit
    <3>1. due + 1 \in Nat /\ idle + 1 \in Nat
      BY DEF TypeOK
    <3>2. UpTo(due + 1, StatsEvery) \in 0..StatsEvery /\ UpTo(idle + 1, IdleExit) \in 0..IdleExit
      BY <1>0, <3>1, Bounds
    <3>3. QED
      BY <1>0, <1>5, <3>2 DEF Tick, Second
  <2>3. age' \in [Room -> 0..AgeBound]
    <3>1. \A r \in Room : age[r] + 1 \in Nat
      BY DEF TypeOK, AgeBound
    <3>2. AgeBound \in Nat
      BY <1>0 DEF AgeBound
    <3>3. \A r \in Room : UpTo(age[r] + 1, AgeBound) \in 0..AgeBound
      BY <3>1, <3>2, Bounds
    <3>4. QED
      BY <1>5, <3>2, <3>3 DEF Tick
  <2>4. sleep' \in 0..PollEvery
    BY <1>0, <1>5 DEF Tick, TypeOK
  <2>5. QED
    BY <1>5, <2>1, <2>2, <2>3, <2>4 DEF Tick, Second, connVars, TypeOK
<1>6. ASSUME Start PROVE P
  BY <1>6 DEF Start, lobbyVars, histVars, roomVars, connVars, passVars, statVars, TypeOK, EmptyInv
<1>7. ASSUME PollStats PROVE P
  <2>1. streak' \in Nat /\ sleep' \in 0..PollEvery /\ lastTs' \in 0..2
    BY <1>0, <1>7 DEF PollStats, Sampled, TypeOK
  <2>2. QED
    BY <1>7, <2>1 DEF PollStats, Sampled, lobbyVars, histVars, roomVars, connVars, passVars,
                      statVars, TypeOK, EmptyInv
<1>8. ASSUME PollConns PROVE P
  <2>1. streak' \in Nat /\ sleep' \in 0..PollEvery
    BY <1>0, <1>8 DEF PollConns, Sampled, TypeOK
  <2>2. QED
    BY <1>8, <2>1 DEF PollConns, Sampled, lobbyVars, histVars, roomVars, connVars, passVars,
                      statVars, TypeOK, EmptyInv
<1>9. ASSUME Restart PROVE P
  BY <1>9 DEF Restart, Listed, histVars, roomVars, connVars, passVars, statVars, TypeOK, EmptyInv
<1>10. ASSUME NEW r \in Room, Observed, Again(r) \/ AgainDone(r) PROVE P
  <2>1. zeros' \in 0..ZeroSamples
    BY <1>10, ObservedTypes
  <2>2. again' \in [Room -> {"no", "owed", "waits"}]
    BY <1>10 DEF Again, AgainDone, AgainStep, TypeOK
  <2>3. QED
    BY <1>10, <2>1, <2>2
       DEF Again, AgainDone, AgainStep, Observed, waiterVars, roomVars, passVars, statVars,
           TypeOK, EmptyInv
<1>11. QED
  BY <1>1, <1>2, <1>3, <1>4, <1>10, <1>5, <1>6, <1>7, <1>8, <1>9, Steps

LEMMA TypeInit == WaiterInit => TypeOK /\ EmptyInv
<1> SUFFICES ASSUME WaiterInit PROVE TypeOK /\ EmptyInv
  OBVIOUS
<1>1. exits \in BOOLEAN
  BY LobbyAssumption DEF WaiterInit, Init
<1>2. 0 \in 0..AgeBound /\ 0 \in 0..Stale + 1 /\ 0 <= Stale
  BY LobbyAssumption, WaiterAssumption DEF AgeBound
<1>3. line \in [stamp : 0..2, zero : BOOLEAN]
  BY DEF WaiterInit, Init, NoLine
<1>4. still \in BOOLEAN
  BY DEF WaiterInit, Init
<1>5. due \in 0..StatsEvery /\ idle \in 0..IdleExit /\ sleep \in 0..PollEvery
      /\ zeros \in 0..ZeroSamples /\ streak \in Nat /\ total \in Nat /\ shown \in Nat
      /\ lastTs \in 0..2
  BY LobbyAssumption, WaiterAssumption DEF WaiterInit, Init
<1>6. /\ at \in [Conn -> Room \cup {None}]
      /\ task \in [Conn -> {"out", "asking", "joining", "in", "leaving"}]
  BY DEF WaiterInit, Init
<1>7. /\ room \in [Room -> {"free", "made", "listed", "unlisted"}]
      /\ empty \in [Room -> 0..Stale + 1] /\ EmptyInv /\ age \in [Room -> 0..AgeBound]
  BY <1>2 DEF WaiterInit, Init, EmptyInv
<1>8. QED
  BY <1>1, <1>3, <1>4, <1>5, <1>6, <1>7 DEF WaiterInit, Init, TypeOK

\* Every variable has its type: a room is never empty for more than a second
\* longer than it outlives its players (start_expiry_loop), and nothing is
\* counted below zero (room_mgr_loop).
THEOREM WaiterTyped == Spec => []TypeOK
<1>1. Spec => [](TypeOK /\ EmptyInv)
  BY TypeInit, TypeStep, PTL DEF Spec
<1>2. QED
  BY <1>1, PTL

-----------------------------------------------------------------------------
(* The count of players.                                                   *)

\* The players of the rooms R that clients can find.
PlayersIn(R) == {c \in Conn : \E r \in R \ expired : c \in PlayersOf(r)}

\* What the pass has found so far, and what it has counted if nobody moved.
CountInv ==
  /\ pc \in {"scan", "publish", "purge"} => dead \subseteq expired
  /\ pc = "scan" => todo \subseteq Listed
  /\ still => \A r \in Room : ~WriterAt(r)
  /\ still /\ pc = "scan" => total = Cardinality(PlayersIn(Listed \ todo))
  /\ still /\ pc = "publish" => total = Cardinality(Counted)
  /\ CountExact

LEMMA Card0 == PlayersIn({}) = {} /\ Cardinality(PlayersIn({})) = 0
BY FS_EmptySet DEF PlayersIn

LEMMA CountedIs == Counted = PlayersIn(Listed)
BY DEF Counted, PlayersIn

\* A player is in one room.
LEMMA OneMore ==
  ASSUME TypeOK, NEW R \in SUBSET Room, NEW r \in Room \ (R \cup expired)
  PROVE  Cardinality(PlayersIn(R \cup {r})) =
           Cardinality(PlayersIn(R)) + Cardinality(PlayersOf(r))
<1> DEFINE A == PlayersIn(R)
           B == PlayersOf(r)
<1>1. PlayersIn(R \cup {r}) = A \cup B /\ A \cap B = {}
  BY DEF PlayersIn, PlayersOf
<1>2. A \in SUBSET Conn /\ B \in SUBSET Conn
  BY DEF PlayersIn, PlayersOf
<1> HIDE DEF A, B
<1>3. IsFiniteSet(A) /\ IsFiniteSet(B) /\ Cardinality(A) \in Nat /\ Cardinality(B) \in Nat
  BY <1>2, Players
<1>4. Cardinality(A \cup B) = Cardinality(A) + Cardinality(B) - Cardinality(A \cap B)
  BY <1>3, FS_Union
<1>5. Cardinality(A \cap B) = 0
  BY <1>1, FS_EmptySet
<1>6. Cardinality(A \cup B) = Cardinality(A) + Cardinality(B)
  BY <1>3, <1>4, <1>5
<1>7. QED
  BY <1>1, <1>6, Zenon DEF A, B

\* Rooms that have expired count for nothing.
LEMMA ExpiredIsNone ==
  ASSUME NEW R, NEW S, R \ expired = S \ expired
  PROVE  PlayersIn(R) = PlayersIn(S)
BY DEF PlayersIn

\* A step that leaves rooms, connections and the pass alone.
LEMMA CountQuiet ==
  ASSUME CountInv, UNCHANGED <<roomVars, connVars, passVars, shown, still>>
  PROVE  CountInv'
<1>1. /\ Listed' = Listed /\ Counted' = Counted
      /\ PlayersIn(Listed \ todo)' = PlayersIn(Listed \ todo)
      /\ \A r \in Room : WriterAt(r)' <=> WriterAt(r)
  BY DEF Listed, Counted, PlayersIn, PlayersOf, WriterAt, roomVars, connVars, passVars
<1>2. QED
  BY <1>1 DEF CountInv, CountExact, roomVars, connVars, passVars

\* A step after which still is false.
LEMMA CountMoved ==
  ASSUME CountInv, ~still', UNCHANGED <<expired, pc, todo, dead>>,
         pc = "scan" => Listed \subseteq Listed'
  PROVE  CountInv'
BY DEF CountInv, CountExact

LEMMA CountStep == TypeOK /\ CountInv /\ [Next]_vars => CountInv'
<1> SUFFICES ASSUME TypeOK, CountInv, [Next]_vars PROVE CountInv'
  OBVIOUS
<1> DEFINE P == CountInv'
<1>1. ASSUME UNCHANGED vars PROVE P
  BY <1>1, CountQuiet DEF vars, lobbyVars, statVars
<1>2. ASSUME NEW c \in Conn, Observed,
             \/ Admit(c) \/ Refuse(c) \/ Enter(c) \/ Quit(c) \/ Left(c)
             \/ \E r \in Room : Make(c, r) \/ Lookup(c, r)
      PROVE  P
  <2>1. ~still' /\ UNCHANGED <<expired, pc, todo, dead>> /\ Listed \subseteq Listed'
    <3>1. CASE Admit(c) \/ Refuse(c) \/ Enter(c) \/ Quit(c) \/ Left(c)
      BY <3>1 DEF Admit, Refuse, Enter, Quit, Left, Move, Listed, roomVars, passVars
    <3>2. ASSUME NEW r \in Room, Make(c, r) \/ Lookup(c, r)
          PROVE  ~still' /\ UNCHANGED <<expired, pc, todo, dead>> /\ Listed \subseteq Listed'
      BY <3>2 DEF Make, Lookup, Listed, roomVars, passVars, TypeOK
    <3>3. QED
      BY <1>2, <3>1, <3>2
  <2>2. QED
    BY <2>1, CountMoved
<1>3. ASSUME NEW r \in Room, Observed, Insert(r) \/ Visit(r) PROVE P
  <2>1. CASE Insert(r)
    <3>1. Listed \subseteq Listed'
      BY <2>1 DEF Insert, Listed, TypeOK
    <3>2. QED
      BY <2>1, <3>1, CountMoved DEF Insert, passVars
  <2>2. CASE Visit(r)
    <3>1. /\ pc = "scan" /\ pc' = "scan" /\ r \in todo /\ todo' = todo \ {r}
          /\ UNCHANGED <<roomVars, connVars, still>>
      BY <2>2 DEF Visit
    <3>2. /\ Listed' = Listed /\ todo \subseteq Listed
          /\ \A q \in Room : WriterAt(q)' <=> WriterAt(q)
      BY <3>1 DEF CountInv, Listed, WriterAt, roomVars, connVars
    <3>3. dead' \subseteq expired'
      BY <2>2, <3>1 DEF Visit, CountInv, roomVars
    <3>4. ASSUME still PROVE total' = Cardinality(PlayersIn(Listed \ todo))'
      <4> DEFINE R == Listed \ todo
      <4>1. R \in SUBSET Room /\ (Listed \ todo)' = R \cup {r} /\ r \notin R
        BY <3>1, <3>2 DEF Listed
      <4>2. PlayersIn(Listed \ todo)' = PlayersIn(R \cup {r})
        BY <3>1, <4>1 DEF PlayersIn, PlayersOf, roomVars, connVars
      <4>3. total = Cardinality(PlayersIn(R))
        BY <3>1, <3>4 DEF CountInv
      <4>4. CASE r \in expired
        <5>1. PlayersIn(R \cup {r}) = PlayersIn(R)
          BY <4>4, ExpiredIsNone
        <5>2. QED
          BY <2>2, <4>2, <4>3, <4>4, <5>1 DEF Visit
      <4>5. CASE r \notin expired
        <5>1. ~WriterAt(r)
          BY <3>4 DEF CountInv
        <5>2. total' = total + Cardinality(PlayersOf(r))
          BY <2>2, <4>5, <5>1 DEF Visit
        <5>3. Cardinality(PlayersIn(R \cup {r})) =
                Cardinality(PlayersIn(R)) + Cardinality(PlayersOf(r))
          BY <4>1, <4>5, OneMore
        <5>4. QED
          BY <4>2, <4>3, <5>2, <5>3
      <4>6. QED
        BY <4>4, <4>5
    <3>5. QED
      BY <3>1, <3>2, <3>3, <3>4 DEF CountInv, CountExact
  <2>3. QED
    BY <1>3, <2>1, <2>2
<1>4. ASSUME Observed, BeginPass \/ EndScan \/ Publish \/ Purge PROVE P
  <2>1. CASE BeginPass
    <3>1. /\ pc' = "scan" /\ todo' = Listed /\ dead' = {} /\ total' = 0
          /\ still' <=> \A r \in Room : ~WriterAt(r)
          /\ UNCHANGED <<roomVars, connVars>>
      BY <2>1, Zenon DEF BeginPass
    <3>2. Listed' = Listed /\ \A r \in Room : WriterAt(r)' <=> WriterAt(r)
      BY <3>1 DEF Listed, WriterAt, roomVars, connVars
    <3>3. (Listed \ todo)' = {}
      BY <3>1, <3>2
    <3>4. Cardinality(PlayersIn(Listed \ todo))' = 0
      BY <3>3, FS_EmptySet DEF PlayersIn
    <3>5. QED
      BY <3>1, <3>2, <3>4 DEF CountInv, CountExact
  <2>2. CASE EndScan
    <3>1. /\ pc = "scan" /\ pc' = "publish" /\ todo = {}
          /\ UNCHANGED <<roomVars, connVars, dead, total, still>>
      BY <2>2 DEF EndScan
    <3>2. Counted' = Counted /\ \A r \in Room : WriterAt(r)' <=> WriterAt(r)
      BY <3>1 DEF Counted, Listed, PlayersOf, WriterAt, roomVars, connVars
    <3>3. still => total = Cardinality(Counted)
      <4>1. Listed \ todo = Listed
        BY <3>1
      <4>2. QED
        BY <3>1, <4>1, CountedIs DEF CountInv
    <3>4. QED
      BY <3>1, <3>2, <3>3 DEF CountInv, CountExact, roomVars
  <2>3. CASE Publish
    <3>1. /\ pc = "publish" /\ pc' = "purge" /\ shown' = total
          /\ UNCHANGED <<roomVars, connVars, dead, total, still>>
      BY <2>3 DEF Publish
    <3>2. Counted' = Counted /\ \A r \in Room : WriterAt(r)' <=> WriterAt(r)
      BY <3>1 DEF Counted, Listed, PlayersOf, WriterAt, roomVars, connVars
    <3>3. QED
      BY <3>1, <3>2 DEF CountInv, CountExact, roomVars
  <2>4. CASE Purge
    <3>1. /\ pc = "purge" /\ pc' = "sleep" /\ dead' = {}
          /\ UNCHANGED <<expired, connVars, shown, still>>
          /\ dead \subseteq expired
      BY <2>4 DEF Purge, CountInv, statVars
    <3>2. Listed' \ expired = Listed \ expired
      BY <2>4, <3>1 DEF Purge, Listed, TypeOK
    <3>3. Counted' = Counted /\ \A r \in Room : WriterAt(r)' <=> WriterAt(r)
      BY <3>1, <3>2 DEF Counted, PlayersOf, WriterAt, connVars
    <3>4. QED
      BY <3>1, <3>3 DEF CountInv, CountExact
  <2>5. QED
    BY <1>4, <2>1, <2>2, <2>3, <2>4
<1>5. ASSUME Tick PROVE P
  <2>1. /\ pc = "sleep" /\ pc' = "wake"
        /\ UNCHANGED <<room, connVars, shown, still>>
        /\ expired \subseteq expired'
        /\ \A r \in expired' \ expired : PlayersOf(r) = {}
    BY <1>5 DEF Tick, Second, ExpiryTicks
  <2>2. Counted' = Counted /\ \A r \in Room : WriterAt(r)' <=> WriterAt(r)
    <3>1. /\ Listed' = Listed /\ \A r \in Room : PlayersOf(r)' = PlayersOf(r)
          /\ \A r \in Room : WriterAt(r)' <=> WriterAt(r)
      BY <2>1 DEF Listed, PlayersOf, WriterAt, connVars
    <3>2. Listed \subseteq Room
      BY DEF Listed
    <3>3. QED
      BY <2>1, <3>1, <3>2 DEF Counted
  <2>3. QED
    BY <2>1, <2>2 DEF CountInv, CountExact
<1>6. ASSUME Start \/ PollStats \/ PollConns \/ Restart PROVE P
  BY <1>6, CountQuiet DEF Start, PollStats, PollConns, Restart, lobbyVars, statVars
<1>7. ASSUME NEW r \in Room, Observed, Again(r) \/ AgainDone(r) PROVE P
  BY <1>7, CountMoved DEF Again, AgainDone, AgainStep, Listed, roomVars, passVars
<1>8. QED
  BY <1>7, <1>1, <1>2, <1>3, <1>4, <1>5, <1>6, Steps

LEMMA CountInit == WaiterInit => CountInv
BY DEF WaiterInit, Init, CountInv, CountExact

\* Whoever is shown by a ping, and lets the server live, is a player in a room
\* that can be found: exactly these, unless somebody has moved since the count
\* began, or has waited for players.write() to remove a player that had left
\* already, which a try_read takes for an empty room (room_mgr_loop, player_left).
THEOREM CountsExactly == Spec => []CountExact
<1>1. CountInv => CountExact
  BY DEF CountInv
<1>2. TypeOK /\ CountInv /\ [Next]_vars => CountInv'
  BY CountStep
<1>3. QED
  BY <1>1, <1>2, CountInit, WaiterTyped, PTL DEF Spec

-----------------------------------------------------------------------------
(* The streak of the waiter in deploy.py.                                  *)

\* A line that the waiter has not read was logged after its last poll, which
\* is as long ago as the next one is from being due: there is only one.
FreshInv ==
  mode = "stats" /\ wait \in {"on", "decided"} /\ lastTs # 0 /\ lastTs # line.stamp
    => due + sleep <= PollEvery

StreakInv ==
  /\ line.zero => line.stamp # 0
  /\ mode = "stats" /\ lastTs = 0 => streak = 0
  /\ mode = "stats" /\ wait = "decided" => sleep = PollEvery /\ lastTs # 0
  /\ mode = "stats" /\ wait \in {"off", "on"} /\ lastTs # line.stamp /\ line.zero
       => streak + 1 <= zeros
  /\ StreakIsReal

\* A step that logs nothing and polls nothing.
LEMMA StreakQuiet ==
  ASSUME FreshInv, StreakInv, UNCHANGED <<mode, wait, sleep, streak, lastTs, line, zeros, due>>
  PROVE  FreshInv' /\ StreakInv'
BY DEF FreshInv, StreakInv, StreakIsReal

\* Nothing is observed of a step without a new line.
LEMMA ObservedQuiet ==
  ASSUME Observed, UNCHANGED <<line, due>>
  PROVE  UNCHANGED <<mode, wait, sleep, streak, lastTs, line, zeros, due>>
BY DEF Observed, waiterVars

LEMMA StreakLine ==
  ASSUME TypeOK, EmptyInv, StageInv, FreshInv, StreakInv, Observed, Publish
  PROVE  FreshInv' /\ StreakInv'
<1>0. /\ PollEvery \in Nat /\ StatsEvery \in Nat /\ ZeroSamples \in Nat \ {0}
      /\ mode = "stats" => PollEvery < StatsEvery
      /\ due \in Nat /\ sleep \in Nat /\ streak \in Nat /\ zeros \in 0..ZeroSamples
      /\ line.stamp \in 0..2 /\ lastTs \in 0..2
  BY WaiterAssumption, LobbyAssumption DEF TypeOK
<1>1. UNCHANGED <<mode, wait, sleep, streak, lastTs>>
  BY DEF Observed, waiterVars
<1>2. CASE due < StatsEvery
  <2>1. UNCHANGED <<line, due>>
    BY <1>0, <1>2 DEF Publish
  <2>2. QED
    BY <2>1, StreakQuiet, ObservedQuiet
<1>3. CASE due >= StatsEvery
  <2>1. due' = 0 /\ line'.stamp = Stamp(line.stamp)
    BY <1>3 DEF Publish
  <2>2. line'.stamp \in {1, 2} /\ line'.stamp # line.stamp
    BY <1>0, <2>1 DEF Stamp
  <2>3. wait \in {"off", "on", "decided"}
    BY DEF TypeOK, StageInv, Publish
  <2>4. ASSUME mode = "stats" PROVE lastTs = line.stamp \/ lastTs = 0
    BY <1>0, <1>3, <2>3, <2>4 DEF FreshInv, StageInv
  <2>5. FreshInv'
    <3>1. mode = "stats" /\ wait \in {"on", "decided"} => sleep <= PollEvery
      BY <1>0 DEF TypeOK
    <3>2. QED
      BY <1>0, <1>1, <2>1, <3>1 DEF FreshInv
  <2>6. ASSUME mode = "stats", wait \in {"off", "on"}, line'.zero
        PROVE  streak + 1 <= zeros'
    <3>1. zeros' = UpTo(zeros + 1, ZeroSamples)
      BY <2>2, <2>6 DEF Observed
    <3>2. streak < ZeroSamples
      BY <1>0, <2>6 DEF StageInv
    <3>3. streak <= zeros
      <4>1. CASE lastTs = line.stamp
        BY <2>6, <4>1 DEF StreakInv, StreakIsReal
      <4>2. CASE lastTs = 0
        BY <1>0, <2>6, <4>2 DEF StreakInv
      <4>3. QED
        BY <2>4, <2>6, <4>1, <4>2
    <3>4. QED
      BY <1>0, <3>1, <3>2, <3>3 DEF UpTo
  <2>7. mode = "stats" => lastTs' # line'.stamp
    BY <1>1, <2>2, <2>4
  <2>8. QED
    BY <1>1, <2>2, <2>5, <2>6, <2>7 DEF StreakInv, StreakIsReal
<1>4. QED
  BY <1>0, <1>2, <1>3

LEMMA StreakPoll ==
  ASSUME TypeOK, EmptyInv, StageInv, FreshInv, StreakInv, PollStats
  PROVE  StageInv' /\ FreshInv' /\ StreakInv'
<1>0. /\ PollEvery \in Nat /\ ZeroSamples \in Nat \ {0}
      /\ streak \in Nat /\ zeros \in 0..ZeroSamples
      /\ line.stamp \in 0..2 /\ lastTs \in 0..2 /\ line.zero \in BOOLEAN
  BY WaiterAssumption DEF TypeOK
<1>1. /\ UNCHANGED <<mode, server, lost, line, zeros, due>>
      /\ mode = "stats" /\ wait = "on" /\ server = "up"
      /\ lastTs' = line.stamp /\ sleep' = PollEvery
      /\ wait' = IF streak' >= ZeroSamples THEN "decided" ELSE "on"
      /\ streak' \in Nat
  BY <1>0 DEF PollStats, PollDue, Sampled, lobbyVars, statVars, histVars
<1>2. streak < ZeroSamples
  BY <1>1 DEF StageInv
<1>3. \/ lastTs = line.stamp /\ streak' = streak
      \/ lastTs # line.stamp /\ line.zero /\ streak' = streak + 1
      \/ streak' = 0
  BY DEF PollStats, Sampled
<1>4. streak' <= zeros
  BY <1>0, <1>1, <1>3 DEF StreakInv, StreakIsReal
<1>5. line.stamp = 0 => streak' = 0
  BY <1>0, <1>1, <1>3 DEF StreakInv
<1>6. StageInv'
  BY <1>0, <1>1 DEF StageInv
<1>7. FreshInv'
  BY <1>1 DEF FreshInv
<1>8. StreakInv'
  BY <1>0, <1>1, <1>4, <1>5 DEF StreakInv, StreakIsReal
<1>9. QED
  BY <1>6, <1>7, <1>8

LEMMA StreakStep ==
  TypeOK /\ EmptyInv /\ StageInv /\ FreshInv /\ StreakInv /\ [Next]_vars
    => StageInv' /\ FreshInv' /\ StreakInv'
<1> SUFFICES ASSUME TypeOK, EmptyInv, StageInv, FreshInv, StreakInv, [Next]_vars
             PROVE  StageInv' /\ FreshInv' /\ StreakInv'
  OBVIOUS
<1> DEFINE P == StageInv' /\ FreshInv' /\ StreakInv'
<1>0. /\ PollEvery \in Nat /\ StatsEvery \in Nat /\ ZeroSamples \in Nat \ {0}
      /\ due \in Nat /\ sleep \in Nat /\ streak \in Nat
  BY WaiterAssumption, LobbyAssumption DEF TypeOK
<1>1. ASSUME UNCHANGED <<mode, wait, sleep, streak, lastTs, lost, line, zeros, due>>,
             server' = server \/ server' # "up"
      PROVE  P
  BY <1>1, StreakQuiet DEF StageInv
<1>2. ASSUME UNCHANGED vars PROVE P
  BY <1>1, <1>2 DEF vars, lobbyVars, waiterVars, histVars, statVars
<1>3. ASSUME NEW c \in Conn, Observed,
             \/ Admit(c) \/ Refuse(c) \/ Enter(c) \/ Quit(c) \/ Left(c)
             \/ \E r \in Room : Make(c, r) \/ Lookup(c, r)
      PROVE  P
  <2>1. UNCHANGED <<server, line, due>>
    BY <1>3 DEF Admit, Refuse, Enter, Quit, Left, Move, Make, Lookup, statVars
  <2>2. QED
    BY <1>1, <1>3, <2>1, ObservedQuiet DEF Observed, waiterVars
<1>4. ASSUME NEW r \in Room, Observed, Insert(r) \/ Visit(r) PROVE P
  <2>1. UNCHANGED <<server, line, due>>
    BY <1>4 DEF Insert, Visit, statVars
  <2>2. QED
    BY <1>1, <1>4, <2>1, ObservedQuiet DEF Observed, waiterVars
<1>5. ASSUME Observed, BeginPass \/ EndScan \/ Publish \/ Purge PROVE P
  <2>1. CASE BeginPass \/ EndScan \/ Purge
    <3>1. UNCHANGED <<server, line, due>>
      BY <2>1, Zenon DEF BeginPass, EndScan, Purge, statVars
    <3>2. QED
      BY <1>1, <1>5, <3>1, ObservedQuiet DEF Observed, waiterVars
  <2>2. CASE Publish
    <3>1. StageInv'
      BY <1>5, <2>2 DEF Publish, Observed, waiterVars, StageInv
    <3>2. QED
      BY <1>5, <2>2, <3>1, StreakLine
  <2>3. QED
    BY <1>5, <2>1, <2>2
<1>6. ASSUME Tick PROVE P
  <2>1. /\ UNCHANGED <<mode, wait, streak, lastTs, lost, line, zeros, server>>
        /\ wait # "decided" /\ due' = UpTo(due + 1, StatsEvery)
        /\ IF wait = "on" THEN sleep > 0 /\ sleep' = sleep - 1 ELSE sleep' = sleep
    BY <1>6 DEF Tick, Second
  <2>2. due' <= due + 1 /\ due' \in Nat
    BY <1>0, <2>1 DEF UpTo
  <2>3. FreshInv'
    BY <1>0, <2>1, <2>2 DEF FreshInv
  <2>4. StageInv' /\ StreakInv'
    BY <2>1 DEF StageInv, StreakInv, StreakIsReal
  <2>5. QED
    BY <2>3, <2>4
<1>7. ASSUME Start PROVE P
  <2>1. /\ UNCHANGED <<mode, sleep, streak, lastTs, lost, line, zeros, due, server>>
        /\ wait = "off" /\ wait' = "on"
    BY <1>7 DEF Start, lobbyVars, statVars, histVars
  <2>2. QED
    BY <1>0, <2>1 DEF StageInv, FreshInv, StreakInv, StreakIsReal
<1>8. ASSUME PollStats PROVE P
  BY <1>8, StreakPoll
<1>9. ASSUME PollConns PROVE P
  <2>1. /\ mode = "conns" /\ wait = "on" /\ server = "up"
        /\ UNCHANGED <<mode, lastTs, lost, line, zeros, server>>
        /\ wait' \in {"on", "decided"}
    BY <1>9 DEF PollConns, PollDue, Sampled, lobbyVars, statVars, histVars
  <2>2. QED
    BY <2>1 DEF StageInv, FreshInv, StreakInv, StreakIsReal
<1>10. ASSUME Restart PROVE P
  <2>1. /\ UNCHANGED <<mode, sleep, streak, lastTs, line, zeros, due>>
        /\ wait = "decided" /\ wait' = "done" /\ server' = "restarted"
    BY <1>10 DEF Restart, statVars, histVars
  <2>2. QED
    BY <2>1 DEF StageInv, FreshInv, StreakInv, StreakIsReal
<1>11. ASSUME NEW r \in Room, Observed, Again(r) \/ AgainDone(r) PROVE P
  <2>1. UNCHANGED <<server, line, due>>
    BY <1>11 DEF Again, AgainDone, AgainStep, statVars
  <2>2. QED
    BY <1>1, <1>11, <2>1, ObservedQuiet DEF Observed, waiterVars
<1>12. QED
  BY <1>11, <1>2, <1>3, <1>4, <1>5, <1>6, <1>7, <1>8, <1>9, <1>10, Steps

LEMMA StreakInit == WaiterInit => StageInv /\ FreshInv /\ StreakInv
<1> SUFFICES ASSUME WaiterInit PROVE StageInv /\ FreshInv /\ StreakInv
  OBVIOUS
<1>1. /\ wait = "off" /\ lost = {} /\ streak = 0 /\ lastTs = 0 /\ zeros = 0
      /\ ~line.zero /\ line.stamp = 0
  BY DEF WaiterInit, Init, NoLine
<1>2. QED
  BY <1>1 DEF StageInv, FreshInv, StreakInv, StreakIsReal

LEMMA StreakAlways == Spec => [](TypeOK /\ EmptyInv /\ StageInv /\ FreshInv /\ StreakInv)
BY TypeInit, TypeStep, StreakInit, StreakStep, PTL DEF Spec

\* The idle waiter counts a line once, counts only empty ones, and starts over
\* at one with players: its streak is never longer than the run of empty lines
\* in the journal (stats mode of the script in deploy.py).
THEOREM StreaksAreReal == Spec => []StreakIsReal
<1>1. StreakInv => StreakIsReal
  BY DEF StreakInv
<1>2. QED
  BY <1>1, StreakAlways, PTL

-----------------------------------------------------------------------------
(* The age of what a restart takes away.                                   *)

\* Rooms that clients can find.
Open == Listed \ expired

AgeInv ==
  /\ \A r \in Room : room[r] \in {"free", "made"} => age[r] = 0
  /\ pc = "publish" /\ todo = {} => \A r \in Open : age[r] = 0
  /\ mode = "stats" /\ line.zero => \A r \in Open : age[r] <= due
  /\ mode = "stats" /\ ZeroSamples > 1 /\ wait = "decided" =>
       \A r \in Open : age[r] <= PollEvery
  /\ LostIsYoung

\* Rooms without players do not get younger, and no room is closed again.
LEMMA AgeQuiet ==
  ASSUME AgeInv, UNCHANGED <<age, mode, line, due, lost>>,
         Open' \subseteq Open \cup {r \in Room : age[r] = 0},
         \A r \in Room : room'[r] \in {"free", "made"} => room[r] \in {"free", "made"},
         pc' = "publish" /\ todo' = {} => \A r \in Open' : age[r] = 0,
         wait' = "decided" => wait = "decided",
         due \in Nat, PollEvery \in Nat
  PROVE  AgeInv'
<1>1. mode = "stats" /\ line.zero => \A r \in Open' : age[r] <= due
  BY DEF AgeInv
<1>2. mode = "stats" /\ ZeroSamples > 1 /\ wait' = "decided" =>
        \A r \in Open' : age[r] <= PollEvery
  BY DEF AgeInv
<1>3. QED
  BY <1>1, <1>2 DEF AgeInv, LostIsYoung

LEMMA AgeLine ==
  ASSUME TypeOK, StageInv, FreshInv, StreakInv, AgeInv, Observed, Publish
  PROVE  AgeInv'
<1>0. due \in Nat /\ PollEvery \in Nat
  BY WaiterAssumption, LobbyAssumption DEF TypeOK
<1>1. /\ UNCHANGED <<room, expired, age, mode, wait, lost>>
      /\ pc = "publish" /\ pc' = "purge"
  BY DEF Publish, Observed, waiterVars, roomVars
<1>2. Open' = Open
  BY <1>1 DEF Open, Listed
<1>3. CASE UNCHANGED <<line, due>>
  BY <1>0, <1>1, <1>2, <1>3, AgeQuiet
<1>4. CASE due' = 0 /\ line' = [stamp |-> Stamp(line.stamp), zero |-> total = 0 /\ todo = {}]
  <2>1. line'.zero => \A r \in Open : age[r] = 0
    BY <1>1, <1>4 DEF AgeInv
  <2>2. QED
    BY <1>1, <1>2, <1>4, <2>1 DEF AgeInv, LostIsYoung
<1>5. QED
  BY <1>3, <1>4 DEF Publish

LEMMA AgeTick ==
  ASSUME TypeOK, EmptyInv, StageInv, AgeInv, Tick
  PROVE  AgeInv'
<1>0. /\ due \in 0..StatsEvery /\ StatsEvery \in Nat /\ PollEvery \in Nat /\ AgeBound \in Nat
      /\ mode = "stats" => AgeBound <= StatsEvery
      /\ AgeBound = PollEvery + 1
      /\ \A r \in Room : age[r] \in Nat
  BY LobbyTypes DEF TypeOK
<1>1. /\ UNCHANGED <<room, mode, wait, line, lost>> /\ server = "up"
      /\ pc' = "wake" /\ wait # "decided" /\ expired \subseteq expired'
      /\ due' = UpTo(due + 1, StatsEvery)
      /\ age' = [r \in Room |-> IF r \in Listed \ expired /\ mode = "stats"
                                  THEN UpTo(age[r] + 1, AgeBound) ELSE 0]
  BY DEF Tick, Second, ExpiryTicks
<1>2. Open' \subseteq Open /\ Open \subseteq Room
  BY <1>1 DEF Open, Listed
<1>3. \A r \in Room : room'[r] \in {"free", "made"} => age'[r] = 0
  BY <1>1 DEF Listed
<1>4. ASSUME mode = "stats", line.zero, NEW r \in Open' PROVE age'[r] <= due'
  <2>1. age[r] <= due /\ age[r] \in Nat
    BY <1>0, <1>2, <1>4 DEF AgeInv
  <2>2. age'[r] = UpTo(age[r] + 1, AgeBound)
    BY <1>1, <1>2, <1>4 DEF Open
  <2>3. QED
    BY <1>0, <1>1, <1>4, <2>1, <2>2 DEF UpTo
<1>5. lost = {}
  BY <1>1 DEF StageInv
<1>6. QED
  BY <1>1, <1>3, <1>4, <1>5 DEF AgeInv, LostIsYoung

LEMMA AgePoll ==
  ASSUME TypeOK, EmptyInv, StageInv, FreshInv, StreakInv, AgeInv, PollStats
  PROVE  AgeInv'
<1>0. /\ PollEvery \in Nat /\ ZeroSamples \in Nat \ {0} /\ due \in Nat
      /\ streak \in Nat /\ \A r \in Room : age[r] \in Nat
  BY LobbyTypes DEF TypeOK
<1>1. /\ UNCHANGED <<room, expired, pc, todo, mode, line, due, age, lost>>
      /\ mode = "stats" /\ wait = "on" /\ sleep = 0 /\ wait' \in {"on", "decided"}
      /\ wait' = "decided" => streak' >= ZeroSamples
  BY DEF PollStats, PollDue, Sampled, lobbyVars, roomVars, passVars, statVars, histVars
<1>2. streak < ZeroSamples
  BY <1>1 DEF StageInv
<1>3. Open' = Open
  BY <1>1 DEF Open, Listed
<1>4. ASSUME ZeroSamples > 1, wait' = "decided", NEW r \in Open PROVE age[r] <= PollEvery
  <2>1. /\ lastTs # line.stamp /\ line.zero /\ streak' = streak + 1
    BY <1>0, <1>1, <1>2, <1>4 DEF PollStats, Sampled
  <2>2. lastTs # 0
    BY <1>0, <1>1, <1>4, <2>1 DEF StreakInv
  <2>3. due + sleep <= PollEvery
    BY <1>1, <2>1, <2>2 DEF FreshInv
  <2>4. age[r] <= due
    BY <1>1, <1>4, <2>1 DEF AgeInv
  <2>5. r \in Room
    BY <1>4 DEF Open, Listed
  <2>6. QED
    BY <1>0, <1>1, <2>3, <2>4, <2>5
<1>5. QED
  BY <1>1, <1>3, <1>4 DEF AgeInv, LostIsYoung

LEMMA AgeStep ==
  TypeOK /\ EmptyInv /\ StageInv /\ FreshInv /\ StreakInv /\ CountInv /\ AgeInv /\ [Next]_vars
    => AgeInv'
<1> SUFFICES ASSUME TypeOK, EmptyInv, StageInv, FreshInv, StreakInv, CountInv, AgeInv,
                    [Next]_vars
             PROVE  AgeInv'
  OBVIOUS
<1> DEFINE P == AgeInv'
<1>0. PollEvery \in Nat /\ due \in Nat /\ Open \subseteq Room
  BY WaiterAssumption, LobbyAssumption DEF TypeOK, Open, Listed
<1>1. ASSUME UNCHANGED <<room, expired, age, mode, wait, line, due, lost>>,
             pc' = "publish" => pc = "publish" /\ todo' = todo
      PROVE  P
  <2>1. Open' = Open
    BY <1>1 DEF Open, Listed
  <2>2. QED
    BY <1>0, <1>1, <2>1, AgeQuiet DEF AgeInv
<1>2. ASSUME UNCHANGED vars PROVE P
  BY <1>1, <1>2 DEF vars, lobbyVars, waiterVars, histVars, roomVars, passVars, statVars
<1>3. ASSUME NEW c \in Conn, Observed,
             \/ Admit(c) \/ Refuse(c) \/ Enter(c) \/ Quit(c) \/ Left(c)
             \/ \E r \in Room : Make(c, r) \/ Lookup(c, r)
      PROVE  P
  <2>1. UNCHANGED <<age, mode, wait, lost>>
    BY <1>3 DEF Observed, waiterVars
  <2>2. CASE Admit(c) \/ Refuse(c) \/ Enter(c) \/ Quit(c) \/ Left(c)
    BY <1>1, <2>1, <2>2
       DEF Admit, Refuse, Enter, Quit, Left, Move, roomVars, passVars, statVars
  <2>3. ASSUME NEW r \in Room, Make(c, r) PROVE P
    <3>1. /\ Open' = Open /\ UNCHANGED <<pc, todo, line, due>>
          /\ \A q \in Room : room'[q] \in {"free", "made"} => room[q] \in {"free", "made"}
      BY <2>3 DEF Make, Open, Listed, TypeOK, passVars, statVars
    <3>2. QED
      BY <1>0, <2>1, <3>1, AgeQuiet DEF AgeInv
  <2>4. ASSUME NEW r \in Room, Lookup(c, r) PROVE P
    BY <1>1, <2>1, <2>4 DEF Lookup, roomVars, passVars, statVars
  <2>5. QED
    BY <1>3, <2>2, <2>3, <2>4
<1>4. ASSUME NEW r \in Room, Observed, Insert(r) \/ Visit(r) PROVE P
  <2>1. UNCHANGED <<age, mode, wait, lost>>
    BY <1>4 DEF Observed, waiterVars
  <2>2. CASE Insert(r)
    <3>1. /\ Open' \subseteq Open \cup {r} /\ age[r] = 0 /\ UNCHANGED <<pc, todo, line, due>>
          /\ \A q \in Room : room'[q] \in {"free", "made"} => room[q] \in {"free", "made"}
      BY <2>2 DEF Insert, Open, Listed, TypeOK, passVars, statVars, AgeInv
    <3>2. QED
      BY <1>0, <2>1, <3>1, AgeQuiet DEF AgeInv
  <2>3. CASE Visit(r)
    BY <1>1, <2>1, <2>3 DEF Visit, roomVars, statVars
  <2>4. QED
    BY <1>4, <2>2, <2>3
<1>5. ASSUME Observed, BeginPass \/ EndScan \/ Publish \/ Purge PROVE P
  <2>1. UNCHANGED <<age, mode, wait, lost>>
    BY <1>5 DEF Observed, waiterVars
  <2>2. CASE BeginPass
    <3>1. UNCHANGED <<room, expired, line, due>> /\ pc' = "scan"
      BY <2>2, Zenon DEF BeginPass, roomVars, statVars
    <3>2. QED
      BY <1>1, <2>1, <3>1
  <2>3. CASE EndScan
    <3>1. /\ UNCHANGED <<room, expired, line, due>>
          /\ dead \subseteq expired /\ todo' = Listed \ dead
      BY <2>3 DEF EndScan, CountInv, roomVars, statVars
    <3>2. Open' = Open /\ (todo' = {} => Open = {})
      BY <3>1 DEF Open, Listed
    <3>3. QED
      BY <1>0, <2>1, <3>1, <3>2, AgeQuiet
  <2>4. CASE Publish
    BY <1>5, <2>4, AgeLine
  <2>5. CASE Purge
    <3>1. /\ UNCHANGED <<expired, line, due>> /\ pc' = "sleep"
          /\ room' = [r \in Room |-> IF r \in dead THEN "unlisted" ELSE room[r]]
      BY <2>5 DEF Purge, statVars
    <3>2. /\ Open' \subseteq Open
          /\ \A q \in Room : room'[q] \in {"free", "made"} => room[q] \in {"free", "made"}
      BY <3>1 DEF Open, Listed
    <3>3. QED
      BY <1>0, <2>1, <3>1, <3>2, AgeQuiet
  <2>6. QED
    BY <1>5, <2>2, <2>3, <2>4, <2>5
<1>6. ASSUME Tick PROVE P
  BY <1>6, AgeTick
<1>7. ASSUME Start PROVE P
  <2>1. /\ UNCHANGED <<room, expired, age, mode, line, due, lost, pc, todo>> /\ wait' = "on"
    BY <1>7 DEF Start, lobbyVars, roomVars, passVars, statVars, histVars
  <2>2. Open' = Open
    BY <2>1 DEF Open, Listed
  <2>3. QED
    BY <1>0, <2>1, <2>2, AgeQuiet DEF AgeInv
<1>8. ASSUME PollStats PROVE P
  BY <1>8, AgePoll
<1>9. ASSUME PollConns PROVE P
  <2>1. /\ UNCHANGED <<room, expired, age, mode, line, due, lost, pc, todo>> /\ mode = "conns"
    BY <1>9 DEF PollConns, lobbyVars, roomVars, passVars, statVars, histVars
  <2>2. Open' = Open
    BY <2>1 DEF Open, Listed
  <2>3. QED
    BY <2>1, <2>2 DEF AgeInv, LostIsYoung
<1>10. ASSUME Restart PROVE P
  <2>1. /\ UNCHANGED <<room, expired, age, mode, line, due, pc, todo>>
        /\ wait = "decided" /\ wait' = "done" /\ lost' = Open
    BY <1>10 DEF Restart, Open, roomVars, passVars, statVars, histVars
  <2>2. Open' = Open
    BY <2>1 DEF Open, Listed
  <2>3. QED
    BY <2>1, <2>2 DEF AgeInv, LostIsYoung
<1>11. ASSUME NEW r \in Room, Observed, Again(r) \/ AgainDone(r) PROVE P
  <2>1. UNCHANGED <<age, mode, wait, lost>>
    BY <1>11 DEF Observed, waiterVars
  <2>2. QED
    BY <1>1, <1>11, <2>1 DEF Again, AgainDone, AgainStep, roomVars, passVars, statVars
<1>12. QED
  BY <1>11, <1>2, <1>3, <1>4, <1>5, <1>6, <1>7, <1>8, <1>9, <1>10, Steps

LEMMA AgeInit == WaiterInit => AgeInv
BY DEF WaiterInit, Init, NoLine, AgeInv, LostIsYoung

\* What the idle waiter takes away when it waits for more than one line: rooms
\* that were not there one poll before (deploy.py, room_mgr_loop).
THEOREM LossesAreYoung == Spec => []LostIsYoung
<1> DEFINE All == TypeOK /\ EmptyInv /\ StageInv /\ FreshInv /\ StreakInv
<1>1. AgeInv => LostIsYoung
  BY DEF AgeInv
<1>2. All /\ CountInv /\ AgeInv /\ [Next]_vars => AgeInv'
  BY AgeStep
<1>3. All /\ CountInv /\ [Next]_vars => CountInv'
  BY CountStep
<1>4. Spec => []All
  BY StreakAlways
<1> HIDE DEF All
<1>5. QED
  BY <1>1, <1>2, <1>3, <1>4, CountInit, AgeInit, PTL DEF Spec

=============================================================================
