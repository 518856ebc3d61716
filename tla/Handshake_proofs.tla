-------------------------- MODULE Handshake_proofs --------------------------
(* Proofs about Handshake, for every value of its constants: any number of *)
(* connections, tokens, ids and passwords.  The two readings of a room id  *)
(* are inverse to each other, for every size of the alphabet.              *)
EXTENDS Handshake, SequenceTheorems, TLAPS

-----------------------------------------------------------------------------
(* Room ids.  One digit.                                                   *)

LEMMA DivMod ==
  ASSUME NEW x \in Nat
  PROVE  /\ x \div Base \in Nat
         /\ x % Base \in Digits
         /\ x = (x % Base) + Base * (x \div Base)
BY BaseAssumption, SMT DEF Digits

LEMMA DivBound ==
  ASSUME NEW x \in Nat, NEW n \in Nat, x < Base * n
  PROVE  x \div Base < n
BY BaseAssumption, SMT DEF Digits

LEMMA Digit ==
  ASSUME NEW d \in Digits, NEW q \in Nat
  PROVE  /\ d + Base * q \in Nat
         /\ (d + Base * q) % Base = d
         /\ (d + Base * q) \div Base = q
BY BaseAssumption, SMT DEF Digits

LEMMA LastDigit ==
  ASSUME NEW d \in Digits
  PROVE  d \in Nat /\ d < Base /\ d % Base = d
BY BaseAssumption, SMT DEF Digits

LEMMA DigitBound ==
  ASSUME NEW d \in Digits, NEW q \in Nat, NEW n \in Nat, q < n
  PROVE  d + Base * q < Base * n
<1>1. Base * (q + 1) =< Base * n
  BY BaseAssumption, SMT
<1>2. d + Base * q < Base * (q + 1)
  BY BaseAssumption, SMT DEF Digits
<1> QED
  BY <1>1, <1>2, BaseAssumption, SMT DEF Digits

-----------------------------------------------------------------------------
(* Six digits.                                                             *)

\* Every id that generate_room_id can draw is shown as six characters of
\* the alphabet, from which str_to_room_id reads the same id.
THEOREM IdThenStr ==
  \A id \in RoomIds : /\ IsRoomIdStr(RoomIdToStr(id))
                      /\ StrToRoomId(RoomIdToStr(id)) = id
<1> SUFFICES ASSUME NEW id \in RoomIds
             PROVE  /\ IsRoomIdStr(RoomIdToStr(id))
                    /\ StrToRoomId(RoomIdToStr(id)) = id
  OBVIOUS
<1> DEFINE b2 == Base * Base
           b3 == Base * b2
           b4 == Base * b3
           b5 == Base * b4
           q1 == id \div Base
           q2 == q1 \div Base
           q3 == q2 \div Base
           q4 == q3 \div Base
           q5 == q4 \div Base
<1>0. b2 \in Nat /\ b3 \in Nat /\ b4 \in Nat /\ b5 \in Nat /\ Base \in Nat
  BY BaseAssumption, SMT
<1>1. id \in Nat /\ id < Base * b5
  BY <1>0, SMT DEF RoomIds
<1> HIDE DEF b5
<1>2. q1 \in Nat /\ q1 < b5 /\ id % Base \in Digits /\ id = (id % Base) + Base * q1
  BY <1>0, <1>1, DivMod, DivBound
<1> USE DEF b5
<1> HIDE DEF b4, q1
<1>3. q2 \in Nat /\ q2 < b4 /\ q1 % Base \in Digits /\ q1 = (q1 % Base) + Base * q2
  BY <1>0, <1>2, DivMod, DivBound
<1> USE DEF b4
<1> HIDE DEF b3, q2
<1>4. q3 \in Nat /\ q3 < b3 /\ q2 % Base \in Digits /\ q2 = (q2 % Base) + Base * q3
  BY <1>0, <1>3, DivMod, DivBound
<1> USE DEF b3
<1> HIDE DEF b2, q3
<1>5. q4 \in Nat /\ q4 < b2 /\ q3 % Base \in Digits /\ q3 = (q3 % Base) + Base * q4
  BY <1>0, <1>4, DivMod, DivBound
<1> USE DEF b2
<1> HIDE DEF q4
<1>6. q5 \in Nat /\ q5 < Base /\ q4 % Base \in Digits /\ q4 = (q4 % Base) + Base * q5
  BY <1>0, <1>5, DivMod, DivBound
<1> HIDE DEF q5
<1>7. q5 % Base = q5 /\ q5 \in Digits
  BY <1>0, <1>6, SMT DEF Digits
<1>8. RoomIdToStr(id) = <<id % Base, q1 % Base, q2 % Base, q3 % Base, q4 % Base, q5>>
  BY <1>7 DEF RoomIdToStr, q1, q2, q3, q4, q5
<1>9. IsRoomIdStr(RoomIdToStr(id))
  BY <1>2, <1>3, <1>4, <1>5, <1>6, <1>7, <1>8, SMT DEF IsRoomIdStr
<1>10. StrToRoomId(RoomIdToStr(id)) = id
  BY <1>2, <1>3, <1>4, <1>5, <1>6, <1>8 DEF StrToRoomId
<1> QED
  BY <1>9, <1>10

\* Every text that str_to_room_id accepts names an id of the range, and is
\* the text by which that id is shown: no two texts name the same room.
THEOREM StrThenId ==
  \A s \in Seq(Nat) : IsRoomIdStr(s) => /\ StrToRoomId(s) \in RoomIds
                                        /\ RoomIdToStr(StrToRoomId(s)) = s
<1> SUFFICES ASSUME NEW s \in Seq(Nat), IsRoomIdStr(s)
             PROVE  /\ StrToRoomId(s) \in RoomIds
                    /\ RoomIdToStr(StrToRoomId(s)) = s
  OBVIOUS
<1> DEFINE b2 == Base * Base
           b3 == Base * b2
           b4 == Base * b3
           b5 == Base * b4
           t5 == s[5] + Base * s[6]
           t4 == s[4] + Base * t5
           t3 == s[3] + Base * t4
           t2 == s[2] + Base * t3
           t1 == s[1] + Base * t2
<1>0. b2 \in Nat /\ b3 \in Nat /\ b4 \in Nat /\ b5 \in Nat /\ Base \in Nat \ {0}
  BY BaseAssumption, SMT
<1>1. /\ Len(s) = 6
      /\ s[1] \in Digits /\ s[2] \in Digits /\ s[3] \in Digits
      /\ s[4] \in Digits /\ s[5] \in Digits /\ s[6] \in Digits
  BY DEF IsRoomIdStr
<1>2. s[6] \in Nat /\ s[6] < Base /\ s[6] % Base = s[6]
  BY <1>1, LastDigit
<1> HIDE DEF b2, b3, b4, b5
<1>3. t5 \in Nat /\ t5 < b2 /\ t5 % Base = s[5] /\ t5 \div Base = s[6]
  BY <1>0, <1>1, <1>2, Digit, DigitBound DEF b2
<1> HIDE DEF t5
<1>4. t4 \in Nat /\ t4 < b3 /\ t4 % Base = s[4] /\ t4 \div Base = t5
  BY <1>0, <1>1, <1>3, Digit, DigitBound DEF b3
<1> HIDE DEF t4
<1>5. t3 \in Nat /\ t3 < b4 /\ t3 % Base = s[3] /\ t3 \div Base = t4
  BY <1>0, <1>1, <1>4, Digit, DigitBound DEF b4
<1> HIDE DEF t3
<1>6. t2 \in Nat /\ t2 < b5 /\ t2 % Base = s[2] /\ t2 \div Base = t3
  BY <1>0, <1>1, <1>5, Digit, DigitBound DEF b5
<1> HIDE DEF t2
<1>7. t1 \in Nat /\ t1 < Base * b5 /\ t1 % Base = s[1] /\ t1 \div Base = t2
  BY <1>0, <1>1, <1>6, Digit, DigitBound
<1>8. StrToRoomId(s) = t1
  BY DEF StrToRoomId, t2, t3, t4, t5
<1> HIDE DEF t1
<1>9. StrToRoomId(s) \in RoomIds
  <2>1. Base * b5 \in Nat
    BY <1>0, SMT
  <2>2. t1 \in 0..(Base * b5 - 1)
    BY <1>7, <2>1, SMT
  <2> QED
    BY <1>8, <2>2 DEF RoomIds, b2, b3, b4, b5
<1>10. RoomIdToStr(t1) = <<s[1], s[2], s[3], s[4], s[5], s[6]>>
  BY <1>2, <1>3, <1>4, <1>5, <1>6, <1>7 DEF RoomIdToStr
<1>11. <<s[1], s[2], s[3], s[4], s[5], s[6]>> = s
  BY <1>1, SMT
<1> QED
  BY <1>8, <1>9, <1>10, <1>11

-----------------------------------------------------------------------------
(* What is said, one after the other.                                      *)

LEMMA Two == ASSUME NEW S, NEW s \in Seq(S), Len(s) = 2 PROVE s = <<s[1], s[2]>>
OBVIOUS

LEMMA Three == ASSUME NEW S, NEW s \in Seq(S), Len(s) = 3 PROVE s = <<s[1], s[2], s[3]>>
OBVIOUS

LEMMA OneAndOne ==
  ASSUME NEW S, NEW a \in S, NEW b \in S
  PROVE  <<a>> \o <<b>> = <<a, b>>
<1> DEFINE s == <<a>> \o <<b>>
<1>1. s \in Seq(S) /\ Len(s) = 2 /\ s[1] = a /\ s[2] = b
  BY ConcatProperties
<1>2. QED
  BY <1>1, Two

LEMMA OneAndTwo ==
  ASSUME NEW S, NEW a \in S, NEW b \in S, NEW c \in S
  PROVE  <<a>> \o <<b, c>> = <<a, b, c>>
<1> DEFINE s == <<a>> \o <<b, c>>
<1>1. s \in Seq(S) /\ Len(s) = 3 /\ s[1] = a /\ s[2] = b /\ s[3] = c
  BY ConcatProperties
<1>2. QED
  BY <1>1, Three

LEMMA TwoAndOne ==
  ASSUME NEW S, NEW a \in S, NEW b \in S, NEW c \in S
  PROVE  <<a, b>> \o <<c>> = <<a, b, c>>
<1> DEFINE s == <<a, b>> \o <<c>>
<1>1. s \in Seq(S) /\ Len(s) = 3 /\ s[1] = a /\ s[2] = b /\ s[3] = c
  BY ConcatProperties
<1>2. QED
  BY <1>1, Three

Words == {"OK", "ERR", "room", "part"}

\* All that is ever added to what has been said.
LEMMA Spoken ==
  /\ <<>> \o <<"OK">> = <<"OK">>
  /\ <<>> \o <<"ERR">> = <<"ERR">>
  /\ <<"OK">> \o <<"OK">> = <<"OK", "OK">>
  /\ <<"OK">> \o <<"ERR">> = <<"OK", "ERR">>
  /\ <<"OK">> \o <<"OK", "ERR">> = <<"OK", "OK", "ERR">>
  /\ <<"OK", "OK">> \o <<"ERR">> = <<"OK", "OK", "ERR">>
  /\ <<"OK", "OK">> \o <<"room">> = <<"OK", "OK", "room">>
<1>1. <<>> \o <<"OK">> = <<"OK">> /\ <<>> \o <<"ERR">> = <<"ERR">>
  OBVIOUS
<1>2. "OK" \in Words /\ "ERR" \in Words /\ "room" \in Words
  BY DEF Words
<1>3. <<"OK">> \o <<"OK">> = <<"OK", "OK">> /\ <<"OK">> \o <<"ERR">> = <<"OK", "ERR">>
  BY <1>2, OneAndOne
<1>4. <<"OK">> \o <<"OK", "ERR">> = <<"OK", "OK", "ERR">>
  BY <1>2, OneAndTwo
<1>5. /\ <<"OK", "OK">> \o <<"ERR">> = <<"OK", "OK", "ERR">>
      /\ <<"OK", "OK">> \o <<"room">> = <<"OK", "OK", "room">>
  BY <1>2, TwoAndOne
<1>6. QED
  BY <1>1, <1>3, <1>4, <1>5

\* What is said stays a sequence of words.
LEMMA SayType ==
  ASSUME TypeOK, NEW c \in Conn, NEW what \in Seq(Words), Say(c, what)
  PROVE  said' \in [Conn -> Seq({"OK", "ERR", "room", "part"})]
<1>1. said[c] \o what \in Seq(Words)
  BY ConcatProperties DEF TypeOK, Words
<1>2. QED
  BY <1>1 DEF TypeOK, Say, Words

-----------------------------------------------------------------------------
(* The inductive invariant.                                                *)

Early == {"new", "token", "check", "http"}

\* Let in and not yet told the room.
Untold(s) == ToldInside(s) /\ \A i \in 3..Len(s) : s[i] # "room"

\* Let in, and done with the handshake.
InsideAs(s, by) == IF by = {} THEN s = <<"OK", "OK", "room">> ELSE ToldInside(s)

\* What a task has got hold of, and said, by where it is.
Progress(c) ==
  /\ phase[c] \in Early => acct[c] = None /\ said[c] = <<>>
  /\ phase[c] \in {"check", "http"} => token[c] \in Token
  /\ phase[c] \in Early \cup {"version", "ask"} =>
       join[c] = None /\ at[c] = None /\ room[c] = None
  /\ phase[c] \notin Early \cup {"gone"} => acct[c] \in Account
  /\ phase[c] \in {"version", "ask"} => said[c] = <<"OK">>
  /\ phase[c] = "find" => join[c] # None /\ at[c] = None
  /\ phase[c] \in {"find", "enter"} => said[c] = <<"OK", "OK">>
  /\ phase[c] \in {"enter", "details", "ended", "loop"} => at[c] # None
  /\ phase[c] \notin {"details", "ended", "loop", "gone"} => shut[c] = {}
  /\ phase[c] \in {"details", "ended"} => Untold(said[c])
  /\ phase[c] = "details" /\ shut[c] = {} => said[c] = <<"OK", "OK">>
  /\ phase[c] = "ended" => shut[c] # {}
  /\ phase[c] = "loop" => InsideAs(said[c], shut[c])

Progresses == \A c \in Conn : Progress(c)

\* The cache knows what the service has said.
CacheTrue == \A t \in Token : cache[t] # None => t \in Genuine /\ cache[t] = AccountOf[t]

\* The map, the rooms under way to it and those entered exist, and are filed
\* under their ids.
Filed ==
  /\ \A id \in Drawn : rooms[id] # None => room[rooms[id]] # None /\ room[rooms[id]].id = id
  /\ \A c \in pending : room[c] # None
  /\ \A c \in Conn : at[c] # None => room[at[c]] # None

HInv ==
  /\ TypeOK /\ Progresses /\ OnlyVerified /\ CacheTrue /\ Filed
  /\ AdmittedAsAsked /\ EnvGate /\ Answers

\* Whoever is let in has heard OK_ twice and no more.
LEMMA UntoldFirst == Untold(<<"OK", "OK">>)
BY DEF Untold, ToldInside

LEMMA HInit == Init => HInv
<1> SUFFICES ASSUME Init PROVE HInv
  OBVIOUS
<1>1. TypeOK
  BY HandshakeAssumption DEF Init, TypeOK, Phases
<1>2. Progresses /\ OnlyVerified /\ CacheTrue /\ Filed
  BY DEF Init, Progresses, Progress, Early, OnlyVerified, CacheTrue, Filed
<1>3. AdmittedAsAsked /\ EnvGate /\ Answers
  BY DEF Init, AdmittedAsAsked, EnvGate, Answers
<1>4. QED
  BY <1>1, <1>2, <1>3 DEF HInv

-----------------------------------------------------------------------------
(* Every step preserves it.                                                *)

\* The end of a task, whatever it has said last.
LEMMA RefuseKeeps ==
  ASSUME HInv, NEW c \in Conn, NEW from \in Phases, NEW answer \in Seq(Words),
         Refuse(c, from, answer)
  PROVE  /\ TypeOK' /\ Progresses' /\ OnlyVerified' /\ CacheTrue' /\ Filed'
         /\ AdmittedAsAsked' /\ EnvGate'
<1> USE DEF HInv, Refuse, Go, roomVars
<1>1. TypeOK'
  BY SayType DEF TypeOK, Phases
<1>2. Progresses'
  BY DEF TypeOK, Progresses, Progress, Early, Say
<1>3. OnlyVerified' /\ CacheTrue'
  BY DEF TypeOK, OnlyVerified, CacheTrue
<1>4. Filed' /\ AdmittedAsAsked' /\ EnvGate'
  BY DEF TypeOK, Filed, AdmittedAsAsked, EnvGate
<1>5. QED
  BY <1>1, <1>2, <1>3, <1>4

\* What Answers says of one task that is over.
Answered(s, a, ac, j, by) ==
  IF a # None THEN InsideAs(s, by)
  ELSE s \in IF ac = None THEN {<<"ERR">>}
             ELSE IF j # None THEN {<<"OK", "OK", "ERR">>}
             ELSE {<<"OK", "ERR">>, <<"OK", "OK", "ERR">>}

\* Tasks that are over have answered; c's has just ended.
LEMMA RefuseAnswers ==
  ASSUME HInv, NEW c \in Conn, NEW from \in Phases, NEW answer, Refuse(c, from, answer),
         c \in here =>
           Answered(said[c] \o answer, at[c], acct[c], join[c], shut[c])
  PROVE  Answers'
<1> SUFFICES ASSUME NEW d \in Conn, phase'[d] = "gone", d \in here'
             PROVE  Answered(said[d], at[d], acct[d], join[d], shut[d])'
  BY DEF Answers, Answered, InsideAs
<1> USE DEF HInv, Refuse, Go, Say
<1>1. CASE d = c
  BY <1>1 DEF TypeOK
<1>2. CASE d # c
  BY <1>2 DEF TypeOK, Answers, Answered, InsideAs
<1>3. QED
  BY <1>1, <1>2

\* Each of the ways in which a task ends.
LEMMA EndKeeps ==
  ASSUME HInv, NEW c \in Conn,
         \/ NoPeer(c) \/ NoToken(c) \/ Unconfigured(c) \/ HttpFail(c) \/ BadVersion(c)
         \/ NoAsk(c) \/ AskHangup(c) \/ AskUnknown(c) \/ TurnAway(c)
         \/ Leave(c) \/ Close(c)
  PROVE  HInv'
<1> DEFINE Ends(from, answer) ==
      /\ from \in Phases /\ answer \in Seq(Words) /\ Refuse(c, from, answer)
      /\ c \in here =>
           Answered(said[c] \o answer, at[c], acct[c], join[c], shut[c])
<1>1. ASSUME NEW from, NEW answer, Ends(from, answer)
      PROVE  HInv'
  <2>1. /\ TypeOK' /\ Progresses' /\ OnlyVerified' /\ CacheTrue' /\ Filed'
        /\ AdmittedAsAsked' /\ EnvGate'
    BY <1>1, RefuseKeeps
  <2>2. Answers'
    BY <1>1, RefuseAnswers
  <2>3. QED
    BY <2>1, <2>2 DEF HInv
<1>2. None \notin Account
  BY HandshakeAssumption
<1>3. Progress(c)
  BY DEF HInv, Progresses
<1>4. /\ <<>> \in Seq(Words) /\ <<"ERR">> \in Seq(Words) /\ <<"OK", "ERR">> \in Seq(Words)
  BY DEF Words
<1> USE DEF Phases, Early, Progress, Refuse, Go, Answered
<1>5. CASE NoPeer(c)
  <2>1. Ends("new", <<>>)
    BY <1>5, <1>2, <1>3, <1>4, Spoken DEF NoPeer
  <2>2. QED
    BY <2>1, <1>1
<1>6. CASE NoToken(c)
  <2>1. Ends("token", <<"ERR">>)
    BY <1>6, <1>2, <1>3, <1>4, Spoken DEF NoToken
  <2>2. QED
    BY <2>1, <1>1
<1>7. CASE Unconfigured(c)
  <2>1. Ends("check", <<"ERR">>)
    BY <1>7, <1>2, <1>3, <1>4, Spoken DEF Unconfigured
  <2>2. QED
    BY <2>1, <1>1
<1>8. CASE HttpFail(c)
  <2>1. Ends("http", <<"ERR">>)
    BY <1>8, <1>2, <1>3, <1>4, Spoken DEF HttpFail
  <2>2. QED
    BY <2>1, <1>1
<1>9. CASE BadVersion(c)
  <2>1. Ends("version", <<"ERR">>)
    BY <1>9, <1>2, <1>3, <1>4, Spoken DEF BadVersion
  <2>2. QED
    BY <2>1, <1>1
<1>10. CASE NoAsk(c)
  <2>1. Ends("ask", <<"ERR">>)
    BY <1>10, <1>2, <1>3, <1>4, Spoken DEF NoAsk
  <2>2. QED
    BY <2>1, <1>1
<1>11. CASE AskHangup(c)
  <2>1. Ends("ask", <<>>)
    BY <1>11, <1>2, <1>3, <1>4, Spoken DEF AskHangup
  <2>2. QED
    BY <2>1, <1>1
<1>12. CASE AskUnknown(c)
  <2>1. Ends("ask", <<"OK", "ERR">>)
    BY <1>12, <1>2, <1>3, <1>4, Spoken DEF AskUnknown
  <2>2. QED
    BY <2>1, <1>1
<1>13. CASE TurnAway(c)
  <2>1. Ends("find", <<"ERR">>)
    BY <1>13, <1>2, <1>3, <1>4, Spoken DEF TurnAway
  <2>2. QED
    BY <2>1, <1>1
<1>14. CASE Leave(c) \/ Close(c)
  <2>1. said[c] \in Seq(Words) /\ said[c] \o <<>> = said[c]
    BY DEF HInv, TypeOK, Words
  <2>2. PICK from \in {"loop", "ended"} : Refuse(c, from, <<>>)
    BY <1>14 DEF Leave, Close
  <2>3. at[c] # None /\ InsideAs(said[c], shut[c])
    BY <2>2, <1>3 DEF Untold, InsideAs
  <2>4. Ends(from, <<>>)
    BY <2>1, <2>2, <2>3, <1>4
  <2>5. QED
    BY <2>4, <1>1
<1>15. QED
  BY <1>5, <1>6, <1>7, <1>8, <1>9, <1>10, <1>11, <1>12, <1>13, <1>14

LEMMA AcceptKeeps ==
  ASSUME HInv, NEW c \in Conn, Accept(c)
  PROVE  HInv'
<1> USE DEF HInv, Accept, Go, ownVars, roomVars
<1>1. TypeOK'
  BY HandshakeAssumption DEF TypeOK, Phases
<1>2. Progresses'
  BY HandshakeAssumption DEF TypeOK, Progresses, Progress, Early
<1>3. OnlyVerified' /\ CacheTrue'
  BY HandshakeAssumption DEF TypeOK, OnlyVerified, CacheTrue, Progresses, Progress, Early
<1>4. Filed'
  BY HandshakeAssumption DEF TypeOK, Filed, Progresses, Progress, Early
<1>5. AdmittedAsAsked' /\ EnvGate'
  BY HandshakeAssumption DEF TypeOK, AdmittedAsAsked, EnvGate, Filed, Progresses, Progress, Early
<1>6. Answers'
  BY HandshakeAssumption DEF TypeOK, Answers
<1>7. QED
  BY <1>1, <1>2, <1>3, <1>4, <1>5, <1>6

LEMMA ReadTokenKeeps ==
  ASSUME HInv, NEW c \in Conn, NEW t \in Token, ReadToken(c, t)
  PROVE  HInv'
<1> USE DEF HInv, ReadToken, Go, ownVars, roomVars
<1>1. TypeOK'
  BY HandshakeAssumption DEF TypeOK, Phases
<1>2. Progresses'
  BY HandshakeAssumption DEF TypeOK, Progresses, Progress, Early
<1>3. OnlyVerified' /\ CacheTrue'
  BY HandshakeAssumption DEF TypeOK, OnlyVerified, CacheTrue, Progresses, Progress, Early
<1>4. Filed'
  BY HandshakeAssumption DEF TypeOK, Filed, Progresses, Progress, Early
<1>5. AdmittedAsAsked' /\ EnvGate'
  BY HandshakeAssumption DEF TypeOK, AdmittedAsAsked, EnvGate, Filed, Progresses, Progress, Early
<1>6. Answers'
  BY HandshakeAssumption DEF TypeOK, Answers
<1>7. QED
  BY <1>1, <1>2, <1>3, <1>4, <1>5, <1>6

LEMMA CacheMissKeeps ==
  ASSUME HInv, NEW c \in Conn, CacheMiss(c)
  PROVE  HInv'
<1> USE DEF HInv, CacheMiss, Go, ownVars, roomVars
<1>1. TypeOK'
  BY HandshakeAssumption DEF TypeOK, Phases
<1>2. Progresses'
  BY HandshakeAssumption DEF TypeOK, Progresses, Progress, Early
<1>3. OnlyVerified' /\ CacheTrue'
  BY HandshakeAssumption DEF TypeOK, OnlyVerified, CacheTrue, Progresses, Progress, Early
<1>4. Filed'
  BY HandshakeAssumption DEF TypeOK, Filed, Progresses, Progress, Early
<1>5. AdmittedAsAsked' /\ EnvGate'
  BY HandshakeAssumption DEF TypeOK, AdmittedAsAsked, EnvGate, Filed, Progresses, Progress, Early
<1>6. Answers'
  BY HandshakeAssumption DEF TypeOK, Answers
<1>7. QED
  BY <1>1, <1>2, <1>3, <1>4, <1>5, <1>6

LEMMA ReadVersionKeeps ==
  ASSUME HInv, NEW c \in Conn, NEW v \in {5, 6}, ReadVersion(c, v)
  PROVE  HInv'
<1> USE DEF HInv, ReadVersion, Go, ownVars, roomVars
<1>1. TypeOK'
  BY HandshakeAssumption DEF TypeOK, Phases
<1>2. Progresses'
  BY HandshakeAssumption DEF TypeOK, Progresses, Progress, Early
<1>3. OnlyVerified' /\ CacheTrue'
  BY HandshakeAssumption DEF TypeOK, OnlyVerified, CacheTrue, Progresses, Progress, Early
<1>4. Filed'
  BY HandshakeAssumption DEF TypeOK, Filed, Progresses, Progress, Early
<1>5. AdmittedAsAsked' /\ EnvGate'
  BY HandshakeAssumption DEF TypeOK, AdmittedAsAsked, EnvGate, Filed, Progresses, Progress, Early
<1>6. Answers'
  BY HandshakeAssumption DEF TypeOK, Answers
<1>7. QED
  BY <1>1, <1>2, <1>3, <1>4, <1>5, <1>6

LEMMA EnterKeeps ==
  ASSUME HInv, NEW c \in Conn, Enter(c)
  PROVE  HInv'
<1> USE DEF HInv, Enter, Go, ownVars, roomVars
<1>1. TypeOK'
  BY HandshakeAssumption DEF TypeOK, Phases
<1>2. Progresses'
  BY UntoldFirst, HandshakeAssumption DEF TypeOK, Progresses, Progress, Early
<1>3. OnlyVerified' /\ CacheTrue'
  BY HandshakeAssumption DEF TypeOK, OnlyVerified, CacheTrue, Progresses, Progress, Early
<1>4. Filed'
  BY HandshakeAssumption DEF TypeOK, Filed, Progresses, Progress, Early
<1>5. AdmittedAsAsked' /\ EnvGate'
  BY HandshakeAssumption DEF TypeOK, AdmittedAsAsked, EnvGate, Filed, Progresses, Progress, Early
<1>6. Answers'
  BY HandshakeAssumption DEF TypeOK, Answers
<1>7. QED
  BY <1>1, <1>2, <1>3, <1>4, <1>5, <1>6

LEMMA CacheHitKeeps ==
  ASSUME HInv, NEW c \in Conn, CacheHit(c)
  PROVE  HInv'
<1> USE DEF HInv, CacheHit, Verified, Go, ownVars, roomVars
<1>0. token[c] \in Token
  BY DEF Progresses, Progress
<1>1. TypeOK'
  <2>1. <<"OK">> \in Seq(Words)
    BY DEF Words
  <2>2. said' \in [Conn -> Seq({"OK", "ERR", "room", "part"})]
    BY <2>1, SayType DEF Say
  <2>3. QED
    BY <1>0, <2>2 DEF TypeOK, Phases
<1>2. Progresses'
  <2>1. ASSUME NEW d \in Conn, d # c PROVE Progress(d)'
    <3>1. /\ phase'[d] = phase[d] /\ said'[d] = said[d] /\ acct'[d] = acct[d]
          /\ UNCHANGED <<token, join, at, room, shut>>
      BY <2>1 DEF TypeOK, Say
    <3>2. Progress(d)
      BY DEF Progresses
    <3>3. QED
      BY <3>1, <3>2 DEF Progress, Early
  <2>2. Progress(c)'
    <3>1. /\ phase[c] = "check" /\ phase'[c] = "version"
          /\ acct'[c] = cache[token[c]] /\ acct'[c] \in Account
          /\ UNCHANGED <<join, at, room, shut>>
      BY <1>0 DEF TypeOK
    <3>2. said'[c] = <<"OK">>
      BY Spoken, <3>1 DEF TypeOK, Progresses, Progress, Early, Say
    <3>3. /\ join[c] = None /\ at[c] = None /\ room[c] = None /\ shut[c] = {}
      BY <3>1 DEF Progresses, Progress, Early
    <3>4. QED
      BY <3>1, <3>2, <3>3 DEF Progress, Early
  <2>3. QED
    BY <2>1, <2>2 DEF Progresses
<1>3. OnlyVerified' /\ CacheTrue'
  BY HandshakeAssumption DEF TypeOK, OnlyVerified, CacheTrue, Progresses, Progress, Early
<1>4. Filed'
  BY HandshakeAssumption DEF TypeOK, Filed, Progresses, Progress, Early
<1>5. AdmittedAsAsked' /\ EnvGate'
  BY HandshakeAssumption DEF TypeOK, AdmittedAsAsked, EnvGate, Filed, Progresses, Progress, Early
<1>6. Answers'
  BY HandshakeAssumption DEF TypeOK, Answers, Say
<1>7. QED
  BY <1>1, <1>2, <1>3, <1>4, <1>5, <1>6

LEMMA HttpOkKeeps ==
  ASSUME HInv, NEW c \in Conn, HttpOk(c)
  PROVE  HInv'
<1> USE DEF HInv, Go, ownVars, roomVars
<1>b. /\ Go(c, "http", "version") /\ Say(c, <<"OK">>) /\ token[c] \in Genuine
      /\ acct' = [acct EXCEPT ![c] = AccountOf[token[c]]]
      /\ UNCHANGED <<token, version, join, at, roomVars, configured, here, shut>>
  BY DEF HttpOk, Verified
<1>0. token[c] \in Token /\ AccountOf[token[c]] \in Account
  BY <1>b, HandshakeAssumption DEF Progresses, Progress
<1>a. /\ cache' \in [Token -> Account \cup {None}]
      /\ \A t \in Token : \/ cache'[t] \in {cache[t], None}
                          \/ t = token[c] /\ cache'[t] = AccountOf[t]
  <2> DEFINE more == [cache EXCEPT ![token[c]] = AccountOf[token[c]]]
  <2>1. /\ more \in [Token -> Account \cup {None}]
        /\ \A t \in Token : more[t] = IF t = token[c] THEN AccountOf[t] ELSE cache[t]
    BY <1>0 DEF TypeOK
  <2>2. cache' = more \/ \E t \in Token : t # token[c] /\ cache' = [more EXCEPT ![t] = None]
    BY DEF HttpOk, Cached
  <2> HIDE DEF more
  <2>3. QED
    BY <2>1, <2>2
<1>1. TypeOK'
  <2>1. <<"OK">> \in Seq(Words)
    BY DEF Words
  <2>2. said' \in [Conn -> Seq({"OK", "ERR", "room", "part"})]
    BY <2>1, <1>b, SayType DEF Say
  <2>3. QED
    BY <1>0, <1>a, <1>b, <2>2 DEF TypeOK, Phases
<1>2. Progresses'
  BY Spoken, HandshakeAssumption, <1>0, <1>b DEF TypeOK, Progresses, Progress, Early, Say
<1>3. OnlyVerified' /\ CacheTrue'
  <2>1. OnlyVerified'
    BY <1>0, <1>b DEF TypeOK, OnlyVerified
  <2>2. CacheTrue'
    BY <1>a, <1>b DEF CacheTrue
  <2>3. QED
    BY <2>1, <2>2
<1>4. Filed'
  BY <1>b DEF Filed
<1>5. AdmittedAsAsked' /\ EnvGate'
  <2>1. UNCHANGED <<token, join, at, version, room>>
    BY <1>b
  <2>2. QED
    BY <2>1 DEF AdmittedAsAsked, EnvGate
<1>6. Answers'
  BY <1>b DEF TypeOK, Answers, Say
<1>7. QED
  BY <1>1, <1>2, <1>3, <1>4, <1>5, <1>6

\* Errors, and half of something, leave the room untold; the details tell it.
LEMMA UntoldMore ==
  ASSUME NEW s \in Seq(Words), Untold(s)
  PROVE  /\ s \o <<>> = s
         /\ \A w \in {"ERR", "part"} : Untold(s \o <<w>>)
         /\ ToldInside(s \o <<"room">>)
<1>1. ASSUME NEW w \in Words
      PROVE  /\ Len(s \o <<w>>) = Len(s) + 1 /\ Len(s) \in Nat
             /\ \A i \in 1..Len(s) : (s \o <<w>>)[i] = s[i]
             /\ (s \o <<w>>)[Len(s) + 1] = w
  BY DEF Words
<1>2. ASSUME NEW w \in {"ERR", "part"} PROVE Untold(s \o <<w>>)
  <2>1. w \in Words
    BY DEF Words
  <2> DEFINE t == s \o <<w>>
  <2>2. /\ Len(t) = Len(s) + 1 /\ Len(s) \in Nat /\ Len(s) >= 2
        /\ \A i \in 1..Len(s) : t[i] = s[i]
        /\ t[Len(s) + 1] = w
    BY <1>1, <2>1 DEF Untold, ToldInside
  <2> HIDE DEF t
  <2>3. QED
    BY <2>2 DEF Untold, ToldInside, t
<1>3. ToldInside(s \o <<"room">>)
  <2>1. "room" \in Words
    BY DEF Words
  <2> DEFINE t == s \o <<"room">>
  <2>2. /\ Len(t) = Len(s) + 1 /\ Len(s) \in Nat /\ Len(s) >= 2
        /\ \A i \in 1..Len(s) : t[i] = s[i]
        /\ t[Len(s) + 1] = "room"
    BY <1>1, <2>1 DEF Untold, ToldInside
  <2> HIDE DEF t
  <2>3. QED
    BY <2>2 DEF Untold, ToldInside, t
<1>4. QED
  BY <1>2, <1>3

LEMMA DetailsKeeps ==
  ASSUME HInv, NEW c \in Conn, Details(c)
  PROVE  HInv'
<1> USE DEF HInv, Details, Go, ownVars, roomVars
<1>0. said'[c] = said[c] \o <<"room">> /\ InsideAs(said'[c], shut[c])
  <2>1. said[c] \in Seq(Words) /\ Untold(said[c]) /\ (shut[c] = {} => said[c] = <<"OK", "OK">>)
    BY DEF TypeOK, Words, Progresses, Progress
  <2>2. said'[c] = said[c] \o <<"room">>
    BY DEF TypeOK, Say
  <2>3. QED
    BY <2>1, <2>2, UntoldMore, Spoken DEF InsideAs
<1>1. TypeOK'
  <2>1. <<"room">> \in Seq(Words)
    BY DEF Words
  <2>2. said' \in [Conn -> Seq({"OK", "ERR", "room", "part"})]
    BY <2>1, SayType DEF Say
  <2>3. QED
    BY <2>2 DEF TypeOK, Phases
<1>2. Progresses'
  BY <1>0, HandshakeAssumption DEF TypeOK, Progresses, Progress, Early, Say
<1>3. OnlyVerified' /\ CacheTrue'
  BY HandshakeAssumption DEF TypeOK, OnlyVerified, CacheTrue, Progresses, Progress, Early
<1>4. Filed'
  BY HandshakeAssumption DEF TypeOK, Filed, Progresses, Progress, Early
<1>5. AdmittedAsAsked' /\ EnvGate'
  BY HandshakeAssumption DEF TypeOK, AdmittedAsAsked, EnvGate, Filed, Progresses, Progress, Early
<1>6. Answers'
  BY HandshakeAssumption DEF TypeOK, Answers, Say
<1>7. QED
  BY <1>1, <1>2, <1>3, <1>4, <1>5, <1>6

LEMMA DetailsCutKeeps ==
  ASSUME HInv, NEW c \in Conn, DetailsCut(c)
  PROVE  HInv'
<1> USE DEF HInv, Go, ownVars, roomVars
<1>a. /\ shut[c] # {} /\ Go(c, "details", "ended")
      /\ UNCHANGED <<token, acct, version, join, at, roomVars, cache, configured, here, shut>>
  BY DEF DetailsCut
<1>b. PICK answer \in {<<>>, <<"part">>} : Say(c, answer)
  BY DEF DetailsCut
<1>0. Untold(said'[c]) /\ \A d \in Conn : d # c => said'[d] = said[d]
  <2>1. said[c] \in Seq(Words) /\ Untold(said[c])
    BY <1>a DEF TypeOK, Words, Progresses, Progress
  <2>2. said'[c] = said[c] \o answer /\ \A d \in Conn : d # c => said'[d] = said[d]
    BY <1>b DEF TypeOK, Say
  <2>3. QED
    BY <1>b, <2>1, <2>2, UntoldMore
<1>1. TypeOK'
  <2>1. <<>> \in Seq(Words) /\ <<"part">> \in Seq(Words)
    BY DEF Words
  <2>2. said' \in [Conn -> Seq({"OK", "ERR", "room", "part"})]
    BY <1>b, <2>1, SayType
  <2>3. QED
    BY <1>a, <2>2 DEF TypeOK, Phases
<1>2. Progresses'
  BY <1>0, <1>a, HandshakeAssumption DEF TypeOK, Progresses, Progress, Early
<1>3. OnlyVerified' /\ CacheTrue'
  BY <1>a DEF OnlyVerified, CacheTrue
<1>4. Filed'
  BY <1>a DEF Filed
<1>5. AdmittedAsAsked' /\ EnvGate'
  BY <1>a DEF AdmittedAsAsked, EnvGate
<1>6. Answers'
  BY <1>0, <1>a DEF TypeOK, Answers
<1>7. QED
  BY <1>1, <1>2, <1>3, <1>4, <1>5, <1>6

LEMMA ShutDownKeeps ==
  ASSUME HInv, NEW c \in Conn, NEW by \in Conn, ShutDown(c, by)
  PROVE  HInv'
<1> USE DEF HInv, ownVars, roomVars
<1>a. /\ phase[c] \in {"details", "ended"}
      /\ shut' = [shut EXCEPT ![c] = @ \cup {by}]
      /\ UNCHANGED <<phase, token, acct, version, join, at, roomVars, cache, configured, here>>
  BY DEF ShutDown
<1>b. PICK answer \in {<<>>, <<"ERR">>} : Say(c, answer)
  BY DEF ShutDown
<1>0. Untold(said'[c]) /\ \A d \in Conn : d # c => said'[d] = said[d]
  <2>1. said[c] \in Seq(Words) /\ Untold(said[c])
    BY <1>a DEF TypeOK, Words, Progresses, Progress
  <2>2. said'[c] = said[c] \o answer /\ \A d \in Conn : d # c => said'[d] = said[d]
    BY <1>b DEF TypeOK, Say
  <2>3. QED
    BY <1>b, <2>1, <2>2, UntoldMore
<1>c. /\ shut' \in [Conn -> SUBSET Conn] /\ shut'[c] # {}
      /\ \A d \in Conn : d # c => shut'[d] = shut[d]
  BY <1>a DEF TypeOK
<1>1. TypeOK'
  <2>1. <<>> \in Seq(Words) /\ <<"ERR">> \in Seq(Words)
    BY DEF Words
  <2>2. said' \in [Conn -> Seq({"OK", "ERR", "room", "part"})]
    BY <1>b, <2>1, SayType
  <2>3. QED
    BY <1>a, <1>c, <2>2 DEF TypeOK
<1>2. Progresses'
  <2>1. ASSUME NEW d \in Conn PROVE Progress(d)'
    <3>1. Progress(d)
      BY DEF Progresses
    <3>2. CASE d = c
      BY <3>1, <3>2, <1>0, <1>a, <1>c DEF Progress, Early
    <3>3. CASE d # c
      BY <3>1, <3>3, <1>0, <1>a, <1>c DEF Progress
    <3>4. QED
      BY <3>2, <3>3
  <2>2. QED
    BY <2>1 DEF Progresses
<1>3. OnlyVerified' /\ CacheTrue'
  BY <1>a DEF OnlyVerified, CacheTrue
<1>4. Filed'
  BY <1>a DEF Filed
<1>5. AdmittedAsAsked' /\ EnvGate'
  BY <1>a DEF AdmittedAsAsked, EnvGate
<1>6. Answers'
  BY <1>0, <1>a, <1>c DEF TypeOK, Answers
<1>7. QED
  BY <1>1, <1>2, <1>3, <1>4, <1>5, <1>6

LEMMA CreateKeeps ==
  ASSUME HInv, NEW c \in Conn, NEW id \in Drawn, NEW pw \in Password, NEW env \in Env,
         Create(c, id, pw, env)
  PROVE  HInv'
<1> USE DEF HInv, Create, Go, ownVars, roomVars
<1> DEFINE r == [id |-> id, pw |-> pw, env |-> env, owner |-> acct[c]]
<1>0. r \in RoomDeets /\ r # None
  BY HandshakeAssumption DEF RoomDeets, Progresses, Progress, Early
<1>a. /\ room' \in [Conn -> RoomDeets \cup {None}]
      /\ room[c] = None /\ room'[c] = r /\ \A d \in Conn \ {c} : room'[d] = room[d]
  BY <1>0 DEF TypeOK, Progresses, Progress, Early
<1> HIDE DEF r
<1>1. TypeOK'
  <2>1. <<"OK">> \in Seq(Words)
    BY DEF Words
  <2>2. said' \in [Conn -> Seq({"OK", "ERR", "room", "part"})]
    BY <2>1, SayType DEF Say
  <2>3. QED
    BY <1>a, <2>2 DEF TypeOK, Phases
<1>2. Progresses'
  <2>1. ASSUME NEW d \in Conn PROVE Progress(d)'
    <3>1. Progress(d)
      BY DEF Progresses
    <3>2. CASE d = c
      <4>1. /\ phase'[c] = "details" /\ at'[c] # None /\ acct'[c] \in Account
            /\ shut'[c] = {}
        BY <3>1, <3>2, HandshakeAssumption DEF TypeOK, Progress, Early
      <4>2. said'[c] = <<"OK", "OK">>
        BY <3>1, <3>2, Spoken DEF TypeOK, Progress, Say
      <4>3. QED
        BY <3>2, <4>1, <4>2, UntoldFirst DEF Progress, Early
    <3>3. CASE d # c
      <4>1. /\ phase'[d] = phase[d] /\ said'[d] = said[d] /\ at'[d] = at[d]
            /\ room'[d] = room[d] /\ UNCHANGED <<acct, token, join, shut>>
        BY <3>3, <1>a DEF TypeOK, Say
      <4>2. QED
        BY <3>1, <4>1 DEF Progress
    <3>4. QED
      BY <3>2, <3>3
  <2>2. QED
    BY <2>1 DEF Progresses
<1>3. OnlyVerified' /\ CacheTrue'
  BY HandshakeAssumption DEF TypeOK, OnlyVerified, CacheTrue, Progresses, Progress, Early
<1>4. Filed'
  <2>1. ASSUME NEW i \in Drawn, rooms'[i] # None
        PROVE  (room[rooms[i]] # None /\ room[rooms[i]].id = i)'
    BY <1>a, <2>1 DEF TypeOK, Filed
  <2>2. ASSUME NEW d \in pending' PROVE room'[d] # None
    BY <1>0, <1>a, <2>2 DEF TypeOK, Filed
  <2>3. ASSUME NEW d \in Conn, at'[d] # None PROVE (room[at[d]] # None)'
    BY <1>0, <1>a, <2>3 DEF TypeOK, Filed
  <2>4. QED
    BY <2>1, <2>2, <2>3 DEF Filed
<1>5. AdmittedAsAsked' /\ EnvGate'
  BY <1>a, HandshakeAssumption DEF TypeOK, AdmittedAsAsked, EnvGate, Filed, Progresses, Progress, Early
<1>6. Answers'
  BY HandshakeAssumption DEF TypeOK, Answers, Say
<1>7. QED
  BY <1>1, <1>2, <1>3, <1>4, <1>5, <1>6

LEMMA AskJoinKeeps ==
  ASSUME HInv, NEW c \in Conn, NEW text \in Typed, NEW pw \in Password, AskJoin(c, text, pw)
  PROVE  HInv'
<1> USE DEF HInv, Go, ownVars, roomVars
<1> DEFINE j == [text |-> text, pw |-> pw]
<1>0. j \in JoinDeets /\ j # None
  BY HandshakeAssumption DEF JoinDeets
<1>a. /\ Go(c, "ask", "find") /\ Say(c, <<"OK">>)
      /\ join' = [join EXCEPT ![c] = j]
      /\ UNCHANGED <<token, acct, version, at, roomVars, cache, configured, here, shut>>
  BY DEF AskJoin
<1> HIDE DEF j
<1>1. TypeOK'
  <2>1. <<"OK">> \in Seq(Words)
    BY DEF Words
  <2>2. said' \in [Conn -> Seq({"OK", "ERR", "room", "part"})]
    BY <2>1, <1>a, SayType DEF Say
  <2>3. QED
    BY <1>0, <1>a, <2>2 DEF TypeOK, Phases
<1>2. Progresses'
  BY Spoken, HandshakeAssumption, <1>0, <1>a DEF TypeOK, Progresses, Progress, Early, Say
<1>3. OnlyVerified' /\ CacheTrue'
  BY <1>a DEF OnlyVerified, CacheTrue
<1>4. Filed'
  BY <1>a DEF Filed
<1>5. AdmittedAsAsked' /\ EnvGate'
  BY <1>a, HandshakeAssumption DEF TypeOK, AdmittedAsAsked, EnvGate, Filed, Progresses, Progress, Early
<1>6. Answers'
  BY <1>a DEF TypeOK, Answers, Say
<1>7. QED
  BY <1>1, <1>2, <1>3, <1>4, <1>5, <1>6

\* The one step that lets somebody in: the map's entry is the room of that id,
\* and the id is written as typed (StrThenId).
LEMMA AdmitKeeps ==
  ASSUME HInv, NEW c \in Conn, Admit(c)
  PROVE  HInv'
<1> USE DEF HInv, Admit, Go, ownVars, roomVars
<1>0. /\ Found(c) \in Conn /\ room[Found(c)] # None
      /\ RoomIdToStr(room[Found(c)].id) = join[c].text
  <2>1. join[c] # None /\ join[c].text \in Seq(Nat)
    BY HandshakeAssumption DEF TypeOK, JoinDeets, Progresses, Progress
  <2>2. /\ IsRoomIdStr(join[c].text) /\ StrToRoomId(join[c].text) \in Drawn
        /\ Found(c) = rooms[StrToRoomId(join[c].text)]
    BY DEF Found
  <2>3. RoomIdToStr(StrToRoomId(join[c].text)) = join[c].text
    BY <2>1, <2>2, StrThenId
  <2>4. QED
    BY <2>2, <2>3 DEF TypeOK, Filed
<1>a. /\ at' \in [Conn -> Conn \cup {None}] /\ at'[c] = Found(c)
      /\ \A d \in Conn \ {c} : at'[d] = at[d]
  BY <1>0 DEF TypeOK
<1>b. acct[c] = Xertrov => token[c] \in Genuine /\ AccountOf[token[c]] = Xertrov
  BY HandshakeAssumption DEF OnlyVerified, Progresses, Progress, Early
<1>1. TypeOK'
  BY <1>a DEF TypeOK, Phases
<1>2. Progresses'
  BY <1>0, <1>a, HandshakeAssumption DEF TypeOK, Progresses, Progress, Early
<1>3. OnlyVerified' /\ CacheTrue'
  BY HandshakeAssumption DEF TypeOK, OnlyVerified, CacheTrue, Progresses, Progress, Early
<1>4. Filed'
  BY <1>0, <1>a DEF TypeOK, Filed
<1>5. AdmittedAsAsked' /\ EnvGate'
  <2>1. ASSUME NEW d \in Conn, (at[d] # None /\ join[d] # None)'
        PROVE  (LET r == room[at[d]]
                IN  /\ r # None
                    /\ RoomIdToStr(r.id) = join[d].text
                    /\ \/ r.pw \in {NoPassword, join[d].pw}
                       \/ token[d] \in Genuine /\ AccountOf[token[d]] = Xertrov)'
    <3>1. CASE d = c
      BY <3>1, <1>0, <1>a, <1>b DEF MayEnter
    <3>2. CASE d # c
      BY <3>2, <2>1, <1>a DEF AdmittedAsAsked
    <3>3. QED
      BY <3>1, <3>2
  <2>2. ASSUME NEW d \in Conn, (at[d] # None /\ join[d] # None /\ room[at[d]].env # 0)'
        PROVE  version'[d] = 6
    <3>1. CASE d = c
      <4>1. room[Found(c)].env # 0
        BY <3>1, <2>2, <1>a
      <4>2. version[c] >= 6 /\ version[c] \in {0, 5, 6}
        BY <4>1 DEF MayEnter, TypeOK
      <4>3. QED
        BY <3>1, <4>2
    <3>2. CASE d # c
      BY <3>2, <2>2, <1>a DEF EnvGate
    <3>3. QED
      BY <3>1, <3>2
  <2>3. QED
    BY <2>1, <2>2 DEF AdmittedAsAsked, EnvGate
<1>6. Answers'
  BY HandshakeAssumption DEF TypeOK, Answers
<1>7. QED
  BY <1>1, <1>2, <1>3, <1>4, <1>5, <1>6

LEMMA InsertKeeps ==
  ASSUME HInv, NEW c \in Conn, Insert(c)
  PROVE  HInv'
<1> USE DEF HInv, Insert, ownVars, roomVars
<1>1. TypeOK'
  BY HandshakeAssumption DEF TypeOK, Phases
<1>2. Progresses'
  BY HandshakeAssumption DEF TypeOK, Progresses, Progress, Early
<1>3. OnlyVerified' /\ CacheTrue'
  BY HandshakeAssumption DEF TypeOK, OnlyVerified, CacheTrue, Progresses, Progress, Early
<1>4. Filed'
  BY HandshakeAssumption DEF TypeOK, Filed, Progresses, Progress, Early
<1>5. AdmittedAsAsked' /\ EnvGate'
  BY HandshakeAssumption DEF TypeOK, AdmittedAsAsked, EnvGate, Filed, Progresses, Progress, Early
<1>6. Answers'
  BY HandshakeAssumption DEF TypeOK, Answers
<1>7. QED
  BY <1>1, <1>2, <1>3, <1>4, <1>5, <1>6

LEMMA HangupKeeps ==
  ASSUME HInv, NEW c \in Conn, Hangup(c)
  PROVE  HInv'
<1> USE DEF HInv, Hangup, ownVars, roomVars
<1>1. TypeOK'
  BY HandshakeAssumption DEF TypeOK, Phases
<1>2. Progresses'
  BY HandshakeAssumption DEF TypeOK, Progresses, Progress, Early
<1>3. OnlyVerified' /\ CacheTrue'
  BY HandshakeAssumption DEF TypeOK, OnlyVerified, CacheTrue, Progresses, Progress, Early
<1>4. Filed'
  BY HandshakeAssumption DEF TypeOK, Filed, Progresses, Progress, Early
<1>5. AdmittedAsAsked' /\ EnvGate'
  BY HandshakeAssumption DEF TypeOK, AdmittedAsAsked, EnvGate, Filed, Progresses, Progress, Early
<1>6. Answers'
  BY HandshakeAssumption DEF TypeOK, Answers
<1>7. QED
  BY <1>1, <1>2, <1>3, <1>4, <1>5, <1>6

LEMMA RemoveKeeps ==
  ASSUME HInv, NEW id \in Drawn, Remove(id)
  PROVE  HInv'
<1> USE DEF HInv, Remove, ownVars, roomVars
<1>1. TypeOK'
  BY HandshakeAssumption DEF TypeOK, Phases
<1>2. Progresses'
  BY HandshakeAssumption DEF TypeOK, Progresses, Progress, Early
<1>3. OnlyVerified' /\ CacheTrue'
  BY HandshakeAssumption DEF TypeOK, OnlyVerified, CacheTrue, Progresses, Progress, Early
<1>4. Filed'
  BY HandshakeAssumption DEF TypeOK, Filed, Progresses, Progress, Early
<1>5. AdmittedAsAsked' /\ EnvGate'
  BY HandshakeAssumption DEF TypeOK, AdmittedAsAsked, EnvGate, Filed, Progresses, Progress, Early
<1>6. Answers'
  BY HandshakeAssumption DEF TypeOK, Answers
<1>7. QED
  BY <1>1, <1>2, <1>3, <1>4, <1>5, <1>6

-----------------------------------------------------------------------------
(* The theorems.                                                           *)

LEMMA HNext == HInv /\ [Next]_hsVars => HInv'
<1> SUFFICES ASSUME HInv, [Next]_hsVars PROVE HInv'
  OBVIOUS
<1>1. ASSUME NEW c \in Conn, ServerStep(c) PROVE HInv'
  BY <1>1, EndKeeps, AcceptKeeps, CacheHitKeeps, CacheMissKeeps, HttpOkKeeps, AdmitKeeps,
     EnterKeeps, DetailsKeeps, DetailsCutKeeps DEF ServerStep
<1>2. ASSUME NEW c \in Conn, ClientStep(c) PROVE HInv'
  BY <1>2, EndKeeps, ReadTokenKeeps, ReadVersionKeeps, CreateKeeps, AskJoinKeeps DEF ClientStep
<1>3. ASSUME NEW c \in Conn, \/ Leave(c) \/ Insert(c) \/ Hangup(c)
                              \/ \E d \in Conn : ShutDown(c, d)
      PROVE  HInv'
  BY <1>3, EndKeeps, InsertKeeps, HangupKeeps, ShutDownKeeps
<1>4. ASSUME NEW id \in Drawn, Remove(id) PROVE HInv'
  BY <1>4, RemoveKeeps
<1>5. CASE UNCHANGED hsVars
  BY <1>5 DEF hsVars, ownVars, roomVars, HInv, TypeOK, Progresses, Progress, OnlyVerified,
     CacheTrue, Filed, AdmittedAsAsked, EnvGate, Answers
<1>6. QED
  BY <1>1, <1>2, <1>3, <1>4, <1>5 DEF Next

LEMMA HAlways == Spec => []HInv
<1>1. QED
  BY HInit, HNext, PTL DEF Spec

\* The handshake keeps its variables in their types.
THEOREM HandshakeTypeOK == Spec => []TypeOK
<1>1. HInv => TypeOK
  BY DEF HInv
<1>2. QED
  BY <1>1, HAlways, PTL

\* No connection ever has an account that the token service did not vouch for
\* (check_token and its shared cache).
THEOREM OnlyVerifiedAlways == Spec => []OnlyVerified
<1>1. HInv => OnlyVerified
  BY DEF HInv
<1>2. QED
  BY <1>1, HAlways, PTL

\* Whoever joins is in a room of the id typed, with its password, whatever the
\* map of rooms has gone through (manage_room).
THEOREM AdmittedAsAskedAlways == Spec => []AdmittedAsAsked
<1>1. HInv => AdmittedAsAsked
  BY DEF HInv
<1>2. QED
  BY <1>1, HAlways, PTL

\* No joiner of protocol 5 is in a room of an extra map environment
\* (manage_room's env gate).
THEOREM EnvGateAlways == Spec => []EnvGate
<1>1. HInv => EnvGate
  BY DEF HInv
<1>2. QED
  BY <1>1, HAlways, PTL

\* A client still connected when its task ends has had its answers, in order
\* (initialize_connection and manage_room, on every path).
THEOREM AnswersAlways == Spec => []Answers
<1>1. HInv => Answers
  BY DEF HInv
<1>2. QED
  BY <1>1, HAlways, PTL

=============================================================================
