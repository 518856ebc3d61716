------------------------------- MODULE RoomId -------------------------------
(***************************************************************************)
(* Room ids: a number below Base^6 for the server, six characters of the   *)
(* alphabet, least significant first, for the players.  A character is its *)
(* position in the alphabet; other characters are numbers from Base on.    *)
(***************************************************************************)
EXTENDS Integers, Sequences

CONSTANT Base   \* characters of the alphabet (62)

ASSUME BaseAssumption == Base \in Nat \ {0}

\* The ids generate_room_id draws from: "62 ^ 6".
RoomIds == 0..(Base * (Base * (Base * (Base * (Base * Base)))) - 1)

Digits == 0..(Base - 1)

\* Slip: five turns of the loop.
RoomIdToStrShort(id) ==
  LET q1 == id \div Base  q2 == q1 \div Base  q3 == q2 \div Base  q4 == q3 \div Base
  IN  <<id % Base, q1 % Base, q2 % Base, q3 % Base, q4 % Base, 0>>

\* room_id_to_str: the six turns of its loop.
RoomIdToStr(id) ==
  LET q1 == id \div Base  q2 == q1 \div Base  q3 == q2 \div Base
      q4 == q3 \div Base  q5 == q4 \div Base
  IN  <<id % Base, q1 % Base, q2 % Base, q3 % Base, q4 % Base, q5 % Base>>

\* str_to_room_id: exactly six characters, all of the alphabet ...
IsRoomIdStr(s) == Len(s) = 6 /\ \A i \in 1..6 : s[i] \in Digits

\* ... and what they stand for.
StrToRoomId(s) ==
  s[1] + Base * (s[2] + Base * (s[3] + Base * (s[4] + Base * (s[5] + Base * s[6]))))

=============================================================================
