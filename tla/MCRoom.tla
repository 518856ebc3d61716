------------------------------- MODULE MCRoom -------------------------------
(* Instances of Room for TLC.                                              *)
EXTENDS Room

CONSTANTS c1, c2, c3, A, B, C

\* The creator and one other account.
TwoConns == {c1, c2}
TwoAcct == (c1 :> A) @@ (c2 :> B)

\* The creator, and an account that connects twice.
ThreeConns == {c1, c2, c3}
ReAcct == (c1 :> A) @@ (c2 :> B) @@ (c3 :> B)

\* Three accounts.
ApartAcct == (c1 :> A) @@ (c2 :> B) @@ (c3 :> C)

\* How many actions each connection sends.
NoneSent == [c \in Conn |-> 0]
CreatorSends1 == [c \in Conn |-> IF c = c1 THEN 1 ELSE 0]
CreatorSends2 == [c \in Conn |-> IF c = c1 THEN 2 ELSE 0]
GuestSends1 == [c \in Conn |-> IF c = c2 THEN 1 ELSE 0]
GuestSends2 == [c \in Conn |-> IF c = c2 THEN 2 ELSE 0]
GuestSendsToo == [c \in Conn |-> IF c \in {c1, c2} THEN 1 ELSE 0]

\* The guest's second act is fatal to whoever has it written.
GuestGrown == {<<c2, 2>>}

=============================================================================
