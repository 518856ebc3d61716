------------------------------ MODULE MCLobby ------------------------------
(* Instances of IdleWaiter for TLC.                                        *)
EXTENDS IdleWaiter

CONSTANTS c1, c2, r1, r2

=============================================================================
