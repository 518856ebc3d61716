---------------------------- MODULE MCHandshake ----------------------------
(* Instances of Handshake for TLC: ids of six binary digits.               *)
EXTENDS Handshake

CONSTANTS c1, c2, ann, xertrov

\* The token of an account that the service does not vouch for is forged.
MCAccountOf == [t \in Token |-> IF t \in {"ann", "forged ann"} THEN ann ELSE xertrov]

\* The id 1, too few characters, and one outside of the alphabet.
MCTyped == {<<1, 0, 0, 0, 0, 0>>, <<1, 0>>, <<1, 0, 0, 0, 0, 2>>}

=============================================================================
