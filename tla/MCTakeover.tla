----------------------------- MODULE MCTakeover -----------------------------
(* Instances of Takeover for TLC: two clients, two native browsers and a   *)
(* remote one.                                                             *)
EXTENDS Takeover

CONSTANTS c1, c2, b1, b2, b3

MCKind == [b \in Browsers |-> IF b = b3 THEN "remote" ELSE "native"]
=============================================================================
