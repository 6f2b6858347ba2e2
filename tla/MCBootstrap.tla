----------------------------- MODULE MCBootstrap -----------------------------
(***************************************************************************)
(* Instances of Bootstrap for TLC: two doors, Access knows both by the     *)
(* name n1, and an operator may write a grace period that is refused.      *)
(***************************************************************************)
EXTENDS Bootstrap

CONSTANTS d1, d2, n1, n2

MCUnifiName   == [d \in Doors |-> n1]
MCConfigIndex == [d \in Doors |-> IF d = d1 THEN 1 ELSE 2]
MCGraces      == {-1}
=============================================================================
