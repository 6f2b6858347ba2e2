-------------------------- MODULE MCActorEnrichment --------------------------
(***************************************************************************)
(* The instance of ActorEnrichment for TLC: two doors behind one UAH       *)
(* device, and two people.                                                 *)
(***************************************************************************)
EXTENDS ActorEnrichment

CONSTANTS d1, d2, a1, a2, hub, t1

MCConfigIndex == [d \in Doors |-> IF d = d1 THEN 1 ELSE 2]
SharedDevice  == [d \in Doors |-> hub]
MCThreshold   == [d \in Doors |-> 0]
=============================================================================
