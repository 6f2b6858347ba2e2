--------------------------- MODULE MCWatcherSystem ---------------------------
(***************************************************************************)
(* The instance of WatcherSystem for TLC.  Nobody is named: who unlocks is *)
(* the matter of ActorEnrichment.                                          *)
(***************************************************************************)
EXTENDS WatcherSystem

CONSTANTS d1, uah, t1

MCDeviceOf    == [d \in Doors |-> uah]
MCConfigIndex == [d \in Doors |-> 1]
MCGrace       == [d \in Doors |-> 1]
MCHeldOpen    == [d \in Doors |-> 1]

\* FairSystemSpec from fewer initial states: the door is open, scheduled or evacuated, or
\* nothing of that; the rest is up to the changes.
MCInit ==
    /\ SystemInit
    /\ real.position = "open" => ~real.schedule /\ ~real.evacuation
    /\ ~(real.schedule /\ real.evacuation)

MCSpec == MCInit /\ [][SystemNext]_<<vars, systemVars>> /\ SystemFairness
=============================================================================
