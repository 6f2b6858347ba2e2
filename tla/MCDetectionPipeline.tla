------------------------ MODULE MCDetectionPipeline ------------------------
(***************************************************************************)
(* Instances of DetectionPipeline for TLC.  The one-door instance runs the *)
(* whole of Next, with a grace period and a held-open delay that differ    *)
(* and ages that go past both.  With two doors the product is too large,   *)
(* so WatchdogNext, a part of Next, serves what crosses doors: seeding of  *)
(* one door while another is timed, evacuations that sweep both, watchdogs *)
(* of both.  A UAH device that controls two doors is in ActorEnrichment.   *)
(***************************************************************************)
EXTENDS DetectionPipeline, TLC

CONSTANTS d1, d2, a1, a2, hub

OneDoorGrace       == [d \in Doors |-> 1]
OneDoorHeldOpen    == [d \in Doors |-> 2]
TwoDoorGrace       == [d \in Doors |-> 0]
TwoDoorHeldOpen    == [d \in Doors |-> IF d = d1 THEN 1 ELSE 0]
MCConfigIndex      == [d \in Doors |-> IF d = d1 THEN 1 ELSE 2]
SharedDevice       == [d \in Doors |-> hub]

WatchdogNext ==
    \/ \E d \in Doors, status \in {"open", "close"} :
            SeedDoor(d, status, "lock", None)
    \/ StartStream
    \/ \E d \in Doors : OnUnlockEvent(d, "granted", None)
    \/ Moving
    \/ \E d \in Doors : OnScheduleActivate(d) \/ OnScheduleDeactivate(d)
    \/ \E mode \in {"evacuation", "normal"} : OnEmergency(mode)
    \/ \E d \in Doors : Wake(d)
    \/ Tick

WatchdogSpec == Init /\ [][WatchdogNext]_vars
=============================================================================
