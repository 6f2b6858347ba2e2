---------------------------- MODULE AlertContract ----------------------------
(***************************************************************************)
(* What unifi-door-watcher promises about its alerts, without timers,      *)
(* unlocks or sources: an alert concerns a door whose sensor says open and *)
(* which nothing has unlocked on purpose, and of each opening, however the *)
(* events come, each kind of alert is raised at most once.                 *)
(***************************************************************************)
CONSTANTS Doors

Kinds == {"unauthorized", "held_open"}

VARIABLES
    position,   \* what is known of each door: "open", "close", "unknown"
    quiet,      \* the doors whose alerts are suppressed
    told,       \* told[d]: the kinds of alert raised for the opening in course
    alerts      \* <<door, kind>> of the alerts raised by the latest step

vars == <<position, quiet, told, alerts>>

Init ==
    /\ position = [d \in Doors |-> "unknown"]
    /\ quiet = {}
    /\ told = [d \in Doors |-> {}]
    /\ alerts = {}

\* The controller is asked, before any alert was raised for the door, where it
\* stands and whether it is unlocked on purpose.
Learn(d) ==
    /\ told[d] = {}
    /\ position' \in {[position EXCEPT ![d] = p] : p \in {position[d], "open", "close"}}
    /\ quiet' \in {quiet \cup {d}, quiet \ {d}}
    /\ alerts' = {}
    /\ UNCHANGED told

\* The sensor says open; if the opening is not authorized, it is reported.
Open(d) ==
    /\ position' = [position EXCEPT ![d] = "open"]
    /\ \/ alerts' = {} /\ UNCHANGED told
       \/ /\ d \notin quiet
          /\ "unauthorized" \notin told[d]
          /\ told' = [told EXCEPT ![d] = @ \cup {"unauthorized"}]
          /\ alerts' = {<<d, "unauthorized">>}
    /\ UNCHANGED quiet

\* The sensor says close: the opening is over.
Close(d) ==
    /\ position' = [position EXCEPT ![d] = "close"]
    /\ told' = [told EXCEPT ![d] = {}]
    /\ alerts' = {}
    /\ UNCHANGED quiet

\* The door has been open for too long.
ReportHeldOpen(d) ==
    /\ position[d] = "open"
    /\ d \notin quiet
    /\ "held_open" \notin told[d]
    /\ told' = [told EXCEPT ![d] = @ \cup {"held_open"}]
    /\ alerts' = {<<d, "held_open">>}
    /\ UNCHANGED <<position, quiet>>

\* Doors are unlocked on purpose, or no longer are, or nothing that matters here
\* has happened.  It never raises an alert by itself.
Suppress ==
    /\ quiet' \in SUBSET Doors
    /\ alerts' = {}
    /\ UNCHANGED <<position, told>>

Next ==
    \/ \E d \in Doors : Learn(d) \/ Open(d) \/ Close(d) \/ ReportHeldOpen(d)
    \/ Suppress

Spec == Init /\ [][Next]_vars
=============================================================================
