---------------------------- MODULE MCEventStream ----------------------------
(***************************************************************************)
(* Instances of EventStream for TLC.  In the first, two unlocks share the  *)
(* id _event_id makes up for them, and the log entry of the one without a  *)
(* date cannot be converted; the frame of a third raises.  ReplaySpec and  *)
(* GapSpec leave out what is not needed for the two disagreements they     *)
(* show, so that nothing else can cause them.                              *)
(***************************************************************************)
EXTENDS EventStream

CONSTANTS unlock, unlock2, remote, id1, id2

EventIds  == [e \in Events |-> IF e = remote THEN id2 ELSE id1]
TwoDelays == <<1, 2>>
OneDelay  == <<1>>

\* No repetitions: an event that is handled twice was delivered live and replayed.
Surroundings ==
    \/ \E e \in Events : Happen(e)
    \/ \E how \in {"closed", "dead"} : Break(how)
    \/ Tick

ReplaySpec == Init /\ [][Task \/ Surroundings]_vars

\* No failures of the poll or of the connection either.
GapNext ==
    \/ BackoffOver \/ Reconcile \/ Connect \/ Receive \/ ConnectionClosed
    \/ Surroundings

GapSpec == Init /\ [][GapNext]_vars
=============================================================================
