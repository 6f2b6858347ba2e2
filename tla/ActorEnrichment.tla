--------------------------- MODULE ActorEnrichment ---------------------------
(***************************************************************************)
(* Who unlocked a door, and who the watcher says did.  An unlock event may *)
(* or may not name the person; the audit log of the UAH device names them  *)
(* a little later, and DetectionPipeline has to find the unlock it is      *)
(* about with nothing but the device and a window of time.                 *)
(***************************************************************************)
EXTENDS DetectionPipeline

CONSTANT LogDelay \* how long an audit log takes to arrive at most

ASSUME DelayAssumption == LogDelay \in Nat

VARIABLES
    who,   \* who[d]: the person who did the last unlock of d that was heard of
    mixed, \* mixed[d]: whether another person's unlock of its device came close to it
    logs   \* audit logs on their way

enrichVars == <<who, mixed, logs>>

Logs == [device : Devices, actor : Actors, age : 0 .. LogDelay]

\* The type of every variable.
EnrichmentTypeOK ==
    /\ TypeOK
    /\ who \in [Doors -> Persons]
    /\ mixed \in [Doors -> BOOLEAN]
    /\ logs \subseteq Logs

EnrichmentInit ==
    /\ Init
    /\ who = [d \in Doors |-> None]
    /\ mixed = [d \in Doors |-> FALSE]
    /\ logs = {}

\* The handler of an unlock of d of which the event tells told.
UnlockHandler(d, kind, told) ==
    CASE kind = "door"      -> OnUnlockEvent(d, "granted", told)
      [] kind = "remote"    -> OnRemoteUnlock(d, told, DeviceOf[d])
      [] kind = "temporary" -> OnTemporaryStart(d, told)

\* a unlocks d.  The event may name nobody, and the log may never come.
UnlockBy(d, a, kind, told) ==
    /\ told \in {a, None}
    /\ UnlockHandler(d, kind, told)
    /\ who' = [who EXCEPT ![d] = a]
    /\ logs' \in {logs, logs \cup {[device |-> DeviceOf[d], actor |-> a, age |-> 0]}}
    /\ mixed' = [e \in Doors |->
                    IF e = d THEN \E l \in logs : l.device = DeviceOf[d] /\ l.actor # a
                    ELSE \/ mixed[e]
                         \/ /\ DeviceOf[e] = DeviceOf[d]
                            /\ who[e] # a
                            /\ last_unlock_age[e] # None
                            /\ last_unlock_age[e] <= LogWindow]

\* The log is dropped: no recent unlock has its device, or the first one is named.
Unmatched(device) ==
    \A d \in RecentUnlocks(device) :
        \/ last_unlock_actor[d] # None
        \/ \E e \in RecentUnlocks(device) : ConfigIndex[e] < ConfigIndex[d]

\* The logs arrive in any order.
LogArrives(l) ==
    /\ logs' = logs \ {l}
    /\ \/ OnAccessLog(l.device, l.actor)
       \/ Unmatched(l.device) /\ UNCHANGED vars
    /\ UNCHANGED <<who, mixed>>

\* Time passes; no log takes longer than LogDelay.
Pass ==
    /\ Tick
    /\ \A l \in logs : l.age < LogDelay
    /\ logs' = {[l EXCEPT !.age = @ + 1] : l \in logs}
    /\ UNCHANGED <<who, mixed>>

EnrichmentNext ==
    \/ StartStream /\ UNCHANGED enrichVars
    \/ \E d \in Doors, a \in Actors, kind \in {"door", "remote", "temporary"}, told \in Persons :
            UnlockBy(d, a, kind, told)
    \/ \E l \in logs : LogArrives(l)
    \/ Pass

EnrichmentSpec == EnrichmentInit /\ [][EnrichmentNext]_<<vars, enrichVars>>

\* The person named for the last unlock of a door is the one who did it, whatever order
\* the logs arrive in and whoever unlocked the door before; unless somebody else used
\* the same device so shortly before that the log was still on its way, or within the
\* window of the attribution after.
NamesAreRight ==
    \A d \in Doors : ~mixed[d] => last_unlock_actor[d] \in {who[d], None}
=============================================================================
