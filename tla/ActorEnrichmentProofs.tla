------------------------ MODULE ActorEnrichmentProofs ------------------------
(***************************************************************************)
(* Proofs about ActorEnrichment, for any doors, devices, people, window    *)
(* and delay of the logs: the person named for an unlock is the right one  *)
(* or nobody, and what people and logs do is all within DetectionPipeline. *)
(*                                                                         *)
(* What makes the names right is LogsAreOfTheirUnlock: of a recent unlock  *)
(* that is not mixed, the logs on their way name nobody but its person.    *)
(***************************************************************************)
EXTENDS ActorEnrichment, DetectionPipelineProofs

\* A remote unlock stashes the device of its own door.
ObjectsAreOwn == \A d \in Doors : last_unlock_object[d] \in {DeviceOf[d], None}

\* A log on its way that would be matched with the unlock of a door is of its person.
LogsAreOfTheirUnlock ==
    \A d \in Doors : \A l \in logs :
        ~mixed[d] /\ d \in RecentUnlocks(l.device) => l.actor = who[d]

\* What EnrichmentTypeOK adds to TypeOK.
EnrichTyped ==
    /\ who \in [Doors -> Persons]
    /\ mixed \in [Doors -> BOOLEAN]
    /\ logs \subseteq Logs

EnrichmentInv ==
    /\ IInv
    /\ EnrichTyped
    /\ ObjectsAreOwn
    /\ LogsAreOfTheirUnlock
    /\ NamesAreRight

-----------------------------------------------------------------------------
(* Every step is one of the state machine, or none.                         *)

\* The unlock of a person is handled by one of the three handlers of unlocks.
LEMMA UnlockByIsAStep ==
    ASSUME NEW d \in Doors, NEW a \in Actors, NEW told,
           NEW kind \in {"door", "remote", "temporary"}, UnlockBy(d, a, kind, told)
    PROVE  Next /\ told \in Persons
<1>1. told \in Persons /\ UnlockHandler(d, kind, told) BY DEF UnlockBy, Persons
<1>2. \/ OnUnlockEvent(d, "granted", told)
      \/ OnRemoteUnlock(d, told, DeviceOf[d])
      \/ OnTemporaryStart(d, told)
  BY <1>1 DEF UnlockHandler
<1> QED BY <1>1, <1>2 DEF Next, Unlocking, Passing

\* A log that arrives is handled by _on_access_log, which may drop it.
LEMMA LogIsAStep ==
    ASSUME EnrichTyped, NEW l \in logs, LogArrives(l)
    PROVE  [Next]_vars
<1>1. l.device \in Devices /\ l.actor \in Persons BY DEF EnrichTyped, Logs, Persons
<1> QED BY <1>1 DEF LogArrives, Next, Unlocking

\* So every step is.
LEMMA EnrichmentStep ==
    EnrichTyped /\ [EnrichmentNext]_<<vars, enrichVars>> => [Next]_vars
<1> SUFFICES ASSUME EnrichTyped, [EnrichmentNext]_<<vars, enrichVars>> PROVE [Next]_vars
  OBVIOUS
<1>1. CASE StartStream BY <1>1 DEF Next, Seeding
<1>2. CASE \E d \in Doors, a \in Actors, kind \in {"door", "remote", "temporary"},
              told \in Persons : UnlockBy(d, a, kind, told)
  BY <1>2, UnlockByIsAStep
<1>3. CASE \E l \in logs : LogArrives(l) BY <1>3, LogIsAStep
<1>4. CASE Pass BY <1>4 DEF Pass, Next
<1>5. CASE UNCHANGED <<vars, enrichVars>> BY <1>5
<1> QED BY <1>1, <1>2, <1>3, <1>4, <1>5 DEF EnrichmentNext

-----------------------------------------------------------------------------
(* The steps, one by one.                                                   *)

\* Nothing is named, and nobody has unlocked, at first.
LEMMA InitEnrichmentInv == EnrichmentInit => EnrichmentInv
<1> SUFFICES ASSUME EnrichmentInit PROVE EnrichmentInv OBVIOUS
<1>1. IInv BY InitIInv DEF EnrichmentInit
<1>2. EnrichTyped BY DEF EnrichmentInit, EnrichTyped, Persons
<1>3. ObjectsAreOwn /\ NamesAreRight
  BY DEF EnrichmentInit, Init, ObjectsAreOwn, NamesAreRight
<1>4. LogsAreOfTheirUnlock BY DEF EnrichmentInit, LogsAreOfTheirUnlock
<1> QED BY <1>1, <1>2, <1>3, <1>4 DEF EnrichmentInv

\* What the three handlers of an unlock do to the record of the latest one.
LEMMA UnlockRecords ==
    ASSUME NEW d \in Doors, NEW a, NEW told, NEW kind \in {"door", "remote", "temporary"},
           UnlockBy(d, a, kind, told)
    PROVE  /\ last_unlock_age' = [last_unlock_age EXCEPT ![d] = 0]
           /\ last_unlock_actor' = [last_unlock_actor EXCEPT ![d] = told]
           /\ \/ UNCHANGED last_unlock_object
              \/ last_unlock_object' = [last_unlock_object EXCEPT ![d] = DeviceOf[d]]
<1>1. \/ OnUnlockEvent(d, "granted", told)
      \/ OnRemoteUnlock(d, told, DeviceOf[d])
      \/ OnTemporaryStart(d, told)
  BY DEF UnlockBy, UnlockHandler
<1> QED BY <1>1 DEF OnUnlockEvent, OnRemoteUnlock, OnTemporaryStart, RecordUnlock

\* An unlock: logs on their way mix it, and it mixes the recent ones of its device.
LEMMA UnlockByKeeps ==
    ASSUME EnrichmentInv, NEW d \in Doors, NEW a \in Actors, NEW told,
           NEW kind \in {"door", "remote", "temporary"}, UnlockBy(d, a, kind, told)
    PROVE  EnrichTyped' /\ ObjectsAreOwn' /\ LogsAreOfTheirUnlock' /\ NamesAreRight'
<1> DEFINE new == [device |-> DeviceOf[d], actor |-> a, age |-> 0]
<1>1. /\ told \in {a, None}
      /\ who' = [who EXCEPT ![d] = a]
      /\ logs' \in {logs, logs \cup {new}}
      /\ mixed' = [e \in Doors |->
                      IF e = d THEN \E l \in logs : l.device = DeviceOf[d] /\ l.actor # a
                      ELSE \/ mixed[e]
                           \/ /\ DeviceOf[e] = DeviceOf[d]
                              /\ who[e] # a
                              /\ last_unlock_age[e] # None
                              /\ last_unlock_age[e] <= LogWindow]
  BY DEF UnlockBy
<1>2. /\ last_unlock_age' = [last_unlock_age EXCEPT ![d] = 0]
      /\ last_unlock_actor' = [last_unlock_actor EXCEPT ![d] = told]
      /\ \/ UNCHANGED last_unlock_object
         \/ last_unlock_object' = [last_unlock_object EXCEPT ![d] = DeviceOf[d]]
  BY UnlockRecords
<1>3. TypeOK /\ EnrichTyped /\ ObjectsAreOwn BY DEF EnrichmentInv, IInv
<1>4. new \in Logs BY DelayAssumption DEF Logs, Devices
<1>5. EnrichTyped'
  <2>1. mixed' \in [Doors -> BOOLEAN] BY <1>1, <1>3 DEF EnrichTyped
  <2>2. who' \in [Doors -> Persons] BY <1>1, <1>3 DEF EnrichTyped, Persons
  <2> QED BY <1>1, <1>3, <1>4, <2>1, <2>2 DEF EnrichTyped
<1>6. ObjectsAreOwn' BY <1>2, <1>3 DEF ObjectsAreOwn, TypeOK
<1>7. NamesAreRight'
  <2> SUFFICES ASSUME NEW e \in Doors, ~mixed'[e]
               PROVE  last_unlock_actor'[e] \in {who'[e], None}
    BY DEF NamesAreRight
  <2>1. CASE e = d BY <1>1, <1>2, <1>3, <2>1 DEF TypeOK, EnrichTyped
  <2>2. CASE e # d
    BY <1>1, <1>2, <1>3, <2>2 DEF TypeOK, EnrichTyped, EnrichmentInv, NamesAreRight
  <2> QED BY <2>1, <2>2
<1>8. LogsAreOfTheirUnlock'
  <2> SUFFICES ASSUME NEW e \in Doors, NEW l \in logs', ~mixed'[e],
                      last_unlock_object'[e] = l.device, last_unlock_age'[e] # None,
                      last_unlock_age'[e] <= LogWindow
               PROVE  l.actor = who'[e]
    BY DEF LogsAreOfTheirUnlock, RecentUnlocks
  <2>1. l.device = DeviceOf[e]
    <3>1. l.device # None BY <1>5, NamesAssumption DEF EnrichTyped, Logs, Devices
    <3> QED BY <1>6, <3>1 DEF ObjectsAreOwn
  <2>2. CASE e = d
    <3>1. \A k \in logs : k.device = DeviceOf[d] => k.actor = a BY <1>1, <2>2
    <3>2. l.actor = a BY <1>1, <2>1, <2>2, <3>1
    <3> QED BY <1>1, <1>3, <2>2, <3>2 DEF EnrichTyped
  <2>3. CASE e # d
    <3>1. /\ last_unlock_object[e] = l.device /\ last_unlock_age[e] # None
          /\ last_unlock_age[e] <= LogWindow
      BY <1>2, <1>3, <2>3 DEF TypeOK
    <3>2. ~mixed[e] /\ (DeviceOf[e] # DeviceOf[d] \/ who[e] = a) BY <1>1, <2>3, <3>1
    <3>3. l \in logs \/ l.actor = who[e] BY <1>1, <2>1, <3>2
    <3>4. l.actor = who[e]
      BY <3>1, <3>2, <3>3 DEF EnrichmentInv, LogsAreOfTheirUnlock, RecentUnlocks
    <3> QED BY <1>1, <1>3, <2>3, <3>4 DEF EnrichTyped
  <2> QED BY <2>2, <2>3
<1> QED BY <1>5, <1>6, <1>7, <1>8

\* A log: it names the person of the recent unlock it is matched with, or is dropped.
LEMMA LogArrivesKeeps ==
    ASSUME EnrichmentInv, NEW l \in logs, LogArrives(l)
    PROVE  EnrichTyped' /\ ObjectsAreOwn' /\ LogsAreOfTheirUnlock' /\ NamesAreRight'
<1>1. /\ logs' = logs \ {l}
      /\ UNCHANGED <<who, mixed>>
      /\ \/ OnAccessLog(l.device, l.actor)
         \/ UNCHANGED vars
  BY DEF LogArrives
<1>2. UNCHANGED <<last_unlock_age, last_unlock_object>>
  BY <1>1 DEF OnAccessLog, vars, unlockVars
<1>3. EnrichTyped' /\ ObjectsAreOwn'
  BY <1>1, <1>2 DEF EnrichmentInv, EnrichTyped, ObjectsAreOwn
<1>4. LogsAreOfTheirUnlock'
  BY <1>1, <1>2 DEF EnrichmentInv, LogsAreOfTheirUnlock, RecentUnlocks
<1>5. NamesAreRight'
  <2>1. CASE UNCHANGED vars
    BY <1>1, <2>1 DEF EnrichmentInv, NamesAreRight, vars, unlockVars
  <2>2. CASE OnAccessLog(l.device, l.actor)
    <3>1. PICK d \in RecentUnlocks(l.device) :
            last_unlock_actor' = [last_unlock_actor EXCEPT ![d] = l.actor]
      BY <2>2 DEF OnAccessLog
    <3>2. d \in Doors /\ last_unlock_actor \in [Doors -> Actors \cup {None}]
      BY DEF RecentUnlocks, EnrichmentInv, IInv, TypeOK
    <3>3. ~mixed[d] => l.actor = who[d]
      BY <3>1, <3>2 DEF EnrichmentInv, LogsAreOfTheirUnlock
    <3> QED BY <1>1, <3>1, <3>2, <3>3 DEF EnrichmentInv, NamesAreRight
  <2> QED BY <1>1, <2>1, <2>2
<1> QED BY <1>3, <1>4, <1>5

\* An unlock that is recent after a tick was recent before.
LEMMA RecentBefore ==
    ASSUME TypeOK, Tick, NEW device
    PROVE  RecentUnlocks(device)' \subseteq RecentUnlocks(device)
<1> SUFFICES ASSUME NEW d \in Doors, last_unlock_object'[d] = device,
                    last_unlock_age'[d] # None, last_unlock_age'[d] <= LogWindow
             PROVE  /\ last_unlock_object[d] = device
                    /\ last_unlock_age[d] # None /\ last_unlock_age[d] <= LogWindow
  BY DEF RecentUnlocks
<1>1. last_unlock_age'[d] = Aged(last_unlock_age[d]) /\ UNCHANGED last_unlock_object
  BY DEF Tick
<1>2. last_unlock_age[d] \in Ages \cup {None} BY DEF TypeOK
<1> QED BY <1>1, <1>2, TimesAssumption DEF Aged, Ages

\* A tick: names and people stay, and logs only grow older.
LEMMA PassKeeps ==
    ASSUME EnrichmentInv, Pass
    PROVE  EnrichTyped' /\ ObjectsAreOwn' /\ LogsAreOfTheirUnlock' /\ NamesAreRight'
<1>1. /\ \A l \in logs : l.age < LogDelay
      /\ logs' = {[l EXCEPT !.age = @ + 1] : l \in logs}
      /\ UNCHANGED <<who, mixed>>
      /\ UNCHANGED <<last_unlock_actor, last_unlock_object>>
  BY DEF Pass, Tick
<1>2. ASSUME NEW l \in logs
      PROVE  /\ [l EXCEPT !.age = @ + 1] \in Logs
             /\ [l EXCEPT !.age = @ + 1].device = l.device
             /\ [l EXCEPT !.age = @ + 1].actor = l.actor
  <2>1. l \in Logs /\ l.age < LogDelay BY <1>1 DEF EnrichmentInv, EnrichTyped
  <2> QED BY <2>1, DelayAssumption DEF Logs
<1>3. EnrichTyped' /\ ObjectsAreOwn' /\ NamesAreRight'
  BY <1>1, <1>2 DEF EnrichmentInv, EnrichTyped, ObjectsAreOwn, NamesAreRight
<1>4. LogsAreOfTheirUnlock'
  <2> SUFFICES ASSUME NEW d \in Doors, NEW k \in logs', ~mixed'[d],
                      d \in RecentUnlocks(k.device)'
               PROVE  k.actor = who'[d]
    BY DEF LogsAreOfTheirUnlock, RecentUnlocks
  <2>1. PICK l \in logs : k.device = l.device /\ k.actor = l.actor BY <1>1, <1>2
  <2>2. d \in RecentUnlocks(l.device)
    <3>1. TypeOK /\ Tick BY DEF EnrichmentInv, IInv, Pass
    <3>2. RecentUnlocks(k.device)' \subseteq RecentUnlocks(k.device) BY <3>1, RecentBefore
    <3> QED BY <2>1, <3>2
  <2> QED BY <1>1, <2>1, <2>2 DEF EnrichmentInv, LogsAreOfTheirUnlock
<1> QED BY <1>3, <1>4

\* Every step keeps the invariant.
LEMMA EnrichmentNextKeeps ==
    EnrichmentInv /\ [EnrichmentNext]_<<vars, enrichVars>> => EnrichmentInv'
<1> SUFFICES ASSUME EnrichmentInv, [EnrichmentNext]_<<vars, enrichVars>>
             PROVE  EnrichmentInv'
  OBVIOUS
<1>1. IInv' BY EnrichmentStep, NextKeeps DEF EnrichmentInv
<1>2. EnrichTyped' /\ ObjectsAreOwn' /\ LogsAreOfTheirUnlock' /\ NamesAreRight'
  <2>1. CASE UNCHANGED <<unlockVars, enrichVars>>
    BY <2>1 DEF EnrichmentInv, EnrichTyped, ObjectsAreOwn, LogsAreOfTheirUnlock,
                NamesAreRight, RecentUnlocks, unlockVars, enrichVars
  <2>2. CASE StartStream /\ UNCHANGED enrichVars BY <2>1, <2>2 DEF StartStream
  <2>3. CASE \E d \in Doors, a \in Actors, kind \in {"door", "remote", "temporary"},
                told \in Persons : UnlockBy(d, a, kind, told)
    BY <2>3, UnlockByKeeps
  <2>4. CASE \E l \in logs : LogArrives(l) BY <2>4, LogArrivesKeeps
  <2>5. CASE Pass BY <2>5, PassKeeps
  <2>6. CASE UNCHANGED <<vars, enrichVars>> BY <2>1, <2>6 DEF vars
  <2> QED BY <2>2, <2>3, <2>4, <2>5, <2>6 DEF EnrichmentNext
<1> QED BY <1>1, <1>2 DEF EnrichmentInv

-----------------------------------------------------------------------------

\* The invariant that the theorems are parts of.
LEMMA EnrichmentInvariant == EnrichmentSpec => []EnrichmentInv
BY InitEnrichmentInv, EnrichmentNextKeeps, PTL DEF EnrichmentSpec

\* Every variable keeps its type: what the log of a device names is a person.
THEOREM EnrichmentTypes == EnrichmentSpec => []EnrichmentTypeOK
<1>1. EnrichmentInv => EnrichmentTypeOK
  BY DEF EnrichmentInv, IInv, EnrichTyped, EnrichmentTypeOK
<1> QED BY <1>1, EnrichmentInvariant, PTL

\* Whatever _on_access_log can match by device and time alone, in any order of unlocks
\* and logs, it names the person who did the unlock, or nobody, unless somebody else used
\* the device too close to that one.
THEOREM NamesStayRight == EnrichmentSpec => []NamesAreRight
<1>1. EnrichmentInv => NamesAreRight BY DEF EnrichmentInv
<1> QED BY <1>1, EnrichmentInvariant, PTL

\* People and logs do nothing to the state machine that it does not allow: whatever is
\* proved of Spec holds with them, its contract included.
THEOREM EnrichmentRefines == EnrichmentSpec => Spec
<1>1. EnrichmentInit => Init BY DEF EnrichmentInit
<1>2. EnrichmentInv => EnrichTyped BY DEF EnrichmentInv
<1> QED BY <1>1, <1>2, EnrichmentStep, EnrichmentInvariant, PTL DEF EnrichmentSpec, Spec
=============================================================================
