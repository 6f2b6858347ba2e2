---------------------- MODULE DetectionPipelineProofs ----------------------
(***************************************************************************)
(* Proofs about DetectionPipeline for any number of doors, any thresholds, *)
(* any people and devices.  IInv is inductive; the safety properties follow *)
(* from it.                                                                 *)
(***************************************************************************)
EXTENDS DetectionPipeline, TLAPS

(***************************************************************************)
(* The delay given to asyncio.sleep is a number of ticks within the cap.   *)
(***************************************************************************)
LEMMA DelayInAges == \A d \in Doors : Delay(d) \in Ages
BY TimesAssumption DEF Delay, Ages

(***************************************************************************)
(* Cancelling the task in the slot leaves no live watchdog behind.         *)
(***************************************************************************)
LEMMA NoSurvivors ==
    ASSUME SingleWatchdog
    PROVE  \A d \in Doors : Survivors(d) = {}
BY DEF SingleWatchdog, Survivors

(***************************************************************************)
(* What _cancel_held_open does to each door, given the slot discipline.    *)
(***************************************************************************)
LEMMA CancelClears ==
    ASSUME SingleWatchdog, NEW S, CancelHeldOpen(S)
    PROVE  /\ held_open_task' =
                [d \in Doors |-> IF d \in S THEN None ELSE held_open_task[d]]
           /\ sleeping' = [d \in Doors |-> IF d \in S THEN {} ELSE sleeping[d]]
BY NoSurvivors DEF CancelHeldOpen

(***************************************************************************)
(* What creating watchdogs does to each door: the doors of S get exactly   *)
(* one, with the whole delay before it, and it is in the slot.             *)
(***************************************************************************)
LEMMA StartGivesOne ==
    ASSUME SingleWatchdog, NEW S, NEW source, StartWatchdogs(S, source)
    PROVE  \E fresh \in [Doors -> TaskIds] :
             /\ held_open_task' =
                  [d \in Doors |-> IF d \in S THEN fresh[d] ELSE held_open_task[d]]
             /\ sleeping' =
                  [d \in Doors |->
                     IF d \in S
                     THEN {[id |-> fresh[d], left |-> Delay(d), source |-> source]}
                     ELSE sleeping[d]]
<1> DEFINE fresh == [d \in Doors |-> FreshTask(d)]
<1>1. \A d \in Doors : Survivors(d) = {}
  BY NoSurvivors
<1>2. \A d \in Doors : FreshTask(d) \in TaskIds
  <2> TAKE d \in Doors
  <2>1. PICK id \in TaskIds : TRUE
    BY NamesAssumption
  <2>2. \A w \in Survivors(d) : w.id # id
    BY <1>1
  <2> QED BY <2>2 DEF FreshTask
<1>3. fresh \in [Doors -> TaskIds]
  BY <1>2
<1>4. held_open_task' =
        [d \in Doors |-> IF d \in S THEN fresh[d] ELSE held_open_task[d]]
  BY DEF StartWatchdogs
<1>5. sleeping' =
        [d \in Doors |->
           IF d \in S
           THEN {[id |-> fresh[d], left |-> Delay(d), source |-> source]}
           ELSE sleeping[d]]
  BY <1>1 DEF StartWatchdogs
<1> QED BY <1>3, <1>4, <1>5

(***************************************************************************)
(* _handle_open keeps the invariant wherever it is called, provided the    *)
(* caller has treated the free-pass flags well: open doors it leaves aside *)
(* keep their free pass or lack of it, and no door it handles comes under  *)
(* a free pass while it is open and timed.                                 *)
(***************************************************************************)
LEMMA HandleOpenKeeps ==
    ASSUME IInv,
           NEW S \in SUBSET Doors, NEW source \in Sources,
           UNCHANGED <<phase, unlockVars>>,
           unseeded' \subseteq unseeded,
           phase = "seeding" => S \cap unseeded' = {},
           schedule_unlock_active' \in [Doors -> BOOLEAN],
           temporary_unlock_active' \in [Doors -> BOOLEAN],
           emergency_evacuation_active' \in BOOLEAN,
           \A d \in Doors \ S : dps[d] = "open" => (FreePass(d)' <=> FreePass(d)),
           \A d \in S : dps[d] = "open" /\ FreePass(d)' => FreePass(d),
           HandleOpen(S, source)
    PROVE  IInv'
<1> DEFINE timed  == {d \in S : ~FreePass(d)'}
           breach == {d \in timed : /\ source = "watchdog"
                                    /\ ~Authorized(d)
                                    /\ ~unauthorized_fired[d]}
<1> USE DEF IInv
<1>1. /\ dps' = [d \in Doors |-> IF d \in S THEN "open" ELSE dps[d]]
      /\ opened_age' = [d \in Doors |-> IF d \in S THEN 0 ELSE opened_age[d]]
      /\ held_open_source' =
           [d \in Doors |-> IF d \in S THEN source ELSE held_open_source[d]]
      /\ unauthorized_fired' = [d \in Doors |-> d \in breach \/ unauthorized_fired[d]]
      /\ alerts' = {[type |-> "unauthorized", door |-> d] : d \in breach}
      /\ StartWatchdogs(timed, source)
      /\ held_open_fired' = held_open_fired
  BY DEF HandleOpen
<1>2. PICK fresh \in [Doors -> TaskIds] :
        /\ held_open_task' =
             [d \in Doors |-> IF d \in timed THEN fresh[d] ELSE held_open_task[d]]
        /\ sleeping' =
             [d \in Doors |->
                IF d \in timed
                THEN {[id |-> fresh[d], left |-> Delay(d), source |-> source]}
                ELSE sleeping[d]]
  BY <1>1, StartGivesOne
<1>3. timed \subseteq S /\ breach \subseteq timed /\ S \subseteq Doors
  OBVIOUS
<1> HIDE DEF timed, breach
<1>4. TypeOK'
  <2>1. /\ phase' = phase
        /\ last_unlock_age' = last_unlock_age
        /\ last_unlock_actor' = last_unlock_actor
        /\ last_unlock_object' = last_unlock_object
    BY DEF unlockVars
  <2>2. /\ phase' \in {"seeding", "live"}
        /\ unseeded' \subseteq Doors
        /\ last_unlock_age' \in [Doors -> Ages \cup {None}]
        /\ last_unlock_actor' \in [Doors -> Actors \cup {None}]
        /\ last_unlock_object' \in [Doors -> Devices \cup {None}]
        /\ held_open_fired' \in [Doors -> BOOLEAN]
    BY <1>1, <2>1 DEF TypeOK
  <2>3. dps' \in [Doors -> {"open", "close", "unknown"}]
    BY <1>1 DEF TypeOK
  <2>4. opened_age' \in [Doors -> Ages \cup {None}]
    BY <1>1, TimesAssumption DEF TypeOK, Ages
  <2>5. held_open_source' \in [Doors -> Sources]
    BY <1>1 DEF TypeOK
  <2>6. unauthorized_fired' \in [Doors -> BOOLEAN]
    BY <1>1 DEF TypeOK
  <2>7. held_open_task' \in [Doors -> TaskIds \cup {None}]
    BY <1>2 DEF TypeOK
  <2>8. sleeping' \in [Doors -> SUBSET Tasks]
    BY <1>2, DelayInAges DEF TypeOK, Tasks
  <2>9. alerts' \subseteq Alerts
    BY <1>1, <1>3 DEF Alerts
  <2> QED BY <2>2, <2>3, <2>4, <2>5, <2>6, <2>7, <2>8, <2>9 DEF TypeOK
<1>5. SingleWatchdog'
  BY <1>2, <1>3 DEF SingleWatchdog
<1>6. WatchdogJustified'
  <2> SUFFICES ASSUME NEW d \in Doors, sleeping'[d] # {}
               PROVE  dps'[d] = "open" /\ ~FreePass(d)'
    BY DEF WatchdogJustified
  <2>1. CASE d \in timed
    BY <2>1, <1>1, <1>3 DEF timed
  <2>2. CASE d \notin timed
    <3>1. sleeping[d] # {}
      BY <2>2, <1>2
    <3>2. dps[d] = "open" /\ ~FreePass(d)
      BY <3>1 DEF WatchdogJustified
    <3>3. d \notin S
      BY <2>2, <3>2 DEF timed
    <3> QED BY <3>2, <3>3, <1>1
  <2> QED BY <2>1, <2>2
<1>7. OpenDoorIsTimed'
  <2> SUFFICES ASSUME NEW d \in Doors, dps'[d] = "open", ~FreePass(d)',
                      ~held_open_fired'[d]
               PROVE  sleeping'[d] # {}
    BY DEF OpenDoorIsTimed
  <2>1. CASE d \in S
    BY <2>1, <1>2 DEF timed
  <2>2. CASE d \notin S
    BY <2>2, <1>1, <1>2, <1>3 DEF OpenDoorIsTimed
  <2> QED BY <2>1, <2>2
<1>8. WatchdogMeasuresOpening'
  <2> SUFFICES ASSUME NEW d \in Doors, NEW w \in sleeping'[d]
               PROVE  /\ w.left = IF opened_age'[d] < Delay(d)
                                  THEN Delay(d) - opened_age'[d] ELSE 0
                      /\ w.source = held_open_source'[d]
    BY DEF WatchdogMeasuresOpening, Delay
  <2>1. CASE d \in timed
    <3>1. w = [id |-> fresh[d], left |-> Delay(d), source |-> source]
      BY <2>1, <1>2
    <3>2. opened_age'[d] = 0 /\ held_open_source'[d] = source
      BY <2>1, <1>1, <1>3
    <3>3. Delay(d) \in Nat
      BY DelayInAges, TimesAssumption DEF Ages
    <3> QED BY <3>1, <3>2, <3>3
  <2>2. CASE d \notin timed
    <3>1. w \in sleeping[d]
      BY <2>2, <1>2
    <3>2. dps[d] = "open" /\ ~FreePass(d)
      BY <3>1 DEF WatchdogJustified
    <3>3. d \notin S
      BY <2>2, <3>2 DEF timed
    <3> QED BY <3>1, <3>3, <1>1 DEF WatchdogMeasuresOpening
  <2> QED BY <2>1, <2>2
<1>9. FlagsBelongToOpening'
  <2> SUFFICES ASSUME NEW d \in Doors
               PROVE  /\ opened_age'[d] = None <=> dps'[d] # "open"
                      /\ unauthorized_fired'[d] \/ held_open_fired'[d] => dps'[d] = "open"
    BY DEF FlagsBelongToOpening
  <2>1. CASE d \in S
    BY <2>1, <1>1, NamesAssumption
  <2>2. CASE d \notin S
    BY <2>2, <1>1, <1>3 DEF FlagsBelongToOpening
  <2> QED BY <2>1, <2>2
<1>10. AlertsAreDue'
  <2>1. ASSUME NEW d \in breach
        PROVE  /\ dps'[d] = "open"
               /\ ~FreePass(d)'
               /\ unauthorized_fired'[d]
               /\ opened_age'[d] = 0
               /\ last_unlock_age'[d] = None \/ last_unlock_age'[d] > Grace[d]
    <3>1. d \in timed /\ d \in S /\ d \in Doors
      BY <1>3
    <3>2. ~FreePass(d)' /\ ~Authorized(d)
      BY <3>1 DEF timed, breach
    <3>3. last_unlock_age[d] \in Ages \cup {None} /\ Grace[d] \in Int
      BY <3>1, TimesAssumption DEF TypeOK
    <3>4. last_unlock_age'[d] = None \/ last_unlock_age'[d] > Grace[d]
      BY <3>2, <3>3, TimesAssumption DEF Authorized, unlockVars, Ages
    <3> QED BY <3>1, <3>2, <3>4, <1>1
  <2>2. \A a \in alerts' : \E d \in breach : a = [type |-> "unauthorized", door |-> d]
    BY <1>1
  <2> QED BY <2>1, <2>2 DEF AlertsAreDue, FreePass
<1>11. UnseededAreUnknown'
  BY <1>1 DEF UnseededAreUnknown, TypeOK
<1> QED BY <1>4, <1>5, <1>6, <1>7, <1>8, <1>9, <1>10, <1>11

(***************************************************************************)
(* Cancelling keeps the parts of the invariant that speak of watchdogs, if *)
(* every door cancelled for needs none any more and the others are left    *)
(* alone.                                                                  *)
(***************************************************************************)
LEMMA CancelKeepsWatchdogs ==
    ASSUME IInv, NEW S \in SUBSET Doors,
           CancelHeldOpen(S), alerts' = {},
           \A d \in S : dps'[d] = "open" => FreePass(d)',
           \A d \in Doors \ S : /\ dps'[d] = dps[d]
                                /\ opened_age'[d] = opened_age[d]
                                /\ held_open_source'[d] = held_open_source[d]
                                /\ held_open_fired'[d] = held_open_fired[d]
                                /\ FreePass(d)' <=> FreePass(d)
    PROVE  /\ held_open_task' \in [Doors -> TaskIds \cup {None}]
           /\ sleeping' \in [Doors -> SUBSET Tasks]
           /\ SingleWatchdog'
           /\ WatchdogJustified'
           /\ OpenDoorIsTimed'
           /\ WatchdogMeasuresOpening'
           /\ AlertsAreDue'
<1> USE DEF IInv
<1>1. /\ held_open_task' =
           [d \in Doors |-> IF d \in S THEN None ELSE held_open_task[d]]
      /\ sleeping' = [d \in Doors |-> IF d \in S THEN {} ELSE sleeping[d]]
  BY CancelClears
<1>2. /\ held_open_task' \in [Doors -> TaskIds \cup {None}]
      /\ sleeping' \in [Doors -> SUBSET Tasks]
  BY <1>1 DEF TypeOK
<1>3. SingleWatchdog'
  BY <1>1 DEF SingleWatchdog
<1>4. WatchdogJustified'
  BY <1>1 DEF WatchdogJustified
<1>5. OpenDoorIsTimed'
  BY <1>1 DEF OpenDoorIsTimed
<1>6. WatchdogMeasuresOpening'
  <2> SUFFICES ASSUME NEW d \in Doors, NEW w \in sleeping'[d]
               PROVE  /\ w.left = IF opened_age'[d] < Delay(d)
                                  THEN Delay(d) - opened_age'[d] ELSE 0
                      /\ w.source = held_open_source'[d]
    BY DEF WatchdogMeasuresOpening, Delay
  <2>1. d \notin S /\ w \in sleeping[d]
    BY <1>1
  <2> QED BY <2>1 DEF WatchdogMeasuresOpening
<1>7. AlertsAreDue'
  BY DEF AlertsAreDue
<1> QED BY <1>2, <1>3, <1>4, <1>5, <1>6, <1>7

(***************************************************************************)
(* A step that leaves doors, watchdogs and free passes alone and raises no *)
(* alert keeps every part of the invariant but the types of what it sets.  *)
(***************************************************************************)
LEMMA QuietKeepsWatchdogs ==
    ASSUME IInv, UNCHANGED <<openVars, taskVars, passVars>>, alerts' = {}
    PROVE  /\ SingleWatchdog'
           /\ WatchdogJustified'
           /\ OpenDoorIsTimed'
           /\ WatchdogMeasuresOpening'
           /\ FlagsBelongToOpening'
           /\ AlertsAreDue'
<1> USE DEF IInv, openVars, taskVars, passVars
<1>1. SingleWatchdog'
  BY DEF SingleWatchdog
<1>2. WatchdogJustified' /\ OpenDoorIsTimed'
  BY DEF WatchdogJustified, OpenDoorIsTimed, FreePass
<1>3. WatchdogMeasuresOpening'
  BY DEF WatchdogMeasuresOpening, Delay
<1>4. FlagsBelongToOpening'
  BY DEF FlagsBelongToOpening
<1>5. AlertsAreDue'
  BY DEF AlertsAreDue
<1> QED BY <1>1, <1>2, <1>3, <1>4, <1>5

(***************************************************************************)
(* Startup.                                                                *)
(***************************************************************************)
LEMMA InitIInv == Init => IInv
<1> SUFFICES ASSUME Init PROVE IInv
  OBVIOUS
<1> USE DEF Init
<1>1. TypeOK
  BY DEF TypeOK, Sources
<1>2. SingleWatchdog /\ WatchdogJustified /\ OpenDoorIsTimed /\ WatchdogMeasuresOpening
  BY DEF SingleWatchdog, WatchdogJustified, OpenDoorIsTimed, WatchdogMeasuresOpening
<1>3. FlagsBelongToOpening /\ AlertsAreDue /\ UnseededAreUnknown
  BY DEF FlagsBelongToOpening, AlertsAreDue, UnseededAreUnknown
<1> QED BY <1>1, <1>2, <1>3 DEF IInv

\* seed_door keeps the invariant, whatever the controller says of the door.
LEMMA SeedDoorKeeps ==
    ASSUME IInv, NEW d \in Doors, NEW status, NEW relay, NEW rule,
           SeedDoor(d, status, relay, rule)
    PROVE  IInv'
<1>1. /\ phase = "seeding" /\ phase' = phase
      /\ d \in unseeded /\ unseeded' = unseeded \ {d}
      /\ UNCHANGED <<unlockVars, emergency_evacuation_active>>
  BY DEF SeedDoor
<1>2. /\ schedule_unlock_active' \in [Doors -> BOOLEAN]
      /\ temporary_unlock_active' \in [Doors -> BOOLEAN]
      /\ emergency_evacuation_active' \in BOOLEAN
  BY DEF SeedDoor, IInv, TypeOK, ScheduleRule, TemporaryRule
<1>3. \A e \in Doors \ {d} : FreePass(e)' <=> FreePass(e)
  BY DEF SeedDoor, FreePass, IInv, TypeOK
<1>4. dps[d] = "unknown"
  BY <1>1 DEF IInv, UnseededAreUnknown
<1>5. sleeping[d] = {}
  BY <1>4 DEF IInv, WatchdogJustified
<1>6. CASE status = "open" /\ HandleOpen({d}, "startup_open")
  BY <1>1, <1>2, <1>3, <1>4, <1>6, HandleOpenKeeps DEF Sources
<1>7. ASSUME dps' = dps \/ dps' = [dps EXCEPT ![d] = "close"],
             alerts' = {},
             UNCHANGED <<opened_age, held_open_source, unauthorized_fired,
                         held_open_fired, taskVars>>
      PROVE  IInv'
  <2> USE <1>7 DEF taskVars, unlockVars
  <2>1. /\ dps' \in [Doors -> {"open", "close", "unknown"}]
        /\ dps'[d] # "open"
        /\ \A e \in Doors \ {d} : dps'[e] = dps[e]
    BY <1>4 DEF IInv, TypeOK
  <2>2. TypeOK'
    BY <1>1, <1>2, <2>1 DEF IInv, TypeOK
  <2>3. SingleWatchdog'
    BY DEF IInv, SingleWatchdog
  <2>4. WatchdogJustified'
    BY <1>3, <1>5, <2>1 DEF IInv, WatchdogJustified
  <2>5. OpenDoorIsTimed'
    BY <1>3, <2>1 DEF IInv, OpenDoorIsTimed
  <2>6. WatchdogMeasuresOpening'
    BY DEF IInv, WatchdogMeasuresOpening, Delay
  <2>7. FlagsBelongToOpening'
    BY <1>4, <2>1 DEF IInv, FlagsBelongToOpening
  <2>8. AlertsAreDue' /\ UnseededAreUnknown'
    BY <1>1, <2>1 DEF IInv, AlertsAreDue, UnseededAreUnknown, TypeOK
  <2> QED BY <2>2, <2>3, <2>4, <2>5, <2>6, <2>7, <2>8 DEF IInv
<1> QED BY <1>6, <1>7 DEF SeedDoor, openVars

\* The change from seeding to the stream touches no door.
LEMMA StartStreamKeeps == ASSUME IInv, StartStream PROVE IInv'
<1>1. UNCHANGED <<openVars, taskVars, passVars>> /\ alerts' = {}
  BY DEF StartStream
<1>2. TypeOK'
  BY DEF StartStream, IInv, TypeOK, unlockVars, openVars, taskVars, passVars
<1>3. UnseededAreUnknown'
  BY DEF StartStream, UnseededAreUnknown
<1> QED BY <1>1, <1>2, <1>3, QuietKeepsWatchdogs DEF IInv

(***************************************************************************)
(* Unlock handlers: they touch neither doors nor watchdogs.                *)
(***************************************************************************)
LEMMA UnlockKeeps ==
    ASSUME IInv, UNCHANGED <<startVars, openVars, taskVars, passVars>>, alerts' = {},
           last_unlock_age' \in [Doors -> Ages \cup {None}],
           last_unlock_actor' \in [Doors -> Actors \cup {None}],
           last_unlock_object' \in [Doors -> Devices \cup {None}]
    PROVE  IInv'
<1>1. TypeOK'
  BY DEF IInv, TypeOK, startVars, openVars, taskVars, passVars
<1>2. UnseededAreUnknown'
  BY DEF IInv, UnseededAreUnknown, startVars, openVars
<1> QED BY <1>1, <1>2, QuietKeepsWatchdogs DEF IInv

\* Unlock events and audit logs keep the invariant.
LEMMA UnlockingKeeps == ASSUME IInv, Unlocking PROVE IInv'
<1> USE DEF RecordUnlock, Persons
<1>1. 0 \in Ages
  BY TimesAssumption DEF Ages
<1>2. ASSUME NEW d \in Doors, NEW result, NEW a \in Persons, OnUnlockEvent(d, result, a)
      PROVE  IInv'
  <2>1. /\ last_unlock_age' \in [Doors -> Ages \cup {None}]
        /\ last_unlock_actor' \in [Doors -> Actors \cup {None}]
        /\ last_unlock_object' \in [Doors -> Devices \cup {None}]
    BY <1>1, <1>2 DEF OnUnlockEvent, IInv, TypeOK
  <2> QED BY <1>2, <2>1, UnlockKeeps DEF OnUnlockEvent
<1>3. ASSUME NEW d \in Doors, NEW a \in Persons, NEW object \in {DeviceOf[d], None},
             OnRemoteUnlock(d, a, object)
      PROVE  IInv'
  <2>1. /\ last_unlock_age' \in [Doors -> Ages \cup {None}]
        /\ last_unlock_actor' \in [Doors -> Actors \cup {None}]
        /\ last_unlock_object' \in [Doors -> Devices \cup {None}]
    BY <1>1, <1>3 DEF OnRemoteUnlock, IInv, TypeOK, Devices
  <2> QED BY <1>3, <2>1, UnlockKeeps DEF OnRemoteUnlock
<1>4. ASSUME NEW device \in Devices, NEW a \in Persons, OnAccessLog(device, a)
      PROVE  IInv'
  <2>1. /\ last_unlock_age' \in [Doors -> Ages \cup {None}]
        /\ last_unlock_actor' \in [Doors -> Actors \cup {None}]
        /\ last_unlock_object' \in [Doors -> Devices \cup {None}]
    BY <1>4 DEF OnAccessLog, IInv, TypeOK, RecentUnlocks
  <2> QED BY <1>4, <2>1, UnlockKeeps DEF OnAccessLog
<1> QED BY <1>2, <1>3, <1>4 DEF Unlocking

(***************************************************************************)
(* Door position events.                                                   *)
(***************************************************************************)
LEMMA HandleCloseKeeps ==
    ASSUME IInv, NEW d \in Doors, HandleClose(d), phase = "live",
           UNCHANGED <<startVars, unlockVars, passVars>>
    PROVE  IInv'
<1> USE DEF HandleClose
<1>1. \A e \in Doors : FreePass(e)' <=> FreePass(e)
  BY DEF passVars, FreePass
<1>2. /\ dps'[d] = "close"
      /\ \A e \in Doors \ {d} : /\ dps'[e] = dps[e]
                                /\ opened_age'[e] = opened_age[e]
                                /\ held_open_source'[e] = held_open_source[e]
                                /\ unauthorized_fired'[e] = unauthorized_fired[e]
                                /\ held_open_fired'[e] = held_open_fired[e]
  BY DEF IInv, TypeOK
<1>3. /\ held_open_task' \in [Doors -> TaskIds \cup {None}]
      /\ sleeping' \in [Doors -> SUBSET Tasks]
      /\ SingleWatchdog'
      /\ WatchdogJustified'
      /\ OpenDoorIsTimed'
      /\ WatchdogMeasuresOpening'
      /\ AlertsAreDue'
  BY <1>1, <1>2, CancelKeepsWatchdogs
<1>4. TypeOK'
  <2>1. /\ dps' \in [Doors -> {"open", "close", "unknown"}]
        /\ opened_age' \in [Doors -> Ages \cup {None}]
        /\ held_open_source' \in [Doors -> Sources]
        /\ unauthorized_fired' \in [Doors -> BOOLEAN]
        /\ held_open_fired' \in [Doors -> BOOLEAN]
    BY DEF IInv, TypeOK, Sources
  <2> QED BY <1>3, <2>1 DEF IInv, TypeOK, startVars, unlockVars, passVars
<1>5. FlagsBelongToOpening'
  <2>1. opened_age'[d] = None /\ ~unauthorized_fired'[d] /\ ~held_open_fired'[d]
    BY DEF IInv, TypeOK
  <2> QED BY <1>2, <2>1 DEF IInv, FlagsBelongToOpening
<1>6. UnseededAreUnknown'
  BY DEF UnseededAreUnknown, startVars
<1> QED BY <1>3, <1>4, <1>5, <1>6 DEF IInv

\* Reports of the door sensor keep the invariant.
LEMMA MovingKeeps ==
    ASSUME IInv, NEW d \in Doors, NEW status, OnDps(d, status) PROVE IInv'
<1>1. UNCHANGED <<startVars, unlockVars, passVars>> /\ phase = "live"
  BY DEF OnDps
<1>2. CASE HandleOpen({d}, "watchdog")
  <2>1. /\ UNCHANGED <<phase, unlockVars>>
        /\ unseeded' \subseteq unseeded
        /\ phase # "seeding"
        /\ schedule_unlock_active' \in [Doors -> BOOLEAN]
        /\ temporary_unlock_active' \in [Doors -> BOOLEAN]
        /\ emergency_evacuation_active' \in BOOLEAN
    BY <1>1 DEF startVars, passVars, IInv, TypeOK
  <2>2. \A e \in Doors : FreePass(e)' <=> FreePass(e)
    BY <1>1 DEF passVars, FreePass
  <2> QED BY <1>2, <2>1, <2>2, HandleOpenKeeps DEF Sources
<1>3. CASE HandleClose(d)
  BY <1>1, <1>3, HandleCloseKeeps
<1> QED BY <1>2, <1>3 DEF OnDps

(***************************************************************************)
(* Free passes that begin.                                                 *)
(***************************************************************************)
LEMMA PassBeginsKeeps ==
    ASSUME IInv, NEW S \in SUBSET Doors, CancelHeldOpen(S), alerts' = {},
           UNCHANGED <<startVars, openVars>>, phase = "live",
           last_unlock_age' \in [Doors -> Ages \cup {None}],
           last_unlock_actor' \in [Doors -> Actors \cup {None}],
           last_unlock_object' \in [Doors -> Devices \cup {None}],
           schedule_unlock_active' \in [Doors -> BOOLEAN],
           temporary_unlock_active' \in [Doors -> BOOLEAN],
           emergency_evacuation_active' \in BOOLEAN,
           \A d \in S : FreePass(d)',
           \A d \in Doors \ S : FreePass(d)' <=> FreePass(d)
    PROVE  IInv'
<1> USE DEF openVars
<1>1. /\ held_open_task' \in [Doors -> TaskIds \cup {None}]
      /\ sleeping' \in [Doors -> SUBSET Tasks]
      /\ SingleWatchdog'
      /\ WatchdogJustified'
      /\ OpenDoorIsTimed'
      /\ WatchdogMeasuresOpening'
      /\ AlertsAreDue'
  BY CancelKeepsWatchdogs
<1>2. TypeOK'
  BY <1>1 DEF IInv, TypeOK, startVars
<1>3. FlagsBelongToOpening' /\ UnseededAreUnknown'
  BY DEF IInv, FlagsBelongToOpening, UnseededAreUnknown, startVars
<1> QED BY <1>1, <1>2, <1>3 DEF IInv

\* The start of a schedule keeps the invariant: it cancels the watchdog it makes idle.
LEMMA OnScheduleActivateKeeps ==
    ASSUME IInv, NEW d \in Doors, OnScheduleActivate(d) PROVE IInv'
<1> USE DEF OnScheduleActivate
<1>1. /\ schedule_unlock_active' \in [Doors -> BOOLEAN]
      /\ temporary_unlock_active' \in [Doors -> BOOLEAN]
      /\ emergency_evacuation_active' \in BOOLEAN
      /\ last_unlock_age' \in [Doors -> Ages \cup {None}]
      /\ last_unlock_actor' \in [Doors -> Actors \cup {None}]
      /\ last_unlock_object' \in [Doors -> Devices \cup {None}]
  BY DEF IInv, TypeOK, unlockVars
<1>2. FreePass(d)' /\ \A e \in Doors \ {d} : FreePass(e)' <=> FreePass(e)
  BY DEF FreePass, IInv, TypeOK
<1> QED BY <1>1, <1>2, PassBeginsKeeps

\* So does the start of a temporary unlock.
LEMMA OnTemporaryStartKeeps ==
    ASSUME IInv, NEW d \in Doors, NEW a \in Persons, OnTemporaryStart(d, a)
    PROVE  IInv'
<1> USE DEF OnTemporaryStart
<1>1. 0 \in Ages
  BY TimesAssumption DEF Ages
<1>2. /\ schedule_unlock_active' \in [Doors -> BOOLEAN]
      /\ temporary_unlock_active' \in [Doors -> BOOLEAN]
      /\ emergency_evacuation_active' \in BOOLEAN
      /\ last_unlock_age' \in [Doors -> Ages \cup {None}]
      /\ last_unlock_actor' \in [Doors -> Actors \cup {None}]
      /\ last_unlock_object' \in [Doors -> Devices \cup {None}]
  BY <1>1 DEF IInv, TypeOK, RecordUnlock, Persons
<1>3. FreePass(d)' /\ \A e \in Doors \ {d} : FreePass(e)' <=> FreePass(e)
  BY DEF FreePass, IInv, TypeOK
<1> QED BY <1>2, <1>3, PassBeginsKeeps

(***************************************************************************)
(* Free passes that end.  A door the sweep leaves aside is not open, or is *)
(* still under a free pass, which it then had before as well.              *)
(***************************************************************************)
LEMMA SweepKeeps ==
    ASSUME IInv, NEW S \in SUBSET Doors, NEW source \in Sources,
           phase = "live", UNCHANGED <<startVars, unlockVars>>,
           schedule_unlock_active' \in [Doors -> BOOLEAN],
           temporary_unlock_active' \in [Doors -> BOOLEAN],
           emergency_evacuation_active' \in BOOLEAN,
           \A d \in S : FreePass(d)' => FreePass(d),
           \A d \in Doors \ S : FreePass(d)' <=> FreePass(d),
           Sweep(S, source)
    PROVE  IInv'
<1> DEFINE swept == {d \in S : dps[d] = "open" /\ ~FreePass(d)'}
<1>1. HandleOpen(swept, source)
  BY DEF Sweep
<1>2. swept \in SUBSET Doors
  OBVIOUS
<1>3. \A d \in Doors \ swept : dps[d] = "open" => (FreePass(d)' <=> FreePass(d))
  OBVIOUS
<1>4. \A d \in swept : dps[d] = "open" /\ FreePass(d)' => FreePass(d)
  OBVIOUS
<1>5. UNCHANGED <<phase, unlockVars>> /\ unseeded' \subseteq unseeded
  BY DEF startVars
<1> HIDE DEF swept
<1> QED BY <1>1, <1>2, <1>3, <1>4, <1>5, HandleOpenKeeps

\* The end of a schedule keeps the invariant: an open door gets a watchdog.
LEMMA OnScheduleDeactivateKeeps ==
    ASSUME IInv, NEW d \in Doors, OnScheduleDeactivate(d) PROVE IInv'
<1> USE DEF OnScheduleDeactivate, FreePassEnd
<1>1. /\ schedule_unlock_active' \in [Doors -> BOOLEAN]
      /\ temporary_unlock_active' \in [Doors -> BOOLEAN]
      /\ emergency_evacuation_active' \in BOOLEAN
  BY DEF IInv, TypeOK
<1>2. /\ FreePass(d)' => FreePass(d)
      /\ \A e \in Doors \ {d} : FreePass(e)' <=> FreePass(e)
  BY DEF FreePass, IInv, TypeOK
<1> QED BY <1>1, <1>2, SweepKeeps DEF Sources

\* So does the end of a temporary unlock.
LEMMA OnTemporaryEndKeeps ==
    ASSUME IInv, NEW d \in Doors, OnTemporaryEnd(d) PROVE IInv'
<1> USE DEF OnTemporaryEnd, FreePassEnd
<1>1. /\ schedule_unlock_active' \in [Doors -> BOOLEAN]
      /\ temporary_unlock_active' \in [Doors -> BOOLEAN]
      /\ emergency_evacuation_active' \in BOOLEAN
  BY DEF IInv, TypeOK
<1>2. /\ FreePass(d)' => FreePass(d)
      /\ \A e \in Doors \ {d} : FreePass(e)' <=> FreePass(e)
  BY DEF FreePass, IInv, TypeOK
<1> QED BY <1>1, <1>2, SweepKeeps DEF Sources

\* Evacuations, and the sweep of open doors that ends them, keep the invariant.
LEMMA OnEmergencyKeeps == ASSUME IInv, NEW mode, OnEmergency(mode) PROVE IInv'
<1>1. /\ phase = "live"
      /\ UNCHANGED <<startVars, unlockVars, schedule_unlock_active,
                     temporary_unlock_active>>
      /\ emergency_evacuation_active' \in BOOLEAN
      /\ schedule_unlock_active' \in [Doors -> BOOLEAN]
      /\ temporary_unlock_active' \in [Doors -> BOOLEAN]
      /\ last_unlock_age' \in [Doors -> Ages \cup {None}]
      /\ last_unlock_actor' \in [Doors -> Actors \cup {None}]
      /\ last_unlock_object' \in [Doors -> Devices \cup {None}]
  BY DEF OnEmergency, IInv, TypeOK, unlockVars
<1>2. CASE /\ emergency_evacuation_active'
           /\ CancelHeldOpen(Doors)
           /\ alerts' = {}
           /\ UNCHANGED openVars
  <2>1. \A d \in Doors : FreePass(d)'
    BY <1>2 DEF FreePass
  <2> QED BY <1>1, <1>2, <2>1, PassBeginsKeeps
<1>3. CASE emergency_evacuation_active /\ Sweep(Doors, "emergency_ended")
  <2>1. \A d \in Doors : FreePass(d)' => FreePass(d)
    BY <1>3 DEF FreePass
  <2> QED BY <1>1, <1>3, <2>1, SweepKeeps DEF Sources
<1> QED BY <1>2, <1>3 DEF OnEmergency

\* All free-pass handlers together.
LEMMA PassingKeeps == ASSUME IInv, Passing PROVE IInv'
BY OnScheduleActivateKeeps, OnScheduleDeactivateKeeps, OnTemporaryEndKeeps,
   OnTemporaryStartKeeps, OnEmergencyKeeps DEF Passing

(***************************************************************************)
(* A watchdog wakes up.  Its checks after the sleep succeed unless the     *)
(* opening has been reported: the invariant says the door is open and      *)
(* under no free pass.                                                     *)
(***************************************************************************)
LEMMA WakeKeeps == ASSUME IInv, NEW d \in Doors, Wake(d) PROVE IInv'
<1>1. PICK w \in sleeping[d] : HeldOpenWatchdog(d, w)
  BY DEF Wake
<1>2. /\ w.left = 0
      /\ sleeping' = [sleeping EXCEPT ![d] = @ \ {w}]
      /\ UNCHANGED <<startVars, unlockVars, dps, opened_age, held_open_source,
                     unauthorized_fired, held_open_task, passVars>>
  BY <1>1 DEF HeldOpenWatchdog
<1>3. \A e \in Doors : FreePass(e)' <=> FreePass(e)
  BY <1>2 DEF FreePass, passVars
<1>4. dps[d] = "open" /\ ~FreePass(d)
  BY DEF IInv, WatchdogJustified
<1>5. sleeping[d] = {w}
  BY DEF IInv, SingleWatchdog
<1>6. sleeping' = [e \in Doors |-> IF e = d THEN {} ELSE sleeping[e]]
  BY <1>2, <1>5 DEF IInv, TypeOK
<1>7. \/ /\ held_open_fired[d]
         /\ held_open_fired' = held_open_fired
         /\ alerts' = {}
      \/ /\ held_open_fired' = [held_open_fired EXCEPT ![d] = TRUE]
         /\ alerts' = {[type |-> "held_open", door |-> d, source |-> w.source]}
  BY <1>1, <1>4 DEF HeldOpenWatchdog
<1>8. /\ held_open_fired' \in [Doors -> BOOLEAN]
      /\ held_open_fired'[d]
      /\ \A e \in Doors \ {d} : held_open_fired'[e] = held_open_fired[e]
  BY <1>7 DEF IInv, TypeOK
<1>9. w \in Tasks
  BY DEF IInv, TypeOK
<1>10. TypeOK'
  <2>1. sleeping' \in [Doors -> SUBSET Tasks]
    BY <1>6 DEF IInv, TypeOK
  <2>2. alerts' \subseteq Alerts
    BY <1>7, <1>9 DEF Alerts, Tasks
  <2> QED BY <1>2, <1>8, <2>1, <2>2 DEF IInv, TypeOK, startVars, unlockVars, passVars
<1>11. SingleWatchdog'
  BY <1>2, <1>6 DEF IInv, SingleWatchdog
<1>12. WatchdogJustified'
  BY <1>2, <1>3, <1>6 DEF IInv, WatchdogJustified
<1>13. OpenDoorIsTimed'
  BY <1>2, <1>3, <1>6, <1>8 DEF IInv, OpenDoorIsTimed
<1>14. WatchdogMeasuresOpening'
  BY <1>2, <1>6 DEF IInv, WatchdogMeasuresOpening, Delay
<1>15. FlagsBelongToOpening'
  BY <1>2, <1>4, <1>8 DEF IInv, FlagsBelongToOpening
<1>16. AlertsAreDue'
  <2>1. CASE alerts' = {}
    BY <2>1 DEF AlertsAreDue
  <2>2. CASE alerts' = {[type |-> "held_open", door |-> d, source |-> w.source]}
    <3>1. opened_age[d] \in Nat
      BY <1>4, TimesAssumption DEF IInv, TypeOK, FlagsBelongToOpening, Ages
    <3>2. Delay(d) \in Nat
      BY DelayInAges, TimesAssumption DEF Ages
    <3>3. opened_age[d] >= Delay(d)
      <4>1. w.left = IF opened_age[d] < Delay(d) THEN Delay(d) - opened_age[d] ELSE 0
        BY DEF IInv, WatchdogMeasuresOpening
      <4> HIDE DEF Delay
      <4> QED BY <1>2, <3>1, <3>2, <4>1
    <3>4. dps'[d] = "open" /\ ~FreePass(d)'
      BY <1>2, <1>3, <1>4
    <3> QED BY <1>2, <1>8, <2>2, <3>3, <3>4 DEF AlertsAreDue, FreePass, Delay
  <2> QED BY <1>7, <2>1, <2>2
<1>17. UnseededAreUnknown'
  BY <1>2 DEF IInv, UnseededAreUnknown, startVars
<1> QED BY <1>10, <1>11, <1>12, <1>13, <1>14, <1>15, <1>16, <1>17 DEF IInv

(***************************************************************************)
(* Time passes: ages and sleeps move together.                             *)
(***************************************************************************)
LEMMA AgedInAges == \A age \in Ages \cup {None} : Aged(age) \in Ages \cup {None}
BY TimesAssumption, NamesAssumption DEF Ages, Aged

\* The passage of time keeps the invariant: ages and remaining sleeps move together.
LEMMA TickKeeps == ASSUME IInv, Tick PROVE IInv'
<1> DEFINE Less(w) == [w EXCEPT !.left = IF @ > 0 THEN @ - 1 ELSE 0]
<1>1. /\ last_unlock_age' = [d \in Doors |-> Aged(last_unlock_age[d])]
      /\ opened_age' = [d \in Doors |-> Aged(opened_age[d])]
      /\ sleeping' = [d \in Doors |-> {Less(w) : w \in sleeping[d]}]
      /\ alerts' = {}
      /\ UNCHANGED <<startVars, last_unlock_actor, last_unlock_object, dps,
                     held_open_source, unauthorized_fired, held_open_fired,
                     held_open_task, passVars>>
  BY DEF Tick
<1>2. \A d \in Doors : FreePass(d)' <=> FreePass(d)
  BY <1>1 DEF FreePass, passVars
<1>3. \A w \in Tasks : /\ Less(w) \in Tasks
                       /\ Less(w).id = w.id
                       /\ Less(w).source = w.source
                       /\ Less(w).left = IF w.left > 0 THEN w.left - 1 ELSE 0
  BY TimesAssumption DEF Tasks, Ages
<1> HIDE DEF Less
<1>4. \A d \in Doors : \A w \in sleeping[d] : w \in Tasks
  BY DEF IInv, TypeOK
<1>5. TypeOK'
  <2>1. last_unlock_age' \in [Doors -> Ages \cup {None}]
    BY <1>1, AgedInAges DEF IInv, TypeOK
  <2>2. opened_age' \in [Doors -> Ages \cup {None}]
    BY <1>1, AgedInAges DEF IInv, TypeOK
  <2>3. sleeping' \in [Doors -> SUBSET Tasks]
    BY <1>1, <1>3, <1>4
  <2> QED BY <1>1, <2>1, <2>2, <2>3 DEF IInv, TypeOK, startVars, passVars
<1>6. SingleWatchdog'
  <2> SUFFICES ASSUME NEW d \in Doors, NEW v \in sleeping'[d]
               PROVE  v.id = held_open_task'[d] /\ sleeping'[d] = {v}
    BY DEF SingleWatchdog
  <2>1. PICK w \in sleeping[d] : v = Less(w)
    BY <1>1
  <2>2. w.id = held_open_task[d] /\ sleeping[d] = {w}
    BY DEF IInv, SingleWatchdog
  <2> QED BY <1>1, <1>3, <1>4, <2>1, <2>2
<1>7. WatchdogJustified'
  BY <1>1, <1>2 DEF IInv, WatchdogJustified
<1>8. OpenDoorIsTimed'
  BY <1>1, <1>2 DEF IInv, OpenDoorIsTimed
<1>9. WatchdogMeasuresOpening'
  <2> SUFFICES ASSUME NEW d \in Doors, NEW v \in sleeping'[d]
               PROVE  /\ v.left = IF opened_age'[d] < Delay(d)
                                  THEN Delay(d) - opened_age'[d] ELSE 0
                      /\ v.source = held_open_source'[d]
    BY DEF WatchdogMeasuresOpening, Delay
  <2>1. PICK w \in sleeping[d] : v = Less(w)
    BY <1>1
  <2>2. /\ w.left = IF opened_age[d] < Delay(d) THEN Delay(d) - opened_age[d] ELSE 0
        /\ w.source = held_open_source[d]
    BY DEF IInv, WatchdogMeasuresOpening
  <2>3. /\ v.left = IF w.left > 0 THEN w.left - 1 ELSE 0
        /\ v.source = w.source
    BY <1>3, <1>4, <2>1
  <2>4. opened_age[d] \in Ages /\ opened_age[d] # None
    BY NamesAssumption
    DEF IInv, TypeOK, WatchdogJustified, FlagsBelongToOpening
  <2>5. opened_age'[d] = IF opened_age[d] = AgeCap THEN AgeCap ELSE opened_age[d] + 1
    BY <1>1, <2>4 DEF Aged
  <2>6. Delay(d) \in Ages
    BY DelayInAges
  <2> QED BY <1>1, <2>2, <2>3, <2>4, <2>5, <2>6, TimesAssumption DEF Ages
<1>10. FlagsBelongToOpening'
  <2>1. \A d \in Doors : opened_age'[d] = None <=> opened_age[d] = None
    BY <1>1, TimesAssumption, NamesAssumption DEF IInv, TypeOK, Ages, Aged
  <2> QED BY <1>1, <2>1 DEF IInv, FlagsBelongToOpening
<1>11. AlertsAreDue' /\ UnseededAreUnknown'
  BY <1>1 DEF IInv, AlertsAreDue, UnseededAreUnknown, startVars
<1> QED BY <1>5, <1>6, <1>7, <1>8, <1>9, <1>10, <1>11 DEF IInv

(***************************************************************************)
(* The invariant is inductive, so it always holds, and with it each of its *)
(* parts.                                                                  *)
(***************************************************************************)
LEMMA NextKeeps == IInv /\ [Next]_vars => IInv'
<1> SUFFICES ASSUME IInv, [Next]_vars PROVE IInv'
  OBVIOUS
<1>1. CASE Seeding
  BY <1>1, SeedDoorKeeps, StartStreamKeeps DEF Seeding
<1>2. CASE Unlocking
  BY <1>2, UnlockingKeeps
<1>3. CASE Moving
  BY <1>3, MovingKeeps DEF Moving
<1>4. CASE Passing
  BY <1>4, PassingKeeps
<1>5. CASE \E d \in Doors : Wake(d)
  BY <1>5, WakeKeeps
<1>6. CASE Tick
  BY <1>6, TickKeeps
<1>7. CASE UNCHANGED vars
  BY <1>7 DEF vars, startVars, unlockVars, openVars, taskVars, passVars, IInv, TypeOK,
     SingleWatchdog, WatchdogJustified, OpenDoorIsTimed, WatchdogMeasuresOpening,
     FlagsBelongToOpening, AlertsAreDue, UnseededAreUnknown, FreePass, Delay
<1> QED BY <1>1, <1>2, <1>3, <1>4, <1>5, <1>6, <1>7 DEF Next

\* The invariant holds in every state the state machine reaches, for any doors,
\* thresholds, people and devices.
THEOREM Invariance == Spec => []IInv
<1>1. Init => IInv
  BY InitIInv
<1>2. IInv /\ [Next]_vars => IInv'
  BY NextKeeps
<1> QED BY <1>1, <1>2, PTL DEF Spec

\* Every variable keeps its type.
THEOREM TypeCorrect == Spec => []TypeOK
<1>1. IInv => TypeOK
  BY DEF IInv
<1> QED BY <1>1, Invariance, PTL

\* No door ever has a live watchdog besides the one in its slot (_handle_open,
\* _cancel_held_open).
THEOREM OneWatchdogPerDoor == Spec => []SingleWatchdog
<1>1. IInv => SingleWatchdog
  BY DEF IInv
<1> QED BY <1>1, Invariance, PTL

\* A live watchdog always belongs to an open door under no free pass, so that the
\* checks it makes after its sleep (free_pass, dps) never have to stop it.
THEOREM WatchdogsAreJustified == Spec => []WatchdogJustified
<1>1. IInv => WatchdogJustified
  BY DEF IInv
<1> QED BY <1>1, Invariance, PTL

\* No order of opens, closes, free passes and evacuations leaves an open door that
\* may still be reported without a watchdog.
THEOREM OpenDoorsAreTimed == Spec => []OpenDoorIsTimed
<1>1. IInv => OpenDoorIsTimed
  BY DEF IInv
<1> QED BY <1>1, Invariance, PTL

\* Every watchdog is due exactly when opened_at is held_open_seconds old.
THEOREM WatchdogsMeasureOpenings == Spec => []WatchdogMeasuresOpening
<1>1. IInv => WatchdogMeasuresOpening
  BY DEF IInv
<1> QED BY <1>1, Invariance, PTL

\* A closed door carries no flag and no opened_at of an earlier opening.
THEOREM FlagsBelongToOpenings == Spec => []FlagsBelongToOpening
<1>1. IInv => FlagsBelongToOpening
  BY DEF IInv
<1> QED BY <1>1, Invariance, PTL

\* No alert is raised for a door that is not open, is under a free pass, was
\* unlocked in time, or has not been open for held_open_seconds.
THEOREM AlertsAreAlwaysDue == Spec => []AlertsAreDue
<1>1. IInv => AlertsAreDue
  BY DEF IInv
<1> QED BY <1>1, Invariance, PTL

-----------------------------------------------------------------------------
(* Steps.                                                                   *)

(***************************************************************************)
(* Only a watchdog that wakes up empties the set of live watchdogs of a    *)
(* door without touching its slot.                                         *)
(***************************************************************************)
LEMMA CancelTouchesSlot ==
    ASSUME IInv, NEW S, CancelHeldOpen(S), NEW d \in Doors, sleeping[d] # {},
           held_open_task'[d] = held_open_task[d]
    PROVE  sleeping'[d] # {}
<1>1. PICK w \in sleeping[d] : w.id = held_open_task[d]
  BY DEF IInv, SingleWatchdog
<1>2. w.id \in TaskIds
  BY DEF IInv, TypeOK, Tasks
<1>3. d \notin S
  BY <1>1, <1>2, CancelClears, NamesAssumption DEF IInv
<1> QED BY <1>3, CancelClears DEF IInv

\* _handle_open never leaves a door without the watchdog it had: it replaces it.
LEMMA OpenLeavesWatchdog ==
    ASSUME IInv, NEW S, NEW source, HandleOpen(S, source),
           NEW d \in Doors, sleeping[d] # {}
    PROVE  sleeping'[d] # {}
<1> DEFINE timed == {e \in S : ~FreePass(e)'}
<1>1. StartWatchdogs(timed, source)
  BY DEF HandleOpen
<1> HIDE DEF timed
<1>2. PICK fresh \in [Doors -> TaskIds] :
        sleeping' = [e \in Doors |->
                       IF e \in timed
                       THEN {[id |-> fresh[e], left |-> Delay(e), source |-> source]}
                       ELSE sleeping[e]]
  BY <1>1, StartGivesOne DEF IInv
<1> QED BY <1>2

\* A step after which a watchdog has ended by itself raises the alert of its door.
LEMMA RunOutStep ==
    ASSUME IInv, [Next]_vars, NEW d \in Doors,
           sleeping[d] # {}, sleeping'[d] = {},
           held_open_task'[d] = held_open_task[d], ~held_open_fired[d]
    PROVE  \E a \in alerts' : a.type = "held_open" /\ a.door = d
<1>1. ASSUME sleeping' = sleeping PROVE FALSE
  BY <1>1
<1>2. ASSUME NEW S, CancelHeldOpen(S) PROVE FALSE
  BY <1>2, CancelTouchesSlot
<1>3. ASSUME NEW S, NEW source, HandleOpen(S, source) PROVE FALSE
  BY <1>3, OpenLeavesWatchdog
<1>4. ~Seeding
  BY <1>1, <1>3 DEF Seeding, SeedDoor, StartStream, taskVars
<1>5. ~Unlocking
  BY <1>1 DEF Unlocking, OnUnlockEvent, OnRemoteUnlock, OnAccessLog, taskVars
<1>6. ~Moving
  BY <1>2, <1>3 DEF Moving, OnDps, HandleClose
<1>7. ~Passing
  <2>1. ASSUME NEW e \in Doors PROVE ~OnScheduleActivate(e)
    BY <1>2 DEF OnScheduleActivate
  <2>2. ASSUME NEW e \in Doors, NEW a PROVE ~OnTemporaryStart(e, a)
    BY <1>2 DEF OnTemporaryStart
  <2>3. ASSUME NEW e \in Doors PROVE ~OnScheduleDeactivate(e) /\ ~OnTemporaryEnd(e)
    BY <1>3 DEF OnScheduleDeactivate, OnTemporaryEnd, FreePassEnd, Sweep
  <2>4. ASSUME NEW mode PROVE ~OnEmergency(mode)
    BY <1>2, <1>3 DEF OnEmergency, Sweep
  <2> QED BY <2>1, <2>2, <2>3, <2>4 DEF Passing
<1>8. ~Tick
  <2> SUFFICES ASSUME Tick PROVE FALSE
    OBVIOUS
  <2>1. PICK w \in sleeping[d] : TRUE
    OBVIOUS
  <2>2. [w EXCEPT !.left = IF @ > 0 THEN @ - 1 ELSE 0] \in sleeping'[d]
    BY <2>1 DEF Tick
  <2> QED BY <2>2
<1>9. PICK e \in Doors : Wake(e)
  BY <1>1, <1>4, <1>5, <1>6, <1>7, <1>8 DEF Next, vars, taskVars
<1>10. PICK w \in sleeping[e] : HeldOpenWatchdog(e, w)
  BY <1>9 DEF Wake
<1>11. e = d
  BY <1>10 DEF HeldOpenWatchdog, IInv, TypeOK
<1>12. dps[d] = "open" /\ ~FreePass(d)
  BY DEF IInv, WatchdogJustified
<1>13. alerts' = {[type |-> "held_open", door |-> d, source |-> w.source]}
  BY <1>10, <1>11, <1>12 DEF HeldOpenWatchdog
<1> QED BY <1>13

\* A watchdog that sleeps its whole term reports its door if this opening has not
\* been reported yet.
THEOREM RunOutWatchdogsAlert == Spec => EveryRunOutAlerts
<1>1. IInv /\ [Next]_vars =>
        [\A d \in Doors :
            /\ sleeping[d] # {}
            /\ sleeping'[d] = {}
            /\ held_open_task'[d] = held_open_task[d]
            /\ ~held_open_fired[d]
            => \E a \in alerts' : a.type = "held_open" /\ a.door = d]_vars
  BY RunOutStep
<1> QED BY <1>1, Invariance, PTL DEF Spec, EveryRunOutAlerts

(***************************************************************************)
(* While the stream is live, only an "open" of its own sensor opens a door *)
(* that is not open: the synthetic opens concern doors that are.           *)
(***************************************************************************)
LEMMA OnlySensorOpens ==
    ASSUME IInv, [Next]_vars, phase = "live", NEW d \in Doors,
           dps[d] # "open", dps'[d] = "open"
    PROVE  UNCHANGED <<startVars, unlockVars, passVars>> /\ HandleOpen({d}, "watchdog")
<1>1. dps' # dps
  OBVIOUS
<1>2. ASSUME NEW S, NEW source, Sweep(S, source) PROVE FALSE
  BY <1>2 DEF Sweep, HandleOpen
<1>3. ~Seeding
  BY DEF Seeding, SeedDoor, StartStream
<1>4. ~Unlocking
  BY <1>1 DEF Unlocking, OnUnlockEvent, OnRemoteUnlock, OnAccessLog, openVars
<1>5. ~Passing
  <2>1. ASSUME NEW e \in Doors PROVE ~OnScheduleActivate(e)
    BY <1>1 DEF OnScheduleActivate, openVars
  <2>2. ASSUME NEW e \in Doors, NEW a PROVE ~OnTemporaryStart(e, a)
    BY <1>1 DEF OnTemporaryStart, openVars
  <2>3. ASSUME NEW e \in Doors PROVE ~OnScheduleDeactivate(e) /\ ~OnTemporaryEnd(e)
    BY <1>2 DEF OnScheduleDeactivate, OnTemporaryEnd, FreePassEnd
  <2>4. ASSUME NEW mode PROVE ~OnEmergency(mode)
    BY <1>1, <1>2 DEF OnEmergency, openVars
  <2> QED BY <2>1, <2>2, <2>3, <2>4 DEF Passing
<1>6. \A e \in Doors : ~Wake(e)
  BY <1>1 DEF Wake, HeldOpenWatchdog
<1>7. ~Tick
  BY <1>1 DEF Tick
<1>8. PICK e \in Doors, status \in {"open", "close"} : OnDps(e, status)
  BY <1>1, <1>3, <1>4, <1>5, <1>6, <1>7 DEF Next, Moving, vars, openVars
<1>9. ~HandleClose(e)
  BY DEF HandleClose, IInv, TypeOK
<1>10. HandleOpen({e}, "watchdog")
  BY <1>8, <1>9 DEF OnDps
<1>11. e = d
  BY <1>10 DEF HandleOpen
<1> QED BY <1>8, <1>10, <1>11 DEF OnDps

\* A step that opens a door raises the unauthorized alert exactly when it is due.
LEMMA OpeningJudgedStep ==
    ASSUME IInv, [Next]_vars, phase = "live", NEW d \in Doors,
           dps[d] # "open", dps'[d] = "open"
    PROVE  (\E a \in alerts' : a.type = "unauthorized" /\ a.door = d)
             <=> ~FreePass(d) /\ last_unlock_age[d] \notin 0 .. Grace[d]
<1>1. UNCHANGED <<startVars, unlockVars, passVars>> /\ HandleOpen({d}, "watchdog")
  BY OnlySensorOpens
<1>2. FreePass(d)' <=> FreePass(d)
  BY <1>1 DEF FreePass, passVars
<1>3. ~unauthorized_fired[d]
  BY DEF IInv, FlagsBelongToOpening
<1>4. Authorized(d) <=> last_unlock_age[d] \in 0 .. Grace[d]
  BY TimesAssumption, NamesAssumption DEF Authorized, IInv, TypeOK, Ages
<1> DEFINE breach == {e \in {e \in {d} : ~FreePass(e)'} : /\ "watchdog" = "watchdog"
                                                          /\ ~Authorized(e)
                                                          /\ ~unauthorized_fired[e]}
<1>5. alerts' = {[type |-> "unauthorized", door |-> e] : e \in breach}
  BY <1>1 DEF HandleOpen
<1>6. d \in breach <=> ~FreePass(d) /\ last_unlock_age[d] \notin 0 .. Grace[d]
  BY <1>2, <1>3, <1>4
<1>7. \A e \in breach : e = d
  OBVIOUS
<1> HIDE DEF breach
<1>8. (\E a \in alerts' : a.type = "unauthorized" /\ a.door = d) <=> d \in breach
  <2>1. ASSUME NEW a \in alerts', a.door = d PROVE d \in breach
    <3>1. PICK e \in breach : a = [type |-> "unauthorized", door |-> e]
      BY <1>5, <2>1
    <3> QED BY <1>7, <3>1
  <2>2. ASSUME d \in breach PROVE \E a \in alerts' : a.type = "unauthorized" /\ a.door = d
    <3> DEFINE it == [type |-> "unauthorized", door |-> d]
    <3>1. it \in alerts'
      BY <1>5, <2>2
    <3>2. it.type = "unauthorized" /\ it.door = d
      OBVIOUS
    <3> HIDE DEF it
    <3> QED BY <3>1, <3>2
  <2> QED BY <2>1, <2>2
<1> QED BY <1>6, <1>8

\* Every opening the stream reports is judged by the grace rule alone, at once.
THEOREM OpeningsAreJudged == Spec => EveryOpeningIsJudged
<1>1. IInv /\ [Next]_vars =>
        [\A d \in Doors :
            phase = "live" /\ dps[d] # "open" /\ dps'[d] = "open"
            => ( (\E a \in alerts' : a.type = "unauthorized" /\ a.door = d)
                   <=> ~FreePass(d) /\ last_unlock_age[d] \notin 0 .. Grace[d] )]_vars
  BY OpeningJudgedStep
<1> QED BY <1>1, Invariance, PTL DEF Spec, EveryOpeningIsJudged

\* A step that changes who unlocked a door is an unlock, or fills in a recent one.
LEMMA AttributionStep ==
    ASSUME IInv, [Next]_vars, NEW d \in Doors,
           last_unlock_actor'[d] # last_unlock_actor[d]
    PROVE  \/ last_unlock_age'[d] = 0
           \/ /\ last_unlock_actor[d] = None
              /\ last_unlock_object[d] # None
              /\ last_unlock_age[d] \in 0 .. LogWindow
<1>1. last_unlock_actor' # last_unlock_actor
  OBVIOUS
<1>2. ASSUME NEW e \in Doors, NEW a, RecordUnlock(e, a) PROVE last_unlock_age'[d] = 0
  BY <1>2 DEF RecordUnlock, IInv, TypeOK
<1>3. ASSUME NEW device \in Devices, NEW a, OnAccessLog(device, a)
      PROVE  /\ last_unlock_actor[d] = None
             /\ last_unlock_object[d] # None
             /\ last_unlock_age[d] \in 0 .. LogWindow
  <2>1. d \in RecentUnlocks(device) /\ last_unlock_actor[d] = None
    BY <1>3 DEF OnAccessLog, IInv, TypeOK
  <2> QED BY <2>1, TimesAssumption, NamesAssumption
      DEF RecentUnlocks, Devices, IInv, TypeOK, Ages
<1>4. CASE Unlocking
  BY <1>2, <1>3, <1>4 DEF Unlocking, OnUnlockEvent, OnRemoteUnlock
<1>5. CASE Passing
  BY <1>1, <1>2, <1>5
  DEF Passing, OnScheduleActivate, OnScheduleDeactivate, OnTemporaryStart,
      OnTemporaryEnd, FreePassEnd, OnEmergency, unlockVars
<1>6. ~Seeding /\ ~Moving /\ ~(\E e \in Doors : Wake(e)) /\ ~Tick /\ vars' # vars
  BY <1>1 DEF Seeding, SeedDoor, StartStream, Moving, OnDps, Wake, HeldOpenWatchdog,
     Tick, vars, unlockVars
<1> QED BY <1>4, <1>5, <1>6 DEF Next

\* An audit log only fills in the person of a recent unlock that named nobody.
THEOREM AttributionsOnlyFill == Spec => AttributionOnlyFills
<1>1. IInv /\ [Next]_vars =>
        [\A d \in Doors :
            last_unlock_actor'[d] # last_unlock_actor[d] =>
              \/ last_unlock_age'[d] = 0
              \/ /\ last_unlock_actor[d] = None
                 /\ last_unlock_object[d] # None
                 /\ last_unlock_age[d] \in 0 .. LogWindow]_vars
  BY AttributionStep
<1> QED BY <1>1, Invariance, PTL DEF Spec, AttributionOnlyFills

-----------------------------------------------------------------------------
(* The state machine implements AlertContract.                              *)

toldNow  == [d \in Doors |-> Told(d)]
quietNow == {d \in Doors : FreePass(d)}
saidNow  == {<<a.door, a.type>> : a \in alerts}

\* The initial states of the state machine are initial states of the contract.
LEMMA ContractInit == Init => Contract!Init
<1> SUFFICES ASSUME Init PROVE Contract!Init
  OBVIOUS
<1>1. dps = [d \in Doors |-> "unknown"]
  BY DEF Init
<1>2. quietNow = {}
  BY DEF Init, quietNow, FreePass
<1>3. toldNow = [d \in Doors |-> {}]
  BY DEF Init, toldNow, Told
<1>4. saidNow = {}
  BY DEF Init, saidNow
<1> QED BY <1>1, <1>2, <1>3, <1>4 DEF Contract!Init, quietNow, toldNow, saidNow

(***************************************************************************)
(* The steps the contract does not see, or sees only as free passes coming *)
(* and going.                                                              *)
(***************************************************************************)
LEMMA UnseenStep ==
    ASSUME dps' = dps, unauthorized_fired' = unauthorized_fired,
           held_open_fired' = held_open_fired, alerts' = {}
    PROVE  Contract!Next
<1>1. toldNow' = toldNow
  BY DEF toldNow, Told
<1>2. quietNow' \in SUBSET Doors
  BY DEF quietNow
<1>3. saidNow' = {}
  BY DEF saidNow
<1>4. Contract!Suppress
  BY <1>1, <1>2, <1>3 DEF Contract!Suppress, quietNow, toldNow, saidNow
<1> QED BY <1>4 DEF Contract!Next

\* A synthetic open is silent.
LEMMA SyntheticOpen ==
    ASSUME IInv, NEW S, NEW source, source # "watchdog", HandleOpen(S, source)
    PROVE  /\ dps' = [d \in Doors |-> IF d \in S THEN "open" ELSE dps[d]]
           /\ unauthorized_fired' = unauthorized_fired
           /\ held_open_fired' = held_open_fired
           /\ alerts' = {}
BY DEF HandleOpen, IInv, TypeOK

\* The sweep that ends a free pass is a Suppress of the contract: it raises no alert.
LEMMA SweepUnseen ==
    ASSUME IInv, NEW S, NEW source, source # "watchdog", Sweep(S, source)
    PROVE  Contract!Next
<1> DEFINE swept == {d \in S : dps[d] = "open" /\ ~FreePass(d)'}
<1>1. HandleOpen(swept, source)
  BY DEF Sweep
<1>2. \A d \in swept : dps[d] = "open"
  OBVIOUS
<1> HIDE DEF swept
<1>3. dps' = dps
  BY <1>1, <1>2, SyntheticOpen DEF IInv, TypeOK
<1> QED BY <1>1, <1>3, SyntheticOpen, UnseenStep

\* seed_door is what the contract calls learning about a door.
LEMMA SeedStep ==
    ASSUME IInv, NEW d \in Doors, NEW status, NEW relay, NEW rule,
           SeedDoor(d, status, relay, rule)
    PROVE  Contract!Next
<1>1. dps[d] = "unknown"
  BY DEF SeedDoor, IInv, UnseededAreUnknown
<1>2. toldNow[d] = {}
  BY <1>1 DEF toldNow, Told, IInv, FlagsBelongToOpening
<1>3. /\ \E p \in {dps[d], "open", "close"} : dps' = [dps EXCEPT ![d] = p]
      /\ unauthorized_fired' = unauthorized_fired
      /\ held_open_fired' = held_open_fired
      /\ alerts' = {}
  <2>1. CASE HandleOpen({d}, "startup_open")
    <3>1. dps' = [dps EXCEPT ![d] = "open"]
      BY <2>1, SyntheticOpen DEF IInv, TypeOK
    <3> QED BY <2>1, <3>1, SyntheticOpen
  <2>2. CASE /\ dps' = [dps EXCEPT ![d] = "close"]
             /\ alerts' = {}
             /\ UNCHANGED <<unauthorized_fired, held_open_fired>>
    BY <2>2
  <2>3. CASE alerts' = {} /\ UNCHANGED openVars
    <3>1. dps' = [dps EXCEPT ![d] = dps[d]]
      BY <2>3 DEF openVars, IInv, TypeOK
    <3> QED BY <2>3, <3>1 DEF openVars
  <2> QED BY <2>1, <2>2, <2>3 DEF SeedDoor
<1>4. toldNow' = toldNow
  BY <1>3 DEF toldNow, Told
<1>5. \A e \in Doors \ {d} : FreePass(e)' <=> FreePass(e)
  BY DEF SeedDoor, FreePass, IInv, TypeOK
<1>6. quietNow' \in {quietNow \cup {d}, quietNow \ {d}}
  BY <1>5 DEF quietNow
<1>7. saidNow' = {}
  BY <1>3 DEF saidNow
<1>8. Contract!Learn(d)
  BY <1>2, <1>3, <1>4, <1>6, <1>7
  DEF Contract!Learn, quietNow, toldNow, saidNow
<1> QED BY <1>8 DEF Contract!Next

\* A close report is a Close of the contract.
LEMMA CloseStep ==
    ASSUME IInv, NEW d \in Doors, HandleClose(d), UNCHANGED passVars
    PROVE  Contract!Next
<1>1. toldNow' = [toldNow EXCEPT ![d] = {}]
  BY DEF toldNow, Told, HandleClose, IInv, TypeOK
<1>2. quietNow' = quietNow /\ saidNow' = {}
  BY DEF quietNow, saidNow, FreePass, passVars, HandleClose
<1>3. Contract!Close(d)
  BY <1>1, <1>2 DEF Contract!Close, HandleClose, quietNow, toldNow, saidNow
<1> QED BY <1>3 DEF Contract!Next

\* An open report is an Open of the contract, with or without its alert.
LEMMA OpenStep ==
    ASSUME IInv, NEW d \in Doors, HandleOpen({d}, "watchdog"), UNCHANGED passVars
    PROVE  Contract!Next
<1>1. FreePass(d)' <=> FreePass(d)
  BY DEF FreePass, passVars
<1>2. /\ dps' = [dps EXCEPT ![d] = "open"]
      /\ held_open_fired' = held_open_fired
  BY DEF HandleOpen, IInv, TypeOK
<1>3. quietNow' = quietNow
  BY DEF quietNow, FreePass, passVars
<1>4. CASE unauthorized_fired' = unauthorized_fired /\ alerts' = {}
  <2>1. toldNow' = toldNow /\ saidNow' = {}
    BY <1>2, <1>4 DEF toldNow, Told, saidNow
  <2>2. Contract!Open(d)
    BY <1>2, <1>3, <2>1 DEF Contract!Open, quietNow, toldNow, saidNow
  <2> QED BY <2>2 DEF Contract!Next
<1>5. CASE /\ ~FreePass(d) /\ ~unauthorized_fired[d]
           /\ unauthorized_fired' = [unauthorized_fired EXCEPT ![d] = TRUE]
           /\ alerts' = {[type |-> "unauthorized", door |-> d]}
  <2>1. "unauthorized" \notin toldNow[d] /\ d \notin quietNow
    BY <1>5 DEF toldNow, Told, quietNow
  <2>2. toldNow' = [toldNow EXCEPT ![d] = @ \cup {"unauthorized"}]
    BY <1>2, <1>5 DEF toldNow, Told, IInv, TypeOK
  <2>3. saidNow' = {<<d, "unauthorized">>}
    BY <1>5 DEF saidNow
  <2>4. Contract!Open(d)
    BY <1>2, <1>3, <2>1, <2>2, <2>3 DEF Contract!Open, quietNow, toldNow, saidNow
  <2> QED BY <2>4 DEF Contract!Next
<1>6. \/ unauthorized_fired' = unauthorized_fired /\ alerts' = {}
      \/ /\ ~FreePass(d) /\ ~unauthorized_fired[d]
         /\ unauthorized_fired' = [unauthorized_fired EXCEPT ![d] = TRUE]
         /\ alerts' = {[type |-> "unauthorized", door |-> d]}
  <2> DEFINE breach == {e \in {e \in {d} : ~FreePass(e)'} :
                           /\ "watchdog" = "watchdog"
                           /\ ~Authorized(e)
                           /\ ~unauthorized_fired[e]}
  <2>1. /\ unauthorized_fired' = [e \in Doors |-> e \in breach \/ unauthorized_fired[e]]
        /\ alerts' = {[type |-> "unauthorized", door |-> e] : e \in breach}
    BY DEF HandleOpen
  <2>2. breach = {} \/ (breach = {d} /\ ~FreePass(d) /\ ~unauthorized_fired[d])
    BY <1>1
  <2> HIDE DEF breach
  <2> QED BY <2>1, <2>2 DEF IInv, TypeOK
<1> QED BY <1>4, <1>5, <1>6

\* A watchdog that ends is a ReportHeldOpen of the contract, or says nothing.
LEMMA WakeStep == ASSUME IInv, NEW d \in Doors, Wake(d) PROVE Contract!Next
<1>1. PICK w \in sleeping[d] : HeldOpenWatchdog(d, w)
  BY DEF Wake
<1>2. dps[d] = "open" /\ ~FreePass(d)
  BY DEF IInv, WatchdogJustified
<1>3. dps' = dps /\ unauthorized_fired' = unauthorized_fired /\ UNCHANGED passVars
  BY <1>1 DEF HeldOpenWatchdog
<1>4. CASE held_open_fired' = held_open_fired /\ alerts' = {}
  BY <1>3, <1>4, UnseenStep
<1>5. CASE /\ ~held_open_fired[d]
           /\ held_open_fired' = [held_open_fired EXCEPT ![d] = TRUE]
           /\ alerts' = {[type |-> "held_open", door |-> d, source |-> w.source]}
  <2>1. "held_open" \notin toldNow[d] /\ d \notin quietNow
    BY <1>2, <1>5 DEF toldNow, Told, quietNow
  <2>2. toldNow' = [toldNow EXCEPT ![d] = @ \cup {"held_open"}]
    BY <1>3, <1>5 DEF toldNow, Told, IInv, TypeOK
  <2>3. quietNow' = quietNow /\ saidNow' = {<<d, "held_open">>}
    BY <1>3, <1>5 DEF quietNow, FreePass, passVars, saidNow
  <2>4. Contract!ReportHeldOpen(d)
    BY <1>2, <1>3, <2>1, <2>2, <2>3
    DEF Contract!ReportHeldOpen, quietNow, toldNow, saidNow
  <2> QED BY <2>4 DEF Contract!Next
<1> QED BY <1>1, <1>4, <1>5 DEF HeldOpenWatchdog

\* Every step of the state machine is a step of the contract or a stutter.
LEMMA ContractStep == IInv /\ [Next]_vars => [Contract!Next]_Contract!vars
<1> SUFFICES ASSUME IInv, [Next]_vars PROVE [Contract!Next]_Contract!vars
  OBVIOUS
<1>1. CASE Seeding
  <2>1. CASE StartStream
    BY <2>1, UnseenStep DEF StartStream, openVars
  <2> QED BY <1>1, <2>1, SeedStep DEF Seeding
<1>2. CASE Unlocking
  BY <1>2, UnseenStep
  DEF Unlocking, OnUnlockEvent, OnRemoteUnlock, OnAccessLog, openVars
<1>3. CASE Moving
  BY <1>3, OpenStep, CloseStep DEF Moving, OnDps
<1>4. CASE Passing
  <2>1. ASSUME NEW d \in Doors, OnScheduleActivate(d) PROVE Contract!Next
    BY <2>1, UnseenStep DEF OnScheduleActivate, openVars
  <2>2. ASSUME NEW d \in Doors, NEW a, OnTemporaryStart(d, a) PROVE Contract!Next
    BY <2>2, UnseenStep DEF OnTemporaryStart, openVars
  <2>3. ASSUME NEW d \in Doors, OnScheduleDeactivate(d) \/ OnTemporaryEnd(d)
        PROVE  Contract!Next
    BY <2>3, SweepUnseen DEF OnScheduleDeactivate, OnTemporaryEnd, FreePassEnd
  <2>4. ASSUME NEW mode, OnEmergency(mode) PROVE Contract!Next
    BY <2>4, UnseenStep, SweepUnseen DEF OnEmergency, openVars
  <2> QED BY <1>4, <2>1, <2>2, <2>3, <2>4 DEF Passing
<1>5. CASE \E d \in Doors : Wake(d)
  BY <1>5, WakeStep
<1>6. CASE Tick
  BY <1>6, UnseenStep DEF Tick
<1>7. CASE UNCHANGED vars
  BY <1>7 DEF vars, openVars, passVars, Contract!vars, FreePass, Told
<1> QED BY <1>1, <1>2, <1>3, <1>4, <1>5, <1>6, <1>7 DEF Next

\* The state machine implements AlertContract: alerts only for open doors under no
\* free pass, and each kind at most once per opening.
THEOREM Refinement == Spec => KeepsContract
<1>1. Init => Contract!Init
  BY ContractInit
<1>2. IInv /\ [Next]_vars => [Contract!Next]_Contract!vars
  BY ContractStep
<1> QED BY <1>1, <1>2, Invariance, PTL DEF Spec, KeepsContract, Contract!Spec
=============================================================================
