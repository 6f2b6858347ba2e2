------------------------- MODULE DetectionPipeline -------------------------
(***************************************************************************)
(* The detection core of unifi-door-watcher: the per-door state machine of *)
(* detect/pipeline.py over the registry of state.py, seeded at startup by  *)
(* access/seed.py.                                                         *)
(*                                                                         *)
(* Everything runs on one asyncio loop and no handler suspends halfway, so *)
(* a handler is one action.  What does interleave with the handlers are    *)
(* the held-open watchdogs (one sleeping asyncio task per started timer),  *)
(* the clock, and, at startup, the seeding coroutine, which suspends       *)
(* between two doors.                                                      *)
(*                                                                         *)
(* Time stamps are kept as ages: last_unlock_age is now - last_unlock_at   *)
(* and opened_age is now - opened_at.  Tick adds one to every age and      *)
(* takes one off every sleep.  Ages stop at AgeCap, past every threshold   *)
(* they are compared with.                                                 *)
(***************************************************************************)
EXTENDS Integers, FiniteSets

CONSTANTS
    Doors,        \* ids of the configured doors
    Grace,        \* Grace[d]: grace_seconds of door d, in ticks
    HeldOpen,     \* HeldOpen[d]: held_open_seconds of door d, in ticks
    ConfigIndex,  \* ConfigIndex[d]: place of d in the config file
    Actors,       \* people who unlock doors
    DeviceOf,     \* DeviceOf[d]: UAH device that controls d
    LogWindow,    \* max_age of the audit-log attribution (10s in the code)
    AgeCap,       \* bound on the ages
    TaskIds,      \* identities of watchdog tasks
    None          \* Python's None

(***************************************************************************)
(* Per-door values are numbers of ticks.  [defaults] is not validated, so  *)
(* a threshold may be negative.  The cap lies past every grace period and  *)
(* every window, and does not cut a held-open delay short.                 *)
(***************************************************************************)
ASSUME TimesAssumption ==
    /\ AgeCap \in Nat
    /\ LogWindow \in Nat
    /\ LogWindow < AgeCap
    /\ Grace \in [Doors -> Int]
    /\ HeldOpen \in [Doors -> Int]
    /\ \A d \in Doors : Grace[d] < AgeCap /\ HeldOpen[d] <= AgeCap

(***************************************************************************)
(* The registry is a dict in config order, so no two doors share a place.  *)
(***************************************************************************)
ASSUME ConfigAssumption ==
    /\ ConfigIndex \in [Doors -> Nat]
    /\ \A d, e \in Doors : ConfigIndex[d] = ConfigIndex[e] => d = e

ASSUME NamesAssumption ==
    /\ TaskIds # {}
    /\ None \notin TaskIds
    /\ None \notin Actors
    /\ None \notin Nat
    /\ \A d \in Doors : DeviceOf[d] # None

VARIABLES
    phase,                       \* "seeding" until the stream starts
    unseeded,                    \* doors seed_initial_state has not met yet
    dps,                         \* DoorState.dps
    last_unlock_age,             \* age of DoorState.last_unlock_at, or None
    last_unlock_actor,           \* DoorState.last_unlock_actor_id / _name
    last_unlock_object,          \* DoorState.last_unlock_event_object_id
    opened_age,                  \* age of DoorState.opened_at, or None
    held_open_source,            \* DoorState.held_open_source
    unauthorized_fired,          \* DoorState.unauthorized_fired
    held_open_fired,             \* DoorState.held_open_fired
    held_open_task,              \* DoorState.held_open_task: a TaskId or None
    schedule_unlock_active,      \* DoorState.schedule_unlock_active
    temporary_unlock_active,     \* DoorState.temporary_unlock_active
    emergency_evacuation_active, \* DoorStateRegistry's flag
    sleeping,                    \* live watchdog tasks of each door
    alerts                       \* alerts emitted by the latest step

startVars  == <<phase, unseeded>>
unlockVars == <<last_unlock_age, last_unlock_actor, last_unlock_object>>
openVars   == <<dps, opened_age, held_open_source,
                unauthorized_fired, held_open_fired>>
taskVars   == <<held_open_task, sleeping>>
passVars   == <<schedule_unlock_active, temporary_unlock_active,
                emergency_evacuation_active>>
vars == <<startVars, unlockVars, openVars, taskVars, passVars, alerts>>

Ages    == 0 .. AgeCap
Sources == {"watchdog", "startup_open", "schedule_ended",
            "temporary_ended", "emergency_ended"}
Devices == {DeviceOf[d] : d \in Doors}
Tasks   == [id : TaskIds, left : Ages, source : Sources]
Alerts  == [type : {"unauthorized"}, door : Doors]
             \cup [type : {"held_open"}, door : Doors, source : Sources]

\* The type of every variable: what DoorState and DoorStateRegistry can hold.
TypeOK ==
    /\ phase \in {"seeding", "live"}
    /\ unseeded \subseteq Doors
    /\ dps \in [Doors -> {"open", "close", "unknown"}]
    /\ last_unlock_age \in [Doors -> Ages \cup {None}]
    /\ last_unlock_actor \in [Doors -> Actors \cup {None}]
    /\ last_unlock_object \in [Doors -> Devices \cup {None}]
    /\ opened_age \in [Doors -> Ages \cup {None}]
    /\ held_open_source \in [Doors -> Sources]
    /\ unauthorized_fired \in [Doors -> BOOLEAN]
    /\ held_open_fired \in [Doors -> BOOLEAN]
    /\ held_open_task \in [Doors -> TaskIds \cup {None}]
    /\ schedule_unlock_active \in [Doors -> BOOLEAN]
    /\ temporary_unlock_active \in [Doors -> BOOLEAN]
    /\ emergency_evacuation_active \in BOOLEAN
    /\ sleeping \in [Doors -> SUBSET Tasks]
    /\ alerts \subseteq Alerts

-----------------------------------------------------------------------------
(* Helpers: what the code computes without changing state.                 *)

\* A definition named Faulty... is a variant of the one that follows it with a
\* plausible bug.  Nothing uses it: it is put in the place of the right one to see
\* that the property it should break is able to fail.

\* DoorStateRegistry.free_pass
FreePass(d) ==
    \/ schedule_unlock_active[d]
    \/ temporary_unlock_active[d]
    \/ emergency_evacuation_active

FaultyAuthorized(d) == last_unlock_age[d] # None /\ last_unlock_age[d] < Grace[d]

\* The grace test of _handle_open: an unlock is recorded and recent enough.
Authorized(d) == last_unlock_age[d] # None /\ last_unlock_age[d] <= Grace[d]

\* asyncio.sleep of a delay that is zero or negative returns at once.
Delay(d) == IF HeldOpen[d] > 0 THEN HeldOpen[d] ELSE 0

FaultySurvivors(d) == sleeping[d]

\* The live tasks of d once the one in its slot has been cancelled.
Survivors(d) == {w \in sleeping[d] : w.id # held_open_task[d]}

FreshTask(d) == CHOOSE id \in TaskIds : \A w \in Survivors(d) : w.id # id

\* An age one tick later.
Aged(age) == IF age = None \/ age = AgeCap THEN age ELSE age + 1

FaultyRecentUnlocks(device) ==
    {d \in Doors : last_unlock_object[d] = device /\ last_unlock_age[d] # None}

\* The door find_recent_unlock_by_event_object_id returns is the first of these
\* in config order.
RecentUnlocks(device) ==
    {d \in Doors : /\ last_unlock_object[d] = device
                   /\ last_unlock_age[d] # None
                   /\ last_unlock_age[d] <= LogWindow}

\* _classify_lock_rule: the rule is fetched only for an unlocked relay, and a
\* failed fetch (None) counts as no rule.
ScheduleRule(relay, rule)  == relay = "unlock" /\ rule = "schedule"
TemporaryRule(relay, rule) == relay = "unlock" /\ rule \in {"keep_unlock", "custom"}

-----------------------------------------------------------------------------
(* The internal routines the handlers share, for a set S of doors.  An     *)
(* action that opens a door sets the free-pass flags first: HandleOpen     *)
(* reads FreePass(d)'.                                                     *)

FaultyCancelHeldOpen(S) ==
    /\ held_open_task' = [d \in Doors |-> IF d \in S THEN None ELSE held_open_task[d]]
    /\ UNCHANGED sleeping

\* _cancel_held_open: cancelling wins over a wake-up that is due but has not run.
CancelHeldOpen(S) ==
    /\ held_open_task' = [d \in Doors |-> IF d \in S THEN None ELSE held_open_task[d]]
    /\ sleeping' = [d \in Doors |-> IF d \in S THEN Survivors(d) ELSE sleeping[d]]

FaultyStartWatchdogs(S, source) ==
    LET untimed == {d \in S : sleeping[d] = {}}
    IN  /\ held_open_task' =
             [d \in Doors |-> IF d \in untimed THEN FreshTask(d) ELSE held_open_task[d]]
        /\ sleeping' =
             [d \in Doors |->
                IF d \in untimed
                THEN {[id |-> FreshTask(d), left |-> Delay(d), source |-> source]}
                ELSE sleeping[d]]

\* The end of _handle_open: cancel the previous watchdog, create a fresh one.
StartWatchdogs(S, source) ==
    /\ held_open_task' =
         [d \in Doors |-> IF d \in S THEN FreshTask(d) ELSE held_open_task[d]]
    /\ sleeping' =
         [d \in Doors |->
            IF d \in S
            THEN Survivors(d) \cup {[id |-> FreshTask(d), left |-> Delay(d), source |-> source]}
            ELSE sleeping[d]]

\* _handle_open for every door of S.  Its free-pass test reads the flags as the
\* caller has just set them, hence FreePass(d)'.
HandleOpen(S, source) ==
    LET timed  == {d \in S : ~FreePass(d)'}
        breach == {d \in timed : /\ source = "watchdog"
                                 /\ ~Authorized(d)
                                 /\ ~unauthorized_fired[d]}
    IN  /\ dps' = [d \in Doors |-> IF d \in S THEN "open" ELSE dps[d]]
        /\ opened_age' = [d \in Doors |-> IF d \in S THEN 0 ELSE opened_age[d]]
        /\ held_open_source' =
             [d \in Doors |-> IF d \in S THEN source ELSE held_open_source[d]]
        /\ unauthorized_fired' =
             [d \in Doors |-> d \in breach \/ unauthorized_fired[d]]
        /\ alerts' = {[type |-> "unauthorized", door |-> d] : d \in breach}
        /\ StartWatchdogs(timed, source)
        /\ UNCHANGED held_open_fired

-----------------------------------------------------------------------------
(* Startup: access/seed.py, then the stream takes over.                     *)

Init ==
    /\ phase = "seeding"
    /\ unseeded = Doors
    /\ dps = [d \in Doors |-> "unknown"]
    /\ last_unlock_age = [d \in Doors |-> None]
    /\ last_unlock_actor = [d \in Doors |-> None]
    /\ last_unlock_object = [d \in Doors |-> None]
    /\ opened_age = [d \in Doors |-> None]
    /\ held_open_source = [d \in Doors |-> "watchdog"]
    /\ unauthorized_fired = [d \in Doors |-> FALSE]
    /\ held_open_fired = [d \in Doors |-> FALSE]
    /\ held_open_task = [d \in Doors |-> None]
    /\ schedule_unlock_active = [d \in Doors |-> FALSE]
    /\ temporary_unlock_active = [d \in Doors |-> FALSE]
    /\ emergency_evacuation_active = FALSE
    /\ sleeping = [d \in Doors |-> {}]
    /\ alerts = {}

FaultySeedDoor(d, status, relay, rule) ==
    /\ phase = "seeding"
    /\ d \in unseeded
    /\ unseeded' = unseeded \ {d}
    /\ schedule_unlock_active' =
         [schedule_unlock_active EXCEPT ![d] = ScheduleRule(relay, rule)]
    /\ temporary_unlock_active' =
         [temporary_unlock_active EXCEPT ![d] = TemporaryRule(relay, rule)]
    /\ UNCHANGED <<phase, unlockVars, emergency_evacuation_active>>
    /\ \/ /\ status = "open"
          /\ HandleOpen({d}, "startup_open")
       \/ /\ status # "open"
          /\ dps' = [dps EXCEPT ![d] = status]
          /\ alerts' = {}
          /\ UNCHANGED <<opened_age, held_open_source, unauthorized_fired,
                         held_open_fired, taskVars>>

\* seed_door for the next door of the response.  status is None for a position
\* that is missing or unknown; the flags are set in every case.
SeedDoor(d, status, relay, rule) ==
    /\ phase = "seeding"
    /\ d \in unseeded
    /\ unseeded' = unseeded \ {d}
    /\ schedule_unlock_active' =
         [schedule_unlock_active EXCEPT ![d] = ScheduleRule(relay, rule)]
    /\ temporary_unlock_active' =
         [temporary_unlock_active EXCEPT ![d] = TemporaryRule(relay, rule)]
    /\ UNCHANGED <<phase, unlockVars, emergency_evacuation_active>>
    /\ \/ /\ status = "open"
          /\ HandleOpen({d}, "startup_open")
       \/ /\ status = "close"
          /\ dps' = [dps EXCEPT ![d] = "close"]
          /\ alerts' = {}
          /\ UNCHANGED <<opened_age, held_open_source, unauthorized_fired,
                         held_open_fired, taskVars>>
       \/ /\ status = None
          /\ alerts' = {}
          /\ UNCHANGED <<openVars, taskVars>>

\* seed_initial_state has returned.  Doors the controller did not list, all of
\* them when list_doors failed, stay as they are.
StartStream ==
    /\ phase = "seeding"
    /\ phase' = "live"
    /\ alerts' = {}
    /\ UNCHANGED <<unseeded, unlockVars, openVars, taskVars, passVars>>

-----------------------------------------------------------------------------
(* Handlers of stream events.  An event of a door that is not configured    *)
(* changes nothing (_resolve), so d ranges over the configured doors.       *)

\* What every unlock records; the actor is None when the event names nobody.
RecordUnlock(d, actor) ==
    /\ last_unlock_age' = [last_unlock_age EXCEPT ![d] = 0]
    /\ last_unlock_actor' = [last_unlock_actor EXCEPT ![d] = actor]

\* access.door.unlock: a result that is present and not a grant is ignored.  The
\* device id a remote unlock has stashed stays where it is.
OnUnlockEvent(d, result, actor) ==
    /\ phase = "live"
    /\ result # "denied"
    /\ RecordUnlock(d, actor)
    /\ alerts' = {}
    /\ UNCHANGED <<startVars, last_unlock_object, openVars, taskVars, passVars>>

FaultyOnRemoteUnlock(d, actor, object) ==
    /\ phase = "live"
    /\ RecordUnlock(d, object)
    /\ last_unlock_object' = [last_unlock_object EXCEPT ![d] = actor]
    /\ alerts' = {}
    /\ UNCHANGED <<startVars, openVars, taskVars, passVars>>

\* access.data.device.remote_unlock
OnRemoteUnlock(d, actor, object) ==
    /\ phase = "live"
    /\ RecordUnlock(d, actor)
    /\ last_unlock_object' = [last_unlock_object EXCEPT ![d] = object]
    /\ alerts' = {}
    /\ UNCHANGED <<startVars, openVars, taskVars, passVars>>

FaultyOnAccessLog(device, actor) ==
    /\ phase = "live"
    /\ \E d \in RecentUnlocks(device) :
         /\ \A e \in RecentUnlocks(device) : ConfigIndex[d] <= ConfigIndex[e]
         /\ last_unlock_actor' = [last_unlock_actor EXCEPT ![d] = actor]
    /\ alerts' = {}
    /\ UNCHANGED <<startVars, last_unlock_age, last_unlock_object, openVars,
                   taskVars, passVars>>

\* access.logs.add with result ACCESS: name the actor of the first door whose
\* recent unlock carries this device, unless that unlock names one already.
OnAccessLog(device, actor) ==
    /\ phase = "live"
    /\ \E d \in RecentUnlocks(device) :
         /\ \A e \in RecentUnlocks(device) : ConfigIndex[d] <= ConfigIndex[e]
         /\ last_unlock_actor[d] = None
         /\ last_unlock_actor' = [last_unlock_actor EXCEPT ![d] = actor]
    /\ alerts' = {}
    /\ UNCHANGED <<startVars, last_unlock_age, last_unlock_object, openVars,
                   taskVars, passVars>>

FaultyHandleClose(d) ==
    /\ dps' = [dps EXCEPT ![d] = "close"]
    /\ opened_age' = [opened_age EXCEPT ![d] = None]
    /\ held_open_source' = [held_open_source EXCEPT ![d] = "watchdog"]
    /\ unauthorized_fired' = [unauthorized_fired EXCEPT ![d] = FALSE]
    /\ CancelHeldOpen({d})
    /\ alerts' = {}
    /\ UNCHANGED held_open_fired

\* _handle_close
HandleClose(d) ==
    /\ dps' = [dps EXCEPT ![d] = "close"]
    /\ opened_age' = [opened_age EXCEPT ![d] = None]
    /\ held_open_source' = [held_open_source EXCEPT ![d] = "watchdog"]
    /\ unauthorized_fired' = [unauthorized_fired EXCEPT ![d] = FALSE]
    /\ held_open_fired' = [held_open_fired EXCEPT ![d] = FALSE]
    /\ CancelHeldOpen({d})
    /\ alerts' = {}

\* access.device.dps_status
OnDps(d, status) ==
    /\ phase = "live"
    /\ UNCHANGED <<startVars, unlockVars, passVars>>
    /\ \/ status = "open" /\ HandleOpen({d}, "watchdog")
       \/ status = "close" /\ HandleClose(d)

FaultyOnScheduleActivate(d) ==
    /\ phase = "live"
    /\ schedule_unlock_active' = [schedule_unlock_active EXCEPT ![d] = TRUE]
    /\ alerts' = {}
    /\ UNCHANGED <<startVars, unlockVars, openVars, taskVars,
                   temporary_unlock_active, emergency_evacuation_active>>

\* access.unlock_schedule.activate
OnScheduleActivate(d) ==
    /\ phase = "live"
    /\ schedule_unlock_active' = [schedule_unlock_active EXCEPT ![d] = TRUE]
    /\ CancelHeldOpen({d})
    /\ alerts' = {}
    /\ UNCHANGED <<startVars, unlockVars, openVars, temporary_unlock_active,
                   emergency_evacuation_active>>

\* access.temporary_unlock.start: also counts as an unlock.
OnTemporaryStart(d, actor) ==
    /\ phase = "live"
    /\ temporary_unlock_active' = [temporary_unlock_active EXCEPT ![d] = TRUE]
    /\ RecordUnlock(d, actor)
    /\ CancelHeldOpen({d})
    /\ alerts' = {}
    /\ UNCHANGED <<startVars, last_unlock_object, openVars,
                   schedule_unlock_active, emergency_evacuation_active>>

FaultySweep(S, source) ==
    /\ UNCHANGED <<openVars, taskVars>>
    /\ alerts' = {}

\* After a free pass has ended: a synthetic open for the doors of S that are
\* open and under no other free pass.
Sweep(S, source) == HandleOpen({d \in S : dps[d] = "open" /\ ~FreePass(d)'}, source)

\* _free_pass_end, once its caller has cleared the flag.
FreePassEnd(d, source) ==
    /\ phase = "live"
    /\ UNCHANGED <<startVars, unlockVars, emergency_evacuation_active>>
    /\ Sweep({d}, source)

\* access.unlock_schedule.deactivate
OnScheduleDeactivate(d) ==
    /\ schedule_unlock_active' = [schedule_unlock_active EXCEPT ![d] = FALSE]
    /\ UNCHANGED temporary_unlock_active
    /\ FreePassEnd(d, "schedule_ended")

\* access.temporary_unlock.end
OnTemporaryEnd(d) ==
    /\ temporary_unlock_active' = [temporary_unlock_active EXCEPT ![d] = FALSE]
    /\ UNCHANGED schedule_unlock_active
    /\ FreePassEnd(d, "temporary_ended")

\* access.device.emergency_status: evacuation cancels every watchdog; any other
\* mode ends an evacuation, and does nothing when there is none.
OnEmergency(mode) ==
    /\ phase = "live"
    /\ UNCHANGED <<startVars, unlockVars, schedule_unlock_active,
                   temporary_unlock_active>>
    /\ \/ /\ mode = "evacuation"
          /\ emergency_evacuation_active' = TRUE
          /\ CancelHeldOpen(Doors)
          /\ alerts' = {}
          /\ UNCHANGED openVars
       \/ /\ mode # "evacuation"
          /\ emergency_evacuation_active
          /\ emergency_evacuation_active' = FALSE
          /\ Sweep(Doors, "emergency_ended")

-----------------------------------------------------------------------------
(* The loop itself: watchdogs waking up, and time passing.                  *)

FaultyHeldOpenWatchdog(d, w) ==
    /\ w.left = 0
    /\ sleeping' = [sleeping EXCEPT ![d] = @ \ {w}]
    /\ IF dps[d] = "open" /\ ~FreePass(d)
       THEN /\ held_open_fired' = [held_open_fired EXCEPT ![d] = TRUE]
            /\ alerts' = {[type |-> "held_open", door |-> d, source |-> w.source]}
       ELSE alerts' = {} /\ UNCHANGED held_open_fired
    /\ UNCHANGED <<startVars, unlockVars, dps, opened_age, held_open_source,
                   unauthorized_fired, held_open_task, passVars>>

\* _held_open_watchdog from the end of its sleep: it looks at the state again
\* before it speaks.  The slot keeps the finished task.
HeldOpenWatchdog(d, w) ==
    /\ w.left = 0
    /\ sleeping' = [sleeping EXCEPT ![d] = @ \ {w}]
    /\ IF dps[d] = "open" /\ ~held_open_fired[d] /\ ~FreePass(d)
       THEN /\ held_open_fired' = [held_open_fired EXCEPT ![d] = TRUE]
            /\ alerts' = {[type |-> "held_open", door |-> d, source |-> w.source]}
       ELSE alerts' = {} /\ UNCHANGED held_open_fired
    /\ UNCHANGED <<startVars, unlockVars, dps, opened_age, held_open_source,
                   unauthorized_fired, held_open_task, passVars>>

Wake(d) == \E w \in sleeping[d] : HeldOpenWatchdog(d, w)

\* One tick.  It does not wait for a due watchdog: the loop may be late.
Tick ==
    /\ last_unlock_age' = [d \in Doors |-> Aged(last_unlock_age[d])]
    /\ opened_age' = [d \in Doors |-> Aged(opened_age[d])]
    /\ sleeping' =
         [d \in Doors |->
            {[w EXCEPT !.left = IF @ > 0 THEN @ - 1 ELSE 0] : w \in sleeping[d]}]
    /\ alerts' = {}
    /\ UNCHANGED <<startVars, last_unlock_actor, last_unlock_object, dps,
                   held_open_source, unauthorized_fired, held_open_fired,
                   held_open_task, passVars>>

-----------------------------------------------------------------------------

Persons == Actors \cup {None}

Seeding ==
    \/ \E d \in Doors, status \in {"open", "close", None},
          relay \in {"lock", "unlock"},
          rule \in {"schedule", "keep_unlock", "custom", "keep_lock", None} :
            SeedDoor(d, status, relay, rule)
    \/ StartStream

Unlocking ==
    \/ \E d \in Doors, result \in {"granted", "absent", "denied"}, a \in Persons :
            OnUnlockEvent(d, result, a)
    \/ \E d \in Doors, a \in Persons :
            \E object \in {DeviceOf[d], None} : OnRemoteUnlock(d, a, object)
    \/ \E device \in Devices, a \in Persons : OnAccessLog(device, a)

Moving == \E d \in Doors, status \in {"open", "close"} : OnDps(d, status)

Passing ==
    \/ \E d \in Doors : OnScheduleActivate(d) \/ OnScheduleDeactivate(d) \/ OnTemporaryEnd(d)
    \/ \E d \in Doors, a \in Persons : OnTemporaryStart(d, a)
    \/ \E mode \in {"evacuation", "lockdown", "normal"} : OnEmergency(mode)

Next == Seeding \/ Unlocking \/ Moving \/ Passing \/ (\E d \in Doors : Wake(d)) \/ Tick

Spec == Init /\ [][Next]_vars

\* The event loop runs every task that is ready, and time passes.
Fairness == WF_vars(Tick) /\ \A d \in Doors : WF_vars(Wake(d))

FairSpec == Spec /\ Fairness

-----------------------------------------------------------------------------
(* Safety.                                                                  *)

\* A door has at most one live watchdog, and it is the one in its slot: no task
\* the state machine has lost sight of can ever raise an alert.
SingleWatchdog ==
    \A d \in Doors : \A w \in sleeping[d] :
        /\ w.id = held_open_task[d]
        /\ sleeping[d] = {w}

\* A watchdog sleeps only for a door that is open and under no free pass, in
\* every order of closes, reopenings, passes that start or end, and evacuations.
WatchdogJustified ==
    \A d \in Doors : sleeping[d] # {} => dps[d] = "open" /\ ~FreePass(d)

\* An open door that may be reported is timed: nothing cancels its watchdog, and
\* no free pass ends, without a new watchdog taking over.
OpenDoorIsTimed ==
    \A d \in Doors :
        dps[d] = "open" /\ ~FreePass(d) /\ ~held_open_fired[d] => sleeping[d] # {}

\* What a watchdog has left is what is missing from opened_at to the threshold,
\* and it names the source that opened_at was set from.
WatchdogMeasuresOpening ==
    \A d \in Doors : \A w \in sleeping[d] :
        /\ w.left = IF opened_age[d] < Delay(d) THEN Delay(d) - opened_age[d] ELSE 0
        /\ w.source = held_open_source[d]

\* opened_at and the once-per-opening flags describe the opening in course: a
\* door that is not open has none of them left over from an earlier one.
FlagsBelongToOpening ==
    \A d \in Doors :
        /\ opened_age[d] = None <=> dps[d] # "open"
        /\ unauthorized_fired[d] \/ held_open_fired[d] => dps[d] = "open"

\* An alert concerns an open door under no free pass and is remembered by its
\* flag.  A held-open alert comes when the threshold has passed since opened_at,
\* an unauthorized one at the opening itself and with no unlock in the grace time.
AlertsAreDue ==
    \A a \in alerts :
        /\ dps[a.door] = "open"
        /\ ~FreePass(a.door)
        /\ a.type = "held_open" =>
             /\ held_open_fired[a.door]
             /\ opened_age[a.door] >= Delay(a.door)
        /\ a.type = "unauthorized" =>
             /\ unauthorized_fired[a.door]
             /\ opened_age[a.door] = 0
             /\ last_unlock_age[a.door] = None \/ last_unlock_age[a.door] > Grace[a.door]

\* During startup a door is unknown until the seeding coroutine meets it: nothing
\* can have spoken of it before.
UnseededAreUnknown == phase = "seeding" => \A d \in unseeded : dps[d] = "unknown"

\* The inductive invariant: every part above, each needed by the others' steps.
IInv ==
    /\ TypeOK
    /\ SingleWatchdog
    /\ WatchdogJustified
    /\ OpenDoorIsTimed
    /\ WatchdogMeasuresOpening
    /\ FlagsBelongToOpening
    /\ AlertsAreDue
    /\ UnseededAreUnknown

\* Steps

\* A watchdog that ends without having been cancelled reports its door, unless
\* this opening has been reported already: the checks it makes after its sleep
\* never swallow an alert, because whatever makes them fail cancels it first.
EveryRunOutAlerts ==
    [][\A d \in Doors :
          /\ sleeping[d] # {}
          /\ sleeping'[d] = {}
          /\ held_open_task'[d] = held_open_task[d]
          /\ ~held_open_fired[d]
          => \E a \in alerts' : a.type = "held_open" /\ a.door = d]_vars

\* Every opening seen by the stream is judged afresh, and at once: it is reported
\* exactly when no free pass holds and no unlock is as recent as the grace time.
\* Nothing an earlier opening left behind can hide it.
EveryOpeningIsJudged ==
    [][\A d \in Doors :
          phase = "live" /\ dps[d] # "open" /\ dps'[d] = "open"
          => ( (\E a \in alerts' : a.type = "unauthorized" /\ a.door = d)
                 <=> ~FreePass(d) /\ last_unlock_age[d] \notin 0 .. Grace[d] )]_vars

\* Who unlocked a door is told by the unlock itself, or filled in within the
\* window for a remote unlock that named nobody: an audit log never replaces a
\* person, and never names one for an old unlock or one it cannot match.
AttributionOnlyFills ==
    [][\A d \in Doors :
          last_unlock_actor'[d] # last_unlock_actor[d] =>
            \/ last_unlock_age'[d] = 0
            \/ /\ last_unlock_actor[d] = None
               /\ last_unlock_object[d] # None
               /\ last_unlock_age[d] \in 0 .. LogWindow]_vars

\* The state machine keeps the promises of AlertContract.  An opening lasts from
\* the first "open" to the next "close": repeated "open" reports, free passes and
\* evacuations that come and go do not make it a new one.
Told(d) == {k \in {"unauthorized", "held_open"} :
              \/ k = "unauthorized" /\ unauthorized_fired[d]
              \/ k = "held_open" /\ held_open_fired[d]}

Contract == INSTANCE AlertContract WITH
    position <- dps,
    quiet    <- {d \in Doors : FreePass(d)},
    told     <- [d \in Doors |-> Told(d)],
    alerts   <- {<<a.door, a.type>> : a \in alerts}

KeepsContract == Contract!Spec

-----------------------------------------------------------------------------
(* Liveness, under FairSpec.                                                *)

\* A door that stays open is reported: once it has been open for a tick, it is
\* reported, or closes, or comes under a free pass, or its opening starts anew.
OpenDoorIsReported ==
    \A d \in Doors :
        (dps[d] = "open" /\ ~FreePass(d) /\ opened_age[d] > 0)
          ~> (held_open_fired[d] \/ dps[d] # "open" \/ FreePass(d) \/ opened_age[d] = 0)

-----------------------------------------------------------------------------
(* What the documentation says and the code does not do.                    *)

\* README.md: "Held open. DPS stays open past held_open_seconds".  A door that
\* stays open under no free pass for ever is reported.  It is not when the sensor
\* repeats "open" more often than the threshold: _handle_open starts over.
DoorLeftOpenIsReported ==
    \A d \in Doors :
        <>[](dps[d] = "open" /\ ~FreePass(d)) => <>held_open_fired[d]

\* README.md: the alert is fired "when a door is opened without authorization".
\* It is fired too for a door that was opened with it (or under a free pass, or
\* before the start) when the sensor repeats "open" after the grace time.
UnauthorizedMeansOpened ==
    [][\A d \in Doors :
          (\E a \in alerts' : a.type = "unauthorized" /\ a.door = d) => dps[d] # "open"]_vars
=============================================================================
