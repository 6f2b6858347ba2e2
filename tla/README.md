# Verification of unifi-door-watcher

unifi-door-watcher listens to a UniFi Access controller and makes a UniFi Protect
alarm ring when a door is opened without authorization or held open too long.
This directory holds TLA+ specifications of the program, TLC configurations that
check them on small instances, and proofs, checked by TLAPS, that hold for any
number of doors, any thresholds, any capacities and any config file.

- [1. The system](#1-the-system)
- [2. The modules](#2-the-modules)
- [3. From the code to the specification](#3-from-the-code-to-the-specification)
- [4. The properties](#4-the-properties)
- [5. The runs](#5-the-runs)
- [6. The proofs](#6-the-proofs)
- [7. Where the documentation and the code disagree](#7-where-the-documentation-and-the-code-disagree)
- [8. What is not modelled](#8-what-is-not-modelled)
- [9. Plan](#9-plan)

Paths below are relative to the Python package, `src/unifi_door_watcher/`, unless
they start with `scripts/`, `deploy/`, `tests/` or `README`.

## 1. The system

One process, one asyncio event loop, no threads. Nothing is persisted: a restart
begins with an empty state that is filled from the controller.

| Component | State | Operations | Talks to |
|---|---|---|---|
| **Detection pipeline** `detect/pipeline.py`, `state.py` | one `DoorState` per configured door (position, latest unlock, opening, once-per-opening flags, watchdog task, free passes) and one evacuation flag | `handle(event)` → nine handlers; `seed_door`; the watchdog coroutine | called by the stream and by seeding; sends alerts to the sink in fire-and-forget tasks |
| **Startup seeding** `access/seed.py` | none of its own | `seed_initial_state`: list the doors, ask the lock rule of unlocked ones, `seed_door` each | REST client, pipeline |
| **Event stream** `access/stream.py` | connection flag, latest `published`, set of seen event ids, stop event | `_run_forever` (reconcile, connect, back off), `_dispatch`, `_reconcile_if_possible` | websocket, REST client, pipeline |
| **Alert sink** `notify/protect.py`, `notify/dedupe.py` | dedupe table, bounded queue, worker, three counters | `send`, `_run`, `_deliver_with_retries`, `stop` | called by the pipeline; POSTs to Protect |
| **Lifespan** `app.py` | none | start sink, seed, start stream; stop stream, sink, client | all of them |
| **Configuration** `config.py` | the config file | `load_config` with its validation | everyone |
| **Bootstrap scripts** `scripts/` | the config file, the alarms held by Protect | `bootstrap_doors`, `bootstrap_protect_alarms` | Access, Protect, `load_config` |
| **REST client** `access/client.py`, **routes** `routes/health.py`, **models, clock, entry point** | none | requests; read-only views | |

**What is hard in it.** Handlers never suspend halfway, so they do not race with
each other. These do interleave with them:

- *held-open watchdogs*: a sleeping task per started timer, which looks at the
  state again only after its sleep. Opens, closes, schedules, temporary unlocks
  and evacuations, in any order and overlapping, start and cancel them;
- *seeding*, which suspends on a REST call between two doors while watchdogs of
  doors already seeded run and time passes;
- *the delivery worker*, which suspends in the queue, in each POST and in each
  backoff, while alerts are sent, entries of the dedupe table grow old, and the
  service may stop;
- *the network*: events lost while disconnected, replayed by the reconciliation,
  repeated, late; REST calls that fail; POSTs that time out after they took effect;
- *the door itself*, which moves between the snapshot, its seeding and the
  subscription, and while the process is down;
- *the operator*, who edits the config file and Protect's alarms while a script that
  has read both is suspended in a request.

`PROJECT.json` lists these hazards one by one, each at the line where it bites,
with the properties that watch it, or the reason why none does.

**What makes each component correct.**

- *Pipeline*: an open door that no free pass excuses always has exactly one
  watchdog, which measures the opening in course; a watchdog that ends always
  reports; each opening is judged once by the grace rule; flags never outlive
  their opening; each kind of alert is raised at most once per opening; who
  unlocked a door is never rewritten by an audit log.
- *Seeding*: doors not seeded yet are unknown and silent; whatever calls fail, the
  stream starts from a state in which the pipeline's invariants hold.
- *Sink*: every alert is accounted for; repetitions within the window are
  suppressed and nothing else is; the table is bounded and in order; attempts and
  backoffs are bounded; the queue drains.
- *Stream*: no event handled twice, none taken for a repetition that is not, unless its
  own frame could not be read; the connection comes back, and dead ones are noticed; no event after the first connection
  missed unless `system/logs` does not carry it or it is older than the look-back.
- *Attribution*: the name kept with an unlock is that of the person who did it.
- *The whole*: what the watcher reports of a door is true once everything sent has
  arrived, as far as it has been told; a silence and a report are each justified by
  what the door did, whatever was missed; a door left open is reported, also after a
  restart.
- *Bootstrap*: a URL in the config triggers the alarm of its own door and type, however
  often a script was cut short; repeating a run changes nothing; a dry run touches
  nothing; nothing but URLs is written.

## 2. The modules

| Module | Role |
|---|---|
| `AlertContract` | abstract specification: what the program promises about its alerts, without timers, unlocks or sources |
| `DetectionPipeline` | the pipeline with its seeding: state, one action per handler, properties, and the refinement of `AlertContract` |
| `ActorEnrichment` | the pipeline with the people who unlock and the audit logs on their way |
| `AlertSink` | dedupe table, queue and worker, with their properties |
| `EventStream` | connection, poll, replay, liveness timeout and backoff of the stream, with the controller and the network as environment |
| `WatcherSystem` | the pipeline in its world: a door that moves, a feed that delays and loses, the poll of the log, start-up in separate requests, restarts |
| `Bootstrap` | the config file and its validation, Protect's alarms, the two scripts, the operator |
| `MC…` | the values of the constants for TLC, and sub-relations of `Next` where a run uses one |
| `DetectionPipelineProofs`, `ActorEnrichmentProofs`, `AlertSinkProofs`, `EventStreamProofs`, `BootstrapProofs`, `WatcherSystemProofs` | the theorems about the module of that name |
| `EventFeedProofs` | more about `EventStream`: its types, and what it hands over |
| `WatcherHistoryProofs` | more about `WatcherSystem`: what the watcher knows of its door, and why it speaks or is silent |

`ActorEnrichment` and `WatcherSystem` extend `DetectionPipeline` and use its actions as
they are, conjoined with what happens around them. `ActorEnrichmentProofs` and
`WatcherSystemProofs` extend `DetectionPipelineProofs` and reuse its invariant, and
`WatcherHistoryProofs` extends the second of them. The stream and the sink are checked on
their own: `WatcherSystem` replaces the first by what it hands over and when, and the second
takes nothing from the state of the pipeline and gives nothing back to it.

Definitions named `Faulty…` are variants of the definition that follows them with a
plausible bug (a dropped guard, a missing cancel, an off-by-one). No specification
uses them. Put in the place of the right definition, each one breaks the property it
is meant for, which shows that the property can fail.

## 3. From the code to the specification

### DetectionPipeline

*Time.* The code keeps time stamps of a monotonic clock and compares differences. The
module keeps the differences: `last_unlock_age` is `now - last_unlock_at`,
`opened_age` is `now - opened_at`, and a sleeping task carries the ticks it has
`left`. `Tick` advances all of them. Ages stop growing at `AgeCap`, which
`TimesAssumption` puts past every threshold they are compared with, so a capped age
compares as the real one would. `Tick` does not wait for a watchdog that is due: the
loop may be late.

*Variables.* Each field of `DoorState` is a function over `Doors` with the field's
name. `last_unlock_actor` stands for the pair `last_unlock_actor_id` /
`last_unlock_actor_name`, which are always assigned together; `None` is a pair without
id, since the id is what `_on_access_log` tests. `last_unlock_method` is left out:
only the text of an alert reads it. `sleeping[d]` holds the live watchdog tasks of `d`,
each with an identity, the ticks left and its source; `held_open_task[d]` is the slot
`DoorState.held_open_task`. That the two agree is not assumed: it is `SingleWatchdog`.
`alerts` is what `_emit` has been called with in the latest step.

*Actions.* A handler is an action, because it contains no `await` that suspends: the
coroutines it awaits run to their end without yielding. Guards are the handler's
early returns; an event that changes nothing (unknown kind, unknown status, door not
configured, no matching unlock) is no step.

| Code | Definition |
|---|---|
| `seed_initial_state`, `_classify_lock_rule`, `seed_door` | `SeedDoor(d, status, relay, rule)`, with `rule = None` for a failed request |
| `lifespan` after seeding; also a failed or partial `list_doors` | `StartStream` |
| `_on_unlock_event`, `_on_remote_unlock`, `_on_access_log` | `OnUnlockEvent`, `OnRemoteUnlock`, `OnAccessLog` |
| `_on_dps`, `_handle_open`, `_handle_close` | `OnDps`, `HandleOpen`, `HandleClose` |
| `_on_schedule_activate`, `_on_temporary_start` | `OnScheduleActivate`, `OnTemporaryStart` |
| `_free_pass_end` and its two callers | `FreePassEnd`, `OnScheduleDeactivate`, `OnTemporaryEnd` |
| `_on_emergency` with its sweep | `OnEmergency`, `Sweep` |
| `_cancel_held_open`; the end of `_handle_open` | `CancelHeldOpen`, `StartWatchdogs` |
| `_held_open_watchdog` after its sleep | `HeldOpenWatchdog`, `Wake` |
| `free_pass`, `find_recent_unlock_by_event_object_id` | `FreePass`, `RecentUnlocks` |

`HandleOpen` takes a set of doors because the sweep after an evacuation opens several
in one handler. Its callers set the free-pass flags first, so it reads `FreePass(d)'`.
Cancelling a task wins over a wake-up that is due but has not run: asyncio delivers the
cancellation at the task's next step. `find_recent_unlock_by_event_object_id` returns
the first match in config order, hence `ConfigIndex`. Seeding takes the doors in any
order, a superset of the order of the response.

### AlertSink

An alert is its dedupe key, the pair of its door and type. `entries` is the
`OrderedDict` of `TTLDedupe`, oldest first, with ages in place of time stamps. Both
loops of `_evict` are modelled, and the order in `seen`: evict first, then look, then
put the key at the end (`Refreshed`), whether it was there or not. `worker` says where the
worker is: waiting on the queue, in a POST (with the attempt's number), in a backoff (with
the ticks left), or cancelled; `backoff` is the local variable that doubles. The HTTP
exchange is one of three outcomes: a 2xx answer, a failure that is retried (another status,
or an `httpx.HTTPError`), an exception that is not (`PostRaises`). A failed POST may have
made Protect act before its answer was lost: `rings` counts those. `Stop` may come at any
moment; calls of `send` go on after it, as watchdogs are not cancelled at shutdown.
`sends`, `abandoned` and `since` do not exist in the code: they count the calls, count
the alert a cancelled worker held, and remember the latest `send` of each key.

### EventStream

`at` says where the task of `_run_forever` is suspended: in the poll, in the connection,
in `recv()`, in `close()` (called by the code, or on the way out of the `async with` after an
exception), in the backoff. Between two suspensions it does everything in
one step; in particular all hits of a poll are replayed in one, since `on_event` (the
pipeline's `handle`) does not suspend. `Reconcile` takes the hits in any order, stops at
the first one that `_hit_to_event` raises on, and offers those before it one after the other
(`OfferAll`) through `Outcomes`, which is also what `_dispatch` does with a frame. `_remember` may have to forget ids, any
of them, so an offer has a set of outcomes. Ages replace dates as in the pipeline; the
window `until - since` is then `Window`, and `Log` is what `system/logs` answers for it, all
pages together. Payloads are reduced to what the code
distinguishes: which events have an id (`EventId`), a date (`Dated`), a log entry
(`Logged`), and one that can be converted (all but `Malformed`).

A frame is an event, or `None` for the controller's keepalive and anything unreadable, which
counts as activity and is dropped (`Ignore`). An event in `Broken` has frames whose `data` is
no object. `_event_id` looks for an id beside `data` first: if it has been seen, the frame is
dropped; if it is new, it is remembered (`Spoil`), and then `_published_seconds` raises; a frame
without one raises in `_event_id`. Either way (`FrameRaises`) the round fails, with the link up
or already lost, `on_event` is not called, and after the wait for the close (`Aborted`) the
delay of one more failure follows. `spoilt` does not exist in the code: it records the events
whose id was remembered in this way.

The controller is
taken to use the same id for an event live and in the log, and to log it at once. Two
events may have one id, as when `_event_id` makes it up of kind, door and second. `Ready` is
what `/readyz` answers.
`handled` and `forgot` do not exist in the code: they count calls of `on_event`, up to two
as the properties look no further, and record that an id has been forgotten.

### ActorEnrichment

`UnlockBy` is an unlock by a person, of one of the three kinds the pipeline tells apart:
the handler of that kind, with the person's name or without, and possibly an audit log that
sets out. The UAH device is all the log says of the door. `LogArrives` hands a log to
`OnAccessLog`, in any order; `Unmatched` is `_on_access_log` finding no recent unlock of the
device, or one that is already named, and dropping the log. Two variables exist only here:
`who`, the person who really did the last unlock of each door, and `mixed`, whether
somebody else's unlock of the same device came close to it.

### WatcherSystem

`real` is the door, `feed` the events that have been sent and not handled, `unlocked` the ages
of the unlocks, `unseen` those of them this process has not taken from the feed or the log, and
`unheard` those that have had no effect on it. An event is
sent when the link is up and lost otherwise, except that an unlock is also in the log.
`missed` is the set of aspects of the door (position, schedule, evacuation) whose last
change the watcher has not been told of and is not about to be. `told` says that a watchdog
has reported the present opening, and not an earlier one it took this one for; `unclosed`
that a close was lost since the last one that was handled.

| Code | Definition |
|---|---|
| `list_doors`, at the beginning of `seed_initial_state` | `ListDoors(status)`: position (perhaps absent) and relay of that moment |
| the lock rule's request and `seed_door` | `SeedFromSnapshot(rule)`: the rule of this moment, the rest of the snapshot's; `rule = None` when the request fails or names nothing |
| `stream.start()` in `lifespan` | `Subscribe` |
| `_reconcile_if_possible`, `_hit_to_event` | `SomePoll`: `Poll(hits, heeded)` with the unlocks of the window, or with none if it fails; the heeded ones are handled as if they were of now |
| `_connect_and_consume` | `Connect`, `LoseLink`: what was on its way is lost with the link |
| `_dispatch` and the pipeline's `handle` | `Deliver`, `Handle` |
| the end of the process and `lifespan` again | `Restart`: every field of the state machine starts over |
| `_held_open_watchdog` after its sleep | `WakeUp` |

Whether a replayed unlock has any effect depends on the words of the log.
`_hit_to_event` copies the type and the result of the entry as they are; the pipeline has a
handler only for the types of its table, and `_on_unlock_event` ignores a result that contains
neither "grant" nor "success". No document says which words `system/logs` uses; the audit logs
in `tests/conftest.py` and `tests/test_actor_enrichment.py` say `ACCESS` and `BLOCKED`, which
would be ignored. So `heeded` is any subset of the hits: those with words the pipeline knows.
The others are taken from the log, and their ids remembered, without effect. The date of a
frame is optional too: `Deliver` moves `lastAge` or leaves it.

The relay is taken to be unlocked exactly while a schedule is on, and the lock rule to be
`schedule` then: what the controller says of a door agrees with itself. Temporary unlocks
and people are left to the other two modules. An opening in the feed carries what was true
when it happened (`gap`, `quiet`, `missed`); the handlers do not read it, the properties do. Its `missed` also
has the unlock before it, if that one had had no effect on this process and was not on its way.

### Bootstrap

`file` is the config file, a block or nothing per door; a URL is its last segment, since the
rest is the same for every alarm of a host and `bootstrap_protect_alarms.py` looks only at
the segment. `alarms` is what Protect holds. `script` is the script that runs, where it is
suspended and its local variables: the config it has loaded, the UUIDs it has listed, the
pairs of door and type that are left, the URLs settled so far.

| Code | Definition |
|---|---|
| `load_config`, validators of `config.py`, expansion of environment variables | `Loads`, `Accepted` |
| `bootstrap_doors.py` | `StartDoors`, `RenderDoors`, `DoorBlocks` |
| `bootstrap_protect_alarms.py`: start, listing | `StartAlarms`, `ListAlarms` |
| one door and type: PATCH, or POST under a new UUID | `UpdateAlarm`, `CreateAlarm` |
| `update_config_urls`, or printing | `FinishAlarms`, `Patched` |
| a request that fails, or the script killed | `Abort` |

`file` is a function of the door, so a config that lists a door twice, which `AppConfig` refuses,
cannot be written down; no property depends on that check.

The operator adds, removes and edits blocks, pastes URLs, creates and deletes alarms, at
any moment (`EditDoor`, `EditText`, `EditUrl`, `MakeAlarm`, `DeleteAlarm`). `uuid4` never
yields a UUID in use; one nobody refers to any more is as good as new (`FreshUuid`). The
file is read and written back in one step, as the script has no suspension in between.

## 4. The properties

*Invariants of the pipeline.*

- `SingleWatchdog`: no live watchdog besides the one in the slot. A task the slot has
  forgotten could alert and could not be cancelled.
- `WatchdogJustified`: a watchdog sleeps only for an open door under no free pass.
  So the checks the coroutine makes after its sleep never have to stop it.
- `OpenDoorIsTimed`: an open door that may still be reported has a watchdog. It is
  what fails when free passes overlap and the one that ends last starts no timer.
- `WatchdogMeasuresOpening`: a watchdog is due when `opened_at` is `held_open_seconds`
  old and names the source of that opening.
- `FlagsBelongToOpening`: nothing of an earlier opening is left on a door that is not open.
- `AlertsAreDue`: every alert concerns an open door under no free pass, after the
  threshold or without an unlock in the grace time.

*Steps of the pipeline.*

- `EveryRunOutAlerts`: a watchdog that ends by itself reports its opening.
- `EveryOpeningIsJudged`: an opening raises the unauthorized alert at once if, and only
  if, the grace rule says so.
- `AttributionOnlyFills`: an audit log only fills in the missing person of a recent
  unlock.
- `KeepsContract`: the pipeline implements `AlertContract`. There an opening runs from
  the first *open* to the next *close*, and each kind of alert is raised at most once
  in it. The contract also fixes a design choice of the code: a free pass that begins
  and ends during an opening does not make it a new one, so an opening reported as held
  open before a free pass is not reported again after it, although `_free_pass_end`
  starts a watchdog for it.

*Liveness of the pipeline.* `OpenDoorIsReported`: a door that stays open is reported, or
closes, or comes under a free pass, or its opening starts anew. The last alternative
is needed; section 7 says why.

*Attribution.* `NamesAreRight`: the person named for the last unlock of a door is the one
who did it, or nobody, in every order of unlocks and logs. It has an exception, `mixed`: an
audit log says which device was used and not which door, so when somebody else used the
device so shortly before that the log was still on its way, or within the window after,
the wrong person may be named. The property says that nothing else can go wrong, in
particular no log that arrives after the window.

*Sink.*

- `Accounting`: every `send` is deduped, failed, delivered, queued, in hand, or lost
  with a cancelled worker: exactly one of them.
- `TableIsOrderedBySend`: a key is in the table once, with the age of its latest `send`
  (suppressed ones refresh it, so the window slides), in the order of those. The
  eviction, which stops at the first fresh entry, relies on that.
- `SuppressionIsRecent`, `RepetitionIsSuppressed`: an alert is suppressed only if the
  same one was sent within the TTL, and always, unless `max_entries` other keys were sent
  since and it had to make room. Delivery plays no part in it: a dropped or failed alert
  suppresses the next one too.
- `AttemptsAreBounded`: never more than `retry_attempts` POSTs, none after the last, no
  wait longer than the backoff of the attempt; and Protect rings at most once per POST that
  has ended, but possibly several times for one alert when answers are lost.
- `QueueDrains`: what is queued or in hand is settled unless the sink is stopped.

*Stream.*

- `AtMostOnce`: of the events that share an id one is handled, and once, whether it comes
  live, again, from the log, or all of these, until ids have been forgotten.
- `SeenMeansHandled`: an id is remembered only if an event with it was handled, or if its
  frame raised once the id was remembered. The second case loses an event: a later copy of it,
  live or in the log, is dropped as a repetition although `on_event` was never called. The
  property says that there is no other way to lose one so; a malformed log entry is none.
- `ReadyWhileListening`: `connected`, which `/readyz` reports, is true exactly while the
  task listens or closes, through every failure.
- `LostLinksAreRetriedSoon`: a connection that was closed or given up is retried after
  the shortest delay, whatever failures came before. The exception is again a frame that
  raises: it counts as a failed round, although the connection was made.
- `BrokenLinksAreNoticed`, `StreamComesBack`: liveness. The second holds in spite of a log
  entry that makes every round fail, because the look-back moves past it.

The bounds of the dedupe table, of the queue and of the set of seen ids are part of the
type invariants of the two modules.

*The whole.*

- `ReportedIsReal`: when nothing is on its way, what `/state` says of an aspect of the door
  is true, if the watcher has been told of its last change: the snapshot, the rule and the
  live events never overwrite a newer value with an older one.
- `SilenceIsJustified`: an opening on which the watcher stays silent was under a free pass, or
  followed an unlock by no more than the grace time plus the time an unlock may take to
  arrive or be replayed, or a change had been missed. So replays dated now excuse openings
  later than they should, by at most the look-back.
- `ReportsAreJustified`: an opening that is reported was under no free pass the watcher
  could know of and followed no unlock within the grace time less the delay, but one that had
  had no effect on the watcher and was not on its way when the door opened: it was lost, and
  not in the window of the poll; or not polled yet; or polled in words no handler knows.
- `LeftOpenIsReported`: liveness: a door left open for good outside free passes ends up
  reported during that very opening, also if it was open before the restart, once the watcher
  has been told of it. There is one exception, and the code needs it: an opening was reported,
  its close was lost with the link, and the next opening arrives. To the watcher that is one long
  opening, `held_open_fired` is still set, and the new watchdog stays silent. Without the
  exception TLC finds this run.

*Bootstrap.*

- `UrlsTriggerTheirOwnAlarm`: no URL of the file, of a script's copy of it, or on its way to
  the file triggers the alarm of another door or type, unless the operator pasted one.
- `RerunsCreateNothing`: after a run with `--write` that was not disturbed, further runs
  create no alarm and leave the file as it is, until the operator changes something.
- `CompletedRunsName`: a completed run has given every alarm the door's name.
- `DryRunsTouchNothing`, `OnlyUrlsAreWritten`: `--dry-run` changes nothing, and a write
  changes nothing but URLs, also in a file edited since it was loaded.

## 5. The runs

| Run | Configuration | States | Shows |
|---|---|---|---|
| `one_door` | `PipelineOneDoor` | 24,864 | all of `Next` for one door and two persons: the state and step properties, the contract, and `OpenDoorIsReported` under `FairSpec` |
| `two_doors` | `PipelineTwoDoors` | 254,997 | what crosses doors: `IInv` |
| `enrichment` | `ActorEnrichment` | 224,802 | two persons, two doors behind one device, logs in any order: `NamesAreRight` |
| `sink` | `Sink` | 279,986 | three keys, a table capped at one, a queue of one, a key without URL, three attempts: everything about the sink |
| `stream` | `Stream` | 124,561 | three events, two of which share an id, two without a date, one malformed in the log, one with frames that raise; one id kept: everything about the stream |
| `bootstrap` | `Bootstrap` | 670,242 | two doors, both initial files, every combination of flags and environment, two interventions of the operator |
| `watcher` | `Watcher` | 765,627 | one door, three changes, two losses of the link or restarts: the four properties of the whole |
| `repeated_open`, `authorized_open`, `stream_repeats`, `stream_gap`, `bootstrap_workflow` | `PipelineRepeatedOpen`, `PipelineAuthorizedOpen`, `StreamRepeats`, `StreamGap`, `BootstrapWorkflow` | | the five violations of section 7 |

### Bounds

*Pipeline.* With one door, `Grace` is 1 and `HeldOpen` 2, so both boundaries and the ticks
around them occur and differ from each other, and ages go up to `AgeCap` = 3, past both.
Doors interact only through evacuations, seeding and shared devices, so two doors show
every interaction; with all handlers the product is too large, hence `WatchdogNext`
(what moves watchdogs; delays of 1 and 0, grace 0, so that a watchdog due at once and
the strictest grace occur). Two task identities are enough because a fresh one only has to
differ from the live ones, of which there is one. The step properties and the contract
are proved for any number of doors.

*Enrichment.* Two doors behind one device, and two people, are the least in which a log can
name the wrong person or the wrong door. `LogWindow` is 1 and `LogDelay` 2, so logs arrive
inside the window, at its edge and after it. Thresholds play no part in attribution and are
0. Everything about devices of their own is a special case of a shared one.

*Sink.* The three attempts give two backoffs of different length. With a TTL of 2 an entry is
fresh, exactly as old as the TTL, and expired. A table of one and a queue of one make the
evictions and the drops happen at every turn; three keys, of which two can be
delivered, give each position something to compete with. `MaxSends` of 5 is more than queue,
worker and table hold together. A key without URL is what `_url_for` calls a genuinely
unregistered door (`tests/test_protect_notify.py` covers it); the configuration excludes it
for doors the pipeline knows.

*Stream.* A look-back of 2 and a slack of 1 let an event be inside the window, at
its edge and outside, and make either bound of `since` the one that counts. One frame
in the inbox, an event or something else, is enough to have one arrive before the connection
breaks, and to have one raise on a link that is lost. One id kept
with two in use makes the set overflow. Events without id or date are always handled and
leave no trace in the set, so an event without id adds nothing to the instance. The two
runs of violations leave out repetitions and, for the gap, every failure of a call, so that
the counterexample can have no other cause.

*Bootstrap.* Two doors, of the same name, are enough for their URLs and alarms to be
mixed up; four alarms and the placeholder need five UUIDs. `MaxEdits` of 2 lets the operator
undo, or combine, two interventions around a run that is cut short. The one grace period
an operator may write is negative, hence refused.

*Watcher.* `WatcherSystem` is about one door, as the module says. `Grace` and `HeldOpen` are 1;
events take 0 or 1 ticks, and two may be on their way, so that an unlock can be overtaken
by the threshold and two events by a loss; a look-back of 2 is longer than the delay. Three
changes are enough for an unlock, an opening and its end, or for a free pass that begins
and ends around an opening; two troubles for a loss followed by a restart. At the start the
door is open, or scheduled, or evacuated, or nothing of that (`MCInit`); two of them together
are left to the changes.

### Deadlock

It is checked in all runs but four. `ActorEnrichment` and `WatcherSystem` forbid time to
pass while a log or an event that is late must still arrive, and stop when a bound is
reached with nothing left to do; in `Bootstrap` (both configurations) everything may be
finished, with a file no script accepts and the edits used up. In the others time can
always pass.

### Fairness

`DetectionPipeline` assumes weak fairness of `Tick` and of `Wake(d)` for every
door: asyncio runs each task that is ready, in the order in which they became ready,
and time passes. Nothing is assumed of the doors or the controller. `AlertSink` assumes
weak fairness of `Take` and `Retry` for the same reason, of time, and of the three
outcomes of a POST together: the client has a timeout, so a POST ends, but nothing says
how. Neither `Send` nor `Stop` is fair. `EventStream` assumes weak fairness of each step of
the task (requests, the connection and `close()` have timeouts, and end one way or the
other) and of time; `StreamComesBack` assumes further that connecting succeeds if it is
tried again and again, which is the controller's part and is stated in `ReachableSpec`.
`WatcherSystem` assumes the same of start-up, poll, connection, wake-up and time, and that
an event on a live link arrives. The world is not fair, nor are `LoseLink` and `Restart`: their
number is bounded, so that from some moment on the watcher is left alone, which
`LeftOpenIsReported` needs.

## 6. The proofs

TLAPS proves the following for every value of the constants that satisfies the assumptions
of the modules. TLC evaluates those assumptions on every run.

| Module | Theorems | Statement |
|---|---|---|
| `DetectionPipelineProofs` | `Invariance` | `Spec => []IInv` |
| | `TypeCorrect`, `OneWatchdogPerDoor`, `WatchdogsAreJustified`, `OpenDoorsAreTimed`, `WatchdogsMeasureOpenings`, `FlagsBelongToOpenings`, `AlertsAreAlwaysDue` | the invariants of section 4 |
| | `RunOutWatchdogsAlert`, `OpeningsAreJudged`, `AttributionsOnlyFill` | the step properties |
| | `Refinement` | `Spec => KeepsContract` |
| `AlertSinkProofs` | `SinkTypes`, `EveryAlertIsAccounted`, `DeliveryIsBounded`, `TableStaysOrdered` | the invariants of the sink |
| | `SuppressionsAreRecent`, `RepetitionsAreSuppressed` | what dedupe suppresses, and what it lets through |
| `EventStreamProofs` | `ReadinessIsListening`, `LostLinksRetryFirst` | `ReadyWhileListening`, `LostLinksAreRetriedSoon` |
| `EventFeedProofs` | `StreamTypes`, `EventsAreHandledOnce`, `SeenIsHandled` | types, `AtMostOnce` and `SeenMeansHandled` |
| `ActorEnrichmentProofs` | `EnrichmentTypes`, `NamesStayRight` | types and `NamesAreRight` |
| | `EnrichmentRefines` | `EnrichmentSpec => Spec`: people and their logs stay within the state machine |
| `WatcherSystemProofs` | `SystemInvariance`, `SystemTypes` | `SystemSpec => []IInv`, and the types of the whole |
| | `SystemJudgesOpenings`, `SystemWatchdogsAlert`, `ContractBetweenStarts` | the step properties and the contract of the pipeline, in its real environment |
| `WatcherHistoryProofs` | `ReportsAreReal`, `SilencesAreJustified`, `AlarmsAreJustified` | `ReportedIsReal`, `SilenceIsJustified`, `ReportsAreJustified` |
| `BootstrapProofs` | `TypeCorrect`, `UrlsAreRight`, `DryRunsAreHarmless`, `UrlsAreAllThatIsWritten`, `RerunsAreIdempotent`, `CompletedRunsHaveNamed` | types, and all five properties |

So every invariant and every step property that a passing run checks is also proved; what is
left to TLC is liveness.

### Pipeline

*Assumptions.* `TimesAssumption`: thresholds are integers below the cap; they may be
negative, since `[defaults]` is not validated. `ConfigAssumption`: doors are in some
order. `NamesAssumption`: there is a task identity, and `None` is not a person, a
number, a task or a device.

*Argument.* No invariant of section 4 but the type is inductive alone. `IInv` is their
conjunction with `UnseededAreUnknown`, and each part is used in the step of another:
a cancelled slot leaves no task behind only because of `SingleWatchdog`
(`NoSurvivors`); an alert of a watchdog is due because the watchdog is justified and
measures the opening; a door that closes is silent because the watchdog of an open
door is in its slot; a free pass that ends finds no watchdog already running, because
one would not have been justified. `UnseededAreUnknown` is needed for `seed_door`,
which sets the flags of a door without cancelling anything: were the door already
open and timed, a seeded free pass would leave an unjustified watchdog.

Three lemmas say what the shared routines do under that discipline (`CancelClears`,
`StartGivesOne`, `HandleOpenKeeps`); one lemma per action then preserves `IInv`, and
`NextKeeps` collects them. The refinement has one lemma per kind of step: an *open*
report is an `Open` of the contract, a *close* a `Close`, a watchdog that ends a
`ReportHeldOpen`, `seed_door` a `Learn`, and everything that starts or ends a free pass,
sweeps included, a `Suppress`, which raises no alert (`SyntheticOpen`).

### Enrichment

*Assumptions.* Those of the pipeline; `LogDelay` is a natural number. Nothing relates it to
`LogWindow`.

*Argument.* `NamesAreRight` needs to know what the logs on their way will say:
`LogsAreOfTheirUnlock`, which is that a log whose device `find_recent_unlock_by_event_object_id`
would match with a door names the person of the door's last unlock, unless that one is
`mixed`. An unlock by somebody else while such a log is on its way marks its own door; one
within the window of another door's marks that door; and time only takes doors out of the
window. `ObjectsAreOwn` says that a remote unlock carries the device of its own door, which is
why no other door can be matched. Since every step is one of the state machine
(`EnrichmentStep`), `IInv` and the contract hold here too.

### Sink

*Assumptions.* Finitely many keys, a TTL and a table capacity from 0 on, a queue of at least
one, any integer as `retry_attempts`, as nothing validates it.

*Argument.* Both evictions, and the move to the end, leave a subsequence of the table
(`Leaves`), and a subsequence of a table in order is in order (`LeavesOrdered`); what the
first loop leaves begins at the first fresh entry (`UnexpiredIs`), so that order makes all
of it fresh (`EvictIs`). That is enough for `SuppressionIsRecent`. `RepetitionIsSuppressed`
needs a strengthening, `Kept`: a key sent within the TTL that is no longer in the table has
at least `max_entries` other keys sent after it. The second loop establishes it, by an
injection of the positions it keeps into those keys (`EvictKeeps`), and later sends and
time only add to them (`SendTable`, `TickKeeps`). `Accounting` and `AttemptsAreBounded` are
inductive with the types.

### Stream

*Assumptions.* Finitely many events, with any ids; a trim that forgets at least one id, and
no more than there are (the code forgets 1024 of 4097); a list of delays that is not empty; a
look-back that may be negative.

*The connection.* Only `at`, `connected` and `link` matter: `ReadyWhileListening` is
inductive. It says where a connection that was made can go to the backoff from: from `recv()` and
`close()` by `RoundEnds`, which resets the attempt, and from `"aborting"`, which does not and which
the property leaves out.

*The feed.* `AtMostOnce` is not inductive: that an event has not been handled must be read off
the set of seen ids, which is `HandledIsSeen` (as long as nothing was forgotten, the id of
whatever was handled is seen). `SeenMeansHandled` is: `Settle` handles what it makes seen, and
`Spoil` is the one other step that adds an id (`SpoilKeeps`). The step that matters is the poll, which offers any number
of hits at once. `Sound` says what may become of the state on the way: either nothing has been
forgotten yet, and then the events handled have ids that are new and differ from each other,
or more ids have been met than there is room for, so that at the end one is missing and
`forgot` holds. Offering one event keeps it (`OfferIsSound`, with `RememberIs` about the
trim). Induction over the hits is done by hand: `OfferAll` is the last of its `Stages`
(`OfferAllIs`), and there is no first stage that is not sound (`OffersAreSound`), since sets of
numbers have a least element (`Least`).

### Watcher

*Assumptions.* `WorldAssumption`: one door; delays, look-back and slack from 0 on, in any
relation to each other; any bounds on the feed, the changes and the troubles.
`NoneAssumption`: `None` is no status, no lock rule and no answer of `list_doors`.

*The pipeline in it.* A step of `WatcherSystem` is, for the variables of the pipeline, a step of
`DetectionPipeline`, a stutter, or a fresh start (`SystemStep`). So `IInv`, and all the
invariants in it, hold in the real environment: with late and lost events, replays dated
now, a snapshot that is out of date when it is used, and restarts between any two steps.
For the same reason openings are judged and watchdogs report there as in section 4, and the
contract is kept from one start of the process to the next.

*What it knows.* The three properties of the whole are about what is still on its way, so the
invariant (`HistoryInv`) is too. The feed is read in order; `Says(f, n, a, v, old)` is that,
after its first `n` events, aspect `a` will be taken to be `v`, when it was `old` before: the
last of them about `a` says so, or none is about it. `WillBeKnown` is `ReportedIsReal` for
every moment: an aspect that is not missed will be known once the feed has been read, and
while the answer of `list_doors` waits for its lock rule, that answer is still right about it.
It needs `SeedsFirst`, which says that no event is handled before seeding is over: were one,
the snapshot could put an older value over a newer. An event that is sent has the last
word (`SaidByNew`); one that is handled leaves the others to say the same (`SaidByRest`); a
link that is lost makes missed exactly what was on its way.

*Why it speaks or is silent.* `KnownAtOpening(i)` is the same for the part of the feed before an
opening, about the moment it was sent; when the opening is at the head, that is what the
handler finds. Of the unlocks, `LastUnlockWasOne` bounds how much younger the watcher takes
one to be (by the delay, or by the look-back when a poll dates it now), and
`UnlocksAreHandled` says that it takes none it has heeded to be older. `ExcusedAfter` and `ExcusedBy` carry
both bounds over to the openings on their way, with the unlocks that are before them in the
feed: the first yields `SilenceIsJustified`, the second `ReportsAreJustified`. The second is why
an unlock that is on its way when the door opens counts as one the watcher will know.

### Bootstrap

`UrlsTriggerTheirOwnAlarm` follows from the types once every step has been shown to
refer to no URL that was not referred to before, except a fresh one, and to change no alarm
but the one of its own pair (`NoNewReferences`, `NewAlarm`, `ScriptsUrls`, `OperatorUrls`).
`RerunsCreateNothing` needs `RunInv`: while a first run is undisturbed, the pairs it has
settled have live alarms under the URLs it will write (`FirstRun`); after it, every URL of
the file names a live alarm, and any script that runs has loaded that very file
(`LaterRuns`), so that it updates and never creates.

`CompletedRunsName` holds because the pairs that had their turn keep the name they were given
(`SettledKeepName`), although the operator may create and delete alarms and other pairs are
still to be settled: the UUID of a settled pair is in use, so no new alarm takes it, and a turn
changes only its own alarm, which is that of another pair just when the two share a URL, as
pasted ones may. `SettledOnce` says that a pair has no URL before its turn.

### Only model-checked

Liveness, which TLAPS does not reach: `OpenDoorIsReported`, `QueueDrains`,
`BrokenLinksAreNoticed`, `StreamComesBack`, `LeftOpenIsReported`. The backoff of
the sink doubles with each retry and is proved only to bound the wait; its closed form is induction
over data, which is out of the provers' reach too, and no property needs it.

## 7. Where the documentation and the code disagree

**A chattering sensor silences the held-open alert** (`repeated_open`). README.md says
"**Held open.** DPS stays *open* past `held_open_seconds`." `_handle_open` runs for
every *open* report, also when the door is open already: it sets `opened_at` anew,
cancels the watchdog and starts another. A door whose sensor repeats *open* more often
than `held_open_seconds` is never reported, however long it stays open. The
counterexample to `DoorLeftOpenIsReported` is that loop.

**An authorized opening becomes unauthorized later** (`authorized_open`). README.md says
that the alarm rings "when a door is opened without authorization". The grace test is
applied to every *open* report, so one that repeats after the grace time raises the
unauthorized alert for a door opened with a badge, under a free pass that has since
ended, or before the service started. `UnauthorizedMeansOpened` is violated in a few
steps. Repeated *open* reports are expected: `tests/test_unauthorized.py` tests them.

**A replay can repeat live events** (`stream_repeats`). README.md promises events
"deduplicated against the live stream". `_remember` trims its set with `set.pop()`, which
removes arbitrary ids: after 4096 events, the id of the latest one may be among the 1024
that go, and a reconnection then hands that event over again. The run shows it with a
set of one.

**The poll comes before the connection** (`stream_gap`). The docstring of
`AccessEventStream` says that the log of the gap is fetched "on every successful
(re)connect". `_run_forever` fetches it first and connects then: an event in between is in
neither, and since only live events move the window, the next one may put it out of
reach for good.

**The first script's output is refused by the second** (`bootstrap_workflow`). README.md says
"Two scripts turn an empty config into a fully-populated one", and
`deploy/config.example.toml` describes the same two steps. `bootstrap_doors.py --write`
replaces the door list by blocks with an id and a name; `AppConfig` refuses a door
without both URLs, and `bootstrap_protect_alarms.py` begins with `load_config`. The run
shows an accepted file that the first script makes unacceptable; run again on a complete
config, it drops the URLs, the thresholds and the names.

## 8. What is not modelled

- Payload parsing, TLS, headers, formatting, logging, wall-clock conversion, argument
  parsing: no property depends on them. What is parsed is represented by what it turns out
  to be, a missing or unreadable field included.
- The REST client keeps no state: each of its requests is an outcome where its caller makes
  it. The health routes are read-only views, `Ready` and `Reported`.
- The fire-and-forget tasks between `_emit` and `send`: asyncio runs them in the order
  of their creation. `alerts` is what is emitted, `Send`
  what is received.
- The order in which `lifespan` stops stream, sink and client: `Stop` of `EventStream` and of
  `AlertSink` may come at any moment, with senders alive, which includes every order; no
  state that survives, and no answer of a route, tells the orders apart.
- The config file is replaced in one step. `write_text` truncates the file first: a crash
  within it leaves half a file, which is no config that the program can be in, and another
  process that writes in between is lost.
- What the controller, Protect and the operating system do beyond their answers. The
  assumptions made about the controller (one id for an event live and logged, logs without
  delay, a relay that agrees with the schedule) are stated in section 3.

## 9. Plan

What is left: the sink composed with `WatcherSystem`, so that an alert that is raised rings, is
counted, or is suppressed by one that was sent within the window. Both halves are checked and
proved; their product is too large for TLC at the present bounds.
