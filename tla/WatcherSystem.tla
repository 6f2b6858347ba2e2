---------------------------- MODULE WatcherSystem ----------------------------
(***************************************************************************)
(* The watcher in its world, from the sensor to the alert: a door that is  *)
(* really unlocked, opened, closed, scheduled and evacuated, the feed that *)
(* tells about it, the log that is polled after an outage, the lifespan of *)
(* app.py that seeds and then subscribes, and restarts of the process.     *)
(* The state machine is DetectionPipeline, whose actions are used as they  *)
(* are.  The stream is reduced to what it hands over, and when: how it     *)
(* does that is EventStream.                                               *)
(*                                                                         *)
(* Doors share nothing but evacuations, so one door is enough to ask what  *)
(* the watcher knows of the world.                                         *)
(***************************************************************************)
EXTENDS DetectionPipeline, Sequences

CONSTANTS
    Lookback,    \* reconcile_lookback_seconds, in ticks
    Slack,       \* ticks polled before the latest event (5s in the code)
    MaxDelay,    \* how long an event takes to arrive at most
    FeedCap,     \* bound: events on their way
    MaxChanges,  \* bound: how often something happens to the door
    MaxTroubles  \* bound: how often the link is lost or the process restarts

Door == CHOOSE d \in Doors : TRUE

ASSUME WorldAssumption ==
    /\ Doors = {Door}
    /\ {Lookback, Slack, MaxDelay, FeedCap, MaxChanges, MaxTroubles} \subseteq Nat

VARIABLES
    real,     \* the door: its position, and whether a schedule or an evacuation is on
    unlocked, \* ages of its unlocks
    unseen,   \* those of them this process has not taken from the feed or the log
    link,     \* "down" (dead included), "polled" when the log has been read, "up"
    feed,     \* events sent and not delivered yet
    lastAge,  \* age of _last_event_published, or None
    snapshot, \* what list_doors said, until seed_door; None when nothing is pending
    missed,   \* aspects of the door that changed after they were last heard of
    unheard,  \* unlocks that have had no effect on this process
    told,     \* whether it has reported the present opening as held open
    unclosed, \* whether a close was lost since it last heard of one
    changes,  \* what has happened to the door so far, counted
    troubles  \* losses of the link and restarts so far

worldVars  == <<real, unlocked, changes>>
streamVars == <<unseen, link, feed, lastAge>>
pastVars   == <<unheard, told, unclosed>>
systemVars == <<worldVars, streamVars, snapshot, missed, pastVars, troubles>>

Worst(a, b) == IF a > b THEN a ELSE b

\* Past this age an unlock excuses no opening, and is not replayed.
UnlockCap == Worst(Grace[Door], 0) + Worst(MaxDelay, Worst(Lookback, Slack)) + 1
UnlockAges == 0 .. UnlockCap

\* What list_doors says of the door.
Snapshots == [status : {"open", "close", None}, relay : {"lock", "unlock"}]

\* None is no status, no lock rule and no answer.
ASSUME NoneAssumption ==
    None \notin {"open", "close", "schedule", "keep_unlock", "custom"} \cup Snapshots

\* Past this age of the latest event the poll looks no further back.
LastAgeCap == Worst(Lookback, MaxDelay)

Aspects == {"position", "schedule", "evacuation"}
Whats   == {"open", "close", "unlock", "schedule on", "schedule off",
            "evacuation on", "evacuation off"}

\* An event, with how long it has been on its way.  Of an opening it is remembered how
\* long the last unlock was ago, whether a free pass was on, and what was missed then:
\* of the unlock, that it neither had an effect nor was on its way.
Event == [what : Whats \ {"open"}, waited : 0 .. MaxDelay]
           \cup [what : {"open"}, waited : 0 .. MaxDelay, gap : UnlockAges \cup {None},
                 quiet : BOOLEAN, missed : SUBSET (Aspects \cup {"unlock"})]

\* The type of every variable of the world.
SystemTypeOK ==
    /\ TypeOK
    /\ real \in [position : {"open", "close"}, schedule : BOOLEAN, evacuation : BOOLEAN]
    /\ unlocked \subseteq UnlockAges
    /\ unseen \subseteq unheard /\ unheard \subseteq unlocked
    /\ link \in {"down", "polled", "up"}
    /\ feed \in Seq(Event) /\ Len(feed) <= FeedCap
    /\ lastAge \in 0 .. LastAgeCap \cup {None}
    /\ snapshot \in Snapshots \cup {None}
    /\ missed \subseteq Aspects
    /\ told \in BOOLEAN /\ unclosed \in BOOLEAN
    /\ changes \in 0 .. MaxChanges
    /\ troubles \in 0 .. MaxTroubles

SystemInit ==
    /\ Init
    /\ real \in [position : {"open", "close"}, schedule : BOOLEAN, evacuation : BOOLEAN]
    /\ unlocked = {}
    /\ unseen = {}
    /\ unheard = {}
    /\ told = FALSE
    /\ unclosed = FALSE
    /\ link = "down"
    /\ feed = <<>>
    /\ lastAge = None
    /\ snapshot = None
    /\ missed = {"position"} \cup {a \in {"schedule", "evacuation"} : real[a]}
    /\ changes = 0
    /\ troubles = 0

-----------------------------------------------------------------------------
(* The world.                                                               *)

Newest(ages) == IF ages = {} THEN None ELSE CHOOSE a \in ages : \A b \in ages : a <= b

\* The unlocks on their way, by age.
Coming == {feed[i].waited : i \in {j \in DOMAIN feed : feed[j].what = "unlock"}}

Tell(what) ==
    IF what # "open" THEN [what |-> what, waited |-> 0]
    ELSE [what |-> what, waited |-> 0, gap |-> Newest(unlocked),
          quiet |-> real.schedule \/ real.evacuation,
          missed |-> missed \cup
             (IF Newest(unlocked) \in unheard \ Coming THEN {"unlock"} ELSE {})]

\* Something happens.  It is sent if the link is up; if not, it is missed, except that
\* an unlock goes to the log.
Happen(what, aspect) ==
    /\ changes < MaxChanges
    /\ changes' = changes + 1
    /\ IF link = "up"
       THEN /\ Len(feed) < FeedCap
            /\ feed' = Append(feed, Tell(what))
            /\ missed' = missed \ {aspect}
       ELSE /\ missed' = missed \cup ({aspect} \cap Aspects)
            /\ UNCHANGED feed
    /\ UNCHANGED <<vars, link, lastAge, snapshot, troubles>>

MoveDoor ==
    LET status == IF real.position = "open" THEN "close" ELSE "open"
    IN  /\ real' = [real EXCEPT !.position = status]
        /\ Happen(status, "position")
        /\ told' = FALSE
        /\ unclosed' = (unclosed \/ (status = "close" /\ link # "up"))
        /\ UNCHANGED <<unlocked, unseen, unheard>>

Schedule ==
    /\ real' = [real EXCEPT !.schedule = ~@]
    /\ Happen(IF real.schedule THEN "schedule off" ELSE "schedule on", "schedule")
    /\ UNCHANGED <<unlocked, unseen, pastVars>>

Evacuate ==
    /\ real' = [real EXCEPT !.evacuation = ~@]
    /\ Happen(IF real.evacuation THEN "evacuation off" ELSE "evacuation on", "evacuation")
    /\ UNCHANGED <<unlocked, unseen, pastVars>>

Unlock ==
    /\ unlocked' = unlocked \cup {0}
    /\ unseen' = unseen \cup {0}
    /\ unheard' = unheard \cup {0}
    /\ Happen("unlock", "unlock")
    /\ UNCHANGED <<real, told, unclosed>>

-----------------------------------------------------------------------------
(* The start: app.py's lifespan.                                            *)

\* A definition named Faulty... is a variant of the one that follows it with a
\* plausible bug, used only to see that the properties can fail.

\* list_doors answers.  Its position may be missing; the relay is unlocked under a
\* schedule.
ListDoors(status) ==
    /\ phase = "seeding"
    /\ Door \in unseeded
    /\ snapshot = None
    /\ status \in {real.position, None}
    /\ snapshot' = [status |-> status, relay |-> IF real.schedule THEN "unlock" ELSE "lock"]
    /\ missed' = missed \ {a \in {"position", "schedule"} :
                              \/ a = "position" /\ status # None
                              \/ a = "schedule" /\ ~real.schedule}
    /\ UNCHANGED <<vars, worldVars, streamVars, pastVars, troubles>>

FaultySeedFromSnapshot(rule) ==
    /\ snapshot # None
    /\ rule \in {IF real.schedule THEN "schedule" ELSE None, None}
    /\ unseeded' = unseeded \ {Door}
    /\ dps' = [dps EXCEPT ![Door] = snapshot.status]
    /\ snapshot' = None
    /\ missed' = IF snapshot.relay = "unlock" /\ (rule = "schedule" <=> real.schedule)
                 THEN missed \ {"schedule"} ELSE missed
    /\ UNCHANGED <<phase, unlockVars, opened_age, held_open_source, unauthorized_fired,
                   held_open_fired, taskVars, passVars, alerts,
                   worldVars, streamVars, pastVars, troubles>>

\* The lock rule has been fetched, or needs not be: it is of now, the rest is of the
\* moment of ListDoors.
SeedFromSnapshot(rule) ==
    /\ snapshot # None
    /\ rule \in {IF real.schedule THEN "schedule" ELSE None, None}
    /\ SeedDoor(Door, snapshot.status, snapshot.relay, rule)
    /\ snapshot' = None
    /\ missed' = IF snapshot.relay = "unlock" /\ (rule = "schedule" <=> real.schedule)
                 THEN missed \ {"schedule"} ELSE missed
    /\ UNCHANGED <<worldVars, streamVars, pastVars, troubles>>

\* seed_initial_state has returned, also when list_doors has failed.
Subscribe ==
    /\ snapshot = None
    /\ StartStream
    /\ UNCHANGED systemVars

\* The process ends at any moment, and is started again.  Nothing is persisted.
Restart ==
    /\ troubles < MaxTroubles
    /\ troubles' = troubles + 1
    /\ phase' = "seeding"
    /\ unseeded' = Doors
    /\ dps' = [d \in Doors |-> "unknown"]
    /\ last_unlock_age' = [d \in Doors |-> None]
    /\ last_unlock_actor' = [d \in Doors |-> None]
    /\ last_unlock_object' = [d \in Doors |-> None]
    /\ opened_age' = [d \in Doors |-> None]
    /\ held_open_source' = [d \in Doors |-> "watchdog"]
    /\ unauthorized_fired' = [d \in Doors |-> FALSE]
    /\ held_open_fired' = [d \in Doors |-> FALSE]
    /\ held_open_task' = [d \in Doors |-> None]
    /\ schedule_unlock_active' = [d \in Doors |-> FALSE]
    /\ temporary_unlock_active' = [d \in Doors |-> FALSE]
    /\ emergency_evacuation_active' = FALSE
    /\ sleeping' = [d \in Doors |-> {}]
    /\ alerts' = {}
    /\ unseen' = unlocked
    /\ unheard' = unlocked
    /\ told' = FALSE
    /\ unclosed' = FALSE
    /\ link' = "down"
    /\ feed' = <<>>
    /\ lastAge' = None
    /\ snapshot' = None
    /\ missed' = {"position"} \cup {a \in {"schedule", "evacuation"} : real[a]}
    /\ UNCHANGED worldVars

-----------------------------------------------------------------------------
(* The stream.                                                              *)

FaultyWindow == IF lastAge = None THEN 0 ELSE lastAge + Slack

\* How far back the poll looks; not at all before the first event of this process.
Window ==
    CASE lastAge = None -> 0
      [] lastAge # None /\ lastAge + Slack < Lookback -> lastAge + Slack
      [] OTHER -> Lookback

Hits == IF Window = 0 THEN {} ELSE {a \in unseen : a <= Window}

FaultyPoll(hits, heeded) ==
    /\ phase = "live"
    /\ link = "down"
    /\ link' = "polled"
    /\ unseen' = unseen \ hits
    /\ unheard' = unheard \ heeded
    /\ UNCHANGED <<vars, worldVars, feed, lastAge, snapshot, missed, told, unclosed, troubles>>

\* _reconcile_if_possible: the unlocks of the log are handed over as if they were of now.
\* _hit_to_event takes the words of the log for what happened, and for how it ended, as
\* they are: only hits whose words a handler knows as a granted unlock are heeded, and
\* the others are consumed without effect.
Poll(hits, heeded) ==
    /\ phase = "live"
    /\ link = "down"
    /\ link' = "polled"
    /\ unseen' = unseen \ hits
    /\ unheard' = unheard \ heeded
    /\ IF heeded = {} THEN UNCHANGED vars ELSE OnUnlockEvent(Door, "granted", None)
    /\ UNCHANGED <<worldVars, feed, lastAge, snapshot, missed, told, unclosed, troubles>>

\* A poll that fails finds nothing.
SomePoll == \E hits \in {Hits, {}} : \E heeded \in SUBSET hits : Poll(hits, heeded)

Connect ==
    /\ link = "polled"
    /\ link' = "up"
    /\ UNCHANGED <<vars, worldVars, unseen, feed, lastAge, snapshot, missed, pastVars, troubles>>

AspectOf(what) ==
    CASE what \in {"open", "close"} -> "position"
      [] what \in {"schedule on", "schedule off"} -> "schedule"
      [] what \in {"evacuation on", "evacuation off"} -> "evacuation"
      [] OTHER -> "unlock"

\* A connection fails or is lost, with what was on its way.
LoseLink ==
    /\ link \in {"polled", "up"}
    /\ troubles < MaxTroubles
    /\ troubles' = troubles + 1
    /\ link' = "down"
    /\ feed' = <<>>
    /\ missed' = missed \cup ({AspectOf(feed[i].what) : i \in DOMAIN feed} \cap Aspects)
    /\ unclosed' = (unclosed \/ \E i \in DOMAIN feed : feed[i].what = "close")
    /\ UNCHANGED <<vars, worldVars, unseen, lastAge, snapshot, unheard, told>>

\* The handler of an event.
Handle(what) ==
    CASE what \in {"open", "close"} -> OnDps(Door, what)
      [] what = "unlock"         -> OnUnlockEvent(Door, "granted", None)
      [] what = "schedule on"    -> OnScheduleActivate(Door)
      [] what = "schedule off"   -> OnScheduleDeactivate(Door)
      [] what = "evacuation on"  -> OnEmergency("evacuation")
      [] what = "evacuation off" -> \/ OnEmergency("normal")
                                    \/ ~emergency_evacuation_active /\ UNCHANGED vars

\* The next event arrives; if its frame has a date, that tells how recent the stream is.
Deliver ==
    LET e == Head(feed)
    IN  /\ link = "up"
        /\ feed # <<>>
        /\ feed' = Tail(feed)
        /\ Handle(e.what)
        /\ lastAge' \in {lastAge, IF lastAge \in 0 .. e.waited THEN lastAge ELSE e.waited}
        /\ unseen' = IF e.what = "unlock" THEN unseen \ {e.waited} ELSE unseen
        /\ unheard' = IF e.what = "unlock" THEN unheard \ {e.waited} ELSE unheard
        /\ unclosed' = (unclosed /\ e.what # "close")
        /\ UNCHANGED <<worldVars, link, snapshot, missed, told, troubles>>

\* A tick of the world and of the loop: nothing on its way gets too late.
Pass ==
    /\ Tick
    /\ \A i \in DOMAIN feed : feed[i].waited < MaxDelay
    /\ feed' = [i \in DOMAIN feed |-> [feed[i] EXCEPT !.waited = @ + 1]]
    /\ unlocked' = {a + 1 : a \in unlocked} \cap UnlockAges
    /\ unseen' = {a + 1 : a \in unseen} \cap UnlockAges
    /\ unheard' = {a + 1 : a \in unheard} \cap UnlockAges
    /\ lastAge' = IF lastAge \in {None, LastAgeCap} THEN lastAge ELSE lastAge + 1
    /\ UNCHANGED <<real, link, snapshot, missed, told, unclosed, changes, troubles>>

\* A watchdog's alert is about the present opening unless news of the door is on its way.
AlertIsOfNow ==
    /\ \E a \in alerts' : a.type = "held_open"
    /\ real.position = "open"
    /\ \A i \in DOMAIN feed : feed[i].what \notin {"open", "close"}

WakeUp ==
    /\ Wake(Door)
    /\ told' = (told \/ AlertIsOfNow)
    /\ UNCHANGED <<worldVars, streamVars, snapshot, missed, unheard, unclosed, troubles>>

World  == MoveDoor \/ Schedule \/ Evacuate \/ Unlock
Start  == \/ \E status \in {"open", "close", None} : ListDoors(status)
          \/ \E rule \in {"schedule", None} : SeedFromSnapshot(rule)
          \/ Subscribe
Stream == SomePoll \/ Connect \/ LoseLink \/ Deliver

SystemNext == World \/ Start \/ Restart \/ Stream \/ WakeUp \/ Pass

SystemSpec == SystemInit /\ [][SystemNext]_<<vars, systemVars>>

\* The loop runs what is ready, requests end, and time passes.
SystemFairness ==
    /\ WF_<<vars, systemVars>>(Start)
    /\ WF_<<vars, systemVars>>(SomePoll)
    /\ WF_<<vars, systemVars>>(Connect)
    /\ WF_<<vars, systemVars>>(Deliver)
    /\ WF_<<vars, systemVars>>(WakeUp)
    /\ WF_<<vars, systemVars>>(Pass)

FairSystemSpec == SystemSpec /\ SystemFairness

-----------------------------------------------------------------------------
(* Properties.                                                              *)

\* What GET /state reports of the door.
Reported == [position   |-> dps[Door],
             schedule   |-> schedule_unlock_active[Door],
             evacuation |-> emergency_evacuation_active]

\* Whatever has been missed before, of the aspects that were heard of since their last
\* change the watcher knows the truth once nothing is on its way: what the snapshot, the
\* rule and the events of the live feed say, in the order they are taken in, never
\* leaves an older value behind.
ReportedIsReal ==
    phase = "live" /\ feed = <<>> => \A a \in Aspects \ missed : Reported[a] = real[a]

\* The opening that Deliver has just handed over, if it was one, and whether it was
\* reported.
OpeningArrives == Deliver /\ Head(feed).what = "open"
IsReported == \E a \in alerts' : a.type = "unauthorized"

\* An opening of which the watcher says nothing was under a free pass or followed an
\* unlock, by no more than the grace time and the time the unlock took to arrive, or to
\* be read from the log: unless a change of the door or of a free pass had been missed.
SilenceIsJustified ==
    [][LET e == Head(feed) IN
       OpeningArrives /\ ~IsReported =>
         \/ e.quiet
         \/ e.gap \in 0 .. Grace[Door] + Worst(MaxDelay, Lookback)
         \/ e.missed \cap Aspects # {}]_<<vars, systemVars>>

\* An opening that is reported was under no free pass and followed no unlock by less
\* than the grace time minus what the opening took to arrive: unless the start of the
\* free pass had been missed, or the unlock: it was not heard of when it happened, and
\* the log was not asked for it, or has it in words that no handler knows.
ReportsAreJustified ==
    [][LET e == Head(feed) IN
       OpeningArrives /\ IsReported =>
         /\ e.quiet => e.missed \cap {"schedule", "evacuation"} # {}
         /\ e.gap \in 0 .. Grace[Door] - MaxDelay => "unlock" \in e.missed
       ]_<<vars, systemVars>>

\* A door that is left open for good outside any free pass, whether it was opened before
\* or after the last restart, is reported as held open during that very opening, if that
\* was heard of.  There is one way to say nothing: a close was lost, and of what the
\* watcher takes for one long opening it has reported an earlier part.
LeftOpenIsReported ==
    <>[](real.position = "open" /\ ~real.schedule /\ ~real.evacuation /\ missed = {})
      => <>[](told \/ (unclosed /\ held_open_fired[Door]))
=============================================================================
