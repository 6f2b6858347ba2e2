------------------------ MODULE WatcherSystemProofs ------------------------
(***************************************************************************)
(* Proofs about WatcherSystem.  A step of the whole system is, for the     *)
(* state machine, a step of its own, no step at all, or a fresh start: so  *)
(* what is proved of DetectionPipeline alone survives the feed, the replay *)
(* of the log, a snapshot that is out of date and restarts at any moment.  *)
(***************************************************************************)
EXTENDS WatcherSystem, DetectionPipelineProofs, SequenceTheorems, WellFoundedInduction

\* The one door of the model is a door.
LEMMA DoorIsADoor == Door \in Doors
BY WorldAssumption

-----------------------------------------------------------------------------
(* Types of the world: ages, events and the feed.                           *)

\* The caps of the ages are numbers.
LEMMA Caps == UnlockCap \in Nat /\ LastAgeCap \in Nat
BY WorldAssumption, DoorIsADoor, TimesAssumption DEF UnlockCap, LastAgeCap, Worst

\* A set of ages that is not empty has a least one.
LEMMA LeastAge == ASSUME NEW S \in SUBSET Nat, S # {}
                  PROVE  \E a \in S : \A b \in S : a <= b
<1> DEFINE Before == {p \in Nat \X Nat : p[1] < p[2]}
<1>1. IsWellFoundedOn(Before, Nat)
  BY NatLessThanWellFounded DEF OpToRel
<1>2. \A a, b \in Nat : <<b, a>> \in Before <=> b < a
  OBVIOUS
<1> HIDE DEF Before
<1>3. PICK a \in S : \A b \in S : ~(<<b, a>> \in Before)
  BY <1>1, WFMin
<1>4. \A b \in S : ~(b < a)
  BY <1>2, <1>3
<1>5. \A b \in S : a <= b
  BY <1>4
<1> QED BY <1>5

\* The age of the latest unlock is an age, or None.
LEMMA NewestIsAnAge == ASSUME NEW S \in SUBSET UnlockAges
                       PROVE  Newest(S) \in UnlockAges \cup {None}
<1>1. S \in SUBSET Nat
  BY Caps DEF UnlockAges
<1> QED BY <1>1, LeastAge DEF Newest

\* What is sent is an event.
LEMMA TellIsAnEvent == ASSUME SystemTypeOK, NEW what \in Whats PROVE Tell(what) \in Event
<1>1. Newest(unlocked) \in UnlockAges \cup {None}
  BY NewestIsAnAge DEF SystemTypeOK
<1>2. real.schedule \/ real.evacuation \in BOOLEAN
  BY DEF SystemTypeOK
<1>3. 0 \in 0 .. MaxDelay
  BY WorldAssumption
<1> QED BY <1>1, <1>2, <1>3 DEF Tell, Event, SystemTypeOK

\* An event that has been on its way for one tick more is one, unless it is too late.
LEMMA WaitingIsAnEvent ==
    ASSUME NEW e \in Event, e.waited < MaxDelay
    PROVE  [e EXCEPT !.waited = @ + 1] \in Event
BY WorldAssumption DEF Event

\* What an event tells is one of Whats, and it has waited a bounded time.
LEMMA EventFields == ASSUME NEW e \in Event PROVE e.what \in Whats /\ e.waited \in 0 .. MaxDelay
BY DEF Event, Whats

\* What happens to the door leaves the state machine alone: it is only sent, or missed.
LEMMA HappenIsOutside == \A what, aspect : Happen(what, aspect) => UNCHANGED vars
BY DEF Happen

\* Nothing the world does is a step of the state machine.
LEMMA WorldIsOutside == ASSUME World PROVE UNCHANGED vars
BY HappenIsOutside, Zenon DEF World, MoveDoor, Schedule, Evacuate, Unlock

\* Whatever a snapshot says, seeding a door from it is a step of the state machine.
LEMMA AnySeedIsAStep ==
    ASSUME NEW status, NEW relay, NEW rule \in {"schedule", None},
           SeedDoor(Door, status, relay, rule)
    PROVE  Next
<1>1. status \in {"open", "close", None}
  BY DEF SeedDoor
<1> DEFINE known == IF relay = "unlock" THEN "unlock" ELSE "lock"
<1>2. /\ ScheduleRule(known, rule) <=> ScheduleRule(relay, rule)
      /\ TemporaryRule(known, rule) <=> TemporaryRule(relay, rule)
  BY DEF ScheduleRule, TemporaryRule
<1>3. /\ ScheduleRule(known, rule) = ScheduleRule(relay, rule)
      /\ TemporaryRule(known, rule) = TemporaryRule(relay, rule)
  BY <1>2 DEF ScheduleRule, TemporaryRule
<1>4. known \in {"lock", "unlock"}
  OBVIOUS
<1> HIDE DEF known
<1>5. SeedDoor(Door, status, known, rule)
  BY <1>3, Zenon DEF SeedDoor
<1> QED BY <1>1, <1>4, <1>5, DoorIsADoor DEF Next, Seeding

\* A step of the lifespan is a seed, the start of the stream, or nothing to it.
LEMMA StartIsAStep == ASSUME Start PROVE [Next]_vars
<1>1. CASE \E status \in {"open", "close", None} : ListDoors(status)
  BY <1>1 DEF ListDoors
<1>2. CASE \E rule \in {"schedule", None} : SeedFromSnapshot(rule)
  BY <1>2, AnySeedIsAStep DEF SeedFromSnapshot
<1>3. CASE Subscribe
  BY <1>3 DEF Subscribe, Next, Seeding
<1> QED BY <1>1, <1>2, <1>3 DEF Start

\* An unlock of the door that names nobody is a step of the state machine.
LEMMA UnlockIsAStep == ASSUME OnUnlockEvent(Door, "granted", None) PROVE Next
BY DoorIsADoor DEF Next, Unlocking, Persons

\* So is whatever a delivered event makes its handler do, if it does anything.
LEMMA HandleIsAStep == ASSUME NEW what \in Whats, Handle(what) PROVE [Next]_vars
<1>1. \/ \E status \in {"open", "close"} : OnDps(Door, status)
      \/ OnUnlockEvent(Door, "granted", None)
      \/ OnScheduleActivate(Door)
      \/ OnScheduleDeactivate(Door)
      \/ \E mode \in {"evacuation", "normal"} : OnEmergency(mode)
      \/ UNCHANGED vars
  BY DEF Handle, Whats
<1> QED BY <1>1, UnlockIsAStep, DoorIsADoor DEF Next, Moving, Passing

\* A step of the stream handles an event, or leaves the state machine alone.
LEMMA StreamIsAStep == ASSUME SystemTypeOK, Stream PROVE [Next]_vars
<1>1. CASE SomePoll
  BY <1>1, UnlockIsAStep DEF SomePoll, Poll
<1>2. CASE Connect
  BY <1>2 DEF Connect
<1>3. CASE LoseLink
  BY <1>3 DEF LoseLink
<1>4. CASE Deliver
  <2>1. Head(feed) \in Event
    BY <1>4, HeadTailProperties DEF Deliver, SystemTypeOK
  <2> QED BY <1>4, <2>1, HandleIsAStep, EventFields DEF Deliver
<1> QED BY <1>1, <1>2, <1>3, <1>4 DEF Stream

\* The process starts again as it first started: nothing is persisted.
LEMMA RestartIsAStart == ASSUME Restart PROVE Init'
BY DEF Restart, Init

\* Every step of the system is a step of the state machine, or its fresh start.
LEMMA SystemStep == SystemTypeOK /\ [SystemNext]_<<vars, systemVars>> => [Next]_vars \/ Init'
<1> SUFFICES ASSUME SystemTypeOK, [SystemNext]_<<vars, systemVars>>
             PROVE  [Next]_vars \/ Init'
  OBVIOUS
<1>1. CASE World
  BY <1>1, WorldIsOutside
<1>2. CASE Start
  BY <1>2, StartIsAStep
<1>3. CASE Restart
  BY <1>3, RestartIsAStart
<1>4. CASE Stream
  BY <1>4, StreamIsAStep
<1>5. CASE WakeUp
  BY <1>5, DoorIsADoor DEF WakeUp, Next
<1>6. CASE Pass
  BY <1>6 DEF Pass, Next
<1>7. CASE UNCHANGED <<vars, systemVars>>
  BY <1>7
<1> QED BY <1>1, <1>2, <1>3, <1>4, <1>5, <1>6, <1>7 DEF SystemNext

\* A state machine that starts afresh is in a state its invariant allows.
LEMMA InitIInvNext == Init' => IInv'
BY InitIInv, PTL

-----------------------------------------------------------------------------
(* The types of the world are kept.  WorldTyped is what SystemTypeOK adds.  *)

WorldTyped ==
    /\ real \in [position : {"open", "close"}, schedule : BOOLEAN, evacuation : BOOLEAN]
    /\ unlocked \subseteq UnlockAges
    /\ unseen \subseteq unheard /\ unheard \subseteq unlocked
    /\ link \in {"down", "polled", "up"}
    /\ feed \in Seq(Event) /\ Len(feed) <= FeedCap
    /\ lastAge \in 0 .. LastAgeCap \cup {None}
    /\ snapshot \in Snapshots \cup {None}
    /\ missed \subseteq Aspects
    /\ told \in BOOLEAN /\ unclosed \in BOOLEAN
    /\ changes \in 0 .. MaxChanges
    /\ troubles \in 0 .. MaxTroubles

\* What is sent or missed keeps the types of all but the door and its unlocks.
LEMMA HappenTyped ==
    ASSUME SystemTypeOK, NEW what \in Whats, NEW aspect, Happen(what, aspect),
           real' \in [position : {"open", "close"}, schedule : BOOLEAN, evacuation : BOOLEAN],
           unlocked' \subseteq UnlockAges,
           unseen' \subseteq unheard', unheard' \subseteq unlocked',
           told' \in BOOLEAN, unclosed' \in BOOLEAN
    PROVE  WorldTyped'
<1>1. changes' \in 0 .. MaxChanges
  BY WorldAssumption DEF Happen, SystemTypeOK
<1>2. missed' \subseteq Aspects
  BY DEF Happen, SystemTypeOK
<1>3. feed' \in Seq(Event) /\ Len(feed') <= FeedCap
  <2>1. Tell(what) \in Event
    BY TellIsAnEvent
  <2>2. \/ Len(feed) < FeedCap /\ feed' = Append(feed, Tell(what))
        \/ feed' = feed
    BY DEF Happen
  <2>3. feed \in Seq(Event) /\ Len(feed) <= FeedCap /\ Len(feed) \in Nat
    BY LenProperties DEF SystemTypeOK
  <2>4. /\ Append(feed, Tell(what)) \in Seq(Event)
        /\ Len(Append(feed, Tell(what))) = Len(feed) + 1
    BY <2>1, <2>3, AppendProperties
  <2>5. CASE feed' = feed
    BY <2>3, <2>5
  <2>6. CASE Len(feed) < FeedCap /\ feed' = Append(feed, Tell(what))
    <3>1. FeedCap \in Nat
      BY WorldAssumption
    <3> QED BY <2>3, <2>4, <2>6, <3>1
  <2> QED BY <2>2, <2>5, <2>6
<1> QED BY <1>1, <1>2, <1>3 DEF WorldTyped, Happen, SystemTypeOK

\* The steps of the world keep the types.
LEMMA WorldKeepsTypes == ASSUME SystemTypeOK, World PROVE WorldTyped'
<1> DEFINE Reals == [position : {"open", "close"}, schedule : BOOLEAN, evacuation : BOOLEAN]
<1>1. CASE MoveDoor
  <2> DEFINE status == IF real.position = "open" THEN "close" ELSE "open"
  <2>1. status \in Whats /\ [real EXCEPT !.position = status] \in Reals
    BY DEF SystemTypeOK, Whats
  <2>2. /\ Happen(status, "position")
        /\ real' = [real EXCEPT !.position = status]
        /\ UNCHANGED <<unlocked, unseen, unheard>>
        /\ told' = FALSE /\ unclosed' \in BOOLEAN
    BY <1>1, Zenon DEF MoveDoor
  <2>3. /\ real' \in Reals /\ unlocked' \subseteq UnlockAges
        /\ unseen' \subseteq unheard' /\ unheard' \subseteq unlocked'
    BY <2>1, <2>2 DEF SystemTypeOK
  <2> HIDE DEF status
  <2> QED BY <2>1, <2>2, <2>3, HappenTyped
<1>2. CASE Schedule
  <2> DEFINE what == IF real.schedule THEN "schedule off" ELSE "schedule on"
  <2>1. what \in Whats /\ [real EXCEPT !.schedule = ~@] \in Reals
    BY DEF SystemTypeOK, Whats
  <2> QED BY <1>2, <2>1, HappenTyped DEF Schedule, SystemTypeOK, pastVars
<1>3. CASE Evacuate
  <2> DEFINE what == IF real.evacuation THEN "evacuation off" ELSE "evacuation on"
  <2>1. what \in Whats /\ [real EXCEPT !.evacuation = ~@] \in Reals
    BY DEF SystemTypeOK, Whats
  <2> QED BY <1>3, <2>1, HappenTyped DEF Evacuate, SystemTypeOK, pastVars
<1>4. CASE Unlock
  <2>1. 0 \in UnlockAges /\ "unlock" \in Whats
    BY Caps DEF UnlockAges, Whats
  <2> QED BY <1>4, <2>1, HappenTyped DEF Unlock, SystemTypeOK
<1> QED BY <1>1, <1>2, <1>3, <1>4 DEF World

\* The start and a restart keep the types.
LEMMA StartKeepsTypes == ASSUME SystemTypeOK, Start \/ Restart PROVE WorldTyped'
<1>1. ASSUME NEW status \in {"open", "close", None}, ListDoors(status) PROVE WorldTyped'
  BY <1>1 DEF ListDoors, WorldTyped, SystemTypeOK, Snapshots, worldVars, streamVars, pastVars
<1>2. ASSUME NEW rule \in {"schedule", None}, SeedFromSnapshot(rule) PROVE WorldTyped'
  BY <1>2 DEF SeedFromSnapshot, WorldTyped, SystemTypeOK, worldVars, streamVars, pastVars
<1>3. CASE Subscribe
  BY <1>3 DEF Subscribe, WorldTyped, SystemTypeOK, systemVars, worldVars, streamVars, pastVars
<1>4. CASE Restart
  <2>1. feed' \in Seq(Event) /\ Len(feed') <= FeedCap
    BY <1>4, WorldAssumption, EmptySeq DEF Restart
  <2>2. missed' \subseteq Aspects
    BY <1>4 DEF Restart, Aspects
  <2>3. troubles' \in 0 .. MaxTroubles
    BY <1>4, WorldAssumption DEF Restart, SystemTypeOK
  <2>4. UNCHANGED worldVars
    BY <1>4 DEF Restart
  <2>5. /\ unseen' = unlocked /\ unheard' = unlocked /\ told' = FALSE /\ unclosed' = FALSE
        /\ link' = "down" /\ lastAge' = None /\ snapshot' = None
    BY <1>4 DEF Restart
  <2> QED BY <2>1, <2>2, <2>3, <2>4, <2>5 DEF WorldTyped, SystemTypeOK, worldVars
<1> QED BY <1>1, <1>2, <1>3, <1>4 DEF Start

\* So do the steps of the stream.
LEMMA StreamKeepsTypes == ASSUME SystemTypeOK, Stream PROVE WorldTyped'
<1>1. ASSUME NEW hits, NEW heeded \in SUBSET hits, Poll(hits, heeded) PROVE WorldTyped'
  BY <1>1 DEF Poll, WorldTyped, SystemTypeOK, worldVars
<1>2. CASE Connect
  BY <1>2 DEF Connect, WorldTyped, SystemTypeOK, worldVars, pastVars
<1>3. CASE LoseLink
  <2>1. feed' \in Seq(Event) /\ Len(feed') <= FeedCap
    BY <1>3, WorldAssumption, EmptySeq DEF LoseLink
  <2>2. missed' \subseteq Aspects
    BY <1>3 DEF LoseLink, SystemTypeOK
  <2>3. troubles' \in 0 .. MaxTroubles
    BY <1>3, WorldAssumption DEF LoseLink, SystemTypeOK
  <2>4. /\ UNCHANGED <<worldVars, unseen, lastAge, snapshot, unheard, told>>
        /\ link' = "down" /\ unclosed' \in BOOLEAN
    BY <1>3 DEF LoseLink
  <2> QED BY <2>1, <2>2, <2>3, <2>4 DEF WorldTyped, SystemTypeOK, worldVars
<1>4. CASE Deliver
  <2> DEFINE e == Head(feed)
  <2>1. e \in Event /\ Tail(feed) \in Seq(Event) /\ Len(Tail(feed)) = Len(feed) - 1
    BY <1>4, HeadTailProperties DEF Deliver, SystemTypeOK
  <2>2. e.waited \in 0 .. LastAgeCap
    <3>1. e.waited \in 0 .. MaxDelay
      BY <2>1, EventFields
    <3> QED BY <3>1, WorldAssumption DEF LastAgeCap, Worst
  <2>3. /\ feed' = Tail(feed)
        /\ lastAge' = lastAge \/ lastAge' = e.waited
        /\ UNCHANGED <<worldVars, link, snapshot, missed, told, troubles>>
    BY <1>4 DEF Deliver
  <2>6. unseen' \subseteq unheard' /\ unheard' \subseteq unheard /\ unclosed' \in BOOLEAN
    BY <1>4 DEF Deliver, SystemTypeOK
  <2>4. feed' \in Seq(Event) /\ Len(feed') <= FeedCap
    <3>1. Len(feed) \in Nat
      BY LenProperties DEF SystemTypeOK
    <3> QED BY <2>1, <2>3, <3>1, WorldAssumption DEF SystemTypeOK
  <2> HIDE DEF e
  <2>5. lastAge' \in 0 .. LastAgeCap \cup {None}
    BY <2>2, <2>3 DEF SystemTypeOK
  <2> QED BY <2>3, <2>4, <2>5, <2>6 DEF WorldTyped, SystemTypeOK, worldVars
<1> QED BY <1>1, <1>2, <1>3, <1>4 DEF Stream, SomePoll

\* Time keeps them: nothing on its way gets too late, and the ages stop at their caps.
LEMMA PassKeepsTypes == ASSUME SystemTypeOK, Pass PROVE WorldTyped'
<1>1. feed' = [i \in DOMAIN feed |-> [feed[i] EXCEPT !.waited = @ + 1]]
  BY DEF Pass
<1>2. \A i \in 1 .. Len(feed) : [feed[i] EXCEPT !.waited = @ + 1] \in Event
  <2> SUFFICES ASSUME NEW i \in 1 .. Len(feed)
               PROVE  [feed[i] EXCEPT !.waited = @ + 1] \in Event
    OBVIOUS
  <2>1. feed[i] \in Event /\ i \in DOMAIN feed
    BY ElementOfSeq, LenProperties DEF SystemTypeOK
  <2>2. feed[i].waited < MaxDelay
    BY <2>1 DEF Pass
  <2> QED BY <2>1, <2>2, WaitingIsAnEvent
<1>3. feed' \in Seq(Event) /\ Len(feed') = Len(feed)
  <2>1. DOMAIN feed = 1 .. Len(feed) /\ Len(feed) \in Nat
    BY LenProperties DEF SystemTypeOK
  <2>2. feed' \in [1 .. Len(feed) -> Event]
    BY <1>1, <1>2, <2>1
  <2>3. feed' \in Seq(Event)
    BY <2>1, <2>2, SeqDef
  <2>4. Len(feed') \in Nat /\ DOMAIN feed' = 1 .. Len(feed') /\ DOMAIN feed' = 1 .. Len(feed)
    BY <2>2, <2>3, LenProperties
  <2> DEFINE old == Len(feed)
             new == Len(feed')
  <2>5. old \in Nat /\ new \in Nat /\ 1 .. new = 1 .. old
    BY <2>1, <2>4
  <2> HIDE DEF old, new
  <2>6. (old \in 1 .. old => old \in 1 .. new) /\ (new \in 1 .. new => new \in 1 .. old)
    BY <2>5
  <2>7. old = new
    BY <2>5, <2>6
  <2> QED BY <2>3, <2>7 DEF old, new
<1>4. /\ unlocked' \subseteq UnlockAges
      /\ unseen' \subseteq unheard' /\ unheard' \subseteq unlocked'
  BY DEF Pass, SystemTypeOK
<1>5. lastAge' \in 0 .. LastAgeCap \cup {None}
  <2>1. lastAge' = IF lastAge \in {None, LastAgeCap} THEN lastAge ELSE lastAge + 1
    BY DEF Pass
  <2>2. lastAge \in 0 .. LastAgeCap \cup {None}
    BY DEF SystemTypeOK
  <2> QED BY <2>1, <2>2, Caps
<1>6. UNCHANGED <<real, link, snapshot, missed, told, unclosed, changes, troubles>>
  BY DEF Pass
<1> QED BY <1>3, <1>4, <1>5, <1>6 DEF WorldTyped, SystemTypeOK

-----------------------------------------------------------------------------
(* The invariant, and the theorems.                                         *)

SystemInv == IInv /\ SystemTypeOK

\* The invariant holds at first.
LEMMA InitSystemInv == SystemInit => SystemInv
<1> SUFFICES ASSUME SystemInit PROVE SystemInv
  OBVIOUS
<1>1. IInv
  BY InitIInv DEF SystemInit
<1>2. TypeOK
  BY <1>1 DEF IInv
<1>3. feed \in Seq(Event) /\ Len(feed) <= FeedCap
  BY WorldAssumption, EmptySeq DEF SystemInit
<1>4. missed \subseteq Aspects
  BY DEF SystemInit, Aspects
<1>5. 0 \in 0 .. MaxChanges /\ 0 \in 0 .. MaxTroubles
  BY WorldAssumption
<1> QED BY <1>1, <1>2, <1>3, <1>4, <1>5 DEF SystemInv, SystemTypeOK, SystemInit

\* Every step keeps it.
LEMMA SystemNextKeeps ==
    SystemInv /\ [SystemNext]_<<vars, systemVars>> => SystemInv'
<1> SUFFICES ASSUME SystemInv, [SystemNext]_<<vars, systemVars>> PROVE SystemInv'
  OBVIOUS
<1>1. IInv'
  BY SystemStep, NextKeeps, InitIInvNext DEF SystemInv
<1>2. WorldTyped'
  <2>1. CASE World
    BY <2>1, WorldKeepsTypes DEF SystemInv
  <2>2. CASE Start \/ Restart
    BY <2>2, StartKeepsTypes DEF SystemInv
  <2>3. CASE Stream
    BY <2>3, StreamKeepsTypes DEF SystemInv
  <2>4. CASE Pass
    BY <2>4, PassKeepsTypes DEF SystemInv
  <2>5. CASE UNCHANGED systemVars
    BY <2>5 DEF SystemInv, SystemTypeOK, WorldTyped, systemVars, worldVars, streamVars, pastVars
  <2>6. CASE WakeUp
    BY <2>6 DEF SystemInv, SystemTypeOK, WorldTyped, WakeUp, worldVars, streamVars
  <2> QED BY <2>1, <2>2, <2>3, <2>4, <2>5, <2>6 DEF SystemNext
<1>3. TypeOK'
  BY <1>1 DEF IInv
<1> QED BY <1>1, <1>2, <1>3 DEF SystemInv, SystemTypeOK, WorldTyped

\* The invariant of the state machine holds in the whole system, whatever happens to the
\* door, the feed, the log and the process.
THEOREM SystemInvariance == SystemSpec => []IInv
<1>1. SystemInv => IInv
  BY DEF SystemInv
<1> QED BY <1>1, InitSystemInv, SystemNextKeeps, PTL DEF SystemSpec

\* Every variable of the system keeps its type.
THEOREM SystemTypes == SystemSpec => []SystemTypeOK
<1>1. SystemInv => SystemTypeOK
  BY DEF SystemInv
<1> QED BY <1>1, InitSystemInv, SystemNextKeeps, PTL DEF SystemSpec

\* A process that starts again is where the contract starts.
LEMMA ContractInitNext == Init' => (Contract!Init)'
BY ContractInit, PTL

\* In the whole system too, every opening the stream reports is judged at once by the
\* grace rule alone: a restart reports none.
THEOREM SystemJudgesOpenings == SystemSpec => EveryOpeningIsJudged
<1>1. SystemInv /\ [SystemNext]_<<vars, systemVars>> =>
        [\A d \in Doors :
            phase = "live" /\ dps[d] # "open" /\ dps'[d] = "open"
            => ( (\E a \in alerts' : a.type = "unauthorized" /\ a.door = d)
                   <=> ~FreePass(d) /\ last_unlock_age[d] \notin 0 .. Grace[d] )]_vars
  <2> SUFFICES ASSUME SystemInv, [SystemNext]_<<vars, systemVars>>, NEW d \in Doors,
                      phase = "live", dps[d] # "open", dps'[d] = "open"
               PROVE  (\E a \in alerts' : a.type = "unauthorized" /\ a.door = d)
                        <=> ~FreePass(d) /\ last_unlock_age[d] \notin 0 .. Grace[d]
    OBVIOUS
  <2>1. ~Init'
    BY DEF Init
  <2>2. IInv /\ [Next]_vars
    BY <2>1, SystemStep DEF SystemInv
  <2> QED BY <2>2, OpeningJudgedStep
<1> QED BY <1>1, InitSystemInv, SystemNextKeeps, PTL DEF SystemSpec, EveryOpeningIsJudged

\* And every watchdog that sleeps its whole term reports its door: only a restart ends one
\* without a word, and with its slot.
THEOREM SystemWatchdogsAlert == SystemSpec => EveryRunOutAlerts
<1>1. SystemInv /\ [SystemNext]_<<vars, systemVars>> =>
        [\A d \in Doors :
            /\ sleeping[d] # {}
            /\ sleeping'[d] = {}
            /\ held_open_task'[d] = held_open_task[d]
            /\ ~held_open_fired[d]
            => \E a \in alerts' : a.type = "held_open" /\ a.door = d]_vars
  <2> SUFFICES ASSUME SystemInv, [SystemNext]_<<vars, systemVars>>, NEW d \in Doors,
                      sleeping[d] # {}, sleeping'[d] = {},
                      held_open_task'[d] = held_open_task[d], ~held_open_fired[d]
               PROVE  \E a \in alerts' : a.type = "held_open" /\ a.door = d
    OBVIOUS
  <2>1. held_open_task[d] # None
    <3>1. PICK w \in sleeping[d] : w.id = held_open_task[d]
      BY DEF SystemInv, IInv, SingleWatchdog
    <3>2. w.id \in TaskIds
      BY <3>1 DEF SystemInv, IInv, TypeOK, Tasks
    <3> QED BY <3>1, <3>2, NamesAssumption
  <2>2. ~Init'
    BY <2>1 DEF Init
  <2>3. IInv /\ [Next]_vars
    BY <2>2, SystemStep DEF SystemInv
  <2> QED BY <2>3, RunOutStep
<1> QED BY <1>1, InitSystemInv, SystemNextKeeps, PTL DEF SystemSpec, EveryRunOutAlerts

\* Between two starts of the process the contract is kept: each kind of alert at most once
\* for an opening, and for no door that is closed or under a free pass.
THEOREM ContractBetweenStarts ==
    SystemSpec => Contract!Init /\ [][Contract!Next \/ (Contract!Init)']_Contract!vars
<1>1. SystemInit => Contract!Init
  BY ContractInit DEF SystemInit
<1>2. SystemInv /\ [SystemNext]_<<vars, systemVars>> =>
        [Contract!Next \/ (Contract!Init)']_Contract!vars
  BY SystemStep, ContractStep, ContractInitNext DEF SystemInv
<1> QED BY <1>1, <1>2, InitSystemInv, SystemNextKeeps, PTL DEF SystemSpec
=============================================================================
