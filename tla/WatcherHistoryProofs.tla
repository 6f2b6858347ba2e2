------------------------ MODULE WatcherHistoryProofs ------------------------
(***************************************************************************)
(* What the watcher knows of its door, and why it speaks or is silent: the *)
(* proofs of ReportedIsReal, SilenceIsJustified and ReportsAreJustified.   *)
(*                                                                         *)
(* All three are about what is still on its way: the feed is read in       *)
(* order, so what the watcher will know when an event arrives is decided   *)
(* by what it knows now and by the events before that one.  The invariant  *)
(* says this for the whole feed, and for every opening in it.              *)
(***************************************************************************)
EXTENDS WatcherSystemProofs

-----------------------------------------------------------------------------
(* What a part of the feed says.                                            *)

OnOff(flag) == IF flag THEN "on" ELSE "off"

\* What an event says of its aspect of the door.
WordOf(what) ==
    CASE what \in {"open", "close"} -> what
      [] what \in {"schedule on", "evacuation on"} -> "on"
      [] OTHER -> "off"

\* After the first n events of f, aspect a is said to be v; it was old before them.
Says(f, n, a, v, old) ==
    \/ \E j \in 1 .. n : /\ AspectOf(f[j].what) = a
                         /\ WordOf(f[j].what) = v
                         /\ \A k \in j + 1 .. n : AspectOf(f[k].what) # a
    \/ /\ \A j \in 1 .. n : AspectOf(f[j].what) # a
       /\ old = v

\* No event says nothing new.
LEMMA NothingSaid == ASSUME NEW f, NEW a, NEW v, NEW old PROVE Says(f, 0, a, v, old) <=> old = v
BY DEF Says

\* It is what the events are that counts, not how long they wait, nor what follows.
LEMMA SaidBySame ==
    ASSUME NEW f, NEW g, NEW n \in Nat, NEW a, NEW v, NEW old,
           \A j \in 1 .. n : f[j].what = g[j].what,
           Says(f, n, a, v, old)
    PROVE  Says(g, n, a, v, old)
<1>1. ASSUME NEW j \in 1 .. n, AspectOf(f[j].what) = a, WordOf(f[j].what) = v,
             \A k \in j + 1 .. n : AspectOf(f[k].what) # a
      PROVE  Says(g, n, a, v, old)
  <2>1. \A k \in j + 1 .. n : k \in 1 .. n
    OBVIOUS
  <2>2. \A k \in j + 1 .. n : AspectOf(g[k].what) # a
    BY <1>1, <2>1
  <2>3. AspectOf(g[j].what) = a /\ WordOf(g[j].what) = v
    BY <1>1
  <2> QED BY <2>2, <2>3 DEF Says
<1>2. ASSUME \A j \in 1 .. n : AspectOf(f[j].what) # a, old = v PROVE Says(g, n, a, v, old)
  BY <1>2 DEF Says
<1> QED BY <1>1, <1>2 DEF Says

\* A new event has the last word on its aspect, and none on the others.
LEMMA SaidByNew ==
    ASSUME NEW f \in Seq(Event), NEW e \in Event, NEW a, NEW v, NEW old,
           IF AspectOf(e.what) = a THEN WordOf(e.what) = v ELSE Says(f, Len(f), a, v, old)
    PROVE  Says(Append(f, e), Len(f) + 1, a, v, old)
<1> DEFINE g == Append(f, e)
           n == Len(f)
<1>1. n \in Nat /\ g[n + 1] = e /\ (\A j \in 1 .. n : g[j] = f[j])
  BY AppendProperties, LenProperties
<1> HIDE DEF g, n
<1>2. CASE AspectOf(e.what) = a
  <2>1. n + 1 \in 1 .. n + 1 /\ (\A k \in (n + 1) + 1 .. n + 1 : FALSE)
    BY <1>1
  <2> QED BY <1>1, <1>2, <2>1 DEF Says, g, n
<1>3. CASE AspectOf(e.what) # a
  <2>1. Says(f, n, a, v, old)
    BY <1>3 DEF n
  <2>2. Says(g, n, a, v, old)
    BY <1>1, <2>1, SaidBySame
  <2>3. AspectOf(g[n + 1].what) # a
    BY <1>1, <1>3
  <2>4. \A k \in Int : k <= n + 1 <=> k <= n \/ k = n + 1
    BY <1>1
  <2>5. Says(g, n + 1, a, v, old)
    BY <1>1, <2>2, <2>3, <2>4 DEF Says
  <2> QED BY <2>5 DEF g, n
<1> QED BY <1>2, <1>3

\* Once the first event has been taken in, the others say the same.
LEMMA SaidByRest ==
    ASSUME NEW f \in Seq(Event), f # <<>>, NEW n \in 1 .. Len(f), NEW a, NEW v, NEW old, NEW new,
           new = IF AspectOf(Head(f).what) = a THEN WordOf(Head(f).what) ELSE old,
           Says(f, n, a, v, old)
    PROVE  Says(Tail(f), n - 1, a, v, new)
<1> DEFINE g == Tail(f)
<1>1. Head(f) = f[1] /\ Len(f) \in Nat
  BY HeadTailProperties, LenProperties
<1>2. \A k \in 1 .. n - 1 : g[k] = f[k + 1]
  BY <1>1, HeadTailProperties
<1> HIDE DEF g
<1>3. ASSUME NEW j \in 1 .. n, AspectOf(f[j].what) = a, WordOf(f[j].what) = v,
             \A k \in j + 1 .. n : AspectOf(f[k].what) # a
      PROVE  Says(g, n - 1, a, v, new)
  <2>1. CASE j = 1
    <3>1. \A k \in 1 .. n - 1 : k + 1 \in j + 1 .. n
      BY <2>1
    <3>2. \A k \in 1 .. n - 1 : AspectOf(g[k].what) # a
      BY <1>2, <1>3, <3>1
    <3> QED BY <1>1, <1>3, <2>1, <3>2 DEF Says
  <2>2. CASE j # 1
    <3>1. /\ j - 1 \in 1 .. n - 1
          /\ (j - 1) + 1 = j
          /\ \A k \in (j - 1) + 1 .. n - 1 : k \in 1 .. n - 1 /\ k + 1 \in j + 1 .. n
      BY <2>2
    <3>2. \A k \in (j - 1) + 1 .. n - 1 : AspectOf(g[k].what) # a
      BY <1>2, <1>3, <3>1
    <3>3. AspectOf(g[j - 1].what) = a /\ WordOf(g[j - 1].what) = v
      BY <1>2, <1>3, <3>1
    <3> QED BY <3>1, <3>2, <3>3 DEF Says
  <2> QED BY <2>1, <2>2
<1>4. ASSUME \A j \in 1 .. n : AspectOf(f[j].what) # a, old = v PROVE Says(g, n - 1, a, v, new)
  <2>1. 1 \in 1 .. n /\ \A k \in 1 .. n - 1 : k + 1 \in 1 .. n
    OBVIOUS
  <2>2. new = v
    BY <1>1, <1>4, <2>1
  <2> QED BY <1>2, <1>4, <2>1, <2>2 DEF Says
<1> QED BY <1>3, <1>4 DEF Says, g

-----------------------------------------------------------------------------
(* The invariant.                                                           *)

LastUnlock == last_unlock_age[Door]
Scheduled  == OnOff(schedule_unlock_active[Door])
Evacuated  == OnOff(emergency_evacuation_active)

\* Nothing is on its way without a link, and seeding comes before the stream: the door is
\* seeded at most once, with no schedule known before.
SeedsFirst ==
    /\ phase = "seeding" => link = "down"
    /\ link # "up" => feed = <<>>
    /\ snapshot # None => phase = "seeding" /\ Door \in unseeded
    /\ phase = "seeding" /\ Door \in unseeded => ~schedule_unlock_active[Door]
    /\ ~temporary_unlock_active[Door]

\* An aspect that is not missed will be known once the feed has been read, or is known
\* from the snapshot when the door is still to be seeded from it.
WillBeKnown ==
    IF snapshot = None
    THEN /\ "position" \notin missed =>
              Says(feed, Len(feed), "position", real.position, dps[Door])
         /\ "schedule" \notin missed =>
              Says(feed, Len(feed), "schedule", OnOff(real.schedule), Scheduled)
         /\ "evacuation" \notin missed =>
              Says(feed, Len(feed), "evacuation", OnOff(real.evacuation), Evacuated)
    ELSE /\ "position" \notin missed => snapshot.status = real.position
         /\ "schedule" \notin missed => snapshot.relay = "lock" /\ ~real.schedule
         /\ "evacuation" \notin missed => Evacuated = OnOff(real.evacuation)

\* So will be, when an opening arrives, what was so when it was sent.
KnownAtOpening(i) ==
    /\ "position" \notin feed[i].missed => Says(feed, i - 1, "position", "close", dps[Door])
    /\ feed[i].missed \cap {"schedule", "evacuation"} = {} =>
         \E s, v \in {"on", "off"} :
            /\ Says(feed, i - 1, "schedule", s, Scheduled)
            /\ Says(feed, i - 1, "evacuation", v, Evacuated)
            /\ feed[i].quiet <=> s = "on" \/ v = "on"

OpeningsWillBeKnown == \A i \in DOMAIN feed : feed[i].what = "open" => KnownAtOpening(i)

\* How much older an unlock can be than the watcher takes it to be.
Lateness == Worst(MaxDelay, Lookback)

\* The unlock that still excuses openings was one, not much earlier.
LastUnlockWasOne ==
    LastUnlock \in 0 .. Grace[Door] => \E a \in unlocked : a <= LastUnlock + Lateness

\* An unlock that had an effect is not taken to be earlier than it was.
UnlocksAreHandled == \A a \in unlocked \ unheard : LastUnlock # None /\ LastUnlock <= a

\* An opening on its way was not sent before the unlock that will excuse it.
ExcusedAfter(i) ==
    /\ LastUnlock \in 0 .. Grace[Door] =>
         feed[i].gap # None /\ feed[i].gap + feed[i].waited <= LastUnlock + Lateness
    /\ \A j \in 1 .. i - 1 : feed[j].what = "unlock" =>
         feed[i].gap # None /\ feed[i].gap + feed[i].waited <= feed[j].waited

\* It will be excused by an unlock before it, unless that was missed.
ExcusedBy(i) ==
    "unlock" \notin feed[i].missed /\ feed[i].gap # None =>
      \/ LastUnlock # None /\ LastUnlock <= feed[i].gap + feed[i].waited
      \/ \E j \in 1 .. i - 1 : /\ feed[j].what = "unlock"
                               /\ feed[j].waited <= feed[i].gap + feed[i].waited

OpeningsFollowUnlocks ==
    /\ Coming \subseteq unlocked
    /\ \A i \in DOMAIN feed : feed[i].what = "open" => ExcusedAfter(i) /\ ExcusedBy(i)

HistoryInv ==
    /\ SystemInv
    /\ SeedsFirst
    /\ WillBeKnown
    /\ OpeningsWillBeKnown
    /\ LastUnlockWasOne
    /\ UnlocksAreHandled
    /\ OpeningsFollowUnlocks

-----------------------------------------------------------------------------
(* What the handlers change of what the invariant is about.                 *)

known == <<dps[Door], schedule_unlock_active[Door], emergency_evacuation_active,
           temporary_unlock_active[Door]>>

\* Opening, repeated or for the first time, changes no more than the position.
LEMMA OpeningTells ==
    ASSUME TypeOK, NEW S, NEW source, HandleOpen(S, source)
    PROVE  dps'[Door] = IF Door \in S THEN "open" ELSE dps[Door]
BY DoorIsADoor DEF HandleOpen

\* Each handler of the feed changes its own aspect, or dates the unlock.
LEMMA HandlersTell ==
    ASSUME TypeOK, NEW what \in Whats, Handle(what)
    PROVE  /\ dps'[Door] = IF what \in {"open", "close"} THEN what ELSE dps[Door]
           /\ schedule_unlock_active'[Door] \in BOOLEAN
           /\ what = "schedule on" => schedule_unlock_active'[Door]
           /\ what = "schedule off" => ~schedule_unlock_active'[Door]
           /\ what \notin {"schedule on", "schedule off"} =>
                schedule_unlock_active'[Door] = schedule_unlock_active[Door]
           /\ what = "evacuation on" => emergency_evacuation_active'
           /\ what = "evacuation off" => ~emergency_evacuation_active'
           /\ what \notin {"evacuation on", "evacuation off"} =>
                emergency_evacuation_active' = emergency_evacuation_active
           /\ temporary_unlock_active'[Door] = temporary_unlock_active[Door]
           /\ last_unlock_age'[Door] = IF what = "unlock" THEN 0 ELSE last_unlock_age[Door]
           /\ UNCHANGED <<phase, unseeded>>
<1>1. CASE what \in {"open", "close"}
  <2>1. OnDps(Door, what)
    BY <1>1 DEF Handle
  <2>2. dps'[Door] = what
    BY <2>1, DoorIsADoor DEF OnDps, HandleOpen, HandleClose, TypeOK
  <2> QED BY <1>1, <2>1, <2>2, DoorIsADoor DEF OnDps, passVars, unlockVars, startVars, TypeOK
<1>2. CASE what = "unlock"
  <2>1. OnUnlockEvent(Door, "granted", None)
    BY <1>2 DEF Handle
  <2> QED BY <1>2, <2>1, DoorIsADoor
       DEF OnUnlockEvent, RecordUnlock, passVars, openVars, startVars, TypeOK
<1>3. CASE what = "schedule on"
  <2>1. OnScheduleActivate(Door)
    BY <1>3 DEF Handle
  <2> QED BY <1>3, <2>1, DoorIsADoor
       DEF OnScheduleActivate, unlockVars, openVars, startVars, TypeOK
<1>4. CASE what = "schedule off"
  <2>1. OnScheduleDeactivate(Door)
    BY <1>4 DEF Handle
  <2>2. dps'[Door] = dps[Door]
    BY <2>1, OpeningTells DEF OnScheduleDeactivate, FreePassEnd, Sweep
  <2> QED BY <1>4, <2>1, <2>2, DoorIsADoor
       DEF OnScheduleDeactivate, FreePassEnd, unlockVars, startVars, TypeOK
<1>5. CASE what = "evacuation on"
  <2>1. OnEmergency("evacuation")
    BY <1>5 DEF Handle
  <2> QED BY <1>5, <2>1, DoorIsADoor
       DEF OnEmergency, unlockVars, openVars, startVars, TypeOK
<1>6. CASE what = "evacuation off" /\ OnEmergency("normal")
  <2>1. dps'[Door] = dps[Door]
    <3>1. Sweep(Doors, "emergency_ended")
      BY <1>6 DEF OnEmergency
    <3>2. dps'[Door] =
            IF Door \in {d \in Doors : dps[d] = "open" /\ ~FreePass(d)'} THEN "open" ELSE dps[Door]
      BY <3>1, OpeningTells DEF Sweep
    <3> QED BY <3>2
  <2> QED BY <1>6, <2>1, DoorIsADoor
       DEF OnEmergency, unlockVars, openVars, startVars, TypeOK
<1>7. CASE what = "evacuation off" /\ ~emergency_evacuation_active /\ UNCHANGED vars
  BY <1>7, DoorIsADoor
  DEF vars, openVars, passVars, unlockVars, startVars, TypeOK
<1> QED BY <1>1, <1>2, <1>3, <1>4, <1>5, <1>6, <1>7 DEF Handle, Whats

\* What is known of the door is moved on by an event as WordOf says.
LEMMA EventsTell ==
    ASSUME TypeOK, NEW what \in Whats, Handle(what)
    PROVE  /\ dps'[Door] = IF AspectOf(what) = "position" THEN WordOf(what) ELSE dps[Door]
           /\ Scheduled' = IF AspectOf(what) = "schedule" THEN WordOf(what) ELSE Scheduled
           /\ Evacuated' = IF AspectOf(what) = "evacuation" THEN WordOf(what) ELSE Evacuated
<1>1. dps'[Door] = IF AspectOf(what) = "position" THEN WordOf(what) ELSE dps[Door]
  BY HandlersTell DEF AspectOf, WordOf, Whats
<1>2. Scheduled' = IF AspectOf(what) = "schedule" THEN WordOf(what) ELSE Scheduled
  <2>1. CASE what \in {"schedule on", "schedule off"}
    BY <2>1, HandlersTell DEF AspectOf, WordOf, Scheduled, OnOff
  <2>2. CASE what \notin {"schedule on", "schedule off"}
    <3>1. AspectOf(what) # "schedule"
      BY <2>2 DEF AspectOf, Whats
    <3>2. schedule_unlock_active'[Door] = schedule_unlock_active[Door]
      BY <2>2, HandlersTell
    <3> QED BY <3>1, <3>2 DEF Scheduled
  <2> QED BY <2>1, <2>2
<1>3. Evacuated' = IF AspectOf(what) = "evacuation" THEN WordOf(what) ELSE Evacuated
  <2>1. CASE what \in {"evacuation on", "evacuation off"}
    BY <2>1, HandlersTell DEF AspectOf, WordOf, Evacuated, OnOff
  <2>2. CASE what \notin {"evacuation on", "evacuation off"}
    <3>1. AspectOf(what) # "evacuation"
      BY <2>2 DEF AspectOf, Whats
    <3>2. emergency_evacuation_active' = emergency_evacuation_active
      BY <2>2, HandlersTell
    <3> QED BY <3>1, <3>2 DEF Evacuated
  <2> QED BY <2>1, <2>2
<1> QED BY <1>1, <1>2, <1>3

-----------------------------------------------------------------------------
(* Steps, by what they do to the feed and to what is known.                 *)

\* A watchdog that wakes up, and an unlock, change nothing the watcher knows of the door.
LEMMA WakingKeepsKnown == ASSUME Wake(Door) PROVE UNCHANGED <<known, LastUnlock, phase, unseeded>>
BY DEF Wake, HeldOpenWatchdog, known, passVars, unlockVars, startVars, LastUnlock

\* An unlock that is handled is dated now, and changes nothing else that is known.
LEMMA UnlockKeepsKnown ==
    ASSUME TypeOK, OnUnlockEvent(Door, "granted", None)
    PROVE  UNCHANGED <<known, phase, unseeded>> /\ LastUnlock' = 0
BY DoorIsADoor DEF OnUnlockEvent, RecordUnlock, known, openVars, passVars, startVars,
                   LastUnlock, TypeOK

\* Without a link there is nothing to replay that is not in the log, and of that only
\* what is heeded has an effect.
LEMMA PollTells ==
    ASSUME SystemTypeOK, NEW hits, NEW heeded, Poll(hits, heeded)
    PROVE  UNCHANGED <<known, phase, unseeded>> /\ LastUnlock' \in {LastUnlock, 0}
<1>1. CASE heeded = {}
  BY <1>1 DEF Poll, vars, startVars, unlockVars, openVars, passVars, known, LastUnlock
<1>2. CASE heeded # {}
  BY <1>2, UnlockKeepsKnown DEF Poll, SystemTypeOK
<1> QED BY <1>1, <1>2

\* Time ages the unlock, and nothing else that is known.
LEMMA TickTells ==
    ASSUME Tick
    PROVE  UNCHANGED <<known, phase, unseeded>> /\ LastUnlock' = Aged(LastUnlock)
BY DoorIsADoor DEF Tick, known, passVars, startVars, LastUnlock

\* Whatever happens to the door is told by one event, of the aspect that changes.
LEMMA WorldTells ==
    ASSUME SystemTypeOK, World
    PROVE  \E what \in Whats :
              /\ Happen(what, AspectOf(what))
              /\ real'.position = IF AspectOf(what) = "position" THEN WordOf(what)
                                  ELSE real.position
              /\ OnOff(real'.schedule) = IF AspectOf(what) = "schedule" THEN WordOf(what)
                                         ELSE OnOff(real.schedule)
              /\ OnOff(real'.evacuation) = IF AspectOf(what) = "evacuation" THEN WordOf(what)
                                           ELSE OnOff(real.evacuation)
              /\ what = "open" => real.position = "close"
              /\ IF what = "unlock"
                 THEN unlocked' = unlocked \cup {0} /\ unheard' = unheard \cup {0}
                 ELSE UNCHANGED <<unlocked, unheard>>
<1> USE DEF AspectOf, WordOf, Whats, OnOff
<1>0. real \in [position : {"open", "close"}, schedule : BOOLEAN, evacuation : BOOLEAN]
  BY DEF SystemTypeOK
<1>1. CASE MoveDoor
  <2> DEFINE status == IF real.position = "open" THEN "close" ELSE "open"
  <2>1. /\ Happen(status, "position")
        /\ real' = [real EXCEPT !.position = status]
        /\ UNCHANGED <<unlocked, unheard>>
    BY <1>1, Zenon DEF MoveDoor
  <2>2. status \in {"open", "close"} /\ (status = "open" => real.position = "close")
    BY <1>0
  <2> HIDE DEF status
  <2>3. /\ real'.position = status /\ real'.schedule = real.schedule
        /\ real'.evacuation = real.evacuation
    BY <1>0, <2>1
  <2> QED BY <2>1, <2>2, <2>3
<1>2. CASE Schedule
  <2> DEFINE what == IF real.schedule THEN "schedule off" ELSE "schedule on"
  <2>1. /\ Happen(what, "schedule") /\ real' = [real EXCEPT !.schedule = ~@]
        /\ UNCHANGED <<unlocked, unheard>>
    BY <1>2, Zenon DEF Schedule, pastVars
  <2>2. /\ real'.schedule = ~real.schedule /\ real'.position = real.position
        /\ real'.evacuation = real.evacuation
    BY <1>0, <2>1
  <2>3. what \in {"schedule on", "schedule off"} /\ (real.schedule <=> what = "schedule off")
    OBVIOUS
  <2> HIDE DEF what
  <2> QED BY <2>1, <2>2, <2>3
<1>3. CASE Evacuate
  <2> DEFINE what == IF real.evacuation THEN "evacuation off" ELSE "evacuation on"
  <2>1. /\ Happen(what, "evacuation") /\ real' = [real EXCEPT !.evacuation = ~@]
        /\ UNCHANGED <<unlocked, unheard>>
    BY <1>3, Zenon DEF Evacuate, pastVars
  <2>2. /\ real'.evacuation = ~real.evacuation /\ real'.position = real.position
        /\ real'.schedule = real.schedule
    BY <1>0, <2>1
  <2>3. /\ what \in {"evacuation on", "evacuation off"}
        /\ real.evacuation <=> what = "evacuation off"
    OBVIOUS
  <2> HIDE DEF what
  <2> QED BY <2>1, <2>2, <2>3
<1>4. CASE Unlock
  BY <1>4 DEF Unlock
<1> QED BY <1>1, <1>2, <1>3, <1>4 DEF World

-----------------------------------------------------------------------------
(* Seeding comes first.                                                     *)

\* It does at first,
LEMMA SeedsFirstInit == ASSUME SystemInit PROVE SeedsFirst
BY DoorIsADoor DEF SystemInit, Init, SeedsFirst

\* and every step keeps it so.
LEMMA SeedsFirstKept ==
    ASSUME SystemInv, SeedsFirst, [SystemNext]_<<vars, systemVars>> PROVE SeedsFirst'
<1> USE DEF SeedsFirst
<1>0. SystemTypeOK /\ TypeOK
  BY DEF SystemInv, SystemTypeOK
<1>1. ASSUME UNCHANGED <<known, phase, unseeded, link, snapshot>>, link = "up" \/ UNCHANGED feed
      PROVE  SeedsFirst'
  BY <1>1 DEF known
<1>2. CASE World
  <2>1. UNCHANGED <<known, phase, unseeded>>
    BY <1>2, WorldIsOutside
       DEF vars, startVars, openVars, passVars, known
  <2>2. UNCHANGED <<link, snapshot>> /\ (link = "up" \/ UNCHANGED feed)
    BY <1>0, <1>2, WorldTells DEF Happen
  <2> QED BY <1>1, <2>1, <2>2
<1>3. ASSUME NEW status, ListDoors(status) PROVE SeedsFirst'
  BY <1>3 DEF ListDoors, vars, startVars, passVars, streamVars
<1>4. ASSUME NEW rule \in {"schedule", None}, SeedFromSnapshot(rule) PROVE SeedsFirst'
  <2>1. /\ phase = "seeding" /\ UNCHANGED <<phase, link, feed>> /\ snapshot' = None
        /\ Door \notin unseeded'
    BY <1>4 DEF SeedFromSnapshot, SeedDoor, streamVars
  <2>2. temporary_unlock_active' =
          [temporary_unlock_active EXCEPT ![Door] = TemporaryRule(snapshot.relay, rule)]
    BY <1>4 DEF SeedFromSnapshot, SeedDoor
  <2>3. ~TemporaryRule(snapshot.relay, rule)
    BY NoneAssumption DEF TemporaryRule
  <2>4. ~temporary_unlock_active'[Door]
    BY <1>0, <2>2, <2>3, DoorIsADoor DEF TypeOK
  <2> QED BY <2>1, <2>4
<1>5. CASE Subscribe
  BY <1>5 DEF Subscribe, StartStream, systemVars, streamVars, passVars
<1>6. CASE Restart
  BY <1>6, DoorIsADoor DEF Restart
<1>7. ASSUME NEW hits, NEW heeded, Poll(hits, heeded) PROVE SeedsFirst'
  <2>1. UNCHANGED <<known, phase, unseeded>>
    BY <1>0, <1>7, PollTells
  <2> QED BY <1>7, <2>1 DEF Poll, known
<1>8. CASE Connect
  BY <1>8 DEF Connect, vars, startVars, passVars
<1>9. CASE LoseLink
  BY <1>9 DEF LoseLink, vars, startVars, passVars
<1>10. CASE Deliver
  <2>1. Handle(Head(feed).what) /\ link = "up" /\ UNCHANGED <<link, snapshot>>
    BY <1>10 DEF Deliver
  <2>2. Head(feed).what \in Whats
    BY <1>0, <1>10, HeadTailProperties, EventFields DEF Deliver, SystemTypeOK
  <2>3. UNCHANGED <<phase, unseeded>> /\ UNCHANGED temporary_unlock_active[Door]
    BY <1>0, <2>1, <2>2, HandlersTell
  <2> QED BY <2>1, <2>3
<1>11. CASE WakeUp
  BY <1>1, <1>11, WakingKeepsKnown DEF WakeUp, systemVars, streamVars
<1>12. CASE Pass
  <2>1. Tick /\ UNCHANGED <<link, snapshot>>
    BY <1>12 DEF Pass
  <2>2. feed = <<>> => feed' = <<>>
    BY <1>12 DEF Pass
  <2> QED BY <2>1, <2>2, TickTells DEF known
<1>13. CASE UNCHANGED <<vars, systemVars>>
  BY <1>1, <1>13 DEF vars, startVars, openVars, passVars, known, systemVars, streamVars
<1> QED BY <1>2, <1>3, <1>4, <1>5, <1>6, <1>7, <1>8, <1>9, <1>10, <1>11, <1>12, <1>13
     DEF SystemNext, Start, Stream, SomePoll

-----------------------------------------------------------------------------
(* What is not missed will be known.                                        *)

\* What is sent is said after all that is on its way.
LEMMA SentIsSaid ==
    ASSUME SystemTypeOK, NEW what \in Whats, feed' = Append(feed, Tell(what)),
           NEW a, NEW v, NEW old,
           IF AspectOf(what) = a THEN WordOf(what) = v ELSE Says(feed, Len(feed), a, v, old)
    PROVE  Says(feed', Len(feed'), a, v, old)
<1>1. Tell(what) \in Event /\ Tell(what).what = what
  BY TellIsAnEvent DEF Tell
<1>2. Len(feed') = Len(feed) + 1 /\ feed \in Seq(Event)
  BY <1>1, AppendProperties DEF SystemTypeOK
<1> QED BY <1>1, <1>2, SaidByNew

\* Of an empty feed only what is known already counts.
LEMMA EmptyFeed == feed = <<>> => Len(feed) = 0
BY EmptySeq

\* The feed and the snapshot left alone, with what is known and missed.
LEMMA KnownIfUnchanged ==
    ASSUME WillBeKnown, UNCHANGED <<known, feed, real, missed, snapshot>> PROVE WillBeKnown'
BY DEF WillBeKnown, known, Scheduled, Evacuated

\* What happens is missed, or on its way.
LEMMA WorldKeepsKnown ==
    ASSUME SystemTypeOK, SeedsFirst, WillBeKnown, World PROVE WillBeKnown'
<1>1. PICK what \in Whats :
         /\ Happen(what, AspectOf(what))
         /\ real'.position = IF AspectOf(what) = "position" THEN WordOf(what) ELSE real.position
         /\ OnOff(real'.schedule) = IF AspectOf(what) = "schedule" THEN WordOf(what)
                                    ELSE OnOff(real.schedule)
         /\ OnOff(real'.evacuation) = IF AspectOf(what) = "evacuation" THEN WordOf(what)
                                      ELSE OnOff(real.evacuation)
  BY WorldTells
<1>2. UNCHANGED <<dps[Door], Scheduled, Evacuated, snapshot>>
  BY <1>1, WorldIsOutside DEF Happen, vars, openVars, passVars, Scheduled, Evacuated
<1>3. CASE link = "up"
  <2>1. snapshot = None
    BY <1>3 DEF SeedsFirst
  <2>2. feed' = Append(feed, Tell(what)) /\ missed' = missed \ {AspectOf(what)}
    BY <1>1, <1>3 DEF Happen
  <2>3. ASSUME "position" \notin missed'
        PROVE  Says(feed', Len(feed'), "position", real'.position, dps[Door])
    <3>1. AspectOf(what) # "position" => Says(feed, Len(feed), "position", real.position, dps[Door])
      BY <2>1, <2>2, <2>3 DEF WillBeKnown
    <3> QED BY <1>1, <2>2, <3>1, SentIsSaid
  <2>4. ASSUME "schedule" \notin missed'
        PROVE  Says(feed', Len(feed'), "schedule", OnOff(real'.schedule), Scheduled)
    <3>1. AspectOf(what) # "schedule"
             => Says(feed, Len(feed), "schedule", OnOff(real.schedule), Scheduled)
      BY <2>1, <2>2, <2>4 DEF WillBeKnown
    <3> QED BY <1>1, <2>2, <3>1, SentIsSaid
  <2>5. ASSUME "evacuation" \notin missed'
        PROVE  Says(feed', Len(feed'), "evacuation", OnOff(real'.evacuation), Evacuated)
    <3>1. AspectOf(what) # "evacuation"
             => Says(feed, Len(feed), "evacuation", OnOff(real.evacuation), Evacuated)
      BY <2>1, <2>2, <2>5 DEF WillBeKnown
    <3> QED BY <1>1, <2>2, <3>1, SentIsSaid
  <2> QED BY <1>2, <2>1, <2>3, <2>4, <2>5 DEF WillBeKnown
<1>4. CASE link # "up"
  <2>1. UNCHANGED feed /\ missed' = missed \cup ({AspectOf(what)} \cap Aspects)
    BY <1>1, <1>4 DEF Happen
  <2>2. /\ "position" \notin missed' => real'.position = real.position
        /\ "schedule" \notin missed' => OnOff(real'.schedule) = OnOff(real.schedule)
        /\ "evacuation" \notin missed' => OnOff(real'.evacuation) = OnOff(real.evacuation)
    BY <1>1, <2>1 DEF Aspects
  <2>3. "schedule" \notin missed' => (real'.schedule <=> real.schedule)
    BY <2>2 DEF OnOff
  <2>4. missed \subseteq missed'
    BY <2>1
  <2> QED BY <1>2, <2>1, <2>2, <2>3, <2>4 DEF WillBeKnown
<1> QED BY <1>3, <1>4

\* list_doors tells of the door as it is: of the schedule too, if there is none.
LEMMA ListingKeepsKnown ==
    ASSUME SystemInv, SeedsFirst, WillBeKnown, NEW status, ListDoors(status) PROVE WillBeKnown'
<1>1. /\ phase = "seeding" /\ Door \in unseeded /\ snapshot = None
      /\ status \in {real.position, None}
      /\ snapshot' = [status |-> status, relay |-> IF real.schedule THEN "unlock" ELSE "lock"]
      /\ UNCHANGED <<real, Evacuated>>
  BY DEF ListDoors, vars, passVars, worldVars, Evacuated
<1>2. feed = <<>> /\ ~schedule_unlock_active[Door]
  BY <1>1 DEF SeedsFirst
<1>3. Len(feed) = 0
  BY <1>2, EmptyFeed
<1>4. dps[Door] = "unknown" /\ real.position \in {"open", "close"} /\ real.schedule \in BOOLEAN
  BY <1>1 DEF SystemInv, IInv, UnseededAreUnknown, SystemTypeOK
<1>5. "position" \in missed
  BY <1>1, <1>3, <1>4, NothingSaid DEF WillBeKnown
<1>6. "schedule" \notin missed => ~real.schedule
  BY <1>1, <1>2, <1>3, NothingSaid DEF WillBeKnown, Scheduled, OnOff
<1>7. "evacuation" \notin missed => Evacuated = OnOff(real.evacuation)
  BY <1>1, <1>3, NothingSaid DEF WillBeKnown
<1>8. snapshot' \in Snapshots
  BY <1>1, <1>4 DEF Snapshots
<1>9. snapshot' # None
  BY <1>8, NoneAssumption
<1>10. missed' = missed \ {a \in {"position", "schedule"} :
                              \/ a = "position" /\ status # None
                              \/ a = "schedule" /\ ~real.schedule}
  BY DEF ListDoors
<1>11. "position" \notin missed' => snapshot'.status = real.position
  BY <1>1, <1>5, <1>10
<1>12. "schedule" \notin missed' => snapshot'.relay = "lock" /\ ~real.schedule
  BY <1>1, <1>6, <1>10
<1>13. "evacuation" \notin missed' => Evacuated = OnOff(real.evacuation)
  BY <1>7, <1>10
<1> QED BY <1>1, <1>9, <1>11, <1>12, <1>13 DEF WillBeKnown

\* The snapshot and the rule are put together without leaving an older value behind.
LEMMA SeedingKeepsKnown ==
    ASSUME SystemTypeOK, SeedsFirst, WillBeKnown,
           NEW rule \in {"schedule", None}, SeedFromSnapshot(rule)
    PROVE  WillBeKnown'
<1>1. /\ snapshot # None /\ snapshot' = None
      /\ phase = "seeding"
      /\ SeedDoor(Door, snapshot.status, snapshot.relay, rule)
      /\ missed' = IF snapshot.relay = "unlock" /\ (rule = "schedule" <=> real.schedule)
                   THEN missed \ {"schedule"} ELSE missed
      /\ UNCHANGED <<real, feed, Evacuated>>
  BY DEF SeedFromSnapshot, SeedDoor, worldVars, streamVars, Evacuated
<1>2. feed' = <<>> /\ Len(feed') = 0
  BY <1>1, EmptyFeed DEF SeedsFirst
<1>3. real.position \in {"open", "close"} /\ real.schedule \in BOOLEAN /\ TypeOK
  BY DEF SystemTypeOK
<1>4. ASSUME "position" \notin missed' PROVE dps'[Door] = real.position
  <2>1. snapshot.status = real.position /\ snapshot.status # None
    BY <1>1, <1>3, <1>4, NoneAssumption DEF WillBeKnown
  <2>2. CASE real.position = "open"
    <3>1. HandleOpen({Door}, "startup_open")
      BY <1>1, <2>1, <2>2 DEF SeedDoor
    <3> QED BY <1>3, <2>2, <3>1, OpeningTells
  <2>3. CASE real.position = "close"
    BY <1>1, <1>3, <2>1, <2>3, DoorIsADoor DEF SeedDoor, TypeOK
  <2> QED BY <1>3, <2>2, <2>3
<1>5. ASSUME "schedule" \notin missed' PROVE Scheduled' = OnOff(real.schedule)
  <2>1. schedule_unlock_active' =
          [schedule_unlock_active EXCEPT ![Door] = ScheduleRule(snapshot.relay, rule)]
    BY <1>1 DEF SeedDoor
  <2>2. schedule_unlock_active'[Door] = ScheduleRule(snapshot.relay, rule)
    BY <1>3, <2>1, DoorIsADoor DEF TypeOK
  <2>3. ScheduleRule(snapshot.relay, rule) <=> real.schedule
    BY <1>1, <1>5 DEF ScheduleRule, WillBeKnown
  <2> QED BY <2>2, <2>3 DEF Scheduled, OnOff
<1>6. "evacuation" \notin missed' => Evacuated' = OnOff(real.evacuation)
  BY <1>1 DEF WillBeKnown
<1> QED BY <1>1, <1>2, <1>4, <1>5, <1>6, NothingSaid DEF WillBeKnown

\* A process that has just started.
Fresh ==
    /\ Init /\ feed = <<>> /\ snapshot = None
    /\ real \in [position : {"open", "close"}, schedule : BOOLEAN, evacuation : BOOLEAN]
    /\ missed = {"position"} \cup {a \in {"schedule", "evacuation"} : real[a]}

\* It takes for missed what it cannot know.
LEMMA FreshIsKnown == Fresh => WillBeKnown
<1> SUFFICES ASSUME Fresh PROVE WillBeKnown
  OBVIOUS
<1> USE DEF Fresh
<1>1. "schedule" \notin missed => ~real.schedule
  OBVIOUS
<1>2. "evacuation" \notin missed => ~real.evacuation
  OBVIOUS
<1>3. Scheduled = "off" /\ Evacuated = "off"
  BY DoorIsADoor DEF Init, Scheduled, Evacuated, OnOff
<1> QED BY <1>1, <1>2, <1>3, EmptyFeed, NothingSaid DEF WillBeKnown, OnOff

\* Also one that starts again.
LEMMA FreshIsKnownNext == Fresh' => WillBeKnown'
BY FreshIsKnown, PTL

\* What a broken link takes along is missed.
LEMMA LosingKeepsKnown ==
    ASSUME SystemTypeOK, SeedsFirst, WillBeKnown, LoseLink PROVE WillBeKnown'
<1>1. /\ snapshot' = None /\ snapshot = None /\ feed' = <<>> /\ Len(feed') = 0
      /\ UNCHANGED <<real, dps[Door], Scheduled, Evacuated>>
      /\ missed' = missed \cup ({AspectOf(feed[i].what) : i \in DOMAIN feed} \cap Aspects)
  <2>1. feed' = <<>> /\ link # "down"
    BY DEF LoseLink
  <2>2. Len(feed') = 0
    BY <2>1, EmptySeq
  <2>3. snapshot = None
    BY <2>1 DEF SeedsFirst
  <2> QED BY <2>1, <2>2, <2>3
       DEF LoseLink, vars, openVars, passVars, worldVars, Scheduled, Evacuated
<1>2. DOMAIN feed = 1 .. Len(feed)
  BY LenProperties DEF SystemTypeOK
<1>3. ASSUME NEW a \in Aspects, a \notin missed', NEW v, NEW old, Says(feed, Len(feed), a, v, old)
      PROVE  old = v
  BY <1>1, <1>2, <1>3 DEF Says
<1>4. missed \subseteq missed'
  BY <1>1
<1>5. "position" \notin missed' => dps[Door] = real.position
  BY <1>1, <1>3, <1>4 DEF WillBeKnown, Aspects
<1>6. "schedule" \notin missed' => Scheduled = OnOff(real.schedule)
  BY <1>1, <1>3, <1>4 DEF WillBeKnown, Aspects
<1>7. "evacuation" \notin missed' => Evacuated = OnOff(real.evacuation)
  BY <1>1, <1>3, <1>4 DEF WillBeKnown, Aspects
<1> QED BY <1>1, <1>5, <1>6, <1>7, NothingSaid DEF WillBeKnown

\* The first event has become known, and the others say the rest.
LEMMA DeliveryMovesOn ==
    ASSUME SystemTypeOK, Deliver, NEW n \in 1 .. Len(feed), NEW v
    PROVE  /\ Says(feed, n, "position", v, dps[Door])
                => Says(feed', n - 1, "position", v, dps'[Door])
           /\ Says(feed, n, "schedule", v, Scheduled)
                => Says(feed', n - 1, "schedule", v, Scheduled')
           /\ Says(feed, n, "evacuation", v, Evacuated)
                => Says(feed', n - 1, "evacuation", v, Evacuated')
<1>1. /\ feed \in Seq(Event) /\ feed # <<>> /\ feed' = Tail(feed)
      /\ Handle(Head(feed).what) /\ TypeOK
  BY DEF SystemTypeOK, Deliver
<1>2. Head(feed).what \in Whats
  BY <1>1, HeadTailProperties, EventFields
<1> DEFINE what == Head(feed).what
<1>3. /\ dps'[Door] = IF AspectOf(what) = "position" THEN WordOf(what) ELSE dps[Door]
      /\ Scheduled' = IF AspectOf(what) = "schedule" THEN WordOf(what) ELSE Scheduled
      /\ Evacuated' = IF AspectOf(what) = "evacuation" THEN WordOf(what) ELSE Evacuated
  BY <1>1, <1>2, EventsTell
<1> QED BY <1>1, <1>3, SaidByRest

\* So an event that arrives does not change what will be known.
LEMMA DeliveryKeepsKnown ==
    ASSUME SystemTypeOK, SeedsFirst, WillBeKnown, Deliver PROVE WillBeKnown'
<1>1. /\ snapshot = None /\ UNCHANGED <<snapshot, real, missed>>
      /\ feed \in Seq(Event) /\ feed # <<>> /\ feed' = Tail(feed)
  BY DEF SeedsFirst, SystemTypeOK, Deliver, worldVars
<1>2. Len(feed) \in 1 .. Len(feed) /\ Len(feed') = Len(feed) - 1
  BY <1>1, HeadTailProperties, EmptySeq
<1> QED BY <1>1, <1>2, DeliveryMovesOn DEF WillBeKnown

\* Time does not change what the feed says.
LEMMA TimeKeepsWords ==
    ASSUME SystemTypeOK, Pass
    PROVE  /\ DOMAIN feed' = DOMAIN feed /\ Len(feed') = Len(feed)
           /\ \A i \in DOMAIN feed : /\ feed'[i] = [feed[i] EXCEPT !.waited = @ + 1]
                                     /\ feed'[i].what = feed[i].what
                                     /\ feed'[i].waited = feed[i].waited + 1
<1>1. feed' = [i \in DOMAIN feed |-> [feed[i] EXCEPT !.waited = @ + 1]]
  BY DEF Pass
<1>2. DOMAIN feed = 1 .. Len(feed) /\ Len(feed) \in Nat /\ \A i \in DOMAIN feed : feed[i] \in Event
  BY LenProperties, ElementOfSeq DEF SystemTypeOK
<1>3. feed' \in Seq(Event)
  BY PassKeepsTypes DEF WorldTyped
<1>4. DOMAIN feed' = 1 .. Len(feed') /\ Len(feed') \in Nat /\ DOMAIN feed' = DOMAIN feed
  BY <1>1, <1>3, LenProperties
<1> DEFINE old == Len(feed)
           new == Len(feed')
<1>5. old \in Nat /\ new \in Nat /\ 1 .. new = 1 .. old
  BY <1>2, <1>4
<1> HIDE DEF old, new
<1>6. old = new
  <2>1. (old \in 1 .. old => old \in 1 .. new) /\ (new \in 1 .. new => new \in 1 .. old)
    BY <1>5
  <2> QED BY <1>5, <2>1
<1>7. ASSUME NEW i \in DOMAIN feed
      PROVE  /\ feed'[i] = [feed[i] EXCEPT !.waited = @ + 1]
             /\ feed'[i].what = feed[i].what
             /\ feed'[i].waited = feed[i].waited + 1
  <2>1. feed'[i] = [feed[i] EXCEPT !.waited = @ + 1]
    BY <1>1
  <2> QED BY <1>2, <2>1 DEF Event
<1> QED BY <1>4, <1>6, <1>7 DEF old, new

\* So it says the same of the door after a tick,
LEMMA TimeKeepsSaid ==
    ASSUME SystemTypeOK, Pass, NEW n \in 0 .. Len(feed), NEW a, NEW v, NEW old,
           Says(feed, n, a, v, old)
    PROVE  Says(feed', n, a, v, old)
<1>1. DOMAIN feed = 1 .. Len(feed) /\ Len(feed) \in Nat
  BY LenProperties DEF SystemTypeOK
<1>2. n \in Nat /\ \A j \in 1 .. n : j \in DOMAIN feed
  BY <1>1
<1>3. \A j \in 1 .. n : feed[j].what = feed'[j].what
  BY <1>2, TimeKeepsWords
<1> QED BY <1>2, <1>3, SaidBySame

\* and the same will be known.
LEMMA TimeKeepsKnown == ASSUME SystemTypeOK, WillBeKnown, Pass PROVE WillBeKnown'
<1>1. Len(feed) \in 0 .. Len(feed) /\ Len(feed') = Len(feed)
  BY TimeKeepsWords, LenProperties DEF SystemTypeOK
<1>2. UNCHANGED <<real, snapshot, missed, dps[Door], Scheduled, Evacuated>>
  BY TickTells DEF Pass, known, Scheduled, Evacuated
<1> QED BY <1>1, <1>2, TimeKeepsSaid DEF WillBeKnown

\* No step makes the watcher end up with an older value of what is not missed.
LEMMA KnownKept ==
    ASSUME SystemInv, SeedsFirst, WillBeKnown, [SystemNext]_<<vars, systemVars>>
    PROVE  WillBeKnown'
<1>0. SystemTypeOK /\ TypeOK
  BY DEF SystemInv, SystemTypeOK
<1>1. CASE World
  BY <1>0, <1>1, WorldKeepsKnown
<1>2. CASE Start
  <2>1. ASSUME Subscribe PROVE WillBeKnown'
    BY <2>1, KnownIfUnchanged
       DEF Subscribe, StartStream, openVars, passVars, known, systemVars, worldVars, streamVars
  <2> QED BY <1>0, <1>2, <2>1, ListingKeepsKnown, SeedingKeepsKnown DEF Start
<1>3. CASE Restart
  <2>1. Fresh'
    BY <1>0, <1>3, RestartIsAStart DEF Restart, Fresh, worldVars, SystemTypeOK
  <2> QED BY <2>1, FreshIsKnownNext
<1>4. CASE Stream
  <2>1. ASSUME NEW hits, NEW heeded, Poll(hits, heeded) PROVE WillBeKnown'
    BY <1>0, <2>1, PollTells, KnownIfUnchanged DEF Poll, worldVars
  <2>2. ASSUME Connect PROVE WillBeKnown'
    BY <2>2, KnownIfUnchanged DEF Connect, vars, openVars, passVars, known, worldVars
  <2> QED BY <1>0, <1>4, <2>1, <2>2, LosingKeepsKnown, DeliveryKeepsKnown DEF Stream, SomePoll
<1>5. CASE WakeUp
  BY <1>5, WakingKeepsKnown, KnownIfUnchanged DEF WakeUp, systemVars, worldVars, streamVars
<1>6. CASE Pass
  BY <1>0, <1>6, TimeKeepsKnown
<1>7. CASE UNCHANGED <<vars, systemVars>>
  BY <1>7, KnownIfUnchanged
     DEF vars, openVars, passVars, known, systemVars, worldVars, streamVars
<1> QED BY <1>1, <1>2, <1>3, <1>4, <1>5, <1>6, <1>7 DEF SystemNext

-----------------------------------------------------------------------------
(* What is known when an opening arrives.                                   *)

\* While there is a link, and only then, something is on its way: the steps that keep
\* it, or make it, are few.
LEMMA LinkedSteps ==
    ASSUME SystemInv, SeedsFirst, [SystemNext]_<<vars, systemVars>>, link' = "up"
    PROVE  \/ World /\ link = "up"
           \/ Deliver
           \/ Pass
           \/ UNCHANGED <<known, LastUnlock, feed, unlocked>>
<1>1. ASSUME Connect PROVE UNCHANGED <<known, LastUnlock, feed, unlocked>>
  BY <1>1 DEF Connect, vars, openVars, passVars, unlockVars, known, worldVars, LastUnlock
<1>2. ASSUME WakeUp PROVE UNCHANGED <<known, LastUnlock, feed, unlocked>>
  BY <1>2, WakingKeepsKnown DEF WakeUp, systemVars, worldVars, streamVars
<1>3. ASSUME UNCHANGED <<vars, systemVars>> PROVE UNCHANGED <<known, LastUnlock, feed, unlocked>>
  BY <1>3 DEF vars, openVars, passVars, unlockVars, known, systemVars, worldVars, streamVars,
              LastUnlock
<1>4. Start => link' = link /\ phase = "seeding"
  BY SeedsFirst DEF Start, ListDoors, SeedFromSnapshot, SeedDoor, Subscribe, StartStream,
                    systemVars, streamVars
<1>5. ~Start
  BY <1>4 DEF SeedsFirst
<1>6. ~Restart /\ ~LoseLink /\ \A hits, heeded : ~Poll(hits, heeded)
  BY DEF Restart, LoseLink, Poll
<1>7. World => link' = link
  BY WorldTells DEF SystemInv, Happen
<1> QED BY <1>1, <1>2, <1>3, <1>5, <1>6, <1>7 DEF SystemNext, Stream, SomePoll

\* The feed, with one event more.
LEMMA SendingAppends ==
    ASSUME SystemTypeOK, NEW what \in Whats, feed' = Append(feed, Tell(what))
    PROVE  /\ DOMAIN feed = 1 .. Len(feed) /\ Len(feed) \in Nat
           /\ DOMAIN feed' = 1 .. Len(feed) + 1
           /\ \A i \in 1 .. Len(feed) : feed'[i] = feed[i]
           /\ feed'[Len(feed) + 1] = Tell(what)
<1>1. feed \in Seq(Event) /\ Tell(what) \in Event
  BY TellIsAnEvent DEF SystemTypeOK
<1>2. /\ feed' \in Seq(Event) /\ Len(feed') = Len(feed) + 1
      /\ \A i \in 1 .. Len(feed) : feed'[i] = feed[i]
      /\ feed'[Len(feed) + 1] = Tell(what)
  BY <1>1, AppendProperties
<1> QED BY <1>1, <1>2, LenProperties

\* The feed, with its first event gone.
LEMMA DeliveringShifts ==
    ASSUME SystemTypeOK, Deliver
    PROVE  /\ DOMAIN feed = 1 .. Len(feed) /\ Len(feed) \in Nat \ {0}
           /\ DOMAIN feed' = 1 .. Len(feed) - 1
           /\ \A i \in 1 .. Len(feed) - 1 : feed'[i] = feed[i + 1]
           /\ Head(feed) = feed[1] /\ feed[1] \in Event
<1>1. feed \in Seq(Event) /\ feed # <<>> /\ feed' = Tail(feed)
  BY DEF SystemTypeOK, Deliver
<1>2. /\ feed' \in Seq(Event) /\ Len(feed') = Len(feed) - 1 /\ Head(feed) \in Event
      /\ \A i \in 1 .. Len(feed') : feed'[i] = feed[i + 1]
  BY <1>1, HeadTailProperties
<1> QED BY <1>1, <1>2, LenProperties, EmptySeq

\* No step changes what will be known when an opening that is on its way arrives.
LEMMA OpeningsKept ==
    ASSUME SystemInv, SeedsFirst, WillBeKnown, OpeningsWillBeKnown,
           [SystemNext]_<<vars, systemVars>>
    PROVE  OpeningsWillBeKnown'
<1>0. SystemTypeOK /\ TypeOK
  BY DEF SystemInv, SystemTypeOK
<1>1. CASE link' # "up"
  <2>1. feed' = <<>>
    BY <1>1, SeedsFirstKept DEF SeedsFirst
  <2> QED BY <2>1 DEF OpeningsWillBeKnown
<1>2. CASE World /\ link = "up"
  <2>1. PICK what \in Whats :
           Happen(what, AspectOf(what)) /\ (what = "open" => real.position = "close")
    BY <1>0, <1>2, WorldTells
  <2>2. feed' = Append(feed, Tell(what))
    BY <1>2, <2>1 DEF Happen
  <2>3. UNCHANGED <<dps[Door], Scheduled, Evacuated>> /\ snapshot = None
    BY <1>2, WorldIsOutside DEF vars, openVars, passVars, Scheduled, Evacuated, SeedsFirst
  <2>4. ASSUME NEW n \in 0 .. Len(feed), NEW b, NEW v, NEW old, Says(feed, n, b, v, old)
        PROVE  Says(feed', n, b, v, old)
    <3>1. n \in Nat /\ \A j \in 1 .. n : feed[j].what = feed'[j].what
      BY <1>0, <2>2, SendingAppends
    <3> QED BY <2>4, <3>1, SaidBySame
  <2>5. ASSUME NEW i \in 1 .. Len(feed), feed'[i].what = "open" PROVE KnownAtOpening(i)'
    <3>1. feed'[i] = feed[i] /\ i \in DOMAIN feed /\ i - 1 \in 0 .. Len(feed)
      BY <1>0, <2>2, SendingAppends
    <3>2. KnownAtOpening(i)
      BY <2>5, <3>1 DEF OpeningsWillBeKnown
    <3> QED BY <2>3, <2>4, <3>1, <3>2 DEF KnownAtOpening
  <2>6. ASSUME NEW i, i = Len(feed) + 1, feed'[i].what = "open" PROVE KnownAtOpening(i)'
    <3>1. /\ Len(feed) \in 0 .. Len(feed) /\ i - 1 = Len(feed)
          /\ feed'[i] = Tell(what)
      BY <1>0, <2>2, <2>6, SendingAppends
    <3>2. what = "open"
      BY <2>6, <3>1 DEF Tell
    <3>3. /\ feed'[i].quiet = (real.schedule \/ real.evacuation)
          /\ missed \subseteq feed'[i].missed
      BY <3>1, <3>2 DEF Tell
    <3>4. "position" \notin feed'[i].missed
             => Says(feed, Len(feed), "position", "close", dps[Door])
      BY <2>1, <2>3, <3>2, <3>3 DEF WillBeKnown
    <3>5. feed'[i].missed \cap {"schedule", "evacuation"} = {}
             => /\ Says(feed, Len(feed), "schedule", OnOff(real.schedule), Scheduled)
                /\ Says(feed, Len(feed), "evacuation", OnOff(real.evacuation), Evacuated)
      BY <2>3, <3>3 DEF WillBeKnown
    <3>6. /\ OnOff(real.schedule) \in {"on", "off"} /\ OnOff(real.evacuation) \in {"on", "off"}
          /\ feed'[i].quiet
               <=> OnOff(real.schedule) = "on" \/ OnOff(real.evacuation) = "on"
      BY <3>3 DEF OnOff
    <3> QED BY <2>3, <2>4, <3>1, <3>4, <3>5, <3>6 DEF KnownAtOpening
  <2>7. \A i \in DOMAIN feed' : i \in 1 .. Len(feed) \/ i = Len(feed) + 1
    BY <1>0, <2>2, SendingAppends
  <2> QED BY <2>5, <2>6, <2>7 DEF OpeningsWillBeKnown
<1>3. CASE Deliver
  <2> SUFFICES ASSUME NEW i \in DOMAIN feed', feed'[i].what = "open" PROVE KnownAtOpening(i)'
    BY DEF OpeningsWillBeKnown
  <2>1. /\ i \in 1 .. Len(feed) /\ i + 1 \in DOMAIN feed /\ feed'[i] = feed[i + 1]
        /\ (i + 1) - 1 = i
    BY <1>0, <1>3, DeliveringShifts
  <2>2. KnownAtOpening(i + 1)
    BY <2>1 DEF OpeningsWillBeKnown
  <2> QED BY <1>0, <1>3, <2>1, <2>2, DeliveryMovesOn DEF KnownAtOpening
<1>4. CASE Pass
  <2> SUFFICES ASSUME NEW i \in DOMAIN feed', feed'[i].what = "open" PROVE KnownAtOpening(i)'
    BY DEF OpeningsWillBeKnown
  <2>1. /\ i \in DOMAIN feed /\ feed'[i] = [feed[i] EXCEPT !.waited = @ + 1]
        /\ feed[i].what = "open"
    BY <1>0, <1>4, TimeKeepsWords
  <2>2. feed[i] \in Event /\ i - 1 \in 0 .. Len(feed)
    BY <1>0, <2>1, LenProperties, ElementOfSeq DEF SystemTypeOK
  <2>3. feed'[i].missed = feed[i].missed /\ feed'[i].quiet = feed[i].quiet
    BY <2>1, <2>2 DEF Event
  <2>4. KnownAtOpening(i)
    BY <2>1 DEF OpeningsWillBeKnown
  <2>5. UNCHANGED <<dps[Door], Scheduled, Evacuated>>
    BY <1>4, TickTells DEF Pass, known, Scheduled, Evacuated
  <2> QED BY <1>0, <1>4, <2>2, <2>3, <2>4, <2>5, TimeKeepsSaid DEF KnownAtOpening
<1>5. CASE UNCHANGED <<known, LastUnlock, feed, unlocked>>
  BY <1>5 DEF OpeningsWillBeKnown, KnownAtOpening, known, Scheduled, Evacuated
<1> QED BY <1>1, <1>2, <1>3, <1>4, <1>5, LinkedSteps

-----------------------------------------------------------------------------
(* What the unlocks were.                                                   *)

\* The bounds the argument needs: ages of interest are never cut.
LEMMA Bounds ==
    /\ Grace[Door] \in Int /\ Grace[Door] < AgeCap /\ AgeCap \in Nat
    /\ MaxDelay \in Nat /\ Lookback \in Nat /\ Lateness \in Nat
    /\ MaxDelay <= Lateness /\ Lookback <= Lateness
    /\ Grace[Door] + Lateness <= UnlockCap
    /\ MaxDelay <= UnlockCap
BY WorldAssumption, TimesAssumption, DoorIsADoor DEF Lateness, UnlockCap, Worst

\* The age of the last unlock is an age, if there was one.
LEMMA LastUnlockIsAnAge == TypeOK => LastUnlock \in 0 .. AgeCap \cup {None}
BY DoorIsADoor DEF TypeOK, LastUnlock, Ages

\* The newest of some unlocks is one of them, and older than none.
LEMMA NewestIsLeast ==
    ASSUME NEW S \in SUBSET UnlockAges
    PROVE  /\ Newest(S) # None => Newest(S) \in S
           /\ \A a \in S : Newest(S) \in S /\ Newest(S) # None /\ Newest(S) <= a
<1>1. S \in SUBSET Nat
  BY Caps DEF UnlockAges
<1>2. CASE S = {}
  BY <1>2 DEF Newest
<1>3. CASE S # {}
  <2>1. Newest(S) \in S /\ \A b \in S : Newest(S) <= b
    BY <1>1, <1>3, LeastAge DEF Newest
  <2> QED BY <1>1, <2>1, NamesAssumption
<1> QED BY <1>2, <1>3

\* An aged unlock that still excuses openings excused them a tick before.
LEMMA AgedUnlock ==
    ASSUME TypeOK, LastUnlock' = Aged(LastUnlock)
    PROVE  /\ LastUnlock' \in 0 .. Grace[Door]
                => LastUnlock \in 0 .. Grace[Door] /\ LastUnlock' = LastUnlock + 1
           /\ LastUnlock # None => /\ LastUnlock \in Nat /\ LastUnlock' # None
                                   /\ LastUnlock' \in Nat /\ LastUnlock' <= LastUnlock + 1
<1>1. LastUnlock \in 0 .. AgeCap \cup {None} /\ None \notin Nat
  BY LastUnlockIsAnAge, NamesAssumption
<1>2. Grace[Door] \in Int /\ Grace[Door] < AgeCap /\ AgeCap \in Nat
  BY Bounds
<1>3. CASE LastUnlock = None
  <2>1. LastUnlock' = None /\ None \notin 0 .. Grace[Door]
    BY <1>1, <1>2, <1>3 DEF Aged
  <2> QED BY <1>3, <2>1
<1>4. CASE LastUnlock # None
  <2>1. LastUnlock \in 0 .. AgeCap
    BY <1>1, <1>4
  <2>2. LastUnlock' = IF LastUnlock = AgeCap THEN LastUnlock ELSE LastUnlock + 1
    BY <1>4 DEF Aged
  <2>3. LastUnlock' \in Nat /\ LastUnlock' <= LastUnlock + 1
    BY <1>2, <2>1, <2>2
  <2>4. LastUnlock' \in 0 .. Grace[Door]
            => LastUnlock \in 0 .. Grace[Door] /\ LastUnlock' = LastUnlock + 1
    BY <1>2, <2>1, <2>2
  <2> QED BY <1>1, <2>1, <2>3, <2>4
<1> QED BY <1>3, <1>4

\* The start of the process dates no unlock.
LEMMA StartingIsNoUnlock ==
    ASSUME Start
    PROVE  UNCHANGED <<LastUnlock, unlocked, unheard>>
BY DEF Start, ListDoors, SeedFromSnapshot, SeedDoor, Subscribe, StartStream, vars,
       unlockVars, systemVars, worldVars, streamVars, pastVars, LastUnlock

\* What happens to the door makes at most one unlock, that the watcher has not heard of.
LEMMA WorldUnlocks ==
    ASSUME SystemTypeOK, World
    PROVE  /\ UNCHANGED LastUnlock
           /\ \/ unlocked' = unlocked \cup {0} /\ unheard' = unheard \cup {0}
              \/ UNCHANGED <<unlocked, unheard>>
<1>1. UNCHANGED LastUnlock
  BY WorldIsOutside DEF vars, unlockVars, LastUnlock
<1>2. PICK what \in Whats : IF what = "unlock"
                            THEN unlocked' = unlocked \cup {0} /\ unheard' = unheard \cup {0}
                            ELSE UNCHANGED <<unlocked, unheard>>
  BY WorldTells
<1> QED BY <1>1, <1>2

\* A poll that finds unlocks it heeds dates the last one now; they were within the
\* look-back.
LEMMA PollUnlocks ==
    ASSUME SystemTypeOK, NEW hits \in {Hits, {}}, NEW heeded \in SUBSET hits,
           Poll(hits, heeded)
    PROVE  /\ UNCHANGED unlocked
           /\ \/ UNCHANGED <<LastUnlock, unheard>>
              \/ /\ LastUnlock' = 0
                 /\ \E a \in unlocked : a \in Nat /\ a <= Lookback
<1>1. UNCHANGED unlocked /\ unheard' = unheard \ heeded
  BY DEF Poll, worldVars
<1>2. CASE heeded = {}
  BY <1>1, <1>2 DEF Poll, vars, unlockVars, LastUnlock
<1>3. CASE heeded # {}
  <2>1. LastUnlock' = 0
    BY <1>3, UnlockKeepsKnown DEF Poll, SystemTypeOK
  <2>2. PICK a \in unseen : a <= Window
    BY <1>3 DEF Hits
  <2>3. a \in unlocked /\ a \in Nat
    BY Caps DEF SystemTypeOK, UnlockAges
  <2>4. Window \in Nat /\ Window <= Lookback
    <3>1. lastAge \in 0 .. LastAgeCap \cup {None}
      BY DEF SystemTypeOK
    <3>2. Lookback \in Nat /\ Slack \in Nat /\ LastAgeCap \in Nat
      BY WorldAssumption, Caps
    <3>3. CASE lastAge = None
      BY <3>2, <3>3 DEF Window
    <3>4. CASE lastAge # None
      <4>1. lastAge \in 0 .. LastAgeCap
        BY <3>1, <3>4
      <4>2. Window = IF lastAge + Slack < Lookback THEN lastAge + Slack ELSE Lookback
        BY <3>4 DEF Window
      <4> QED BY <3>2, <4>1, <4>2
    <3> QED BY <3>3, <3>4
  <2>5. a <= Lookback
    BY <2>2, <2>3, <2>4, WorldAssumption
  <2> QED BY <1>1, <2>1, <2>3, <2>5
<1> QED BY <1>2, <1>3

\* A delivered unlock dates the last one now; it was on its way no longer than MaxDelay.
LEMMA DeliveryUnlocks ==
    ASSUME SystemTypeOK, Deliver
    PROVE  /\ UNCHANGED unlocked
           /\ IF feed[1].what = "unlock"
              THEN /\ LastUnlock' = 0
                   /\ feed[1].waited \in Coming
              ELSE UNCHANGED <<LastUnlock, unheard>>
           /\ feed[1].waited \in 0 .. MaxDelay
<1>1. feed[1] \in Event /\ Head(feed) = feed[1] /\ 1 \in DOMAIN feed
  BY DeliveringShifts
<1>2. Handle(feed[1].what) /\ TypeOK /\ feed[1].what \in Whats
  BY <1>1, EventFields DEF Deliver, SystemTypeOK
<1>3. LastUnlock' = IF feed[1].what = "unlock" THEN 0 ELSE LastUnlock
  BY <1>2, HandlersTell DEF LastUnlock
<1>4. UNCHANGED unlocked /\ (feed[1].what # "unlock" => UNCHANGED unheard)
  BY <1>1 DEF Deliver, worldVars
<1>5. feed[1].what = "unlock" => feed[1].waited \in Coming
  BY <1>1 DEF Coming
<1> QED BY <1>1, <1>3, <1>4, <1>5, EventFields

\* The unlocks on their way have not been forgotten.
LEMMA ComingAges == ASSUME SystemTypeOK, NEW a \in Coming PROVE a \in 0 .. MaxDelay
<1>1. PICK i \in DOMAIN feed : a = feed[i].waited
  BY DEF Coming
<1>2. feed[i] \in Event
  BY LenProperties, ElementOfSeq DEF SystemTypeOK
<1> QED BY <1>1, <1>2, EventFields

\* Live or replayed, the unlock that excuses openings was one a bounded time before.
LEMMA LastUnlockKept ==
    ASSUME SystemInv, Coming \subseteq unlocked, LastUnlockWasOne,
           [SystemNext]_<<vars, systemVars>>
    PROVE  LastUnlockWasOne'
<1> USE DEF LastUnlockWasOne
<1>0. SystemTypeOK /\ TypeOK
  BY DEF SystemInv, SystemTypeOK
<1>1. unlocked \in SUBSET Nat
  BY <1>0, Caps DEF SystemTypeOK, UnlockAges
<1>2. ASSUME UNCHANGED LastUnlock, unlocked \subseteq unlocked' PROVE LastUnlockWasOne'
  BY <1>2
<1>3. CASE World
  BY <1>0, <1>2, <1>3, WorldUnlocks
<1>4. CASE Start
  BY <1>2, <1>4, StartingIsNoUnlock
<1>5. CASE Restart
  <2>1. LastUnlock' = None /\ None \notin 0 .. Grace[Door]
    BY <1>5, NamesAssumption, DoorIsADoor, Bounds DEF Restart, LastUnlock
  <2> QED BY <2>1
<1>6. ASSUME LastUnlock' = 0, UNCHANGED unlocked,
             NEW a \in unlocked, a <= MaxDelay \/ a <= Lookback
      PROVE  LastUnlockWasOne'
  BY <1>1, <1>6, Bounds
<1>7. CASE Stream
  <2>1. ASSUME NEW hits \in {Hits, {}}, NEW heeded \in SUBSET hits, Poll(hits, heeded)
        PROVE  LastUnlockWasOne'
    BY <1>0, <1>2, <1>6, <2>1, PollUnlocks
  <2>2. CASE Connect \/ LoseLink
    BY <1>2, <2>2 DEF Connect, LoseLink, vars, unlockVars, worldVars, LastUnlock
  <2>3. CASE Deliver
    <3>1. feed[1].waited \in 0 .. MaxDelay
      BY <1>0, <2>3, DeliveryUnlocks
    <3>2. feed[1].waited <= MaxDelay
      BY <3>1, Bounds
    <3> QED BY <1>0, <1>2, <1>6, <2>3, <3>2, DeliveryUnlocks
  <2> QED BY <1>7, <2>1, <2>2, <2>3 DEF Stream, SomePoll
<1>8. CASE WakeUp
  BY <1>2, <1>8, WakingKeepsKnown DEF WakeUp, systemVars, worldVars
<1>9. CASE Pass
  <2> SUFFICES ASSUME LastUnlock' \in 0 .. Grace[Door]
               PROVE  \E a \in unlocked' : a <= LastUnlock' + Lateness
    OBVIOUS
  <2>1. LastUnlock \in 0 .. Grace[Door] /\ LastUnlock' = LastUnlock + 1
    BY <1>0, <1>9, TickTells, AgedUnlock DEF Pass
  <2>2. PICK a \in unlocked : a <= LastUnlock + Lateness
    BY <2>1
  <2>3. a + 1 <= LastUnlock' + Lateness /\ a + 1 \in 0 .. UnlockCap
    BY <1>1, <2>1, <2>2, Bounds, Caps
  <2>4. a + 1 \in unlocked'
    BY <1>9, <2>3 DEF Pass, UnlockAges
  <2> QED BY <2>3, <2>4
<1>10. CASE UNCHANGED <<vars, systemVars>>
  BY <1>2, <1>10 DEF vars, unlockVars, systemVars, worldVars, LastUnlock
<1> QED BY <1>3, <1>4, <1>5, <1>7, <1>8, <1>9, <1>10 DEF SystemNext

\* No step makes an unlock that had an effect look older than it is.
LEMMA HandledKept ==
    ASSUME SystemInv, UnlocksAreHandled, [SystemNext]_<<vars, systemVars>>
    PROVE  UnlocksAreHandled'
<1> USE DEF UnlocksAreHandled
<1>0. SystemTypeOK /\ TypeOK
  BY DEF SystemInv, SystemTypeOK
<1>1. unlocked \in SUBSET Nat
  BY <1>0, Caps DEF SystemTypeOK, UnlockAges
<1>2. ASSUME UNCHANGED LastUnlock, unlocked' \ unheard' \subseteq unlocked \ unheard
      PROVE  UnlocksAreHandled'
  BY <1>2
<1>3. CASE World
  BY <1>0, <1>2, <1>3, WorldUnlocks
<1>4. CASE Start
  BY <1>2, <1>4, StartingIsNoUnlock
<1>5. CASE Restart
  BY <1>5 DEF Restart, worldVars
<1>6. ASSUME LastUnlock' = 0, UNCHANGED unlocked PROVE UnlocksAreHandled'
  BY <1>1, <1>6, NamesAssumption
<1>7. CASE Stream
  <2>1. ASSUME NEW hits \in {Hits, {}}, NEW heeded \in SUBSET hits, Poll(hits, heeded)
        PROVE  UnlocksAreHandled'
    BY <1>0, <1>2, <1>6, <2>1, PollUnlocks
  <2>2. CASE Connect \/ LoseLink
    BY <1>2, <2>2 DEF Connect, LoseLink, vars, unlockVars, worldVars, pastVars, LastUnlock
  <2>3. CASE Deliver
    BY <1>0, <1>2, <1>6, <2>3, DeliveryUnlocks
  <2> QED BY <1>7, <2>1, <2>2, <2>3 DEF Stream, SomePoll
<1>8. CASE WakeUp
  BY <1>2, <1>8, WakingKeepsKnown DEF WakeUp, systemVars, worldVars, streamVars
<1>9. CASE Pass
  <2> SUFFICES ASSUME NEW b \in unlocked' \ unheard' PROVE LastUnlock' # None /\ LastUnlock' <= b
    OBVIOUS
  <2>1. PICK a \in unlocked : b = a + 1 /\ b \in UnlockAges
    BY <1>9 DEF Pass
  <2>2. a \notin unheard
    BY <1>9, <2>1 DEF Pass
  <2>3. LastUnlock # None /\ LastUnlock <= a
    BY <2>2
  <2>4. LastUnlock \in Nat /\ LastUnlock' # None /\ LastUnlock' \in Nat /\ LastUnlock' <= LastUnlock + 1
    BY <1>0, <1>9, <2>3, TickTells, AgedUnlock DEF Pass
  <2>5. a \in Nat
    BY <1>1
  <2> QED BY <2>1, <2>3, <2>4, <2>5
<1>10. CASE UNCHANGED <<vars, systemVars>>
  BY <1>2, <1>10 DEF vars, unlockVars, systemVars, worldVars, streamVars, pastVars, LastUnlock
<1> QED BY <1>3, <1>4, <1>5, <1>7, <1>8, <1>9, <1>10 DEF SystemNext

\* An opening remembers ages of unlocks, and how long it waits is a number.
LEMMA OpeningFields ==
    ASSUME SystemTypeOK, NEW i \in DOMAIN feed, feed[i].what = "open"
    PROVE  feed[i].gap \in Nat \cup {None} /\ feed[i].waited \in 0 .. MaxDelay /\ feed[i] \in Event
<1>1. feed[i] \in Event
  BY LenProperties, ElementOfSeq DEF SystemTypeOK
<1>2. feed[i].gap \in UnlockAges \cup {None}
  BY <1>1 DEF Event, Whats
<1> QED BY <1>1, <1>2, EventFields, Caps DEF UnlockAges

\* What is sent follows the unlocks so far.
LEMMA SendingFollows ==
    ASSUME SystemInv, World, link = "up",
           LastUnlockWasOne, UnlocksAreHandled, OpeningsFollowUnlocks
    PROVE  OpeningsFollowUnlocks'
<1>0. SystemTypeOK /\ TypeOK
  BY DEF SystemInv, SystemTypeOK
<1>1. PICK what \in Whats :
         /\ Happen(what, AspectOf(what))
         /\ IF what = "unlock" THEN unlocked' = unlocked \cup {0} /\ unheard' = unheard \cup {0}
                               ELSE UNCHANGED <<unlocked, unheard>>
  BY <1>0, WorldTells
<1>2. UNCHANGED LastUnlock /\ feed' = Append(feed, Tell(what))
  BY <1>0, <1>1, WorldUnlocks DEF Happen
<1> DEFINE n == Len(feed)
<1>3. /\ DOMAIN feed = 1 .. n /\ n \in Nat /\ DOMAIN feed' = 1 .. n + 1
      /\ \A i \in 1 .. n : feed'[i] = feed[i]
      /\ feed'[n + 1] = Tell(what)
  BY <1>0, <1>2, SendingAppends
<1> HIDE DEF n
<1>4. Coming' \subseteq unlocked'
  <2> SUFFICES ASSUME NEW i \in DOMAIN feed', feed'[i].what = "unlock"
               PROVE  feed'[i].waited \in unlocked'
    BY DEF Coming
  <2>1. CASE i = n + 1
    BY <1>1, <1>3, <2>1 DEF Tell
  <2>2. CASE i # n + 1
    <3>1. i \in DOMAIN feed /\ feed'[i] = feed[i]
      BY <1>3, <2>2
    <3> QED BY <1>1, <3>1 DEF OpeningsFollowUnlocks, Coming
  <2> QED BY <2>1, <2>2
<1>5. ASSUME NEW i \in DOMAIN feed', feed'[i].what = "open", i # n + 1
      PROVE  ExcusedAfter(i)' /\ ExcusedBy(i)'
  <2>1. /\ i \in DOMAIN feed /\ feed'[i] = feed[i]
        /\ \A j \in 1 .. i - 1 : feed'[j] = feed[j]
    BY <1>3, <1>5
  <2>2. ExcusedAfter(i) /\ ExcusedBy(i)
    BY <1>5, <2>1 DEF OpeningsFollowUnlocks
  <2> QED BY <1>2, <2>1, <2>2 DEF ExcusedAfter, ExcusedBy
<1>6. ASSUME NEW i, i = n + 1, feed'[i].what = "open" PROVE ExcusedAfter(i)' /\ ExcusedBy(i)'
  <2>1. what = "open"
    BY <1>3, <1>6 DEF Tell
  <2> DEFINE gap == Newest(unlocked)
  <2>2. /\ feed'[i].gap = gap /\ feed'[i].waited = 0
        /\ "unlock" \notin feed'[i].missed => gap \notin unheard \ Coming
    BY <1>3, <1>6, <2>1 DEF Tell
  <2>3. unlocked \in SUBSET UnlockAges /\ unlocked \in SUBSET Nat
    BY <1>0, Caps DEF SystemTypeOK, UnlockAges
  <2>4. /\ gap # None => gap \in unlocked
        /\ \A a \in unlocked : gap \in unlocked /\ gap # None /\ gap <= a
    BY <2>3, NewestIsLeast
  <2>5. i - 1 = n /\ \A j \in 1 .. n : feed'[j] = feed[j] /\ j \in DOMAIN feed
    BY <1>3, <1>6
  <2> HIDE DEF gap
  <2>6. ExcusedAfter(i)'
    <3>1. ASSUME LastUnlock \in 0 .. Grace[Door]
          PROVE  gap # None /\ gap + 0 <= LastUnlock + Lateness
      <4>1. PICK a \in unlocked : a <= LastUnlock + Lateness
        BY <3>1 DEF LastUnlockWasOne
      <4>2. gap \in Nat /\ a \in Nat /\ gap <= a /\ gap # None
        BY <2>3, <2>4
      <4> QED BY <3>1, <4>1, <4>2, Bounds
    <3>2. ASSUME NEW j \in 1 .. n, feed[j].what = "unlock"
          PROVE  gap # None /\ gap + 0 <= feed[j].waited
      <4>1. feed[j].waited \in unlocked
        BY <2>5, <3>2 DEF OpeningsFollowUnlocks, Coming
      <4>2. gap \in Nat /\ gap # None /\ gap <= feed[j].waited
        BY <2>3, <2>4, <4>1
      <4> QED BY <4>2
    <3> QED BY <1>2, <2>2, <2>5, <3>1, <3>2 DEF ExcusedAfter
  <2>7. ExcusedBy(i)'
    <3> SUFFICES ASSUME gap \notin unheard \ Coming, gap # None
                 PROVE  \/ LastUnlock # None /\ LastUnlock <= gap + 0
                        \/ \E j \in 1 .. n : feed[j].what = "unlock" /\ feed[j].waited <= gap + 0
      BY <1>2, <2>2, <2>5 DEF ExcusedBy
    <3>1. gap \in unlocked /\ gap \in Nat
      BY <2>3, <2>4
    <3> SUFFICES \/ LastUnlock # None /\ LastUnlock <= gap
                 \/ \E j \in 1 .. n : feed[j].what = "unlock" /\ feed[j].waited <= gap
      BY <3>1
    <3>2. CASE gap \in Coming
      <4>1. PICK j \in DOMAIN feed : feed[j].what = "unlock" /\ feed[j].waited = gap
        BY <3>2 DEF Coming
      <4>2. j \in 1 .. n /\ gap <= gap
        BY <1>3, <3>1
      <4> QED BY <4>1, <4>2
    <3>3. CASE gap \notin unheard
      BY <3>1, <3>3 DEF UnlocksAreHandled
    <3> QED BY <3>2, <3>3
  <2> QED BY <2>6, <2>7
<1> QED BY <1>3, <1>4, <1>5, <1>6 DEF OpeningsFollowUnlocks

\* What arrives is the oldest of what is on its way.
LEMMA DeliveryFollows ==
    ASSUME SystemInv, OpeningsFollowUnlocks, Deliver PROVE OpeningsFollowUnlocks'
<1>0. SystemTypeOK /\ TypeOK
  BY DEF SystemInv, SystemTypeOK
<1>1. /\ DOMAIN feed = 1 .. Len(feed) /\ Len(feed) \in Nat \ {0}
      /\ DOMAIN feed' = 1 .. Len(feed) - 1
      /\ \A i \in 1 .. Len(feed) - 1 : feed'[i] = feed[i + 1]
  BY <1>0, DeliveringShifts
<1>2. /\ UNCHANGED unlocked
      /\ LastUnlock' = IF feed[1].what = "unlock" THEN 0 ELSE LastUnlock
      /\ feed[1].waited \in 0 .. MaxDelay
  BY <1>0, DeliveryUnlocks
<1>3. Coming' \subseteq unlocked'
  BY <1>1, <1>2 DEF OpeningsFollowUnlocks, Coming
<1> SUFFICES ASSUME NEW i \in DOMAIN feed', feed'[i].what = "open"
             PROVE  ExcusedAfter(i)' /\ ExcusedBy(i)'
  BY <1>3 DEF OpeningsFollowUnlocks
<1>4. /\ i + 1 \in DOMAIN feed /\ feed'[i] = feed[i + 1] /\ (i + 1) - 1 = i
      /\ 1 \in 1 .. i
      /\ \A j \in 1 .. i - 1 : feed'[j] = feed[j + 1] /\ j + 1 \in 1 .. i
      /\ \A j \in 1 .. i : j # 1 => j - 1 \in 1 .. i - 1 /\ feed'[j - 1] = feed[j]
  BY <1>1
<1>5. ExcusedAfter(i + 1) /\ ExcusedBy(i + 1)
  BY <1>4 DEF OpeningsFollowUnlocks
<1> DEFINE o == feed[i + 1]
<1>6. o.gap \in Nat \cup {None} /\ o.waited \in 0 .. MaxDelay
  BY <1>0, <1>4, OpeningFields
<1> HIDE DEF o
<1>7. ExcusedAfter(i)'
  <2>1. ASSUME LastUnlock' \in 0 .. Grace[Door]
        PROVE  o.gap # None /\ o.gap + o.waited <= LastUnlock' + Lateness
    <3>1. CASE feed[1].what = "unlock"
      <4>1. o.gap # None /\ o.gap + o.waited <= feed[1].waited
        BY <1>4, <1>5, <3>1 DEF ExcusedAfter, o
      <4>2. o.gap \in Nat
        BY <1>6, <4>1
      <4> QED BY <1>2, <1>6, <3>1, <4>1, <4>2, Bounds
    <3>2. CASE feed[1].what # "unlock"
      BY <1>2, <1>5, <2>1, <3>2 DEF ExcusedAfter, o
    <3> QED BY <3>1, <3>2
  <2>2. ASSUME NEW j \in 1 .. i - 1, feed'[j].what = "unlock"
        PROVE  o.gap # None /\ o.gap + o.waited <= feed'[j].waited
    BY <1>4, <1>5, <2>2 DEF ExcusedAfter, o
  <2> QED BY <1>4, <2>1, <2>2 DEF ExcusedAfter, o
<1>8. ExcusedBy(i)'
  <2> SUFFICES ASSUME "unlock" \notin o.missed, o.gap # None
               PROVE  \/ LastUnlock' # None /\ LastUnlock' <= o.gap + o.waited
                      \/ \E j \in 1 .. i - 1 : /\ feed'[j].what = "unlock"
                                               /\ feed'[j].waited <= o.gap + o.waited
    BY <1>4 DEF ExcusedBy, o
  <2>1. o.gap \in Nat /\ o.waited \in Nat
    BY <1>6, Bounds
  <2>2. CASE feed[1].what = "unlock"
    BY <1>2, <2>1, <2>2, NamesAssumption
  <2>3. CASE feed[1].what # "unlock"
    <3>1. \/ LastUnlock # None /\ LastUnlock <= o.gap + o.waited
          \/ \E j \in 1 .. i : feed[j].what = "unlock" /\ feed[j].waited <= o.gap + o.waited
      BY <1>4, <1>5 DEF ExcusedBy, o
    <3> QED BY <1>2, <1>4, <2>3, <3>1
  <2> QED BY <2>2, <2>3
<1> QED BY <1>7, <1>8

\* All on its way, and the last unlock, get older together.
LEMMA TimeFollows ==
    ASSUME SystemInv, OpeningsFollowUnlocks, Pass PROVE OpeningsFollowUnlocks'
<1>0. SystemTypeOK /\ TypeOK
  BY DEF SystemInv, SystemTypeOK
<1>1. /\ DOMAIN feed' = DOMAIN feed /\ DOMAIN feed = 1 .. Len(feed) /\ Len(feed) \in Nat
      /\ \A i \in DOMAIN feed : /\ feed'[i] = [feed[i] EXCEPT !.waited = @ + 1]
                                /\ feed'[i].what = feed[i].what
                                /\ feed'[i].waited = feed[i].waited + 1
  BY <1>0, TimeKeepsWords, LenProperties DEF SystemTypeOK
<1>2. /\ LastUnlock' \in 0 .. Grace[Door]
           => LastUnlock \in 0 .. Grace[Door] /\ LastUnlock' = LastUnlock + 1
      /\ LastUnlock # None => /\ LastUnlock \in Nat /\ LastUnlock' # None
                              /\ LastUnlock' \in Nat /\ LastUnlock' <= LastUnlock + 1
  BY <1>0, TickTells, AgedUnlock DEF Pass
<1>3. \A j \in DOMAIN feed : feed[j].waited \in Nat /\ feed[j].waited < MaxDelay
  <2> SUFFICES ASSUME NEW j \in DOMAIN feed PROVE feed[j].waited \in Nat /\ feed[j].waited < MaxDelay
    OBVIOUS
  <2>1. feed[j] \in Event
    BY <1>0, <1>1, ElementOfSeq DEF SystemTypeOK
  <2> QED BY <2>1, EventFields, Bounds DEF Pass
<1>4. Coming' \subseteq unlocked'
  <2> SUFFICES ASSUME NEW j \in DOMAIN feed, feed[j].what = "unlock"
               PROVE  feed[j].waited + 1 \in unlocked'
    BY <1>1 DEF Coming
  <2>1. feed[j].waited \in unlocked
    BY DEF OpeningsFollowUnlocks, Coming
  <2>2. feed[j].waited + 1 \in UnlockAges
    BY <1>3, Bounds, Caps DEF UnlockAges
  <2> QED BY <2>1, <2>2 DEF Pass
<1> SUFFICES ASSUME NEW i \in DOMAIN feed', feed'[i].what = "open"
             PROVE  ExcusedAfter(i)' /\ ExcusedBy(i)'
  BY <1>4 DEF OpeningsFollowUnlocks
<1>5. /\ i \in DOMAIN feed /\ feed[i].what = "open"
      /\ \A j \in 1 .. i - 1 : /\ j \in DOMAIN feed /\ feed'[j].what = feed[j].what
                               /\ feed'[j].waited = feed[j].waited + 1
  BY <1>1
<1>6. feed[i] \in Event /\ feed[i].gap \in Nat \cup {None} /\ feed[i].waited \in Nat
  BY <1>0, <1>3, <1>5, OpeningFields
<1>7. /\ feed'[i].gap = feed[i].gap /\ feed'[i].missed = feed[i].missed
      /\ feed'[i].waited = feed[i].waited + 1
  BY <1>1, <1>5, <1>6 DEF Event
<1>8. ExcusedAfter(i) /\ ExcusedBy(i)
  BY <1>5 DEF OpeningsFollowUnlocks
<1>9. ExcusedAfter(i)'
  <2>1. ASSUME LastUnlock' \in 0 .. Grace[Door]
        PROVE  feed[i].gap # None
                 /\ feed[i].gap + (feed[i].waited + 1) <= LastUnlock' + Lateness
    <3>1. /\ LastUnlock \in 0 .. Grace[Door] /\ LastUnlock' = LastUnlock + 1
          /\ feed[i].gap # None /\ feed[i].gap + feed[i].waited <= LastUnlock + Lateness
      BY <1>2, <1>8, <2>1 DEF ExcusedAfter
    <3> QED BY <1>6, <3>1, Bounds
  <2>2. ASSUME NEW j \in 1 .. i - 1, feed[j].what = "unlock"
        PROVE  feed[i].gap # None
                 /\ feed[i].gap + (feed[i].waited + 1) <= feed[j].waited + 1
    <3>1. feed[i].gap # None /\ feed[i].gap + feed[i].waited <= feed[j].waited
      BY <1>8, <2>2 DEF ExcusedAfter
    <3>2. feed[j].waited \in Nat
      BY <1>3, <1>5
    <3> QED BY <1>6, <3>1, <3>2
  <2> QED BY <1>5, <1>7, <2>1, <2>2 DEF ExcusedAfter
<1>10. ExcusedBy(i)'
  <2> SUFFICES ASSUME "unlock" \notin feed[i].missed, feed[i].gap # None
               PROVE  \/ LastUnlock' # None
                           /\ LastUnlock' <= feed[i].gap + (feed[i].waited + 1)
                      \/ \E j \in 1 .. i - 1 :
                            /\ feed[j].what = "unlock"
                            /\ feed[j].waited + 1 <= feed[i].gap + (feed[i].waited + 1)
    BY <1>5, <1>7 DEF ExcusedBy
  <2>1. feed[i].gap \in Nat
    BY <1>6
  <2>2. CASE LastUnlock # None /\ LastUnlock <= feed[i].gap + feed[i].waited
    BY <1>2, <1>6, <2>1, <2>2
  <2>3. ASSUME NEW j \in 1 .. i - 1, feed[j].what = "unlock",
               feed[j].waited <= feed[i].gap + feed[i].waited
        PROVE  feed[j].waited + 1 <= feed[i].gap + (feed[i].waited + 1)
    <3>1. feed[j].waited \in Nat
      BY <1>3, <1>5
    <3> QED BY <1>6, <2>1, <2>3, <3>1
  <2> QED BY <1>8, <2>2, <2>3 DEF ExcusedBy
<1> QED BY <1>9, <1>10

\* Openings and unlocks stay in the order in which they were sent.
LEMMA FollowingKept ==
    ASSUME SystemInv, SeedsFirst, LastUnlockWasOne, UnlocksAreHandled, OpeningsFollowUnlocks,
           [SystemNext]_<<vars, systemVars>>
    PROVE  OpeningsFollowUnlocks'
<1>1. CASE link' # "up"
  <2>1. feed' = <<>>
    BY <1>1, SeedsFirstKept DEF SeedsFirst
  <2> QED BY <2>1 DEF OpeningsFollowUnlocks, Coming
<1>2. CASE UNCHANGED <<known, LastUnlock, feed, unlocked>>
  BY <1>2 DEF OpeningsFollowUnlocks, Coming, ExcusedAfter, ExcusedBy
<1> QED BY <1>1, <1>2, LinkedSteps, SendingFollows, DeliveryFollows, TimeFollows

-----------------------------------------------------------------------------
(* The invariant holds, and what follows.                                   *)

\* The invariant holds at first.
LEMMA InitHistory == SystemInit => HistoryInv
<1> SUFFICES ASSUME SystemInit PROVE HistoryInv
  OBVIOUS
<1>1. SystemInv /\ SeedsFirst
  BY InitSystemInv, SeedsFirstInit
<1>2. Fresh
  BY DEF SystemInit, Fresh
<1>3. WillBeKnown
  BY <1>2, FreshIsKnown
<1>4. feed = <<>> /\ unlocked = {} /\ LastUnlock = None
  BY DoorIsADoor DEF SystemInit, Init, LastUnlock
<1>5. LastUnlockWasOne
  <2>1. None \notin 0 .. Grace[Door]
    BY NamesAssumption, Bounds
  <2> QED BY <1>4, <2>1 DEF LastUnlockWasOne
<1>6. OpeningsWillBeKnown /\ UnlocksAreHandled /\ OpeningsFollowUnlocks
  BY <1>4 DEF OpeningsWillBeKnown, UnlocksAreHandled, OpeningsFollowUnlocks, Coming
<1> QED BY <1>1, <1>3, <1>5, <1>6 DEF HistoryInv

\* Every step keeps it.
LEMMA NextKeepsHistory ==
    HistoryInv /\ [SystemNext]_<<vars, systemVars>> => HistoryInv'
<1> SUFFICES ASSUME HistoryInv, [SystemNext]_<<vars, systemVars>> PROVE HistoryInv'
  OBVIOUS
<1>1. /\ SystemInv /\ SeedsFirst /\ WillBeKnown /\ OpeningsWillBeKnown
      /\ LastUnlockWasOne /\ UnlocksAreHandled /\ OpeningsFollowUnlocks
      /\ Coming \subseteq unlocked
  BY DEF HistoryInv, OpeningsFollowUnlocks
<1>2. SystemInv'
  BY <1>1, SystemNextKeeps
<1>3. SeedsFirst' /\ WillBeKnown' /\ OpeningsWillBeKnown'
  BY <1>1, SeedsFirstKept, KnownKept, OpeningsKept
<1>4. LastUnlockWasOne' /\ UnlocksAreHandled' /\ OpeningsFollowUnlocks'
  BY <1>1, LastUnlockKept, HandledKept, FollowingKept
<1> QED BY <1>2, <1>3, <1>4 DEF HistoryInv

\* Once the feed has been read, what will be known is known.
LEMMA ReadFeedIsKnown == HistoryInv => ReportedIsReal
<1> SUFFICES ASSUME HistoryInv, phase = "live", feed = <<>>, NEW a \in Aspects \ missed
             PROVE  Reported[a] = real[a]
  BY DEF ReportedIsReal
<1>1. snapshot = None /\ WillBeKnown /\ Len(feed) = 0 /\ SystemTypeOK /\ TypeOK
  BY EmptyFeed DEF HistoryInv, SeedsFirst, SystemInv, SystemTypeOK
<1>2. CASE a = "position"
  BY <1>1, <1>2, NothingSaid DEF WillBeKnown, Reported
<1>3. CASE a = "schedule"
  <2>1. Scheduled = OnOff(real.schedule)
    BY <1>1, <1>3, NothingSaid DEF WillBeKnown
  <2>2. schedule_unlock_active[Door] \in BOOLEAN /\ real.schedule \in BOOLEAN
    BY <1>1, DoorIsADoor DEF TypeOK, SystemTypeOK
  <2>3. schedule_unlock_active[Door] = real.schedule
    BY <2>1, <2>2 DEF Scheduled, OnOff
  <2> QED BY <1>3, <2>3 DEF Reported
<1>4. CASE a = "evacuation"
  <2>1. Evacuated = OnOff(real.evacuation)
    BY <1>1, <1>4, NothingSaid DEF WillBeKnown
  <2>2. emergency_evacuation_active \in BOOLEAN /\ real.evacuation \in BOOLEAN
    BY <1>1 DEF TypeOK, SystemTypeOK
  <2>3. emergency_evacuation_active = real.evacuation
    BY <2>1, <2>2 DEF Evacuated, OnOff
  <2> QED BY <1>4, <2>3 DEF Reported
<1> QED BY <1>2, <1>3, <1>4 DEF Aspects

\* An opening that arrives is reported by the three tests of _handle_open.
LEMMA ArrivalIsJudged ==
    ASSUME HistoryInv, OpeningArrives
    PROVE  /\ IsReported <=> /\ ~schedule_unlock_active[Door] /\ ~emergency_evacuation_active
                             /\ ~Authorized(Door)
                             /\ ~unauthorized_fired[Door]
           /\ Head(feed) = feed[1] /\ 1 \in DOMAIN feed
<1>1. SystemTypeOK /\ SeedsFirst /\ Deliver /\ Head(feed).what = "open"
  BY DEF HistoryInv, SystemInv, OpeningArrives
<1>2. OnDps(Door, "open")
  BY <1>1 DEF Deliver, Handle
<1>3. HandleOpen({Door}, "watchdog") /\ UNCHANGED passVars
  BY <1>2 DEF OnDps
<1>4. FreePass(Door)' <=> schedule_unlock_active[Door] \/ emergency_evacuation_active
  BY <1>1, <1>3 DEF FreePass, passVars, SeedsFirst
<1> DEFINE breach == {d \in {e \in {Door} : ~FreePass(e)'} :
                         "watchdog" = "watchdog" /\ ~Authorized(d) /\ ~unauthorized_fired[d]}
<1>5. alerts' = {[type |-> "unauthorized", door |-> d] : d \in breach}
  BY <1>3 DEF HandleOpen
<1>6. IsReported <=> breach # {}
  <2> HIDE DEF breach
  <2>1. IsReported => breach # {}
    BY <1>5 DEF IsReported
  <2>2. ASSUME NEW d \in breach PROVE IsReported
    <3>1. [type |-> "unauthorized", door |-> d] \in alerts'
      BY <1>5
    <3> DEFINE a == [type |-> "unauthorized", door |-> d]
    <3>2. a \in alerts' /\ a.type = "unauthorized"
      BY <3>1
    <3> HIDE DEF a
    <3> QED BY <3>2 DEF IsReported
  <2> QED BY <2>1, <2>2
<1>7. breach # {} <=> ~FreePass(Door)' /\ ~Authorized(Door) /\ ~unauthorized_fired[Door]
  OBVIOUS
<1> HIDE DEF breach
<1> QED BY <1>1, <1>4, <1>6, <1>7, DeliveringShifts

\* What holds of every opening in the feed holds of the one that arrives.
LEMMA ArrivalIsKnown ==
    ASSUME HistoryInv, OpeningArrives, NEW e, e = Head(feed)
    PROVE  /\ "position" \notin e.missed => ~unauthorized_fired[Door]
           /\ e.missed \cap {"schedule", "evacuation"} = {} =>
                (e.quiet <=> schedule_unlock_active[Door] \/ emergency_evacuation_active)
           /\ Authorized(Door) => e.gap \in 0 .. Grace[Door] + Lateness
           /\ "unlock" \notin e.missed /\ e.gap \in 0 .. Grace[Door] - MaxDelay
                => Authorized(Door)
<1>1. e = feed[1] /\ 1 \in DOMAIN feed /\ feed[1].what = "open"
  BY ArrivalIsJudged DEF OpeningArrives
<1>2. KnownAtOpening(1) /\ ExcusedAfter(1) /\ ExcusedBy(1)
  BY <1>1 DEF HistoryInv, OpeningsWillBeKnown, OpeningsFollowUnlocks
<1>3. SystemTypeOK /\ TypeOK /\ FlagsBelongToOpening
  BY DEF HistoryInv, SystemInv, SystemTypeOK, IInv
<1>4. e.gap \in Nat \cup {None} /\ e.waited \in 0 .. MaxDelay
  BY <1>1, <1>3, OpeningFields
<1>5. 1 - 1 = 0 /\ \A j \in 1 .. 1 - 1 : FALSE
  OBVIOUS
<1>6. ASSUME "position" \notin e.missed PROVE ~unauthorized_fired[Door]
  <2>1. dps[Door] = "close"
    BY <1>1, <1>2, <1>5, <1>6, NothingSaid DEF KnownAtOpening
  <2> QED BY <1>3, <2>1, DoorIsADoor DEF FlagsBelongToOpening
<1>7. ASSUME e.missed \cap {"schedule", "evacuation"} = {}
      PROVE  e.quiet <=> schedule_unlock_active[Door] \/ emergency_evacuation_active
  <2>1. e.quiet <=> Scheduled = "on" \/ Evacuated = "on"
    BY <1>1, <1>2, <1>5, <1>7, NothingSaid DEF KnownAtOpening
  <2> QED BY <2>1 DEF Scheduled, Evacuated, OnOff
<1>8. LastUnlock \in 0 .. AgeCap \cup {None}
  BY <1>3, LastUnlockIsAnAge
<1>9. Authorized(Door) <=> LastUnlock \in 0 .. Grace[Door]
  <2>1. None \notin 0 .. Grace[Door]
    BY NamesAssumption, Bounds
  <2>2. LastUnlock # None => (LastUnlock <= Grace[Door] <=> LastUnlock \in 0 .. Grace[Door])
    BY <1>8, Bounds
  <2> QED BY <2>1, <2>2 DEF Authorized, LastUnlock
<1>10. ASSUME LastUnlock \in 0 .. Grace[Door] PROVE e.gap \in 0 .. Grace[Door] + Lateness
  <2>1. e.gap # None /\ e.gap + e.waited <= LastUnlock + Lateness
    BY <1>1, <1>2, <1>10 DEF ExcusedAfter
  <2> QED BY <1>4, <1>10, <2>1, Bounds
<1>11. ASSUME "unlock" \notin e.missed, e.gap \in 0 .. Grace[Door] - MaxDelay
       PROVE  LastUnlock \in 0 .. Grace[Door]
  <2>1. e.gap # None
    BY <1>11, Bounds, NamesAssumption
  <2>2. LastUnlock # None /\ LastUnlock <= e.gap + e.waited
    BY <1>1, <1>2, <1>5, <1>11, <2>1 DEF ExcusedBy
  <2> QED BY <1>4, <1>8, <1>11, <2>2, Bounds
<1> QED BY <1>6, <1>7, <1>9, <1>10, <1>11

\* Whatever has been missed before, GET /state tells the truth of every aspect of the door
\* that was heard of since it last changed: the snapshot, the rule, and the feed, taken in
\* across restarts and losses of the link, leave no older value behind.
THEOREM ReportsAreReal == SystemSpec => []ReportedIsReal
BY InitHistory, NextKeepsHistory, ReadFeedIsKnown, PTL DEF SystemSpec

\* An opening the watcher says nothing of was under a free pass, or followed an unlock by
\* no more than the grace time and the delays, unless a change had been missed: for any
\* grace time, delay, look-back and length of the feed.
THEOREM SilencesAreJustified == SystemSpec => SilenceIsJustified
<1>1. HistoryInv /\ [SystemNext]_<<vars, systemVars>> =>
        [LET e == Head(feed) IN
         OpeningArrives /\ ~IsReported =>
           \/ e.quiet
           \/ e.gap \in 0 .. Grace[Door] + Worst(MaxDelay, Lookback)
           \/ e.missed \cap Aspects # {}]_<<vars, systemVars>>
  <2> SUFFICES ASSUME HistoryInv, NEW e, e = Head(feed), OpeningArrives, ~IsReported,
                      ~e.quiet, e.missed \cap Aspects = {}
               PROVE  e.gap \in 0 .. Grace[Door] + Worst(MaxDelay, Lookback)
    OBVIOUS
  <2>1. /\ "position" \notin e.missed
        /\ e.missed \cap {"schedule", "evacuation"} = {}
    BY DEF Aspects
  <2>2. Authorized(Door)
    BY <2>1, ArrivalIsJudged, ArrivalIsKnown
  <2> QED BY <2>2, ArrivalIsKnown DEF Lateness
<1> QED BY <1>1, InitHistory, NextKeepsHistory, PTL DEF SystemSpec, SilenceIsJustified

\* An opening that is reported was under no free pass and followed no unlock within the
\* grace time less what it took to arrive, unless the start of the free pass had been
\* missed, or the unlock had no effect: neither the feed delivered it, nor was it read
\* from the log in words that _on_unlock_event takes for a granted unlock.
THEOREM AlarmsAreJustified == SystemSpec => ReportsAreJustified
<1>1. HistoryInv /\ [SystemNext]_<<vars, systemVars>> =>
        [LET e == Head(feed) IN
         OpeningArrives /\ IsReported =>
           /\ e.quiet => e.missed \cap {"schedule", "evacuation"} # {}
           /\ e.gap \in 0 .. Grace[Door] - MaxDelay => "unlock" \in e.missed
         ]_<<vars, systemVars>>
  <2> SUFFICES ASSUME HistoryInv, NEW e, e = Head(feed), OpeningArrives, IsReported
               PROVE  /\ e.quiet => e.missed \cap {"schedule", "evacuation"} # {}
                      /\ e.gap \in 0 .. Grace[Door] - MaxDelay => "unlock" \in e.missed
    OBVIOUS
  <2> QED BY ArrivalIsJudged, ArrivalIsKnown
<1> QED BY <1>1, InitHistory, NextKeepsHistory, PTL DEF SystemSpec, ReportsAreJustified
=============================================================================
