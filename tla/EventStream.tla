----------------------------- MODULE EventStream -----------------------------
(***************************************************************************)
(* AccessEventStream (access/stream.py): a websocket consumer that         *)
(* reconnects with backoff, replays the log of the gap before it connects, *)
(* and drops events whose id it has seen.                                  *)
(*                                                                         *)
(* The task suspends in the poll, in the connection, in recv(), in close() *)
(* and in the backoff; what it does with a frame, or with all the hits of  *)
(* a poll, it does without suspending, as on_event does not suspend.       *)
(*                                                                         *)
(* The controller is the environment: it produces the events, delivers     *)
(* them while the link is up, and keeps some of them in system/logs under  *)
(* the same ids.  Times are kept as ages, as in DetectionPipeline.         *)
(***************************************************************************)
EXTENDS Integers, Sequences, FiniteSets, SequencesExt

CONSTANTS
    Events,          \* what happens at the doors
    Logged,          \* events that system/logs carries: no door positions
    Malformed,       \* those of them whose log entry _hit_to_event raises on
    Dated,           \* events whose frame says when they were published
    Broken,          \* events whose frame has a "data" that is no object
    EventId,         \* EventId[e]: what _event_id finds or makes up, or None
    Lookback,        \* reconcile_lookback_seconds, not validated
    Slack,           \* seconds polled before the latest event (5 in the code)
    LivenessTimeout, \* liveness_timeout_seconds
    Backoff,         \* reconnect_backoff_seconds
    SeenCap,         \* ids kept before some are forgotten (4096 in the code)
    Forgotten,       \* how many are forgotten then (1024 in the code)
    InboxCap,        \* bound: frames received by the library, not yet by recv()
    None

ASSUME StreamAssumption ==
    /\ Malformed \subseteq Logged
    /\ Logged \subseteq Events
    /\ Dated \subseteq Events
    /\ Broken \subseteq Events
    /\ IsFiniteSet(Events)
    /\ DOMAIN EventId = Events
    /\ Lookback \in Int
    /\ <<Slack, LivenessTimeout, SeenCap, InboxCap>> \in Nat \X Nat \X Nat \X Nat
    /\ Forgotten \in 1 .. SeenCap + 1
    /\ Backoff \in Seq(Nat) \ {<<>>}
    /\ None \notin Nat \cup Events

VARIABLES
    at,        \* where the task is suspended
    connected, \* AccessEventStream.connected, what /readyz reports
    attempt,   \* _run_forever's attempt, up to the last index of Backoff
    wait,      \* ticks of backoff left
    silent,    \* ticks the present recv() has waited
    lastAge,   \* age of _last_event_published, or None
    seen,      \* _seen_event_ids
    handled,   \* handled[e]: how many times on_event was called with e (up to 2)
    spoilt,    \* events whose frame raised after its id was remembered (history)
    forgot,    \* whether _remember has ever forgotten an id
    link,      \* the connection as the controller sees it
    inbox,     \* frames that have arrived on it: events, and None for anything else
    age        \* age[e]: age of event e, or None before it happens

taskVars  == <<at, connected, attempt, wait, silent>>
seenVars  == <<lastAge, seen, handled, spoilt, forgot>>
worldVars == <<link, inbox, age>>
vars == <<taskVars, seenVars, worldVars>>

AgeCap == IF Lookback > 0 THEN Lookback + 1 ELSE 1
Ages   == 0 .. AgeCap
Ids    == {EventId[e] : e \in Events} \ {None}

\* The type of every variable; ages and waits stay within what they are compared with,
\* and the ids kept within SeenCap.
TypeOK ==
    /\ at \in {"reconciling", "connecting", "consuming", "closing", "aborting",
              "backoff", "stopped"}
    /\ connected \in BOOLEAN
    /\ attempt \in 0 .. Len(Backoff)
    /\ wait \in {0} \cup UNION {0 .. Backoff[i] : i \in DOMAIN Backoff}
    /\ silent \in 0 .. LivenessTimeout
    /\ lastAge \in Ages \cup {None}
    /\ seen \subseteq Ids /\ Cardinality(seen) <= SeenCap
    /\ handled \in [Events -> 0 .. 2]
    /\ spoilt \subseteq Broken
    /\ forgot \in BOOLEAN
    /\ link \in {"down", "up", "dead", "closed"}
    /\ inbox \in Seq(Events \cup {None}) /\ Len(inbox) <= InboxCap
    /\ age \in [Events -> Ages \cup {None}]

Init ==
    /\ at = "reconciling"
    /\ connected = FALSE
    /\ attempt = 0
    /\ wait = 0
    /\ silent = 0
    /\ lastAge = None
    /\ seen = {}
    /\ handled = [e \in Events |-> 0]
    /\ spoilt = {}
    /\ forgot = FALSE
    /\ link = "down"
    /\ inbox = <<>>
    /\ age = [e \in Events |-> None]

-----------------------------------------------------------------------------
(* Deduplication.  An outcome is a set of ids seen and a set of events      *)
(* handled; the ids _remember forgets are whichever set.pop() yields.       *)

\* A definition named Faulty... is a variant of the one that follows it with a
\* plausible bug, used only to see that the properties can fail.

FaultyRemember(ids, id) == {(ids \cup {id}) \ {None}}

\* _remember: past SeenCap ids, some are forgotten.
Remember(ids, id) ==
    LET grown == (ids \cup {id}) \ {None}
    IN  IF Cardinality(grown) > SeenCap
        THEN {grown \ gone : gone \in {g \in SUBSET grown : Cardinality(g) = Forgotten}}
        ELSE {grown}

FaultyOutcomes(o, e) ==
    {[ids |-> ids, done |-> o.done \cup {e}] : ids \in Remember(o.ids, EventId[e])}

\* What can become of o when event e is offered: nothing if its id has been seen.
Outcomes(o, e) ==
    IF EventId[e] \in o.ids
    THEN {o}
    ELSE {[ids |-> ids, done |-> o.done \cup {e}] : ids \in Remember(o.ids, EventId[e])}

Untouched == [ids |-> seen, done |-> {}]

Settle(o) ==
    /\ seen' = o.ids
    /\ handled' = [e \in Events |-> IF e \in o.done /\ handled[e] < 2
                                    THEN handled[e] + 1 ELSE handled[e]]
    /\ forgot' = \/ forgot
                 \/ ~(seen \cup {EventId[e] : e \in o.done} \subseteq o.ids \cup {None})
    /\ UNCHANGED spoilt

-----------------------------------------------------------------------------
(* _run_forever.                                                            *)

FaultyPause(failures) ==
    LET last == Len(Backoff) - 1
    IN  /\ at' = "backoff"
        /\ wait' = Backoff[(IF failures < last THEN failures ELSE last) + 1]
        /\ attempt' = IF failures < last THEN failures + 1 ELSE last + 1
        /\ UNCHANGED connected

\* The end of a round: the delay grows with every round that failed.
Pause(failures) ==
    LET last == Len(Backoff) - 1
    IN  /\ at' = "backoff"
        /\ connected' = FALSE
        /\ wait' = Backoff[(IF failures < last THEN failures ELSE last) + 1]
        /\ attempt' = IF failures < last THEN failures + 1 ELSE last + 1

FaultyRoundEnds == Pause(attempt) /\ link' = "down" /\ UNCHANGED silent

\* The connection ended in a regular way: attempt is reset first.
RoundEnds == Pause(0) /\ link' = "down" /\ UNCHANGED silent

BackoffOver ==
    /\ at = "backoff"
    /\ wait = 0
    /\ at' = "reconciling"
    /\ UNCHANGED <<connected, attempt, wait, silent, seenVars, worldVars>>

FaultyWindow == lastAge + Slack

\* until - since: from a little before the latest event, but not further back than
\* the look-back.
Window == IF lastAge + Slack < Lookback THEN lastAge + Slack ELSE Lookback

\* What system/logs answers, all pages of it: what it carries of that interval, in an
\* order that is not specified.
Log(w) == {e \in Logged : age[e] # None /\ age[e] <= w}

\* Nothing is asked before the first event, nor with a look-back of no length.
Hits == IF lastAge = None \/ Window <= 0 THEN {} ELSE Log(Window)

\* The hits that are converted before one of them raises.
Convertible(order) == SelectInSeq(order \o <<None>>, LAMBDA e : e \in Malformed \cup {None}) - 1

\* What can become of the present state when events are offered one after the other.
OfferAll(hits) ==
    LET after[i \in 0 .. Len(hits)] ==
            IF i = 0 THEN {Untouched}
            ELSE UNION {Outcomes(o, hits[i]) : o \in after[i - 1]}
    IN  after[Len(hits)]

FaultyReplay(order) ==
    LET o == OfferAll(SubSeq(order, 1, Convertible(order)))
    IN  {[p EXCEPT !.ids = @ \cup ({EventId[order[i]] : i \in DOMAIN order} \ {None})] : p \in o}

Replay(order) == OfferAll(SubSeq(order, 1, Convertible(order)))

\* The poll succeeds, or there is nothing to poll for yet.  A malformed hit raises
\* out of the round: the connection is not even tried.
Reconcile ==
    /\ at = "reconciling"
    /\ \E order \in SetToSeqs(Hits) :
         /\ \E o \in Replay(order) : Settle(o)
         /\ \/ /\ Convertible(order) = Len(order)
               /\ at' = "connecting"
               /\ UNCHANGED <<connected, attempt, wait>>
            \/ /\ Convertible(order) < Len(order)
               /\ Pause(attempt)
    /\ UNCHANGED <<silent, lastAge, worldVars>>

\* The poll fails: the round goes on without it.
PollFails ==
    /\ at = "reconciling"
    /\ lastAge # None
    /\ Window > 0
    /\ at' = "connecting"
    /\ UNCHANGED <<connected, attempt, wait, silent, seenVars, worldVars>>

-----------------------------------------------------------------------------
(* _connect_and_consume.                                                    *)

Connect ==
    /\ at = "connecting"
    /\ at' = "consuming"
    /\ connected' = TRUE
    /\ silent' = 0
    /\ link' = "up"
    /\ inbox' = <<>>
    /\ UNCHANGED <<attempt, wait, seenVars, age>>

ConnectFails ==
    /\ at = "connecting"
    /\ Pause(attempt)
    /\ UNCHANGED <<silent, seenVars, worldVars>>

\* recv() returns an event, and _dispatch offers it.  The id of a broken frame is looked
\* at first: one that has been seen is dropped like any other.
Receive ==
    /\ at = "consuming"
    /\ inbox # <<>>
    /\ Head(inbox) # None
    /\ Head(inbox) \in Broken => EventId[Head(inbox)] \in seen
    /\ inbox' = Tail(inbox)
    /\ silent' = 0
    /\ \E o \in Outcomes(Untouched, Head(inbox)) :
         /\ Settle(o)
         /\ lastAge' = IF /\ Head(inbox) \in o.done \cap Dated
                          /\ lastAge = None \/ age[Head(inbox)] < lastAge
                       THEN age[Head(inbox)] ELSE lastAge
    /\ UNCHANGED <<at, connected, attempt, wait, link, age>>

\* recv() returns what is no event: it counts as activity and is dropped.
Ignore ==
    /\ at = "consuming"
    /\ inbox # <<>>
    /\ Head(inbox) = None
    /\ inbox' = Tail(inbox)
    /\ silent' = 0
    /\ UNCHANGED <<at, connected, attempt, wait, seenVars, link, age>>

\* The id of e is remembered, and then its date cannot be read.
Spoil(e) ==
    /\ EventId[e] \notin seen \cup {None}
    /\ seen' \in Remember(seen, EventId[e])
    /\ forgot' = (forgot \/ ~(seen \cup {EventId[e]} \subseteq seen'))
    /\ spoilt' = spoilt \cup {e}
    /\ UNCHANGED <<lastAge, handled>>

\* recv() returns a broken frame and _dispatch raises, on a good link or on a lost one.
\* A frame with an id beside "data" is remembered before that, one without raises at
\* once.  The connection is closed on the way out, which may take a while.
FrameRaises ==
    /\ at = "consuming"
    /\ inbox # <<>>
    /\ Head(inbox) \in Broken
    /\ Spoil(Head(inbox)) \/ UNCHANGED seenVars
    /\ at' = "aborting"
    /\ link' = "down"
    /\ inbox' = <<>>
    /\ silent' = 0
    /\ UNCHANGED <<connected, attempt, wait, age>>

\* The round has failed: attempt is not reset, although the connection was made.
Aborted ==
    /\ at = "aborting"
    /\ Pause(attempt)
    /\ link' = "down"
    /\ UNCHANGED <<silent, seenVars, inbox, age>>

\* recv() raises ConnectionClosed, once it has returned what had arrived.
ConnectionClosed ==
    /\ at = "consuming"
    /\ link = "closed"
    /\ inbox = <<>>
    /\ RoundEnds
    /\ UNCHANGED <<seenVars, inbox, age>>

FaultySilenceOver == silent = LivenessTimeout /\ link = "closed"

SilenceOver == silent = LivenessTimeout

\* recv() has waited too long: close() is called, and may take a while.
GiveUp ==
    /\ at = "consuming"
    /\ inbox = <<>>
    /\ SilenceOver
    /\ at' = "closing"
    /\ link' = "down"
    /\ UNCHANGED <<connected, attempt, wait, silent, seenVars, inbox, age>>

GivenUp ==
    /\ at = "closing"
    /\ RoundEnds
    /\ UNCHANGED <<seenVars, inbox, age>>

\* stop(): the task is cancelled wherever it is.
Stop ==
    /\ at # "stopped"
    /\ at' = "stopped"
    /\ connected' = FALSE
    /\ link' = "down"
    /\ inbox' = <<>>
    /\ UNCHANGED <<attempt, wait, silent, seenVars, age>>

-----------------------------------------------------------------------------
(* The controller, the network and time.                                    *)

Arrives(frame) == inbox' = IF link = "up" THEN Append(inbox, frame) ELSE inbox

\* An event, sent to the stream if the link is up and to nobody otherwise.
Happen(e) ==
    /\ age[e] = None
    /\ age' = [age EXCEPT ![e] = 0]
    /\ Len(inbox) < InboxCap
    /\ Arrives(e)
    /\ UNCHANGED <<taskVars, seenVars, link>>

\* The controller sends an event a second time.
Repeat(e) ==
    /\ link = "up"
    /\ age[e] # None
    /\ Len(inbox) < InboxCap
    /\ Arrives(e)
    /\ UNCHANGED <<taskVars, seenVars, link, age>>

\* A frame that is no event: the controller's keepalive, or something unreadable.
Hello ==
    /\ link = "up"
    /\ Len(inbox) < InboxCap
    /\ Arrives(None)
    /\ UNCHANGED <<taskVars, seenVars, link, age>>

\* The connection is closed, or dies without anybody noticing.
Break(how) ==
    /\ link = "up"
    /\ link' = how
    /\ UNCHANGED <<taskVars, seenVars, inbox, age>>

Older(a) == IF a = None \/ a = AgeCap THEN a ELSE a + 1

Tick ==
    /\ age' = [e \in Events |-> Older(age[e])]
    /\ lastAge' = Older(lastAge)
    /\ wait' = IF wait > 0 THEN wait - 1 ELSE 0
    /\ silent' = IF at = "consuming" /\ silent < LivenessTimeout THEN silent + 1 ELSE silent
    /\ UNCHANGED <<at, connected, attempt, seen, handled, spoilt, forgot, link, inbox>>

Task ==
    \/ BackoffOver \/ Reconcile \/ PollFails
    \/ Connect \/ ConnectFails
    \/ Receive \/ Ignore \/ FrameRaises
    \/ Aborted \/ ConnectionClosed \/ GiveUp \/ GivenUp

World ==
    \/ \E e \in Events : Happen(e) \/ Repeat(e)
    \/ Hello
    \/ \E how \in {"closed", "dead"} : Break(how)
    \/ Tick

Next == Task \/ Stop \/ World

Spec == Init /\ [][Next]_vars

\* The loop runs the task when it is ready, requests and close() have timeouts, and
\* time passes.
Fairness ==
    /\ WF_vars(BackoffOver)
    /\ WF_vars(Reconcile \/ PollFails)
    /\ WF_vars(Connect \/ ConnectFails)
    /\ WF_vars(Receive \/ Ignore \/ FrameRaises)
    /\ WF_vars(Aborted)
    /\ WF_vars(ConnectionClosed)
    /\ WF_vars(GiveUp)
    /\ WF_vars(GivenUp)
    /\ WF_vars(Tick)

FairSpec == Spec /\ Fairness

\* Connecting succeeds sooner or later if it is tried again and again.
ReachableSpec == FairSpec /\ SF_vars(Connect)

-----------------------------------------------------------------------------
(* Safety.                                                                  *)

\* What GET /readyz answers.
Ready == connected

\* Of the events that have one id (the same event sent again, its entry in the log, and
\* those _event_id makes up one id for) one is handled, and once: delivered live,
\* replayed by the poll or both, however often the connection breaks, until the stream
\* has had to forget ids.
AtMostOnce ==
    \A e, f \in Events :
        EventId[e] # None /\ EventId[e] = EventId[f] /\ ~forgot
          => handled[e] <= 1 /\ (e # f => handled[e] = 0 \/ handled[f] = 0)

\* An id counts as seen only if an event with that id was handled, or its frame raised
\* once the id was remembered, which hides any later copy of it.  No other failure on
\* the way, a malformed log entry included, makes a delivery look like a repetition.
SeenMeansHandled ==
    \A id \in seen : \E e \in Events : EventId[e] = id /\ (handled[e] > 0 \/ e \in spoilt)

\* /readyz says ready only while the task listens or closes, and the controller's
\* side is never up without it.
ReadyWhileListening ==
    /\ Ready <=> at \in {"consuming", "closing", "aborting"}
    /\ link \in {"up", "dead"} => Ready

\* A connection that was made is retried after the shortest delay, whatever failures
\* came before it, unless it was a raising frame that ended it: that one counts as one
\* more failure.
LostLinksAreRetriedSoon ==
    [][connected /\ at # "aborting" /\ at' = "backoff" => wait' = Backoff[1]]_vars

-----------------------------------------------------------------------------
(* Liveness.                                                                *)

\* Under FairSpec: a connection that has closed or died is given up.  A dead one shows
\* nothing but silence.
BrokenLinksAreNoticed == link \in {"dead", "closed"} ~> ~Ready

\* Under ReachableSpec: a stream that is down comes up again unless it is stopped, also
\* with a log entry it cannot convert, since that falls out of the look-back.
StreamComesBack == ~Ready ~> (Ready \/ at = "stopped")

-----------------------------------------------------------------------------
(* What the documentation says and the code does not do.                    *)

\* README.md: events are replayed "deduplicated against the live stream".  They are not
\* once ids have been forgotten: set.pop() forgets any of them, the latest included.
ReplayIsDeduplicated == \A e \in Events : EventId[e] # None => handled[e] <= 1

\* access/stream.py: "On every successful (re)connect, we fetch system/logs for the gap
\* window and replay events".  The poll comes before the connection is made: what the
\* log carries from the gap window is not all handled when the live feed begins.
GapIsReplayed ==
    [][Connect => \A e \in Hits : handled[e] > 0]_vars
=============================================================================
