------------------------------ MODULE AlertSink ------------------------------
(***************************************************************************)
(* Delivery of alerts: ProtectAlertSink (notify/protect.py) with its       *)
(* TTLDedupe (notify/dedupe.py).  Any number of senders, one bounded       *)
(* queue, one worker that POSTs each alert to Protect with retries.        *)
(*                                                                         *)
(* An alert is represented by its dedupe key, the pair of its door and its *)
(* type.  send() does not suspend; the worker suspends in queue.get(), in  *)
(* each POST and in each backoff, so those are where it can be interleaved *)
(* with sends, with time and with stop().                                  *)
(***************************************************************************)
EXTENDS Integers, Sequences, FiniteSets, SequencesExt

CONSTANTS
    Keys,          \* <<door, alert type>> pairs alerts are sent for
    Routable,      \* those whose door has a webhook URL
    Ttl,           \* dedupe_window_seconds, in ticks
    MaxEntries,    \* TTLDedupe's max_entries (1024 in the code)
    QueueCap,      \* maxsize of the queue (256 in the code)
    RetryAttempts, \* retry_attempts, any integer: it is not validated
    MaxSends,      \* bound: how many times send() is called
    None

ASSUME SinkAssumption ==
    /\ Routable \subseteq Keys
    /\ IsFiniteSet(Keys)
    /\ Ttl \in Nat
    /\ MaxEntries \in Nat
    /\ QueueCap \in Nat \ {0}
    /\ RetryAttempts \in Int
    /\ MaxSends \in Nat
    /\ None \notin Nat
    /\ None \notin Keys

VARIABLES
    entries,    \* TTLDedupe._entries: <<[key, age], ...>>, oldest first
    queue,      \* the asyncio.Queue: a sequence of keys
    worker,     \* where the worker is: [at, alert, attempt, backoff, wait], and how
                \* often Protect has acted on its alert so far: rings
    delivered,  \* ProtectAlertSink.delivered
    failed,     \* ProtectAlertSink.failed_deliveries
    deduped,    \* ProtectAlertSink.deduped
    sends,      \* number of calls of send() so far
    abandoned,  \* alerts in the hands of a worker that was cancelled
    since       \* since[k]: age of the latest send() for k, or None

vars == <<entries, queue, worker, delivered, failed, deduped, sends, abandoned, since>>

Idle    == [at |-> "idle", alert |-> None, attempt |-> 0, backoff |-> 0,
            wait |-> 0, rings |-> 0]
Stopped == [at |-> "stopped", alert |-> None, attempt |-> 0, backoff |-> 0,
            wait |-> 0, rings |-> 0]
Busy    == worker.at \in {"posting", "backoff"}
InHand  == IF Busy THEN 1 ELSE 0

Ages == 0 .. Ttl + 1

\* The type of every variable, and the bounds of what is kept: the table holds one entry
\* more than max_entries at most, as seen() evicts first, and the queue what it has room for.
TypeOK ==
    /\ entries \in Seq([key : Keys, age : Ages]) /\ Len(entries) <= MaxEntries + 1
    /\ queue \in Seq(Keys) /\ Len(queue) <= QueueCap
    /\ worker \in [at : {"idle", "posting", "backoff", "stopped"},
                   alert : Keys \cup {None}, attempt : Nat, backoff : Nat,
                   wait : Nat, rings : Nat]
    /\ <<delivered, failed, deduped, sends, abandoned>> \in Nat \X Nat \X Nat \X Nat \X Nat
    /\ since \in [Keys -> Ages \cup {None}]

Init ==
    /\ entries = <<>>
    /\ queue = <<>>
    /\ worker = Idle
    /\ delivered = 0
    /\ failed = 0
    /\ deduped = 0
    /\ sends = 0
    /\ abandoned = 0
    /\ since = [k \in Keys |-> None]

-----------------------------------------------------------------------------
(* TTLDedupe.                                                               *)

\* A definition named Faulty... is a variant of the one that follows it with a
\* plausible bug, used only to see that the properties can fail.

Suffix(s, from) == SubSeq(s, from, Len(s))

FaultyUnexpired(s) ==
    LET kept == {i \in 1 .. Len(s) : s[i].age < Ttl}
        from == CHOOSE i \in kept \cup {Len(s) + 1} : \A j \in kept : i <= j
    IN  Suffix(s, from)

FaultyNeverExpired(s) == s

\* The first loop of _evict: pop the oldest entry while it is older than the TTL,
\* and stop at the first that is not.
Unexpired(s) ==
    LET kept == {i \in 1 .. Len(s) : s[i].age <= Ttl}
        from == CHOOSE i \in kept \cup {Len(s) + 1} : \A j \in kept : i <= j
    IN  Suffix(s, from)

FaultyWithinCap(s) == s

\* The second loop: pop the oldest entries beyond max_entries.
WithinCap(s) == IF Len(s) > MaxEntries THEN Suffix(s, Len(s) - MaxEntries + 1) ELSE s

Evict(s) == WithinCap(Unexpired(s))

Holds(s, k) == \E i \in 1 .. Len(s) : s[i].key = k

FaultyRefreshed(s, k) == IF Holds(s, k) THEN s ELSE Append(s, [key |-> k, age |-> 0])

Place(s, k) == CHOOSE i \in 1 .. Len(s) : s[i].key = k

\* seen() puts the key at the end with the present time, new or not.
Refreshed(s, k) ==
    Append(IF Holds(s, k) THEN RemoveAt(s, Place(s, k)) ELSE s, [key |-> k, age |-> 0])

-----------------------------------------------------------------------------
(* send().                                                                  *)

FaultySend(k) ==
    /\ sends < MaxSends
    /\ sends' = sends + 1
    /\ since' = [since EXCEPT ![k] = 0]
    /\ entries' = Refreshed(Evict(entries), k)
    /\ \/ /\ Holds(Evict(entries), k)
          /\ deduped' = deduped + 1
          /\ UNCHANGED queue
       \/ /\ ~Holds(Evict(entries), k)
          /\ queue' = IF Len(queue) < QueueCap THEN Append(queue, k) ELSE queue
          /\ UNCHANGED deduped
    /\ UNCHANGED <<failed, worker, delivered, abandoned>>

\* The key is recorded before it is known whether the queue has room.
Send(k) ==
    /\ sends < MaxSends
    /\ sends' = sends + 1
    /\ since' = [since EXCEPT ![k] = 0]
    /\ entries' = Refreshed(Evict(entries), k)
    /\ \/ /\ Holds(Evict(entries), k)
          /\ deduped' = deduped + 1
          /\ UNCHANGED <<queue, failed>>
       \/ /\ ~Holds(Evict(entries), k)
          /\ Len(queue) < QueueCap
          /\ queue' = Append(queue, k)
          /\ UNCHANGED <<deduped, failed>>
       \/ /\ ~Holds(Evict(entries), k)
          /\ Len(queue) >= QueueCap
          /\ failed' = failed + 1
          /\ UNCHANGED <<queue, deduped>>
    /\ UNCHANGED <<worker, delivered, abandoned>>

-----------------------------------------------------------------------------
(* The worker: _run and _deliver_with_retries.                              *)

\* The next alert.  Without a URL, or with no attempt allowed, it fails at once.
Take ==
    /\ worker.at = "idle"
    /\ queue # <<>>
    /\ queue' = Tail(queue)
    /\ \/ /\ Head(queue) \in Routable
          /\ RetryAttempts >= 1
          /\ worker' = [at |-> "posting", alert |-> Head(queue), attempt |-> 1,
                        backoff |-> 1, wait |-> 0, rings |-> 0]
          /\ UNCHANGED failed
       \/ /\ Head(queue) \notin Routable \/ RetryAttempts < 1
          /\ failed' = failed + 1
          /\ UNCHANGED worker
    /\ UNCHANGED <<entries, delivered, deduped, sends, abandoned, since>>

\* A 2xx answer.
PostSucceeds ==
    /\ worker.at = "posting"
    /\ worker' = Idle
    /\ delivered' = delivered + 1
    /\ UNCHANGED <<entries, queue, failed, deduped, sends, abandoned, since>>

FaultyPostFails ==
    /\ worker.at = "posting"
    /\ \E acted \in {0, 1} :
         worker' = [worker EXCEPT !.at = "backoff", !.wait = worker.backoff,
                                  !.rings = @ + acted]
    /\ UNCHANGED <<entries, queue, failed, delivered, deduped, sends, abandoned, since>>

\* Any other answer, or an httpx.HTTPError (a timeout among them): back off, twice
\* as long each time, or give up after the last attempt.  Protect may have acted on
\* a POST whose answer was lost.
PostFails ==
    /\ worker.at = "posting"
    /\ \/ /\ worker.attempt < RetryAttempts
          /\ \E acted \in {0, 1} :
               worker' = [worker EXCEPT !.at = "backoff", !.wait = worker.backoff,
                                        !.rings = @ + acted]
          /\ UNCHANGED failed
       \/ /\ worker.attempt >= RetryAttempts
          /\ worker' = Idle
          /\ failed' = failed + 1
    /\ UNCHANGED <<entries, queue, delivered, deduped, sends, abandoned, since>>

\* Any other exception: _run counts a failure and goes on with the next alert.
PostRaises ==
    /\ worker.at = "posting"
    /\ worker' = Idle
    /\ failed' = failed + 1
    /\ UNCHANGED <<entries, queue, delivered, deduped, sends, abandoned, since>>

FaultyRetry ==
    /\ worker.at = "backoff"
    /\ worker.wait = 0
    /\ worker' = [worker EXCEPT !.at = "posting"]
    /\ UNCHANGED <<entries, queue, delivered, failed, deduped, sends, abandoned, since>>

\* The backoff is over: next attempt.
Retry ==
    /\ worker.at = "backoff"
    /\ worker.wait = 0
    /\ worker' = [worker EXCEPT !.at = "posting", !.attempt = @ + 1, !.backoff = @ * 2]
    /\ UNCHANGED <<entries, queue, delivered, failed, deduped, sends, abandoned, since>>

\* stop(): the worker is cancelled wherever it is.  What it holds and what is
\* queued is never counted.
Stop ==
    /\ worker.at # "stopped"
    /\ worker' = Stopped
    /\ abandoned' = abandoned + InHand
    /\ UNCHANGED <<entries, queue, delivered, failed, deduped, sends, since>>

Older(age) == IF age = None \/ age > Ttl THEN age ELSE age + 1

Tick ==
    /\ entries' = [i \in DOMAIN entries |-> [entries[i] EXCEPT !.age = Older(@)]]
    /\ since' = [k \in Keys |-> Older(since[k])]
    /\ worker' = [worker EXCEPT !.wait = IF @ > 0 THEN @ - 1 ELSE 0]
    /\ UNCHANGED <<queue, delivered, failed, deduped, sends, abandoned>>

Next ==
    \/ \E k \in Keys : Send(k)
    \/ Take
    \/ PostSucceeds
    \/ PostFails
    \/ PostRaises
    \/ Retry
    \/ Stop
    \/ Tick

Spec == Init /\ [][Next]_vars

\* The loop runs the worker when it is ready, every POST ends (the client has a
\* timeout, and a POST that ends has one of the three outcomes), and time passes.
Fairness ==
    /\ WF_vars(Take)
    /\ WF_vars(PostSucceeds \/ PostFails \/ PostRaises)
    /\ WF_vars(Retry)
    /\ WF_vars(Tick)

FairSpec == Spec /\ Fairness

-----------------------------------------------------------------------------
(* Properties.                                                              *)

\* Every call of send() is in exactly one place: counted as deduped, failed or
\* delivered, queued, in the worker's hands, or lost with a cancelled worker.
Accounting ==
    sends = deduped + failed + delivered + Len(queue) + InHand + abandoned

\* The dedupe table is what it claims to be: it holds a key at most once, with the
\* age of its latest send(), in the order of those sends, so that looking only at
\* the oldest entries is enough to evict.
TableIsOrderedBySend ==
    \A i, j \in 1 .. Len(entries) :
        /\ entries[i].age = since[entries[i].key]
        /\ i < j => /\ entries[i].key # entries[j].key
                    /\ entries[i].age >= entries[j].age

\* An alert is suppressed only if the same one was sent within the TTL, which
\* includes the instant at which it ends.
SuppressionIsRecent ==
    [][deduped' # deduped =>
         \E k \in Keys : since[k] \in 0 .. Ttl /\ since' = [since EXCEPT ![k] = 0]]_vars

\* The keys other than k that may have been sent after it.
SentAfter(k) == {j \in Keys \ {k} : since[j] \in 0 .. since[k]}

\* No repetition within the TTL gets through, unless the table had to make room for
\* max_entries other keys since.
RepetitionIsSuppressed ==
    [][\A k \in Keys : Send(k) /\ since[k] \in 0 .. Ttl =>
          deduped' = deduped + 1 \/ Cardinality(SentAfter(k)) >= MaxEntries]_vars

\* An alert is posted at most retry_attempts times, waits no longer than the backoff
\* of the attempt in between, and not after the last; and it rings in Protect at most
\* once for each POST that has ended, though several times if answers are lost.
AttemptsAreBounded ==
    Busy => /\ worker.attempt \in 1 .. RetryAttempts
            /\ worker.rings <= (IF worker.at = "posting" THEN worker.attempt - 1 ELSE worker.attempt)
            /\ worker.wait <= worker.backoff
            /\ worker.at = "backoff" => worker.attempt < RetryAttempts

\* Under FairSpec: what is queued or in hand is settled, unless the sink is stopped.
QueueDrains ==
    (queue # <<>> \/ Busy) ~> ((queue = <<>> /\ ~Busy) \/ worker.at = "stopped")
=============================================================================
