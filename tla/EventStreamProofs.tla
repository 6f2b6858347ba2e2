-------------------------- MODULE EventStreamProofs --------------------------
(***************************************************************************)
(* Proofs about EventStream, for any events, ids, log, delays, timeouts    *)
(* and bounds: what /readyz reports agrees with where the task is, and a   *)
(* connection that closed or was given up is retried after the shortest    *)
(* delay, which one that a raising frame ended need not be.                *)
(*                                                                         *)
(* Only at, connected and link matter to either; what is handed over on    *)
(* the way is the subject of EventFeedProofs.                              *)
(***************************************************************************)
EXTENDS EventStream, TLAPS

\* A step that leaves these alone changes nothing that is proved here.
LinkVars == <<at, connected, link>>

\* Steps that leave the place of the task and the state of the link alone.
LEMMA StillReady ==
    ASSUME ReadyWhileListening, UNCHANGED LinkVars
    PROVE  ReadyWhileListening'
BY DEF ReadyWhileListening, Ready, LinkVars

\* Initially the stream is down and says so.
LEMMA InitReady == Init => ReadyWhileListening
BY DEF Init, ReadyWhileListening, Ready

\* A round that ends says so, and leaves no link that the controller believes in.
LEMMA PauseIsDown ==
    ASSUME NEW failures, Pause(failures), link' \notin {"up", "dead"}
    PROVE  ReadyWhileListening'
BY DEF Pause, ReadyWhileListening, Ready

\* The steps of the task and of stop().
LEMMA TaskReady ==
    ASSUME ReadyWhileListening, Task \/ Stop
    PROVE  ReadyWhileListening'
<1>1. CASE BackoffOver
  BY <1>1 DEF BackoffOver, ReadyWhileListening, Ready, worldVars
<1>2. CASE Reconcile
  <2>1. at = "reconciling" /\ UNCHANGED link BY <1>2 DEF Reconcile, worldVars
  <2>2. link' \notin {"up", "dead"} BY <2>1 DEF ReadyWhileListening, Ready
  <2>3. \/ at' = "connecting" /\ UNCHANGED connected
        \/ Pause(attempt)
    BY <1>2 DEF Reconcile
  <2>4. CASE Pause(attempt) BY <2>2, <2>4, PauseIsDown
  <2>5. CASE at' = "connecting" /\ UNCHANGED connected
    BY <2>1, <2>2, <2>5 DEF ReadyWhileListening, Ready
  <2> QED BY <2>3, <2>4, <2>5
<1>3. CASE PollFails
  BY <1>3 DEF PollFails, ReadyWhileListening, Ready, worldVars
<1>4. CASE Connect
  BY <1>4 DEF Connect, ReadyWhileListening, Ready
<1>5. CASE ConnectFails
  <2>1. link' \notin {"up", "dead"}
    BY <1>5 DEF ConnectFails, ReadyWhileListening, Ready, worldVars
  <2> QED BY <1>5, <2>1, PauseIsDown DEF ConnectFails
<1>6. CASE Receive \/ Ignore
  BY <1>6, StillReady DEF Receive, Ignore, LinkVars
<1>7. CASE FrameRaises
  BY <1>7 DEF FrameRaises, ReadyWhileListening, Ready
<1>11. CASE Aborted
  BY <1>11, PauseIsDown DEF Aborted
<1>8. CASE ConnectionClosed \/ GivenUp
  BY <1>8, PauseIsDown DEF ConnectionClosed, GivenUp, RoundEnds
<1>9. CASE GiveUp
  BY <1>9 DEF GiveUp, ReadyWhileListening, Ready
<1>10. CASE Stop
  BY <1>10 DEF Stop, ReadyWhileListening, Ready
<1> QED BY <1>1, <1>2, <1>3, <1>4, <1>5, <1>6, <1>7, <1>8, <1>9, <1>10, <1>11
  DEF Task

\* The steps of the controller, the network and time: a link breaks only if it was up.
LEMMA WorldReady ==
    ASSUME ReadyWhileListening, World
    PROVE  ReadyWhileListening'
<1>1. CASE Hello \/ \E e \in Events : Happen(e) \/ Repeat(e)
  BY <1>1, StillReady DEF Hello, Happen, Repeat, LinkVars, taskVars
<1>2. CASE \E how \in {"closed", "dead"} : Break(how)
  BY <1>2 DEF Break, ReadyWhileListening, Ready, taskVars
<1>3. CASE Tick
  BY <1>3, StillReady DEF Tick, LinkVars
<1> QED BY <1>1, <1>2, <1>3 DEF World

\* GET /readyz says ready exactly while the task listens or closes, in every order of
\* failures, closures, silences and cancellation; and never without the task does the
\* controller take the stream for connected.
THEOREM ReadinessIsListening == Spec => []ReadyWhileListening
<1>1. ReadyWhileListening /\ [Next]_vars => ReadyWhileListening'
  <2> SUFFICES ASSUME ReadyWhileListening, [Next]_vars PROVE ReadyWhileListening' OBVIOUS
  <2>1. CASE UNCHANGED vars
    BY <2>1, StillReady DEF vars, taskVars, worldVars, LinkVars
  <2> QED BY <2>1, TaskReady, WorldReady DEF Next
<1> QED BY <1>1, InitReady, PTL DEF Spec

\* The shortest delay is the first, with any list of delays.
LEMMA FirstDelay ==
    ASSUME Pause(0)
    PROVE  wait' = Backoff[1]
<1>1. Len(Backoff) - 1 \in Nat BY StreamAssumption
<1> DEFINE last == Len(Backoff) - 1
<1>2. wait' = Backoff[(IF 0 < last THEN 0 ELSE last) + 1] BY DEF Pause
<1>3. last \in Nat BY <1>1
<1> HIDE DEF last
<1>4. (IF 0 < last THEN 0 ELSE last) = 0 BY <1>3
<1> QED BY <1>2, <1>4

\* _run_forever resets its attempt when a connection that was made closes or is given
\* up: of the rounds that had a connection, only one that a raising frame ended is
\* followed by a later delay.
THEOREM LostLinksRetryFirst == Spec => LostLinksAreRetriedSoon
<1>1. ReadyWhileListening /\ [Next]_vars
        => [connected /\ at # "aborting" /\ at' = "backoff" => wait' = Backoff[1]]_vars
  <2> SUFFICES ASSUME ReadyWhileListening, Next,
                      connected, at # "aborting", at' = "backoff"
               PROVE  wait' = Backoff[1]
    OBVIOUS
  <2>1. at \in {"consuming", "closing"} BY DEF ReadyWhileListening, Ready
  <2>2. ~Stop BY DEF Stop
  <2>3. ~World
    BY <2>1 DEF World, Happen, Repeat, Hello, Break, Tick, taskVars
  <2>4. ConnectionClosed \/ GivenUp
    BY <2>1, <2>2, <2>3 DEF Next, Task, BackoffOver, Reconcile, PollFails, Connect,
                            ConnectFails, Receive, Ignore, FrameRaises, Aborted, GiveUp
  <2> QED BY <2>4, FirstDelay DEF ConnectionClosed, GivenUp, RoundEnds
<1> QED BY <1>1, ReadinessIsListening, PTL DEF Spec, LostLinksAreRetriedSoon
=============================================================================
