------------------------------- MODULE Webhook -------------------------------
(***************************************************************************)
(* provider/webhook: events are coalesced by room and type, a dispatcher   *)
(* goroutine drains them when the debounce timer fires, and deliveries     *)
(* post them with bounded retries and bounded concurrency.  Close flushes  *)
(* what is pending and waits.  A key is a (room, type) pair; bodies,       *)
(* signatures and the length of delays are left out.                       *)
(***************************************************************************)
EXTENDS Naturals, FiniteSets

CONSTANTS
    Keys,           \* coalescing buckets: pendingKey
    MaxEvents,      \* bound on events accepted
    MaxRetries,     \* Config.MaxRetries: attempts before an event is dropped
    MaxDeliveries,  \* Config.MaxConcurrentDeliveries
    Closers         \* goroutines that call Close

Events == 1 .. MaxEvents
None == 0

ASSUME WebhookAssumption ==
    /\ MaxEvents \in Nat /\ MaxRetries \in Nat \ {0} /\ MaxDeliveries \in Nat \ {0}

VARIABLES
    accepted,  \* number of events Enqueue has accepted: their ids are 1, 2, ...
    key,       \* the bucket of each of them
    pending,   \* bucket -> the event that waits in it
    wakers,    \* Enqueue calls between their store and their signal
    wake,      \* is there a token in the wake channel?
    timer,     \* is the debounce timer set?
    loop,      \* dispatchLoop: at "select", "spawn" or "done"; `final` after closed
    batch,     \* events drained that have no delivery yet
    run,       \* event -> its delivery: "idle", "post" or "sleep"
    tries,     \* event -> attempts made
    fate,      \* history: event -> what became of it
    closed,    \* is w.closed closed?
    closers    \* Close calls: "no", "waiting", "done", "early" or "ctx"

vars == <<accepted, key, pending, wakers, wake, timer, loop, batch, run, tries, fate, closed, closers>>
queues == <<accepted, key, pending, wakers>>
delivery == <<run, tries, fate>>
dispatch == <<wake, timer, loop, batch>>
closing == <<closed, closers>>

Running == {e \in Events : run[e] # "idle"}
PendingEvents == {e \in Events : \E k \in Keys : pending[k] = e}

\* What w.wg counts: the dispatcher and every event drained and not finished.
WaitGroupEmpty == loop.at = "done" /\ batch = {} /\ Running = {}

Init ==
    /\ accepted = 0 /\ key \in [Events -> Keys] /\ pending = [k \in Keys |-> None] /\ wakers = 0
    /\ wake = FALSE /\ timer = FALSE /\ loop = [at |-> "select", final |-> FALSE] /\ batch = {}
    /\ run = [e \in Events |-> "idle"] /\ tries = [e \in Events |-> 0] /\ fate = [e \in Events |-> "none"]
    /\ closed = FALSE /\ closers = [c \in Closers |-> "no"]

\* Enqueue, under w.mu: the event replaces the one pending in its bucket.  On a
\* closed webhook it is dropped, which changes nothing.
Enqueue ==
    /\ ~closed /\ accepted < MaxEvents
    /\ accepted' = accepted + 1
    /\ LET k == key[accepted + 1] IN
         /\ pending' = [pending EXCEPT ![k] = accepted + 1]
         /\ fate' = IF pending[k] = None THEN fate ELSE [fate EXCEPT ![pending[k]] = "replaced"]
    /\ wakers' = wakers + 1
    /\ UNCHANGED <<key, run, tries, dispatch, closing>>

\* ... and then, outside the lock, the signal that never blocks.
Signal ==
    /\ wakers > 0 /\ wakers' = wakers - 1 /\ wake' = TRUE
    /\ UNCHANGED <<accepted, key, pending, timer, loop, batch, delivery, closing>>

LoopWakeIgnored ==
    /\ loop.at = "select" /\ wake
    /\ wake' = FALSE
    /\ UNCHANGED <<timer, loop, batch, queues, delivery, closing>>

\* dispatchLoop, case <-w.wake: the timer starts unless it runs already.
LoopWake ==
    /\ loop.at = "select" /\ wake
    /\ wake' = FALSE /\ timer' = TRUE
    /\ UNCHANGED <<loop, batch, queues, delivery, closing>>

\* The first half of drainAndDeliver, under w.mu.
Drain(final) ==
    /\ batch' = PendingEvents /\ pending' = [k \in Keys |-> None]
    /\ loop' = [at |-> IF PendingEvents # {} THEN "spawn" ELSE IF final THEN "done" ELSE "select", final |-> final]

\* case <-timerC.
LoopTimer ==
    /\ loop.at = "select" /\ timer
    /\ timer' = FALSE /\ Drain(FALSE)
    /\ UNCHANGED <<accepted, key, wakers, wake, delivery, closing>>

LoopClosedDrops ==
    /\ loop.at = "select" /\ closed
    /\ timer' = FALSE /\ loop' = [at |-> "done", final |-> TRUE]
    /\ UNCHANGED <<accepted, key, pending, batch, wakers, wake, delivery, closing>>

\* case <-w.closed: the final drain, after which the dispatcher returns.
LoopClosed ==
    /\ loop.at = "select" /\ closed
    /\ timer' = FALSE /\ Drain(TRUE)
    /\ UNCHANGED <<accepted, key, wakers, wake, delivery, closing>>

\* The second half: take a slot of deliverSem, start the delivery.
Spawn(e) ==
    /\ loop.at = "spawn" /\ e \in batch /\ Cardinality(Running) < MaxDeliveries
    /\ batch' = batch \ {e} /\ run' = [run EXCEPT ![e] = "post"]
    /\ loop' = IF batch = {e} THEN [loop EXCEPT !.at = IF loop.final THEN "done" ELSE "select"] ELSE loop
    /\ UNCHANGED <<queues, wake, timer, tries, fate, closing>>

\* A delivery returns and frees its slot.
Finish(e, how) == run' = [run EXCEPT ![e] = "idle"] /\ fate' = [fate EXCEPT ![e] = how]

\* deliver: a body that cannot be encoded or is too large is never posted.
Unsendable(e) ==
    /\ run[e] = "post" /\ tries[e] = 0
    /\ Finish(e, "unsendable")
    /\ UNCHANGED <<queues, dispatch, tries, closing>>

PostAnswered(e, how) ==
    /\ run[e] = "post" /\ tries' = [tries EXCEPT ![e] = @ + 1]
    /\ Finish(e, how)
    /\ UNCHANGED <<queues, dispatch, closing>>

\* postOnce: a transport error or a 5xx is retried while attempts remain.
PostFailed(e) ==
    /\ run[e] = "post" /\ tries' = [tries EXCEPT ![e] = @ + 1]
    /\ IF tries[e] + 1 = MaxRetries THEN Finish(e, "exhausted")
       ELSE run' = [run EXCEPT ![e] = "sleep"] /\ UNCHANGED fate
    /\ UNCHANGED <<queues, dispatch, closing>>

\* The backoff has passed ...
Retry(e) ==
    /\ run[e] = "sleep" /\ run' = [run EXCEPT ![e] = "post"]
    /\ UNCHANGED <<queues, dispatch, tries, fate, closing>>

\* ... or the webhook was closed meanwhile.
Abort(e) ==
    /\ run[e] = "sleep" /\ closed /\ Finish(e, "aborted")
    /\ UNCHANGED <<queues, dispatch, tries, closing>>

\* Close: the first call closes and waits, any other returns at once.
Close(c) ==
    /\ closers[c] = "no" /\ closed' = TRUE
    /\ closers' = [closers EXCEPT ![c] = IF closed THEN "early" ELSE "waiting"]
    /\ UNCHANGED <<queues, dispatch, delivery>>

CloseReturns(c) ==
    /\ closers[c] = "waiting" /\ WaitGroupEmpty /\ closers' = [closers EXCEPT ![c] = "done"]
    /\ UNCHANGED <<queues, dispatch, delivery, closed>>

Cancel(c) ==
    /\ closers[c] = "waiting" /\ closers' = [closers EXCEPT ![c] = "ctx"]
    /\ UNCHANGED <<queues, dispatch, delivery, closed>>

Dispatch == Signal \/ LoopWake \/ LoopTimer \/ LoopClosed \/ \E e \in Events : Spawn(e)
Deliver(e) == Unsendable(e) \/ PostAnswered(e, "ok") \/ PostAnswered(e, "refused") \/ PostFailed(e) \/ Retry(e) \/ Abort(e)

Next ==
    \/ Enqueue \/ Dispatch
    \/ \E e \in Events : Deliver(e)
    \/ \E c \in Closers : Close(c) \/ CloseReturns(c) \/ Cancel(c)

Spec == Init /\ [][Next]_vars

(***************************************************************************)
(* Goroutines that can run do, a request ends (the client has a timeout),  *)
(* timers fire, and select does not ignore a ready channel forever.  No    *)
(* caller has to enqueue, close or cancel.                                 *)
(***************************************************************************)
Fairness ==
    /\ WF_vars(Signal) /\ WF_vars(LoopWake) /\ WF_vars(LoopTimer) /\ WF_vars(LoopClosed)
    /\ \A e \in Events : WF_vars(Spawn(e)) /\ WF_vars(Deliver(e))
    /\ \A c \in Closers : WF_vars(CloseReturns(c))
FairSpec == Spec /\ Fairness

(***************************************************************************)
(* Properties.                                                             *)
(***************************************************************************)
Fates == {"none", "replaced", "unsendable", "ok", "refused", "exhausted", "aborted"}

\* The dispatcher, its buckets and deliveries have the shape the code gives them.
TypeOK ==
    /\ accepted \in 0 .. MaxEvents /\ key \in [Events -> Keys]
    /\ pending \in [Keys -> {None} \cup Events]
    /\ \A k \in Keys : pending[k] # None => pending[k] <= accepted /\ key[pending[k]] = k
    /\ wakers \in Nat /\ wake \in BOOLEAN /\ timer \in BOOLEAN
    /\ loop \in [at : {"select", "spawn", "done"}, final : BOOLEAN]
    /\ batch \subseteq Events /\ (loop.at = "spawn" <=> batch # {})
    /\ run \in [Events -> {"idle", "post", "sleep"}] /\ tries \in [Events -> 0 .. MaxRetries]
    /\ fate \in [Events -> Fates]
    /\ closed \in BOOLEAN /\ closers \in [Closers -> {"no", "waiting", "done", "early", "ctx"}]

\* No more than MaxConcurrentDeliveries posts are in flight.
Bounded == Cardinality(Running) <= MaxDeliveries

\* While events are pending and the dispatcher waits in its select, something
\* will make it move: a token, the timer, an Enqueue about to signal, or Close.
NoMissedWakeup ==
    (loop.at = "select" /\ PendingEvents # {}) => wake \/ timer \/ wakers > 0 \/ closed

Places(e) ==
    {p \in {"pending", "batch", "run", "over"} :
       \/ p = "pending" /\ e \in PendingEvents
       \/ p = "batch" /\ e \in batch
       \/ p = "run" /\ run[e] # "idle"
       \/ p = "over" /\ fate[e] # "none"}

\* An accepted event is in exactly one place: its bucket, the drained batch, a
\* delivery, or finished; and only a later event of its bucket replaces it.
Conserved ==
    \A e \in Events :
      /\ e <= accepted <=> Places(e) # {}
      /\ \A p, q \in Places(e) : p = q
      /\ fate[e] = "replaced" => \E f \in e + 1 .. accepted : key[f] = key[e]

\* An event is given up only for cause: posted MaxRetries times, or posted at
\* least once and cut short by Close; one that was finished was posted.
GivenUpForCause ==
    \A e \in Events :
      /\ fate[e] = "exhausted" => tries[e] = MaxRetries
      /\ fate[e] = "aborted" => closed /\ tries[e] \in 1 .. MaxRetries - 1
      /\ fate[e] \in {"ok", "refused"} => tries[e] >= 1

\* "Close ... fires any pending events synchronously, and waits for in-flight
\* deliveries to finish": when the first Close returns nil, every event ever
\* accepted is over and nothing is left that could post.
CloseFlushes ==
    (\E c \in Closers : closers[c] = "done") =>
      WaitGroupEmpty /\ \A e \in 1 .. accepted : fate[e] # "none"

\* Every accepted event is posted to the end, replaced or given up.
Delivered == \A e \in Events : [](accepted >= e => <>(fate[e] # "none"))

\* Close returns, whatever the receiver answers.
CloseFinishes == \A c \in Closers : [](closers[c] = "waiting" => <>(closers[c] # "waiting"))

\* All of it at once: slots are respected, no wake-up is missed, every event has
\* one place and one fate, for cause, and Close leaves nothing behind.
Sound == TypeOK /\ Bounded /\ NoMissedWakeup /\ Conserved /\ GivenUpForCause /\ CloseFlushes

\* Every accepted event reaches its fate, and Close returns.
Progress == Delivered /\ CloseFinishes
=============================================================================
