---------------------------- MODULE WebhookProofs ----------------------------
(***************************************************************************)
(* Proofs about Webhook, for any buckets, events, retries, slots and       *)
(* callers of Close.                                                       *)
(***************************************************************************)
EXTENDS Webhook, FiniteSetTheorems, TLAPS

\* Pending events keep a reason to be drained, wherever the dispatcher is.
Awaited == PendingEvents # {} => wake \/ timer \/ wakers > 0 \/ closed

\* A dispatcher in or past its final drain leaves nothing pending, and only a
\* closed webhook is waited for.
Final ==
    /\ loop.final \/ loop.at = "done" => closed /\ PendingEvents = {}
    /\ \A c \in Closers : closers[c] # "no" => closed
    /\ \A c \in Closers : closers[c] = "done" => WaitGroupEmpty

\* The places of an event, pairwise.
Placed ==
    \A e \in Events :
      /\ e \in PendingEvents => e <= accepted /\ e \notin batch /\ run[e] = "idle" /\ fate[e] = "none"
      /\ e \in batch => e <= accepted /\ run[e] = "idle" /\ fate[e] = "none"
      /\ run[e] # "idle" => e <= accepted /\ fate[e] = "none"
      /\ fate[e] # "none" => e <= accepted
      /\ e <= accepted => e \in PendingEvents \/ e \in batch \/ run[e] # "idle" \/ fate[e] # "none"
      /\ fate[e] = "replaced" => \E f \in e + 1 .. accepted : key[f] = key[e]

\* A delivery has attempts left.
Budgeted ==
    \A e \in Events : /\ run[e] = "post" => tries[e] < MaxRetries
                      /\ run[e] = "sleep" => tries[e] \in 1 .. MaxRetries - 1
                      /\ run[e] = "idle" /\ fate[e] = "none" => tries[e] = 0

WInv == TypeOK /\ Awaited /\ Final /\ Placed /\ Budgeted /\ GivenUpForCause

LEMMA EventsAreNumbers ==
    /\ Events \subseteq Nat /\ None \notin Events
    /\ \A n \in Nat : n \in Events <=> n >= 1 /\ n <= MaxEvents
  BY WebhookAssumption DEF Events, None

LEMMA NoPending ==
    ASSUME TypeOK PROVE (pending' = [k \in Keys |-> None] => PendingEvents' = {}) /\ (PendingEvents = {} => \A k \in Keys : pending[k] = None)
  BY EventsAreNumbers DEF TypeOK, PendingEvents, None

LEMMA DrainedBatch == ASSUME TypeOK PROVE PendingEvents \subseteq Events
  BY DEF PendingEvents

LEMMA TypeStep == TypeOK /\ Budgeted /\ [Next]_vars => TypeOK'
<1> SUFFICES ASSUME TypeOK /\ Budgeted, [Next]_vars PROVE TypeOK'
  OBVIOUS
<1>1. CASE Enqueue
  <2>1. accepted + 1 \in Events /\ accepted + 1 \in Nat /\ key[accepted + 1] \in Keys
    BY <1>1, EventsAreNumbers, WebhookAssumption DEF Enqueue, TypeOK
  <2>2. accepted' \in 0 .. MaxEvents /\ wakers' \in Nat
    BY <1>1, WebhookAssumption DEF Enqueue, TypeOK
  <2>3. pending' \in [Keys -> {None} \cup Events]
    BY <1>1, <2>1 DEF Enqueue, TypeOK
  <2>4. \A k \in Keys : pending'[k] # None => pending'[k] <= accepted' /\ key'[pending'[k]] = k
    <3> SUFFICES ASSUME NEW k \in Keys, pending'[k] # None
                 PROVE pending'[k] <= accepted' /\ key'[pending'[k]] = k
      OBVIOUS
    <3>1. CASE k = key[accepted + 1]
      BY <1>1, <2>1, <3>1 DEF Enqueue, TypeOK
    <3>2. CASE k # key[accepted + 1]
      <4>1. pending'[k] = pending[k] /\ pending[k] \in Events /\ pending[k] <= accepted /\ key[pending[k]] = k
        BY <1>1, <2>1, <3>2 DEF Enqueue, TypeOK
      <4>2. accepted \in Nat /\ accepted' \in Nat /\ accepted <= accepted' /\ key' = key
        BY <1>1 DEF Enqueue, TypeOK
      <4>3. pending[k] \in Nat
        BY <4>1, EventsAreNumbers
      <4>4. pending[k] <= accepted'
        BY <4>1, <4>2, <4>3
      <4> QED
        BY <4>1, <4>2, <4>4
    <3> QED
      BY <3>1, <3>2
  <2>5. fate' \in [Events -> Fates]
    BY <1>1, <2>1 DEF Enqueue, TypeOK, Fates
  <2> QED
    BY <1>1, <2>2, <2>3, <2>4, <2>5 DEF Enqueue, TypeOK, dispatch, closing
<1>2. CASE Signal
  BY <1>2, EventsAreNumbers, WebhookAssumption, NoPending, DrainedBatch DEF Signal, queues, delivery, dispatch, closing, TypeOK, Budgeted, Fates
<1>3. CASE LoopWake
  BY <1>3, EventsAreNumbers, WebhookAssumption, NoPending, DrainedBatch DEF LoopWake, queues, delivery, dispatch, closing, TypeOK, Budgeted, Fates
<1>4. CASE LoopTimer
  BY <1>4, EventsAreNumbers, WebhookAssumption, NoPending, DrainedBatch DEF LoopTimer, Drain, queues, delivery, dispatch, closing, TypeOK, Budgeted, Fates
<1>5. CASE LoopClosed
  BY <1>5, EventsAreNumbers, WebhookAssumption, NoPending, DrainedBatch DEF LoopClosed, Drain, queues, delivery, dispatch, closing, TypeOK, Budgeted, Fates
<1>6. ASSUME NEW e \in Events, Spawn(e)
      PROVE TypeOK'
  BY <1>6, EventsAreNumbers, WebhookAssumption, NoPending, DrainedBatch DEF Spawn, queues, delivery, dispatch, closing, TypeOK, Budgeted, Fates
<1>7. ASSUME NEW e \in Events, Unsendable(e)
      PROVE TypeOK'
  BY <1>7, EventsAreNumbers, WebhookAssumption, NoPending, DrainedBatch DEF Unsendable, Finish, queues, delivery, dispatch, closing, TypeOK, Budgeted, Fates
<1>8. ASSUME NEW e \in Events, PostAnswered(e, "ok")
      PROVE TypeOK'
  BY <1>8, EventsAreNumbers, WebhookAssumption, NoPending, DrainedBatch DEF PostAnswered, Finish, queues, delivery, dispatch, closing, TypeOK, Budgeted, Fates
<1>9. ASSUME NEW e \in Events, PostAnswered(e, "refused")
      PROVE TypeOK'
  BY <1>9, EventsAreNumbers, WebhookAssumption, NoPending, DrainedBatch DEF PostAnswered, Finish, queues, delivery, dispatch, closing, TypeOK, Budgeted, Fates
<1>10. ASSUME NEW e \in Events, PostFailed(e)
      PROVE TypeOK'
  BY <1>10, EventsAreNumbers, WebhookAssumption, NoPending, DrainedBatch DEF PostFailed, Finish, queues, delivery, dispatch, closing, TypeOK, Budgeted, Fates
<1>11. ASSUME NEW e \in Events, Retry(e)
      PROVE TypeOK'
  BY <1>11, EventsAreNumbers, WebhookAssumption, NoPending, DrainedBatch DEF Retry, queues, delivery, dispatch, closing, TypeOK, Budgeted, Fates
<1>12. ASSUME NEW e \in Events, Abort(e)
      PROVE TypeOK'
  BY <1>12, EventsAreNumbers, WebhookAssumption, NoPending, DrainedBatch DEF Abort, Finish, queues, delivery, dispatch, closing, TypeOK, Budgeted, Fates
<1>13. ASSUME NEW c \in Closers, Close(c)
      PROVE TypeOK'
  BY <1>13, EventsAreNumbers, WebhookAssumption, NoPending, DrainedBatch DEF Close, queues, delivery, dispatch, closing, TypeOK, Budgeted, Fates
<1>14. ASSUME NEW c \in Closers, CloseReturns(c)
      PROVE TypeOK'
  BY <1>14, EventsAreNumbers, WebhookAssumption, NoPending, DrainedBatch DEF CloseReturns, WaitGroupEmpty, queues, delivery, dispatch, closing, TypeOK, Budgeted, Fates
<1>15. ASSUME NEW c \in Closers, Cancel(c)
      PROVE TypeOK'
  BY <1>15, EventsAreNumbers, WebhookAssumption, NoPending, DrainedBatch DEF Cancel, queues, delivery, dispatch, closing, TypeOK, Budgeted, Fates
<1>16. CASE UNCHANGED vars
  BY <1>16 DEF vars, TypeOK, Budgeted, Fates
<1> QED
  BY <1>1, <1>2, <1>3, <1>4, <1>5, <1>6, <1>7, <1>8, <1>9, <1>10, <1>11, <1>12, <1>13, <1>14, <1>15, <1>16 DEF Next, Dispatch, Deliver

LEMMA AwaitedStep == TypeOK /\ Awaited /\ [Next]_vars => Awaited'
<1> SUFFICES ASSUME TypeOK /\ Awaited, [Next]_vars PROVE Awaited'
  OBVIOUS
<1>1. CASE Enqueue
  BY <1>1, NoPending DEF Enqueue, queues, delivery, dispatch, closing, TypeOK, Awaited, PendingEvents
<1>2. CASE Signal
  BY <1>2, NoPending DEF Signal, queues, delivery, dispatch, closing, TypeOK, Awaited, PendingEvents
<1>3. CASE LoopWake
  BY <1>3, NoPending DEF LoopWake, queues, delivery, dispatch, closing, TypeOK, Awaited, PendingEvents
<1>4. CASE LoopTimer
  BY <1>4, NoPending DEF LoopTimer, Drain, queues, delivery, dispatch, closing, TypeOK, Awaited, PendingEvents
<1>5. CASE LoopClosed
  BY <1>5, NoPending DEF LoopClosed, Drain, queues, delivery, dispatch, closing, TypeOK, Awaited, PendingEvents
<1>6. ASSUME NEW e \in Events, Spawn(e)
      PROVE Awaited'
  BY <1>6, NoPending DEF Spawn, queues, delivery, dispatch, closing, TypeOK, Awaited, PendingEvents
<1>7. ASSUME NEW e \in Events, Unsendable(e)
      PROVE Awaited'
  BY <1>7, NoPending DEF Unsendable, Finish, queues, delivery, dispatch, closing, TypeOK, Awaited, PendingEvents
<1>8. ASSUME NEW e \in Events, PostAnswered(e, "ok")
      PROVE Awaited'
  BY <1>8, NoPending DEF PostAnswered, Finish, queues, delivery, dispatch, closing, TypeOK, Awaited, PendingEvents
<1>9. ASSUME NEW e \in Events, PostAnswered(e, "refused")
      PROVE Awaited'
  BY <1>9, NoPending DEF PostAnswered, Finish, queues, delivery, dispatch, closing, TypeOK, Awaited, PendingEvents
<1>10. ASSUME NEW e \in Events, PostFailed(e)
      PROVE Awaited'
  BY <1>10, NoPending DEF PostFailed, Finish, queues, delivery, dispatch, closing, TypeOK, Awaited, PendingEvents
<1>11. ASSUME NEW e \in Events, Retry(e)
      PROVE Awaited'
  BY <1>11, NoPending DEF Retry, queues, delivery, dispatch, closing, TypeOK, Awaited, PendingEvents
<1>12. ASSUME NEW e \in Events, Abort(e)
      PROVE Awaited'
  BY <1>12, NoPending DEF Abort, Finish, queues, delivery, dispatch, closing, TypeOK, Awaited, PendingEvents
<1>13. ASSUME NEW c \in Closers, Close(c)
      PROVE Awaited'
  BY <1>13, NoPending DEF Close, queues, delivery, dispatch, closing, TypeOK, Awaited, PendingEvents
<1>14. ASSUME NEW c \in Closers, CloseReturns(c)
      PROVE Awaited'
  BY <1>14, NoPending DEF CloseReturns, WaitGroupEmpty, queues, delivery, dispatch, closing, TypeOK, Awaited, PendingEvents
<1>15. ASSUME NEW c \in Closers, Cancel(c)
      PROVE Awaited'
  BY <1>15, NoPending DEF Cancel, queues, delivery, dispatch, closing, TypeOK, Awaited, PendingEvents
<1>16. CASE UNCHANGED vars
  BY <1>16 DEF vars, TypeOK, Awaited, PendingEvents
<1> QED
  BY <1>1, <1>2, <1>3, <1>4, <1>5, <1>6, <1>7, <1>8, <1>9, <1>10, <1>11, <1>12, <1>13, <1>14, <1>15, <1>16 DEF Next, Dispatch, Deliver

LEMMA FinalStep == TypeOK /\ Final /\ [Next]_vars => Final'
<1> SUFFICES ASSUME TypeOK /\ Final, [Next]_vars PROVE Final'
  OBVIOUS
<1>1. CASE Enqueue
  BY <1>1, NoPending DEF Enqueue, queues, delivery, dispatch, closing, TypeOK, Final, PendingEvents, WaitGroupEmpty, Running
<1>2. CASE Signal
  BY <1>2, NoPending DEF Signal, queues, delivery, dispatch, closing, TypeOK, Final, PendingEvents, WaitGroupEmpty, Running
<1>3. CASE LoopWake
  BY <1>3, NoPending DEF LoopWake, queues, delivery, dispatch, closing, TypeOK, Final, PendingEvents, WaitGroupEmpty, Running
<1>4. CASE LoopTimer
  BY <1>4, NoPending DEF LoopTimer, Drain, queues, delivery, dispatch, closing, TypeOK, Final, PendingEvents, WaitGroupEmpty, Running
<1>5. CASE LoopClosed
  BY <1>5, NoPending DEF LoopClosed, Drain, queues, delivery, dispatch, closing, TypeOK, Final, PendingEvents, WaitGroupEmpty, Running
<1>6. ASSUME NEW e \in Events, Spawn(e)
      PROVE Final'
  BY <1>6, NoPending DEF Spawn, queues, delivery, dispatch, closing, TypeOK, Final, PendingEvents, WaitGroupEmpty, Running
<1>7. ASSUME NEW e \in Events, Unsendable(e)
      PROVE Final'
  BY <1>7, NoPending DEF Unsendable, Finish, queues, delivery, dispatch, closing, TypeOK, Final, PendingEvents, WaitGroupEmpty, Running
<1>8. ASSUME NEW e \in Events, PostAnswered(e, "ok")
      PROVE Final'
  BY <1>8, NoPending DEF PostAnswered, Finish, queues, delivery, dispatch, closing, TypeOK, Final, PendingEvents, WaitGroupEmpty, Running
<1>9. ASSUME NEW e \in Events, PostAnswered(e, "refused")
      PROVE Final'
  BY <1>9, NoPending DEF PostAnswered, Finish, queues, delivery, dispatch, closing, TypeOK, Final, PendingEvents, WaitGroupEmpty, Running
<1>10. ASSUME NEW e \in Events, PostFailed(e)
      PROVE Final'
  BY <1>10, NoPending DEF PostFailed, Finish, queues, delivery, dispatch, closing, TypeOK, Final, PendingEvents, WaitGroupEmpty, Running
<1>11. ASSUME NEW e \in Events, Retry(e)
      PROVE Final'
  BY <1>11, NoPending DEF Retry, queues, delivery, dispatch, closing, TypeOK, Final, PendingEvents, WaitGroupEmpty, Running
<1>12. ASSUME NEW e \in Events, Abort(e)
      PROVE Final'
  BY <1>12, NoPending DEF Abort, Finish, queues, delivery, dispatch, closing, TypeOK, Final, PendingEvents, WaitGroupEmpty, Running
<1>13. ASSUME NEW c \in Closers, Close(c)
      PROVE Final'
  BY <1>13, NoPending DEF Close, queues, delivery, dispatch, closing, TypeOK, Final, PendingEvents, WaitGroupEmpty, Running
<1>14. ASSUME NEW c \in Closers, CloseReturns(c)
      PROVE Final'
  BY <1>14, NoPending DEF CloseReturns, WaitGroupEmpty, queues, delivery, dispatch, closing, TypeOK, Final, PendingEvents, WaitGroupEmpty, Running
<1>15. ASSUME NEW c \in Closers, Cancel(c)
      PROVE Final'
  BY <1>15, NoPending DEF Cancel, queues, delivery, dispatch, closing, TypeOK, Final, PendingEvents, WaitGroupEmpty, Running
<1>16. CASE UNCHANGED vars
  BY <1>16 DEF vars, TypeOK, Final, PendingEvents, WaitGroupEmpty, Running
<1> QED
  BY <1>1, <1>2, <1>3, <1>4, <1>5, <1>6, <1>7, <1>8, <1>9, <1>10, <1>11, <1>12, <1>13, <1>14, <1>15, <1>16 DEF Next, Dispatch, Deliver

LEMMA PlacedStep == TypeOK /\ TypeOK' /\ Placed /\ [Next]_vars => Placed'
<1> SUFFICES ASSUME TypeOK /\ TypeOK' /\ Placed, [Next]_vars PROVE Placed'
  OBVIOUS
<1>1. CASE Enqueue
  <2> DEFINE n == accepted + 1
             k == key[n]
             At(e) == /\ e \in PendingEvents => e <= accepted /\ e \notin batch /\ run[e] = "idle" /\ fate[e] = "none"
                      /\ e \in batch => e <= accepted /\ run[e] = "idle" /\ fate[e] = "none"
                      /\ run[e] # "idle" => e <= accepted /\ fate[e] = "none"
                      /\ fate[e] # "none" => e <= accepted
                      /\ e <= accepted => e \in PendingEvents \/ e \in batch \/ run[e] # "idle" \/ fate[e] # "none"
                      /\ fate[e] = "replaced" => \E f \in e + 1 .. accepted : key[f] = key[e]
  <2>1. n \in Events /\ accepted \in Nat /\ k \in Keys /\ ~(n <= accepted)
    BY <1>1, EventsAreNumbers, WebhookAssumption DEF Enqueue, TypeOK
  <2>2. /\ accepted' = n /\ key' = key /\ run' = run /\ batch' = batch /\ pending' = [pending EXCEPT ![k] = n]
        /\ fate' = IF pending[k] = None THEN fate ELSE [fate EXCEPT ![pending[k]] = "replaced"]
    BY <1>1 DEF Enqueue, dispatch
  <2>3. /\ pending \in [Keys -> {None} \cup Events] /\ \A j \in Keys : pending[j] # None => key[pending[j]] = j
        /\ DOMAIN fate = Events
    BY DEF TypeOK
  <2>4. n \notin PendingEvents /\ n \notin batch /\ run[n] = "idle" /\ fate[n] = "none"
    BY <2>1 DEF Placed
  <2>5. \A e \in Events : fate'[e] = IF e = pending[k] THEN "replaced" ELSE fate[e]
    BY <2>1, <2>2, <2>3, EventsAreNumbers
  <2> HIDE DEF n, k
  <2>6. \A e \in Events : e \in PendingEvents' <=> e = n \/ (e \in PendingEvents /\ e # pending[k])
    <3> SUFFICES ASSUME NEW e \in Events PROVE e \in PendingEvents' <=> e = n \/ (e \in PendingEvents /\ e # pending[k])
      OBVIOUS
    <3>1. pending'[k] = n /\ \A j \in Keys : j # k => pending'[j] = pending[j]
      BY <2>1, <2>2, <2>3
    <3>2. ASSUME e \in PendingEvents' PROVE e = n \/ (e \in PendingEvents /\ e # pending[k])
      <4>1. PICK j \in Keys : pending'[j] = e
        BY <3>2 DEF PendingEvents
      <4>2. j # k => pending[j] = e /\ key[e] = j
        BY <2>3, <3>1, <4>1, EventsAreNumbers
      <4> QED BY <2>1, <2>3, <3>1, <4>1, <4>2, EventsAreNumbers DEF PendingEvents
    <3>3. ASSUME e \in PendingEvents, e # pending[k] PROVE e \in PendingEvents'
      BY <3>1, <3>3 DEF PendingEvents
    <3>4. n \in PendingEvents'
      BY <2>1, <3>1 DEF PendingEvents
    <3> QED BY <3>2, <3>3, <3>4
  <2>7. ASSUME NEW e \in Events PROVE At(e)'
    <3>1. CASE e = n
      <4>1. e \notin batch' /\ run'[e] = "idle" /\ e \in PendingEvents' /\ e <= accepted'
        BY <2>1, <2>2, <2>4, <2>6, <3>1, EventsAreNumbers
      <4>2. fate'[e] = "none"
        BY <2>1, <2>4, <2>5, <3>1 DEF PendingEvents
      <4> QED BY <4>1, <4>2
    <3>2. CASE e = pending[k] /\ e # n
      <4>1. e \in PendingEvents /\ e \in Nat /\ key[e] = k
        BY <2>1, <2>3, <3>2, EventsAreNumbers DEF PendingEvents
      <4>2. e \notin batch /\ run[e] = "idle" /\ e <= accepted
        BY <4>1 DEF Placed
      <4>3. n = accepted + 1 /\ k = key[n]
        BY DEF n, k
      <4>4. e <= accepted' /\ n \in e + 1 .. accepted'
        BY <2>1, <2>2, <4>1, <4>2, <4>3
      <4>5. e \notin PendingEvents' /\ e \notin batch' /\ run'[e] = "idle" /\ fate'[e] = "replaced"
        BY <2>2, <2>5, <2>6, <3>2, <4>2
      <4>6. \E f \in e + 1 .. accepted' : key'[f] = key'[e]
        BY <2>2, <4>1, <4>3, <4>4
      <4> QED BY <4>4, <4>5, <4>6
    <3>3. CASE e # pending[k] /\ e # n
      <4>1. At(e)
        BY DEF Placed
      <4>2. e \in Nat /\ accepted' = accepted + 1 /\ e # accepted + 1
        BY <2>2, <3>3, EventsAreNumbers DEF n
      <4>3. (e <= accepted' <=> e <= accepted) /\ e + 1 .. accepted \subseteq e + 1 .. accepted'
        BY <2>1, <4>2
      <4>4. (e \in PendingEvents' <=> e \in PendingEvents) /\ fate'[e] = fate[e]
        BY <2>5, <2>6, <3>3
      <4>5. fate'[e] = "replaced" => \E f \in e + 1 .. accepted' : key'[f] = key'[e]
        BY <2>2, <4>1, <4>3, <4>4
      <4> QED BY <2>2, <4>1, <4>3, <4>4, <4>5
    <3> QED BY <3>1, <3>2, <3>3
  <2> QED BY <2>7 DEF Placed
<1>2. CASE Signal
  BY <1>2, NoPending, EventsAreNumbers DEF Signal, queues, delivery, dispatch, closing, TypeOK, Placed, PendingEvents
<1>3. CASE LoopWake
  BY <1>3, NoPending, EventsAreNumbers DEF LoopWake, queues, delivery, dispatch, closing, TypeOK, Placed, PendingEvents
<1>4. CASE LoopTimer
  BY <1>4, NoPending, EventsAreNumbers DEF LoopTimer, Drain, queues, delivery, dispatch, closing, TypeOK, Placed, PendingEvents
<1>5. CASE LoopClosed
  BY <1>5, NoPending, EventsAreNumbers DEF LoopClosed, Drain, queues, delivery, dispatch, closing, TypeOK, Placed, PendingEvents
<1>6. ASSUME NEW e \in Events, Spawn(e)
      PROVE Placed'
  BY <1>6, NoPending, EventsAreNumbers DEF Spawn, queues, delivery, dispatch, closing, TypeOK, Placed, PendingEvents
<1>7. ASSUME NEW e \in Events, Unsendable(e)
      PROVE Placed'
  BY <1>7, NoPending, EventsAreNumbers DEF Unsendable, Finish, queues, delivery, dispatch, closing, TypeOK, Placed, PendingEvents
<1>8. ASSUME NEW e \in Events, PostAnswered(e, "ok")
      PROVE Placed'
  BY <1>8, NoPending, EventsAreNumbers DEF PostAnswered, Finish, queues, delivery, dispatch, closing, TypeOK, Placed, PendingEvents
<1>9. ASSUME NEW e \in Events, PostAnswered(e, "refused")
      PROVE Placed'
  BY <1>9, NoPending, EventsAreNumbers DEF PostAnswered, Finish, queues, delivery, dispatch, closing, TypeOK, Placed, PendingEvents
<1>10. ASSUME NEW e \in Events, PostFailed(e)
      PROVE Placed'
  BY <1>10, NoPending, EventsAreNumbers DEF PostFailed, Finish, queues, delivery, dispatch, closing, TypeOK, Placed, PendingEvents
<1>11. ASSUME NEW e \in Events, Retry(e)
      PROVE Placed'
  BY <1>11, NoPending, EventsAreNumbers DEF Retry, queues, delivery, dispatch, closing, TypeOK, Placed, PendingEvents
<1>12. ASSUME NEW e \in Events, Abort(e)
      PROVE Placed'
  BY <1>12, NoPending, EventsAreNumbers DEF Abort, Finish, queues, delivery, dispatch, closing, TypeOK, Placed, PendingEvents
<1>13. ASSUME NEW c \in Closers, Close(c)
      PROVE Placed'
  BY <1>13, NoPending, EventsAreNumbers DEF Close, queues, delivery, dispatch, closing, TypeOK, Placed, PendingEvents
<1>14. ASSUME NEW c \in Closers, CloseReturns(c)
      PROVE Placed'
  BY <1>14, NoPending, EventsAreNumbers DEF CloseReturns, WaitGroupEmpty, queues, delivery, dispatch, closing, TypeOK, Placed, PendingEvents
<1>15. ASSUME NEW c \in Closers, Cancel(c)
      PROVE Placed'
  BY <1>15, NoPending, EventsAreNumbers DEF Cancel, queues, delivery, dispatch, closing, TypeOK, Placed, PendingEvents
<1>16. CASE UNCHANGED vars
  BY <1>16 DEF vars, TypeOK, Placed, PendingEvents
<1> QED
  BY <1>1, <1>2, <1>3, <1>4, <1>5, <1>6, <1>7, <1>8, <1>9, <1>10, <1>11, <1>12, <1>13, <1>14, <1>15, <1>16 DEF Next, Dispatch, Deliver

LEMMA BudgetedStep == TypeOK /\ Placed /\ Budgeted /\ [Next]_vars => Budgeted'
<1> SUFFICES ASSUME TypeOK /\ Placed /\ Budgeted, [Next]_vars PROVE Budgeted'
  OBVIOUS
<1>1. CASE Enqueue
  BY <1>1, EventsAreNumbers, WebhookAssumption DEF Enqueue, queues, delivery, dispatch, closing, TypeOK, Placed, Budgeted, PendingEvents
<1>2. CASE Signal
  BY <1>2, EventsAreNumbers, WebhookAssumption DEF Signal, queues, delivery, dispatch, closing, TypeOK, Placed, Budgeted, PendingEvents
<1>3. CASE LoopWake
  BY <1>3, EventsAreNumbers, WebhookAssumption DEF LoopWake, queues, delivery, dispatch, closing, TypeOK, Placed, Budgeted, PendingEvents
<1>4. CASE LoopTimer
  BY <1>4, EventsAreNumbers, WebhookAssumption DEF LoopTimer, Drain, queues, delivery, dispatch, closing, TypeOK, Placed, Budgeted, PendingEvents
<1>5. CASE LoopClosed
  BY <1>5, EventsAreNumbers, WebhookAssumption DEF LoopClosed, Drain, queues, delivery, dispatch, closing, TypeOK, Placed, Budgeted, PendingEvents
<1>6. ASSUME NEW e \in Events, Spawn(e)
      PROVE Budgeted'
  BY <1>6, EventsAreNumbers, WebhookAssumption DEF Spawn, queues, delivery, dispatch, closing, TypeOK, Placed, Budgeted, PendingEvents
<1>7. ASSUME NEW e \in Events, Unsendable(e)
      PROVE Budgeted'
  BY <1>7, EventsAreNumbers, WebhookAssumption DEF Unsendable, Finish, queues, delivery, dispatch, closing, TypeOK, Placed, Budgeted, PendingEvents
<1>8. ASSUME NEW e \in Events, PostAnswered(e, "ok")
      PROVE Budgeted'
  BY <1>8, EventsAreNumbers, WebhookAssumption DEF PostAnswered, Finish, queues, delivery, dispatch, closing, TypeOK, Placed, Budgeted, PendingEvents
<1>9. ASSUME NEW e \in Events, PostAnswered(e, "refused")
      PROVE Budgeted'
  BY <1>9, EventsAreNumbers, WebhookAssumption DEF PostAnswered, Finish, queues, delivery, dispatch, closing, TypeOK, Placed, Budgeted, PendingEvents
<1>10. ASSUME NEW e \in Events, PostFailed(e)
      PROVE Budgeted'
  BY <1>10, EventsAreNumbers, WebhookAssumption DEF PostFailed, Finish, queues, delivery, dispatch, closing, TypeOK, Placed, Budgeted, PendingEvents
<1>11. ASSUME NEW e \in Events, Retry(e)
      PROVE Budgeted'
  BY <1>11, EventsAreNumbers, WebhookAssumption DEF Retry, queues, delivery, dispatch, closing, TypeOK, Placed, Budgeted, PendingEvents
<1>12. ASSUME NEW e \in Events, Abort(e)
      PROVE Budgeted'
  BY <1>12, EventsAreNumbers, WebhookAssumption DEF Abort, Finish, queues, delivery, dispatch, closing, TypeOK, Placed, Budgeted, PendingEvents
<1>13. ASSUME NEW c \in Closers, Close(c)
      PROVE Budgeted'
  BY <1>13, EventsAreNumbers, WebhookAssumption DEF Close, queues, delivery, dispatch, closing, TypeOK, Placed, Budgeted, PendingEvents
<1>14. ASSUME NEW c \in Closers, CloseReturns(c)
      PROVE Budgeted'
  BY <1>14, EventsAreNumbers, WebhookAssumption DEF CloseReturns, WaitGroupEmpty, queues, delivery, dispatch, closing, TypeOK, Placed, Budgeted, PendingEvents
<1>15. ASSUME NEW c \in Closers, Cancel(c)
      PROVE Budgeted'
  BY <1>15, EventsAreNumbers, WebhookAssumption DEF Cancel, queues, delivery, dispatch, closing, TypeOK, Placed, Budgeted, PendingEvents
<1>16. CASE UNCHANGED vars
  BY <1>16 DEF vars, TypeOK, Placed, Budgeted, PendingEvents
<1> QED
  BY <1>1, <1>2, <1>3, <1>4, <1>5, <1>6, <1>7, <1>8, <1>9, <1>10, <1>11, <1>12, <1>13, <1>14, <1>15, <1>16 DEF Next, Dispatch, Deliver

LEMMA CauseStep == TypeOK /\ Placed /\ Budgeted /\ GivenUpForCause /\ [Next]_vars => GivenUpForCause'
<1> SUFFICES ASSUME TypeOK /\ Placed /\ Budgeted /\ GivenUpForCause, [Next]_vars PROVE GivenUpForCause'
  OBVIOUS
<1>1. CASE Enqueue
  BY <1>1, EventsAreNumbers, WebhookAssumption DEF Enqueue, queues, delivery, dispatch, closing, TypeOK, Placed, Budgeted, GivenUpForCause, PendingEvents
<1>2. CASE Signal
  BY <1>2, EventsAreNumbers, WebhookAssumption DEF Signal, queues, delivery, dispatch, closing, TypeOK, Placed, Budgeted, GivenUpForCause, PendingEvents
<1>3. CASE LoopWake
  BY <1>3, EventsAreNumbers, WebhookAssumption DEF LoopWake, queues, delivery, dispatch, closing, TypeOK, Placed, Budgeted, GivenUpForCause, PendingEvents
<1>4. CASE LoopTimer
  BY <1>4, EventsAreNumbers, WebhookAssumption DEF LoopTimer, Drain, queues, delivery, dispatch, closing, TypeOK, Placed, Budgeted, GivenUpForCause, PendingEvents
<1>5. CASE LoopClosed
  BY <1>5, EventsAreNumbers, WebhookAssumption DEF LoopClosed, Drain, queues, delivery, dispatch, closing, TypeOK, Placed, Budgeted, GivenUpForCause, PendingEvents
<1>6. ASSUME NEW e \in Events, Spawn(e)
      PROVE GivenUpForCause'
  BY <1>6, EventsAreNumbers, WebhookAssumption DEF Spawn, queues, delivery, dispatch, closing, TypeOK, Placed, Budgeted, GivenUpForCause, PendingEvents
<1>7. ASSUME NEW e \in Events, Unsendable(e)
      PROVE GivenUpForCause'
  BY <1>7, EventsAreNumbers, WebhookAssumption DEF Unsendable, Finish, queues, delivery, dispatch, closing, TypeOK, Placed, Budgeted, GivenUpForCause, PendingEvents
<1>8. ASSUME NEW e \in Events, PostAnswered(e, "ok")
      PROVE GivenUpForCause'
  BY <1>8, EventsAreNumbers, WebhookAssumption DEF PostAnswered, Finish, queues, delivery, dispatch, closing, TypeOK, Placed, Budgeted, GivenUpForCause, PendingEvents
<1>9. ASSUME NEW e \in Events, PostAnswered(e, "refused")
      PROVE GivenUpForCause'
  BY <1>9, EventsAreNumbers, WebhookAssumption DEF PostAnswered, Finish, queues, delivery, dispatch, closing, TypeOK, Placed, Budgeted, GivenUpForCause, PendingEvents
<1>10. ASSUME NEW e \in Events, PostFailed(e)
      PROVE GivenUpForCause'
  BY <1>10, EventsAreNumbers, WebhookAssumption DEF PostFailed, Finish, queues, delivery, dispatch, closing, TypeOK, Placed, Budgeted, GivenUpForCause, PendingEvents
<1>11. ASSUME NEW e \in Events, Retry(e)
      PROVE GivenUpForCause'
  BY <1>11, EventsAreNumbers, WebhookAssumption DEF Retry, queues, delivery, dispatch, closing, TypeOK, Placed, Budgeted, GivenUpForCause, PendingEvents
<1>12. ASSUME NEW e \in Events, Abort(e)
      PROVE GivenUpForCause'
  BY <1>12, EventsAreNumbers, WebhookAssumption DEF Abort, Finish, queues, delivery, dispatch, closing, TypeOK, Placed, Budgeted, GivenUpForCause, PendingEvents
<1>13. ASSUME NEW c \in Closers, Close(c)
      PROVE GivenUpForCause'
  BY <1>13, EventsAreNumbers, WebhookAssumption DEF Close, queues, delivery, dispatch, closing, TypeOK, Placed, Budgeted, GivenUpForCause, PendingEvents
<1>14. ASSUME NEW c \in Closers, CloseReturns(c)
      PROVE GivenUpForCause'
  BY <1>14, EventsAreNumbers, WebhookAssumption DEF CloseReturns, WaitGroupEmpty, queues, delivery, dispatch, closing, TypeOK, Placed, Budgeted, GivenUpForCause, PendingEvents
<1>15. ASSUME NEW c \in Closers, Cancel(c)
      PROVE GivenUpForCause'
  BY <1>15, EventsAreNumbers, WebhookAssumption DEF Cancel, queues, delivery, dispatch, closing, TypeOK, Placed, Budgeted, GivenUpForCause, PendingEvents
<1>16. CASE UNCHANGED vars
  BY <1>16 DEF vars, TypeOK, Placed, Budgeted, GivenUpForCause, PendingEvents
<1> QED
  BY <1>1, <1>2, <1>3, <1>4, <1>5, <1>6, <1>7, <1>8, <1>9, <1>10, <1>11, <1>12, <1>13, <1>14, <1>15, <1>16 DEF Next, Dispatch, Deliver

LEMMA InitWInv == Init => WInv
<1> SUFFICES ASSUME Init PROVE WInv
  OBVIOUS
<1>1. TypeOK
  <2>1. accepted \in 0 .. MaxEvents /\ wakers \in Nat /\ tries \in [Events -> 0 .. MaxRetries]
    BY WebhookAssumption DEF Init
  <2>2. /\ pending \in [Keys -> {None} \cup Events]
        /\ \A k \in Keys : pending[k] # None => pending[k] <= accepted /\ key[pending[k]] = k
    BY DEF Init
  <2>3. wake \in BOOLEAN /\ timer \in BOOLEAN /\ closed \in BOOLEAN
    BY Zenon DEF Init
  <2>4. loop \in [at : {"select", "spawn", "done"}, final : BOOLEAN]
    BY DEF Init
  <2>5. batch \subseteq Events /\ (loop.at = "spawn" <=> batch # {})
    BY DEF Init
  <2> QED
    BY <2>1, <2>2, <2>3, <2>4, <2>5 DEF Init, TypeOK, Fates
<1>2. PendingEvents = {}
  BY EventsAreNumbers DEF Init, PendingEvents
<1>3. Awaited /\ Final /\ GivenUpForCause
  BY <1>2 DEF Init, Awaited, Final, GivenUpForCause
<1>4. Placed /\ Budgeted
  BY <1>2, WebhookAssumption, EventsAreNumbers DEF Init, Placed, Budgeted, Events
<1> QED
  BY <1>1, <1>3, <1>4 DEF WInv

LEMMA StepWInv == WInv /\ [Next]_vars => WInv'
  BY TypeStep, AwaitedStep, FinalStep, PlacedStep, BudgetedStep, CauseStep DEF WInv

LEMMA AlwaysWInv == Spec => []WInv
  BY InitWInv, StepWInv, PTL DEF Spec

\* The state of the webhook is well formed: buckets hold events of theirs, the
\* dispatcher spawns exactly while it has a batch, and no event is posted more
\* than MaxRetries times.
THEOREM WebhookTypeCorrect == Spec => []TypeOK
<1>1. WInv => TypeOK
  BY DEF WInv
<1> QED
  BY AlwaysWInv, <1>1, PTL

\* An event that Enqueue stored is never left behind by the dispatcher.
THEOREM WebhookWakes == Spec => []NoMissedWakeup
<1>1. WInv => NoMissedWakeup
  BY DEF WInv, Awaited, NoMissedWakeup
<1> QED
  BY AlwaysWInv, <1>1, PTL

\* drainAndDeliver neither loses nor duplicates an event, and only a newer
\* event of the same room and type replaces one.
THEOREM WebhookConserves == Spec => []Conserved
<1>1. WInv => Conserved
  <2> SUFFICES ASSUME WInv, NEW e \in Events
               PROVE /\ e <= accepted <=> Places(e) # {}
                     /\ \A p, q \in Places(e) : p = q
                     /\ fate[e] = "replaced" => \E f \in e + 1 .. accepted : key[f] = key[e]
    BY DEF Conserved
  <2> QED
    BY DEF WInv, Placed, Places
<1> QED
  BY AlwaysWInv, <1>1, PTL

\* deliver gives an event up only after MaxRetries attempts or, after at least
\* one, because of Close.
THEOREM WebhookGivesUpForCause == Spec => []GivenUpForCause
<1>1. WInv => GivenUpForCause
  BY DEF WInv
<1> QED
  BY AlwaysWInv, <1>1, PTL

\* When the first Close returns nil every event is over and nothing is left
\* running that could post.
THEOREM WebhookCloseFlushes == Spec => []CloseFlushes
<1>1. WInv => CloseFlushes
  <2> SUFFICES ASSUME WInv, NEW c \in Closers, closers[c] = "done"
               PROVE WaitGroupEmpty /\ \A e \in 1 .. accepted : fate[e] # "none"
    BY DEF CloseFlushes
  <2>1. WaitGroupEmpty /\ PendingEvents = {}
    BY DEF WInv, Final, WaitGroupEmpty
  <2>2. \A e \in 1 .. accepted : e \in Events /\ e <= accepted
    BY WebhookAssumption DEF WInv, TypeOK, Events
  <2> QED
    BY <2>1, <2>2 DEF WInv, Placed, WaitGroupEmpty, Running
<1> QED
  BY AlwaysWInv, <1>1, PTL

LEMMA RunningFinite == IsFiniteSet(Running)
<1>1. IsFiniteSet(Events)
  BY FS_Interval, WebhookAssumption DEF Events
<1> QED
  BY <1>1, FS_Subset DEF Running

LEMMA BoundedStep == TypeOK /\ Bounded /\ [Next]_vars => Bounded'
<1> SUFFICES ASSUME TypeOK, Bounded, [Next]_vars PROVE Bounded'
  OBVIOUS
<1>1. IsFiniteSet(Running) /\ Cardinality(Running) \in Nat
  BY RunningFinite, FS_CardinalityType
<1>2. ASSUME NEW e \in Events, Spawn(e)
      PROVE Bounded'
  <2>1. Running' \subseteq Running \cup {e}
    BY <1>2 DEF Spawn, Running, TypeOK
  <2>2. /\ IsFiniteSet(Running \cup {e})
        /\ Cardinality(Running \cup {e}) = Cardinality(Running) \/ Cardinality(Running \cup {e}) = Cardinality(Running) + 1
    BY <1>1, FS_AddElement
  <2>3. Cardinality(Running') <= Cardinality(Running \cup {e}) /\ Cardinality(Running') \in Nat
    BY <2>1, <2>2, FS_Subset, FS_CardinalityType
  <2>4. Cardinality(Running \cup {e}) <= MaxDeliveries
    BY <1>1, <1>2, <2>2, WebhookAssumption DEF Spawn
  <2> QED
    BY <1>1, <2>2, <2>3, <2>4, WebhookAssumption DEF Bounded
<1>3. ASSUME Running' \subseteq Running
      PROVE Bounded'
  <2>1. Cardinality(Running') <= Cardinality(Running) /\ Cardinality(Running') \in Nat
    BY <1>1, <1>3, FS_Subset, FS_CardinalityType
  <2> QED
    BY <1>1, <2>1, WebhookAssumption DEF Bounded
<1>4. CASE \E e \in Events : Deliver(e)
  <2>1. Running' \subseteq Running
    BY <1>4 DEF Deliver, Unsendable, PostAnswered, PostFailed, Retry, Abort, Finish, Running, TypeOK
  <2> QED
    BY <1>3, <2>1
<1>5. CASE Enqueue \/ Signal \/ LoopWake \/ LoopTimer \/ LoopClosed \/ (\E c \in Closers : Close(c) \/ CloseReturns(c) \/ Cancel(c)) \/ UNCHANGED vars
  <2>1. run' = run
    BY <1>5 DEF Enqueue, Signal, LoopWake, LoopTimer, LoopClosed, Close, CloseReturns, Cancel, vars, delivery
  <2> QED
    BY <1>3, <2>1 DEF Running
<1> QED
  BY <1>2, <1>4, <1>5 DEF Next, Dispatch

\* The semaphore keeps the posts in flight within MaxConcurrentDeliveries.
THEOREM WebhookBounded == Spec => []Bounded
<1>1. Init => Bounded
  <2> SUFFICES ASSUME Init PROVE Bounded
    OBVIOUS
  <2>1. Running = {}
    BY DEF Init, Running
  <2> QED
    BY <2>1, FS_EmptySet, WebhookAssumption DEF Bounded
<1> QED
  BY <1>1, WebhookTypeCorrect, BoundedStep, PTL DEF Spec

\* Everything the dispatcher promises, for any number of keys, events, attempts,
\* slots and Closes.
THEOREM WebhookSound == Spec => []Sound
<1>1. TypeOK /\ Bounded /\ NoMissedWakeup /\ Conserved /\ GivenUpForCause /\ CloseFlushes => Sound
  BY DEF Sound
<1> QED
  BY <1>1, WebhookTypeCorrect, WebhookBounded, WebhookWakes, WebhookConserves,
     WebhookGivesUpForCause, WebhookCloseFlushes, PTL
=============================================================================
