--------------------------- MODULE PersistWorker ---------------------------
(***************************************************************************)
(* One room's way to durability in the websocket server.  A commit runs the *)
(* doc.OnUpdate observer on its own goroutine, which hands the update to    *)
(* the persistence worker or, once the worker is leaving, writes it itself. *)
(* A teardown asks the worker to flush, takes the room off the map and      *)
(* stops it; Shutdown stops every worker and joins the late writers.  A     *)
(* step is one channel operation, one locked section or one adapter call.   *)
(***************************************************************************)
EXTENDS Integers, Sequences, Functions

CONSTANTS
  Proc,     \* committing goroutines
  Update,   \* what they commit
  ChCap,    \* cap(persistCh)
  None,
  Setups    \* the servers considered, records of
            \*   coalesce  PersistCoalesceWindow >= 0
            \*   compact   Server.CompactEvery; 0 is never
            \*   fails     bound: adapter calls that fail
            \*   procs     the goroutines that commit

ASSUME PersistAssumption ==
  /\ ChCap \in Nat \ {0} /\ None \notin Update \cup Proc
  /\ Setups \subseteq [coalesce : BOOLEAN, compact : Nat, fails : Nat, procs : SUBSET Proc]

VARIABLES
  setup,     \* the one of Setups this behaviour is about
  buf,       \* persistCh
  batch,     \* the worker's batch, or pending when strict
  timer,     \* windowT and maxT are armed
  worker,    \* the worker: pc, the adapter call's updates, what it is for
  flushes,   \* flushCount
  retire,    \* persistRetire is closed
  stop,      \* persistStop is closed
  inMap,     \* the room is in s.rooms
  proc,      \* each committing goroutine: pc, its update, extra, update in a call
  fallback,  \* holder of persistFallbackMu
  inflight,  \* strandedInFlight
  zero,      \* how often strandedZero was closed and replaced
  evict,     \* a teardown: pc, and whether the flush was acknowledged
  shut,      \* Shutdown: pc, the strandedZero it latched, whether it found the
             \* room when it began and whether it joins the room's worker
  fails,     \* adapter calls failed so far
  returned,  \* history: updates whose Transact returned
  attempted, \* history: updates whose write attempt completed, not retained
  stored,    \* history: updates the adapter took
  asked      \* history: updates whose Transact returned before the flush request

work == <<setup, buf, batch, timer, worker, flushes, retire>>
hist == <<fails, returned, attempted, stored, asked>>
vars == <<work, stop, inMap, proc, fallback, inflight, zero, evict, shut, hist>>

Elems(s) == {s[i] : i \in 1 .. Len(s)}
Shutting == shut.pc # "idle"
Done == worker.pc = "done"
Leaving == stop \/ Shutting

At(pc, job, for) == [pc |-> pc, job |-> job, for |-> for]

Init ==
  /\ setup \in Setups
  /\ buf = <<>> /\ batch = <<>> /\ timer = FALSE
  /\ worker = At("loop", <<>>, "none") /\ flushes = 0
  /\ retire = FALSE /\ stop = FALSE /\ inMap = TRUE
  /\ proc = [p \in Proc |-> [pc |-> "idle", update |-> None, extra |-> FALSE, call |-> None]]
  /\ fallback = None /\ inflight = 0 /\ zero = 0
  /\ evict = [pc |-> "idle", ok |-> FALSE]
  /\ shut = [pc |-> "idle", latch |-> 0, found |-> FALSE, joins |-> FALSE]
  /\ fails = 0 /\ returned = {} /\ attempted = {} /\ stored = {} /\ asked = {}

----------------------------------------------------------------------------
(* The observer, on the goroutine that commits.                              *)

Committed == returned \cup {proc[p].update : p \in Proc}

(* The commit is done; strandedEnter. *)
Commit(p, u) ==
  /\ proc[p].pc = "idle" /\ u \notin Committed
  /\ proc' = [proc EXCEPT ![p] = [proc[p] EXCEPT !.pc = "select", !.update = u]]
  /\ inflight' = inflight + 1
  /\ UNCHANGED <<work, stop, inMap, fallback, zero, evict, shut, hist>>

(* case r.persistCh <- update *)
Send(p) ==
  /\ proc[p].pc = "select" /\ Len(buf) < ChCap
  /\ buf' = Append(buf, proc[p].update)
  /\ proc' = [proc EXCEPT ![p].pc = "check"]
  /\ UNCHANGED <<setup, batch, timer, worker, flushes, retire, stop, inMap, fallback,
                 inflight, zero, evict, shut, hist>>

(* case <-r.persistRetire: the update is the call's extra. *)
Retired(p) ==
  /\ proc[p].pc = "select" /\ retire
  /\ proc' = [proc EXCEPT ![p].pc = "strand", ![p].extra = TRUE]
  /\ UNCHANGED <<work, stop, inMap, fallback, inflight, zero, evict, shut, hist>>

RecheckDropped(p) ==
  /\ proc[p].pc = "check"
  /\ proc' = [proc EXCEPT ![p].pc = "leave"]
  /\ UNCHANGED <<work, stop, inMap, fallback, inflight, zero, evict, shut, hist>>

(* The send was taken, but perhaps with persistRetire already closed. *)
Recheck(p) ==
  /\ proc[p].pc = "check"
  /\ proc' = [proc EXCEPT ![p].pc = IF retire THEN "strand" ELSE "leave"]
  /\ UNCHANGED <<work, stop, inMap, fallback, inflight, zero, evict, shut, hist>>

(* persistStranded: <-r.persistDone, then persistFallbackMu. *)
Strand(p) ==
  /\ proc[p].pc = "strand" /\ Done /\ fallback = None
  /\ fallback' = p
  /\ proc' = [proc EXCEPT ![p].pc = "fallback"]
  /\ UNCHANGED <<work, stop, inMap, inflight, zero, evict, shut, hist>>

Attempt(us, ok) ==
  /\ attempted' = attempted \cup us
  /\ stored' = IF ok THEN stored \cup us ELSE stored
  /\ fails' = IF ok THEN fails ELSE fails + 1
  /\ ok \/ fails < setup.fails
  /\ UNCHANGED <<returned, asked>>

(* Store what is left in persistCh, then extra; errors are only logged. *)
TakeStranded(p) ==
  /\ proc[p].pc = "fallback" /\ buf # <<>>
  /\ buf' = Tail(buf)
  /\ proc' = [proc EXCEPT ![p].pc = "put", ![p].call = Head(buf)]
  /\ UNCHANGED <<setup, batch, timer, worker, flushes, retire, stop, inMap, fallback,
                 inflight, zero, evict, shut, hist>>

PutStranded(p, ok) ==
  /\ proc[p].pc = "put" /\ Attempt({proc[p].call}, ok)
  /\ proc' = [proc EXCEPT ![p].pc = "fallback", ![p].call = None]
  /\ UNCHANGED <<work, stop, inMap, fallback, inflight, zero, evict, shut>>

TakeExtra(p) ==
  /\ proc[p].pc = "fallback" /\ buf = <<>> /\ proc[p].extra
  /\ proc' = [proc EXCEPT ![p].pc = "extra", ![p].call = proc[p].update]
  /\ UNCHANGED <<work, stop, inMap, fallback, inflight, zero, evict, shut, hist>>

PutExtra(p, ok) ==
  /\ proc[p].pc = "extra" /\ Attempt({proc[p].call}, ok)
  /\ proc' = [proc EXCEPT ![p].pc = "leave", ![p].call = None] /\ fallback' = None
  /\ UNCHANGED <<work, stop, inMap, inflight, zero, evict, shut>>

Unlock(p) ==
  /\ proc[p].pc = "fallback" /\ buf = <<>> /\ ~proc[p].extra
  /\ proc' = [proc EXCEPT ![p].pc = "leave"] /\ fallback' = None
  /\ UNCHANGED <<work, stop, inMap, inflight, zero, evict, shut, hist>>

(* Transact returns to its caller. *)
Return(p) ==
  /\ returned' = returned \cup {proc[p].update}
  /\ proc' = [proc EXCEPT ![p] = [pc |-> "idle", update |-> None, extra |-> FALSE, call |-> None]]
  /\ UNCHANGED <<work, stop, inMap, fallback, evict, shut, fails, attempted, stored, asked>>

(* strandedLeave: count down, and at zero wake the waiters ... *)
Leave(p) ==
  /\ proc[p].pc = "leave"
  /\ inflight' = inflight - 1 /\ UNCHANGED zero
  /\ IF inflight = 1
       THEN /\ proc' = [proc EXCEPT ![p].pc = "wake"]
            /\ UNCHANGED <<work, stop, inMap, fallback, evict, shut, hist>>
       ELSE Return(p)

WakeNobody(p) == proc[p].pc = "wake" /\ Return(p) /\ UNCHANGED <<inflight, zero>>

(* ... strandedBroadcast. *)
Wake(p) == proc[p].pc = "wake" /\ zero' = zero + 1 /\ Return(p) /\ UNCHANGED inflight

----------------------------------------------------------------------------
(* The worker.                                                               *)

(* case update := <-r.persistCh *)
Receive ==
  /\ worker.pc = "loop" /\ buf # <<>>
  /\ buf' = Tail(buf)
  /\ IF setup.coalesce
       THEN batch' = Append(batch, Head(buf)) /\ timer' = TRUE /\ UNCHANGED worker
       ELSE worker' = At("store", <<Head(buf)>>, "update") /\ UNCHANGED <<batch, timer>>
  /\ UNCHANGED <<setup, flushes, retire, stop, inMap, proc, fallback, inflight, zero, evict, shut, hist>>

(* case <-windowC, case <-maxC *)
TimerFires ==
  /\ worker.pc = "loop" /\ timer
  /\ timer' = FALSE
  /\ worker' = At("store", batch, "timer")
  /\ UNCHANGED <<setup, buf, batch, flushes, retire, stop, inMap, proc, fallback, inflight, zero,
                 evict, shut, hist>>

FlushRequestUndrained ==
  /\ worker.pc = "loop" /\ evict.pc = "ask"
  /\ IF batch = <<>>
       THEN evict' = [pc |-> "acked", ok |-> TRUE] /\ UNCHANGED worker
       ELSE evict' = [pc |-> "wait", ok |-> TRUE] /\ worker' = At("store", batch, "flush")
  /\ timer' = FALSE /\ asked' = returned
  /\ UNCHANGED <<setup, buf, batch, flushes, retire, stop, inMap, proc, fallback, inflight,
                 zero, shut, fails, returned, attempted, stored>>

(* case ack := <-r.flushReq *)
FlushRequest ==
  /\ worker.pc = "loop" /\ evict.pc = "ask"
  /\ worker' = At("drain", <<>>, "flush")
  /\ evict' = [pc |-> "wait", ok |-> TRUE]
  /\ asked' = returned
  /\ UNCHANGED <<setup, buf, batch, timer, flushes, retire, stop, inMap, proc, fallback, inflight,
                 zero, shut, fails, returned, attempted, stored>>

(* case <-r.persistStop, case <-s.shutdownCh: exit begins with retire(). *)
Exit ==
  /\ worker.pc = "loop" /\ Leaving
  /\ retire' = TRUE
  /\ worker' = At("drain", <<>>, "exit")
  /\ UNCHANGED <<setup, buf, batch, timer, flushes, stop, inMap, proc, fallback, inflight, zero,
                 evict, shut, hist>>

(* Strict, on exit: first what a cancelled context made it retain. *)
StoreRetained ==
  /\ worker.pc = "drain" /\ worker.for = "exit" /\ ~setup.coalesce /\ batch # <<>>
  /\ batch' = Tail(batch) /\ worker' = At("store", <<Head(batch)>>, "exit")
  /\ UNCHANGED <<setup, buf, timer, flushes, retire, stop, inMap, proc, fallback, inflight, zero,
                 evict, shut, hist>>

(* drainBuffered takes the buffer into the batch; drain stores each update. *)
Drain ==
  /\ worker.pc = "drain" /\ buf # <<>>
  /\ setup.coalesce \/ worker.for = "flush" \/ batch = <<>>
  /\ buf' = Tail(buf)
  /\ IF setup.coalesce
       THEN batch' = Append(batch, Head(buf)) /\ UNCHANGED worker
       ELSE worker' = At("store", <<Head(buf)>>, worker.for) /\ UNCHANGED batch
  /\ UNCHANGED <<setup, timer, flushes, retire, stop, inMap, proc, fallback, inflight, zero, evict,
                 shut, hist>>

(* The last thing a flush or the exit does before the loop, or the end.  An  *)
(* exit compacts before it closes persistDone.                               *)
Finish(for) ==
  /\ worker' = IF for = "exit" THEN At("tidy", <<>>, for) ELSE At("loop", <<>>, "none")
  /\ evict' = IF for = "flush" THEN [evict EXCEPT !.pc = "acked"] ELSE evict

(* Nothing left to drain. *)
Drained ==
  /\ worker.pc = "drain" /\ buf = <<>>
  /\ setup.coalesce \/ worker.for = "flush" \/ batch = <<>>
  /\ timer' = FALSE
  /\ IF setup.coalesce /\ batch # <<>>
       THEN worker' = At("store", batch, worker.for) /\ UNCHANGED evict
       ELSE Finish(worker.for)
  /\ UNCHANGED <<setup, buf, batch, flushes, retire, stop, inMap, proc, fallback, inflight, zero, shut, hist>>

(* A call made under the worker's context is aborted once that is cancelled. *)
Aborted == /\ Leaving
           /\ worker.for \in {"update", "timer"} \/ (worker.for = "flush" /\ ~setup.coalesce)

(* Coalescing: flush stores the merged batch or, when merging fails, each    *)
(* update of it, and reports whether all of it was taken.  onFlushed compacts *)
(* before the flush is acknowledged.                                          *)
Flush(us, retained) ==
  /\ worker.pc = "store" /\ setup.coalesce /\ us \subseteq Elems(worker.job)
  /\ LET for == worker.for
         ok == us = Elems(worker.job)
         counts == ok /\ setup.compact > 0 /\ for # "exit"
         due == counts /\ flushes + 1 >= setup.compact
     IN /\ ok \/ Aborted \/ fails < setup.fails
        /\ fails' = IF ok \/ Aborted THEN fails ELSE fails + 1
        /\ stored' = stored \cup us
        /\ attempted' = attempted \cup IF ok \/ for = "exit" THEN Elems(worker.job) ELSE {}
        /\ batch' = IF ok THEN <<>> ELSE retained
        /\ flushes' = IF due THEN 0 ELSE IF counts THEN flushes + 1 ELSE flushes
        /\ worker' = IF due \/ for = "exit" THEN At("tidy", <<>>, for) ELSE At("loop", <<>>, "none")
        /\ evict' = IF for # "flush" THEN evict
                    ELSE [pc |-> IF due THEN "wait" ELSE "acked", ok |-> ok]
  /\ UNCHANGED <<setup, buf, timer, retire, stop, inMap, proc, fallback, inflight, zero, shut, returned, asked>>

(* A batch that was not fully taken is retained. *)
Flushed(us) == Flush(us, batch)

(* Strict: a store aborted by the cancelled context is retained, one the     *)
(* adapter refused is dropped.                                               *)
Stored(ok, aborted) ==
  /\ worker.pc = "store" /\ ~setup.coalesce
  /\ aborted => ~ok /\ Aborted
  /\ ok \/ aborted \/ fails < setup.fails
  /\ fails' = IF ok \/ aborted THEN fails ELSE fails + 1
  /\ stored' = IF ok THEN stored \cup Elems(worker.job) ELSE stored
  /\ attempted' = IF aborted THEN attempted ELSE attempted \cup Elems(worker.job)
  /\ batch' = IF aborted THEN batch \o worker.job ELSE batch
  /\ evict' = IF worker.for = "flush" THEN [evict EXCEPT !.ok = evict.ok /\ ok] ELSE evict
  /\ worker' = IF worker.for = "update" THEN At("loop", <<>>, "none") ELSE At("drain", <<>>, worker.for)
  /\ UNCHANGED <<setup, buf, timer, flushes, retire, stop, inMap, proc, fallback, inflight, zero, shut,
                 returned, asked>>

(* maybeCompact returned; after the last one, close(persistDone). *)
Compacted ==
  /\ worker.pc = "tidy"
  /\ worker' = At(IF worker.for = "exit" THEN "done" ELSE "loop", <<>>, "none")
  /\ evict' = IF worker.for = "flush" THEN [evict EXCEPT !.pc = "acked"] ELSE evict
  /\ UNCHANGED <<setup, buf, batch, timer, flushes, retire, stop, inMap, proc, fallback, inflight,
                 zero, shut, hist>>

----------------------------------------------------------------------------
(* Teardown of the room by its last peer, CloseRoom or the sweeper.          *)

Teardown ==
  /\ evict.pc = "idle" /\ inMap
  /\ evict' = [pc |-> "ask", ok |-> FALSE]
  /\ UNCHANGED <<work, stop, inMap, proc, fallback, inflight, zero, shut, hist>>

(* case <-rm.persistDone *)
WorkerGone ==
  /\ evict.pc = "ask" /\ Done
  /\ evict' = [pc |-> "acked", ok |-> TRUE]
  /\ UNCHANGED <<work, stop, inMap, proc, fallback, inflight, zero, shut, hist>>

(* delete(s.rooms, name) and close(persistStop) under both locks. *)
Evict ==
  /\ evict.pc = "acked" /\ evict.ok
  /\ inMap' = FALSE /\ stop' = TRUE
  /\ evict' = [pc |-> "gone", ok |-> FALSE] /\ asked' = {}
  /\ UNCHANGED <<work, proc, fallback, inflight, zero, shut, fails, returned, attempted, stored>>

(* The flush failed, or a peer came back while it ran. *)
KeepRoom ==
  /\ evict.pc = "acked"
  /\ evict' = [pc |-> "idle", ok |-> FALSE] /\ asked' = {}
  /\ UNCHANGED <<work, stop, inMap, proc, fallback, inflight, zero, shut, fails, returned, attempted, stored>>

(* CloseRoom evicts whatever the flush said. *)
CloseRoom ==
  /\ evict.pc = "acked" /\ ~evict.ok
  /\ inMap' = FALSE /\ stop' = TRUE
  /\ evict' = [pc |-> "gone", ok |-> FALSE] /\ asked' = {}
  /\ UNCHANGED <<work, proc, fallback, inflight, zero, shut, fails, returned, attempted, stored>>

----------------------------------------------------------------------------
(* Shutdown.                                                                 *)

CloseShutdownCh ==
  /\ shut.pc = "idle"
  /\ shut' = [shut EXCEPT !.pc = "closed", !.found = inMap]
  /\ UNCHANGED <<work, stop, inMap, proc, fallback, inflight, zero, evict, hist>>

(* The rooms in the map, once. *)
Snapshot ==
  /\ shut.pc = "closed"
  /\ shut' = [shut EXCEPT !.pc = "join", !.joins = inMap]
  /\ UNCHANGED <<work, stop, inMap, proc, fallback, inflight, zero, evict, hist>>

(* Wait for the persistDones, then waitStranded: latch the channel first ... *)
Latch ==
  /\ \/ shut.pc = "join" /\ (shut.joins => Done)
     \/ shut.pc = "sleep" /\ zero > shut.latch
  /\ shut' = [shut EXCEPT !.pc = "latched", !.latch = zero]
  /\ UNCHANGED <<work, stop, inMap, proc, fallback, inflight, zero, evict, hist>>

SkipStranded ==
  /\ shut.pc = "latched"
  /\ shut' = [shut EXCEPT !.pc = "returned"]
  /\ UNCHANGED <<work, stop, inMap, proc, fallback, inflight, zero, evict, hist>>

(* ... then look at the count. *)
CheckStranded ==
  /\ shut.pc = "latched"
  /\ shut' = [shut EXCEPT !.pc = IF inflight = 0 THEN "returned" ELSE "sleep"]
  /\ UNCHANGED <<work, stop, inMap, proc, fallback, inflight, zero, evict, hist>>

(* The caller's context expires in one of the waits: Shutdown returns it. *)
Expire ==
  /\ shut.pc \in {"join", "sleep"}
  /\ shut' = [shut EXCEPT !.pc = "expired"]
  /\ UNCHANGED <<work, stop, inMap, proc, fallback, inflight, zero, evict, hist>>

----------------------------------------------------------------------------

Observe(p) ==
  \/ Send(p) \/ Retired(p) \/ Recheck(p) \/ Strand(p)
  \/ TakeStranded(p) \/ TakeExtra(p) \/ Unlock(p)
  \/ \E ok \in BOOLEAN : PutStranded(p, ok) \/ PutExtra(p, ok)
  \/ Leave(p) \/ Wake(p)

Work ==
  \/ Receive \/ TimerFires \/ FlushRequest \/ Exit
  \/ StoreRetained \/ Drain \/ Drained \/ Compacted
  \/ \E us \in SUBSET Elems(worker.job) : Flushed(us)
  \/ \E ok, aborted \in BOOLEAN : Stored(ok, aborted)

Shutdown == Snapshot \/ Latch \/ CheckStranded

Next ==
  \/ \E p \in setup.procs : Observe(p) \/ \E u \in Update : Commit(p, u)
  \/ Work
  \/ Teardown \/ WorkerGone \/ Evict \/ KeepRoom \/ CloseRoom
  \/ CloseShutdownCh \/ Shutdown \/ Expire

Spec == Init /\ [][Next]_vars

(* Goroutines are scheduled, adapter calls return, and the worker's select    *)
(* picks at random among its ready cases, so it passes over none for ever:    *)
(* weak fairness of Observe, Work and Shutdown, strong fairness of the cases. *)
(* What enables each action is written out, and a step of an actor is one     *)
(* that changes its state (nothing else moves it while it is enabled).        *)
Runnable(p) ==
  \/ proc[p].pc \notin {"idle", "select", "strand"}
  \/ proc[p].pc = "select" /\ (Len(buf) < ChCap \/ retire)
  \/ proc[p].pc = "strand" /\ Done /\ fallback = None
Ready(case) == worker.pc = "loop" /\ case

Works == worker' # worker \/ batch' # batch

Proceeds ==
  \/ shut.pc \in {"closed", "latched"}
  \/ shut.pc = "join" /\ (shut.joins => Done)
  \/ shut.pc = "sleep" /\ zero > shut.latch

FairSpec ==
  /\ Spec
  /\ \A p \in Proc : []<>~Runnable(p) \/ []<><<proc'[p] # proc[p]>>_proc
  /\ []<>(worker.pc \notin {"drain", "store", "tidy"}) \/ []<><<Works>>_work
  /\ <>[]~Ready(buf # <<>>) \/ []<><<Receive>>_vars
  /\ <>[]~Ready(timer) \/ []<><<TimerFires>>_vars
  /\ <>[]~Ready(Leaving) \/ []<><<Exit>>_vars
  /\ []<>~Proceeds \/ []<><<shut' # shut>>_shut

----------------------------------------------------------------------------

(* The worker, its queue and its callers have the shape the code gives them.  *)
TypeOK ==
  /\ buf \in Seq(Update) /\ Len(buf) <= ChCap
  /\ batch \in Seq(Update) /\ timer \in BOOLEAN
  /\ worker.pc \in {"loop", "drain", "store", "tidy", "done"} /\ worker.job \in Seq(Update)
  /\ flushes \in 0 .. setup.compact
  /\ retire \in BOOLEAN /\ stop \in BOOLEAN /\ inMap \in BOOLEAN
  /\ \A p \in Proc : proc[p].update \in Update \cup {None} /\ proc[p].call \in Update \cup {None}
  /\ fallback \in Proc \cup {None}
  /\ inflight \in Nat
  /\ ExistsBijection(1 .. inflight, {p \in Proc : proc[p].pc \notin {"idle", "wake"}})
  /\ zero \in Nat /\ fails \in 0 .. setup.fails
  /\ returned \subseteq Update /\ stored \subseteq attempted \cup Elems(batch)

(* Once the worker is gone, every commit whose Transact has returned was      *)
(* handed to the adapter: by the worker's last drain, or by a committing      *)
(* goroutine (the #229 hand-over).                                           *)
NothingStranded == Done => returned \subseteq attempted

(* And until then a returned commit is on its way: buffered, batched, or in a *)
(* call.                                                                      *)
Carried == \A u \in returned \ attempted : u \in Elems(buf) \cup Elems(batch) \cup Elems(worker.job)

(* The adapter is never called twice at once for a room instance: the worker, *)
(* its compactions and the committing goroutines take turns.                  *)
InCall(p) == proc[p].pc \in {"put", "extra"}
SerialCalls ==
  /\ \A p, q \in Proc : InCall(p) /\ InCall(q) => p = q
  /\ worker.pc \in {"store", "tidy"} => \A p \in Proc : ~InCall(p)

(* A flush acknowledged with true covers every commit whose Transact had      *)
(* returned when it was asked for: "The ack is a real durability barrier".    *)
(* On the strict path an update the adapter refused is gone before the flush. *)
FlushBarrier ==
  [][setup.coalesce /\ evict.pc = "wait" /\ evict'.pc = "acked" /\ evict'.ok => asked \subseteq stored']_vars

(* When Shutdown returns nil, every commit whose Transact has returned was    *)
(* handed to the adapter and no late writer is still in a call, for a room    *)
(* that Shutdown found in the map.                                            *)
ShutdownCovers ==
  [][shut.pc # "returned" /\ shut'.pc = "returned" /\ shut.joins
     => returned \subseteq attempted /\ \A p \in Proc : ~InCall(p)]_vars

(* A commit never blocks for good: not on a full buffer, not on a worker that *)
(* left, not on another late writer.                                         *)
CommitReturns == \A p \in Proc : proc[p].pc = "select" ~> proc[p].pc = "idle"

(* Shutdown returns once writers stop: no wake-up is missed.                  *)
ShutdownReturns == shut.pc = "closed" ~> shut.pc \in {"returned", "expired"}

(* While the adapter takes what it is given, a returned commit is stored in   *)
(* the end, whether or not anything else ever happens in the room.            *)
EventuallyStored == \A u \in Update : setup.fails = 0 /\ u \in returned ~> u \in stored

(* From commit to adapter an update is always in somebody's hands, also while *)
(* the worker retires, and one caller at a time is in the adapter.            *)
HandOver == TypeOK /\ NothingStranded /\ Carried /\ SerialCalls

(* Nobody waits for ever: commits and Shutdown return, and what was committed *)
(* is stored.                                                                 *)
Progress == CommitReturns /\ ShutdownReturns /\ EventuallyStored
============================================================================
