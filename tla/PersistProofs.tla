--------------------------- MODULE PersistProofs ---------------------------
(***************************************************************************)
(* The hand-over between the observers, the persistence worker and the     *)
(* late writers, for every number of goroutines, updates, buffer sizes and *)
(* failing adapter calls.  Carried and NothingStranded are not inductive:  *)
(* what a goroutine may rely on depends on how far the worker's exit has   *)
(* come, which Hands states place by place.                                *)
(***************************************************************************)
EXTENDS PersistWorker, TLAPS

USE SMTT(30), ZenonT(30)

ProcPc == {"idle", "select", "check", "strand", "fallback", "put", "extra", "leave", "wake"}
ProcRec == [pc : ProcPc, update : Update \cup {None}, extra : BOOLEAN, call : Update \cup {None}]
WorkerRec == [pc : {"loop", "drain", "store", "tidy", "done"}, job : Seq(Update),
              for : {"none", "update", "timer", "flush", "exit"}]

\* The variables have their types, as far as each step needs them.
QueueShape ==
  /\ setup \in Setups
  /\ buf \in Seq(Update) /\ Len(buf) <= ChCap
  /\ batch \in Seq(Update) /\ flushes \in 0 .. setup.compact
  /\ worker \in WorkerRec
ProcShape == proc \in [Proc -> ProcRec] /\ fallback \in Proc \cup {None}
RoomShape ==
  /\ evict \in [pc : {"idle", "ask", "wait", "acked", "gone"}, ok : BOOLEAN]
  /\ shut \in [pc : {"idle", "closed", "join", "latched", "sleep", "returned", "expired"},
               latch : Nat, found : BOOLEAN, joins : BOOLEAN]
  /\ zero \in Nat /\ fails \in 0 .. setup.fails /\ returned \subseteq Update
Flags == timer \in BOOLEAN /\ retire \in BOOLEAN /\ stop \in BOOLEAN /\ inMap \in BOOLEAN

\* strandedInFlight counts the goroutines between strandedEnter and strandedLeave.
Inside == {p \in Proc : proc[p].pc \notin {"idle", "wake"}}
Counted == inflight \in Nat /\ ExistsBijection(1 .. inflight, Inside)

\* Which of its places the worker can be in, and for what.
WorkerPlace ==
  /\ retire <=> Done \/ worker.for = "exit"
  /\ worker.pc \in {"loop", "done"} => worker.for = "none"
  /\ worker.pc = "drain" => worker.for \in {"flush", "exit"}
  /\ worker.pc = "tidy" => worker.for = "exit" \/ setup.coalesce
  /\ worker.pc = "store" =>
       IF setup.coalesce THEN worker.for \in {"timer", "flush", "exit"} /\ worker.job = batch
                         ELSE worker.for \in {"update", "flush", "exit"}
  /\ worker.pc # "store" => worker.job = <<>>
  /\ timer => setup.coalesce
  /\ evict.pc = "wait" <=> worker.for = "flush"

\* Where a committing goroutine can be: only one is in the fallback section,
\* and only when the worker is gone.
Place(p) ==
  /\ proc[p].pc # "idle" => proc[p].update \in Update
  /\ proc[p].pc \in {"idle", "select", "check"} => ~proc[p].extra
  /\ proc[p].pc \in {"fallback", "put", "extra"} => Done /\ fallback = p
  /\ InCall(p) => proc[p].call \in Update
  /\ proc[p].pc = "extra" => proc[p].call = proc[p].update
ProcPlace == \A p \in Proc : Place(p)

\* The worker's last drain is over: the batch is in its last call, or the
\* calls are done.
LastCall == worker.pc = "store" /\ worker.for = "exit" /\ setup.coalesce
Ending == Done \/ (worker.pc = "tidy" /\ worker.for = "exit")

\* Where an update nobody looks after any more may still be, by how far the
\* worker's exit has come; and where one whose goroutine waits may be.
Safe(u) ==
  \/ u \in attempted
  \/ ~Ending /\ u \in Elems(batch)
  \/ ~Ending /\ ~LastCall /\ u \in Elems(buf) \cup Elems(worker.job)
Held(u) ==
  \/ u \in attempted \cup Elems(buf) \cup Elems(batch) \cup Elems(worker.job)
  \/ \E q \in Proc : InCall(q) /\ proc[q].call = u

Handed(p) ==
  /\ proc[p].pc \in {"leave", "wake"} => Safe(proc[p].update)
  /\ proc[p].pc = "check" \/ (proc[p].pc \in {"strand", "fallback", "put"} /\ ~proc[p].extra)
       => Held(proc[p].update)

Hands ==
  /\ Ending => Elems(batch) \subseteq attempted
  /\ \A u \in returned : Safe(u)
  /\ \A p \in Proc : Handed(p)

\* What the adapter took, and what a flush in progress still owes.
Owed ==
  /\ stored \subseteq attempted \cup Elems(batch)
  /\ ~setup.coalesce => stored \subseteq attempted
  /\ setup.coalesce /\ ~retire => attempted \subseteq stored
  /\ evict.pc = "wait" => asked \subseteq returned
  /\ evict.pc = "wait" /\ worker.pc = "store" /\ setup.coalesce => asked \subseteq attempted \cup Elems(batch)
  /\ evict.pc = "wait" /\ worker.pc = "tidy" => asked \subseteq stored

\* Past its join, a Shutdown that found the room has seen the worker end.
Joined == shut.pc \in {"latched", "sleep"} /\ shut.joins => Done

IInv ==
  /\ QueueShape /\ ProcShape /\ RoomShape /\ Flags
  /\ Counted /\ WorkerPlace /\ ProcPlace /\ Hands /\ Owed /\ Joined

\* A one-to-one correspondence counts a set without its cardinality.
LEMMA Counts ==
    ASSUME NEW S, NEW T, NEW g \in [S -> T], \A a, b \in S : g[a] = g[b] => a = b,
           \A t \in T : \E a \in S : g[a] = t
    PROVE  ExistsBijection(S, T)
<1>1. IsInjective(g)
  BY DEF IsInjective
<1>2. g \in Bijection(S, T)
  BY <1>1 DEF Bijection, Injection, Surjection
<1> QED BY <1>2 DEF ExistsBijection

\* No member counts as zero.
LEMMA CountNone == ExistsBijection(1 .. 0, {})
<1> DEFINE f == [i \in 1 .. 0 |-> i]
<1>1. f \in [1 .. 0 -> {}]
  OBVIOUS
<1>2. f \in Bijection(1 .. 0, {})
  BY <1>1 DEF Bijection, Injection, Surjection, IsInjective
<1> QED BY <1>2 DEF ExistsBijection

\* Conversely, a count of zero is of no member.
LEMMA CountZero == ASSUME NEW S, ExistsBijection(1 .. 0, S) PROVE S = {}
<1> PICK f \in Bijection(1 .. 0, S) : TRUE
  BY DEF ExistsBijection
<1> QED BY DEF Bijection, Surjection

\* A member more is one more: strandedEnter.
LEMMA CountMore ==
    ASSUME NEW S, NEW n \in Nat, NEW x, x \notin S, ExistsBijection(1 .. n, S)
    PROVE  ExistsBijection(1 .. n + 1, S \cup {x})
<1> PICK f \in Bijection(1 .. n, S) : TRUE
  BY DEF ExistsBijection
<1> DEFINE g == [i \in 1 .. n + 1 |-> IF i = n + 1 THEN x ELSE f[i]]
<1>1. f \in [1 .. n -> S] /\ (\A i, j \in 1 .. n : f[i] = f[j] => i = j) /\ \A y \in S : \E i \in 1 .. n : f[i] = y
  BY DEF Bijection, Injection, Surjection, IsInjective
<1>2. g \in [1 .. n + 1 -> S \cup {x}]
  BY <1>1
<1>3. \A i, j \in 1 .. n + 1 : g[i] = g[j] => i = j
  BY <1>1
<1>4. \A y \in S \cup {x} : \E i \in 1 .. n + 1 : g[i] = y
  BY <1>1
<1> HIDE DEF g
<1> QED BY <1>2, <1>3, <1>4, Counts

\* A member less is one less, and there was one to count: strandedLeave.
LEMMA CountLess ==
    ASSUME NEW S, NEW n \in Nat, NEW x \in S, ExistsBijection(1 .. n, S)
    PROVE  n # 0 /\ ExistsBijection(1 .. n - 1, S \ {x})
<1> PICK f \in Bijection(1 .. n, S) : TRUE
  BY DEF ExistsBijection
<1>1. f \in [1 .. n -> S] /\ (\A i, j \in 1 .. n : f[i] = f[j] => i = j) /\ \A y \in S : \E i \in 1 .. n : f[i] = y
  BY DEF Bijection, Injection, Surjection, IsInjective
<1>0. PICK k \in 1 .. n : f[k] = x
  BY <1>1
<1> DEFINE g == [i \in 1 .. n - 1 |-> IF i = k THEN f[n] ELSE f[i]]
<1>2. g \in [1 .. n - 1 -> S \ {x}]
  BY <1>0, <1>1
<1>3. \A i, j \in 1 .. n - 1 : g[i] = g[j] => i = j
  BY <1>0, <1>1
<1>4. ASSUME NEW y \in S \ {x} PROVE \E i \in 1 .. n - 1 : g[i] = y
  <2>1. PICK i \in 1 .. n : f[i] = y
    BY <1>1
  <2>2. CASE i = n
    <3>1. k \in 1 .. n - 1 /\ g[k] = y
      BY <1>0, <1>1, <2>1, <2>2
    <3> QED BY <3>1
  <2>3. CASE i # n
    <3>1. i \in 1 .. n - 1 /\ g[i] = y
      BY <1>0, <1>1, <2>1, <2>3
    <3> QED BY <3>1
  <2> QED BY <2>2, <2>3
<1> HIDE DEF g
<1>5. ExistsBijection(1 .. n - 1, S \ {x})
  BY <1>2, <1>3, <1>4, Counts
<1> QED BY <1>0, <1>5

----------------------------------------------------------------------------
\* What the operations on queues do to the updates in them.
LEMMA ElemsEmpty == Elems(<<>>) = {}
  BY DEF Elems

LEMMA ElemsOne == \A u \in Update : Elems(<<u>>) = {u} /\ <<u>> \in Seq(Update)
  BY DEF Elems

LEMMA ElemsType == \A s \in Seq(Update) : Elems(s) \subseteq Update
  BY DEF Elems

LEMMA ElemsAppend ==
    ASSUME NEW s \in Seq(Update), NEW u \in Update
    PROVE  /\ Append(s, u) \in Seq(Update) /\ Len(Append(s, u)) = Len(s) + 1
           /\ Elems(Append(s, u)) = Elems(s) \cup {u}
<1>1. /\ Append(s, u) \in Seq(Update) /\ Len(Append(s, u)) = Len(s) + 1 /\ Len(s) \in Nat
      /\ \A i \in 1 .. Len(s) : Append(s, u)[i] = s[i]
      /\ Append(s, u)[Len(s) + 1] = u
  OBVIOUS
<1>2. 1 .. Len(s) + 1 = 1 .. Len(s) \cup {Len(s) + 1}
  BY <1>1
<1> QED BY <1>1, <1>2 DEF Elems

LEMMA ElemsTail ==
    ASSUME NEW s \in Seq(Update), s # <<>>
    PROVE  /\ Head(s) \in Update /\ Tail(s) \in Seq(Update) /\ Len(Tail(s)) = Len(s) - 1
           /\ Elems(s) = {Head(s)} \cup Elems(Tail(s))
<1>1. /\ Len(s) \in Nat /\ Len(s) >= 1 /\ Head(s) = s[1] /\ Head(s) \in Update
      /\ Tail(s) \in Seq(Update) /\ Len(Tail(s)) = Len(s) - 1
      /\ \A i \in 1 .. Len(s) - 1 : Tail(s)[i] = s[i + 1]
  OBVIOUS
<1>2. ASSUME NEW u \in Elems(s) PROVE u \in {Head(s)} \cup Elems(Tail(s))
  <2>1. PICK i \in 1 .. Len(s) : u = s[i]
    BY DEF Elems
  <2>2. CASE i # 1
    <3>1. i - 1 \in 1 .. Len(Tail(s)) /\ u = Tail(s)[i - 1]
      BY <1>1, <2>1, <2>2
    <3> QED BY <3>1 DEF Elems
  <2> QED BY <1>1, <2>1, <2>2
<1>3. ASSUME NEW u \in Elems(Tail(s)) PROVE u \in Elems(s)
  <2>1. PICK i \in 1 .. Len(Tail(s)) : u = Tail(s)[i]
    BY Zenon DEF Elems
  <2>2. i + 1 \in 1 .. Len(s) /\ u = s[i + 1]
    BY <1>1, <2>1
  <2> QED BY <2>2 DEF Elems
<1>4. Head(s) \in Elems(s)
  BY <1>1 DEF Elems
<1> QED BY <1>1, <1>2, <1>3, <1>4

LEMMA ElemsConcat ==
    ASSUME NEW s \in Seq(Update), NEW t \in Seq(Update)
    PROVE  s \o t \in Seq(Update) /\ Elems(s \o t) = Elems(s) \cup Elems(t)
<1>1. /\ s \o t \in Seq(Update) /\ Len(s \o t) = Len(s) + Len(t)
      /\ Len(s) \in Nat /\ Len(t) \in Nat
      /\ \A i \in 1 .. Len(s) : (s \o t)[i] = s[i]
      /\ \A i \in 1 .. Len(t) : (s \o t)[Len(s) + i] = t[i]
  OBVIOUS
<1>2. ASSUME NEW u \in Elems(s \o t) PROVE u \in Elems(s) \cup Elems(t)
  <2>1. PICK i \in 1 .. Len(s) + Len(t) : u = (s \o t)[i]
    BY <1>1 DEF Elems
  <2>2. CASE i <= Len(s)
    <3>1. i \in 1 .. Len(s) /\ u = s[i]
      BY <1>1, <2>1, <2>2
    <3> QED BY <3>1 DEF Elems
  <2>3. CASE ~(i <= Len(s))
    <3>1. i - Len(s) \in 1 .. Len(t) /\ i = Len(s) + (i - Len(s))
      BY <1>1, <2>1, <2>3
    <3>2. u = t[i - Len(s)]
      BY <1>1, <2>1, <3>1
    <3> QED BY <3>1, <3>2 DEF Elems
  <2> QED BY <2>2, <2>3
<1>3. ASSUME NEW u \in Elems(s) PROVE u \in Elems(s \o t)
  <2>1. PICK i \in 1 .. Len(s) : u = s[i]
    BY DEF Elems
  <2>2. i \in 1 .. Len(s \o t) /\ u = (s \o t)[i]
    BY <1>1, <2>1
  <2> QED BY <2>2 DEF Elems
<1>4. ASSUME NEW u \in Elems(t) PROVE u \in Elems(s \o t)
  <2>1. PICK i \in 1 .. Len(t) : u = t[i]
    BY DEF Elems
  <2>2. Len(s) + i \in 1 .. Len(s \o t) /\ u = (s \o t)[Len(s) + i]
    BY <1>1, <2>1
  <2> QED BY <2>2 DEF Elems
<1> QED BY <1>1, <1>2, <1>3, <1>4

----------------------------------------------------------------------------
\* What a step that leaves the queues, the worker or the goroutines alone keeps.
LEMMA HandsKept ==
    ASSUME Hands, UNCHANGED <<setup, buf, batch, worker, proc, returned, attempted>>
    PROVE  Hands'
  BY DEF Hands, Handed, Safe, Held, Ending, LastCall, Done, InCall

LEMMA ProcKept ==
    ASSUME ProcShape, ProcPlace, Counted, UNCHANGED <<proc, fallback, inflight>>, Done => Done'
    PROVE  ProcShape' /\ ProcPlace' /\ Counted'
<1>1. ProcShape'
  BY DEF ProcShape
<1>2. Counted'
  BY DEF Counted, Inside
<1>3. ProcPlace'
  BY DEF ProcPlace, Place, InCall
<1> QED BY <1>1, <1>2, <1>3

\* A teardown or a Shutdown takes a step.
LEMMA RoomStep ==
    ASSUME IInv, \/ Teardown \/ WorkerGone \/ Evict \/ KeepRoom \/ CloseRoom
                 \/ CloseShutdownCh \/ Shutdown \/ Expire
    PROVE  IInv'
<1> USE PersistAssumption
<1>0. /\ QueueShape /\ ProcShape /\ RoomShape /\ Flags
      /\ Counted /\ WorkerPlace /\ ProcPlace /\ Hands /\ Owed /\ Joined
  BY DEF IInv
<1>1. /\ UNCHANGED work /\ UNCHANGED <<proc, fallback, inflight, zero, fails, returned, attempted, stored>>
  BY DEF Teardown, WorkerGone, Evict, KeepRoom, CloseRoom, CloseShutdownCh, Shutdown, Snapshot,
         Latch, CheckStranded, Expire, hist
<1>2. UNCHANGED <<setup, buf, batch, timer, worker, flushes, retire>>
  BY <1>1 DEF work
<1>3. QueueShape'
  BY <1>0, <1>2 DEF QueueShape
<1>4. ProcShape' /\ ProcPlace' /\ Counted'
  BY <1>0, <1>1, <1>2, ProcKept DEF Done
<1>5. Hands'
  BY <1>0, <1>1, <1>2, HandsKept
<1>6. RoomShape'
  <2>1. evict' \in [pc : {"idle", "ask", "wait", "acked", "gone"}, ok : BOOLEAN]
    <3>1. \/ UNCHANGED evict
          \/ \E pc \in {"idle", "ask", "acked", "gone"} :
               evict' = [pc |-> pc, ok |-> FALSE] \/ evict' = [pc |-> pc, ok |-> TRUE]
      BY DEF Teardown, WorkerGone, Evict, KeepRoom, CloseRoom, CloseShutdownCh,
         Shutdown, Snapshot, Latch, CheckStranded, Expire
    <3>2. ASSUME NEW pc \in {"idle", "ask", "acked", "gone"}, NEW ok \in BOOLEAN
          PROVE  [pc |-> pc, ok |-> ok] \in [pc : {"idle", "ask", "wait", "acked", "gone"}, ok : BOOLEAN]
      OBVIOUS
    <3>3. FALSE \in BOOLEAN /\ TRUE \in BOOLEAN
      OBVIOUS
    <3> QED BY <1>0, <3>1, <3>2, <3>3, Zenon DEF RoomShape
  <2>2. UNCHANGED shut \/ CloseShutdownCh \/ Snapshot \/ Latch \/ CheckStranded \/ Expire
    BY DEF Teardown, WorkerGone, Evict, KeepRoom, CloseRoom, Shutdown
  <2>3. CASE CloseShutdownCh
    <3>1. inMap \in BOOLEAN
      BY <1>0 DEF Flags
    <3> QED BY <1>0, <1>1, <1>2, <2>1, <2>3, <3>1, Zenon DEF RoomShape, CloseShutdownCh
  <2>4. CASE Snapshot
    <3>1. inMap \in BOOLEAN
      BY <1>0 DEF Flags
    <3> QED BY <1>0, <1>1, <1>2, <2>1, <2>4, <3>1, Zenon DEF RoomShape, Snapshot
  <2>5. CASE Latch
    BY <1>0, <1>1, <1>2, <2>1, <2>5, Zenon DEF RoomShape, Latch
  <2>6. CASE CheckStranded
    BY <1>0, <1>1, <1>2, <2>1, <2>6 DEF RoomShape, CheckStranded
  <2>7. CASE Expire
    BY <1>0, <1>1, <1>2, <2>1, <2>7 DEF RoomShape, Expire
  <2>8. CASE UNCHANGED shut
    BY <1>0, <1>1, <1>2, <2>1, <2>8 DEF RoomShape
  <2> QED BY <2>2, <2>3, <2>4, <2>5, <2>6, <2>7, <2>8
<1>7. Flags'
  BY <1>0, <1>2, Zenon DEF Flags, Teardown, WorkerGone, Evict, KeepRoom, CloseRoom, CloseShutdownCh,
         Shutdown, Snapshot, Latch, CheckStranded, Expire
<1>8. evict' = evict \/ (evict.pc # "wait" /\ evict'.pc # "wait")
  BY DEF Teardown, WorkerGone, Evict, KeepRoom, CloseRoom, CloseShutdownCh, Shutdown, Snapshot,
         Latch, CheckStranded, Expire
<1>9. WorkerPlace'
  BY <1>0, <1>2, <1>8 DEF WorkerPlace, Done
<1>10. asked' = asked \/ evict'.pc # "wait"
  BY DEF Teardown, WorkerGone, Evict, KeepRoom, CloseRoom, CloseShutdownCh, Shutdown, Snapshot,
         Latch, CheckStranded, Expire, hist
<1>11. Owed'
  BY <1>0, <1>1, <1>2, <1>8, <1>10 DEF Owed
<1>12. Joined'
  <2>1. \/ UNCHANGED shut
        \/ shut'.pc \notin {"latched", "sleep"}
        \/ shut'.joins = shut.joins /\ (shut.joins => Done)
    <3>1. CASE Latch
      BY <1>0, <3>1 DEF RoomShape, Joined, Latch
    <3>2. CASE CheckStranded
      BY <1>0, <3>2 DEF RoomShape, Joined, CheckStranded
    <3>3. CASE CloseShutdownCh
      BY <1>0, <3>3 DEF RoomShape, CloseShutdownCh
    <3>4. CASE Snapshot
      BY <1>0, <3>4 DEF RoomShape, Snapshot
    <3>5. CASE Expire
      BY <1>0, <3>5 DEF RoomShape, Expire
    <3> QED BY <3>1, <3>2, <3>3, <3>4, <3>5 DEF Teardown, WorkerGone, Evict, KeepRoom, CloseRoom,
       Shutdown
  <2> QED BY <1>0, <1>2, <2>1, Zenon DEF Joined, Done
<1> QED BY <1>3, <1>4, <1>5, <1>6, <1>7, <1>9, <1>11, <1>12 DEF IInv

\* A goroutine that commits takes a step: what it leaves alone.
LEMMA ObserverFrame ==
    ASSUME NEW p \in Proc, NEW u \in Update, Commit(p, u) \/ Observe(p)
    PROVE  UNCHANGED <<setup, batch, timer, worker, flushes, retire, stop, inMap, evict, shut, asked>>
  BY Zenon DEF Commit, Observe, Send, Retired, Recheck, Strand, TakeStranded, PutStranded, TakeExtra,
     PutExtra,
         Unlock, Leave, Wake, Return, Attempt, work, hist

\* ... and what it does to the rest, but for the goroutine itself.
LEMMA ObserverRoom ==
    ASSUME IInv, NEW p \in Proc, NEW u \in Update, Commit(p, u) \/ Observe(p)
    PROVE  /\ QueueShape' /\ RoomShape' /\ Flags' /\ WorkerPlace' /\ Owed' /\ Joined'
           /\ attempted \subseteq attempted' /\ (Elems(buf) \subseteq Elems(buf') \/ Done)
<1> USE PersistAssumption
<1>0. /\ QueueShape /\ ProcShape /\ RoomShape /\ Flags
      /\ WorkerPlace /\ ProcPlace /\ Owed /\ Joined
  BY DEF IInv
<1>1. UNCHANGED <<setup, batch, timer, worker, flushes, retire, stop, inMap, evict, shut, asked>>
  BY ObserverFrame
<1>2. /\ buf' \in Seq(Update) /\ Len(buf') <= ChCap
      /\ Elems(buf) \subseteq Elems(buf') \/ Done
  <2>1. CASE Send(p)
    <3>1. proc[p].update \in Update
      BY <1>0, <2>1 DEF Send, ProcPlace, Place
    <3>2. buf \in Seq(Update) /\ Len(buf) < ChCap /\ buf' = Append(buf, proc[p].update)
      BY <1>0, <2>1 DEF QueueShape, Send
    <3>3. Len(buf') = Len(buf) + 1 /\ Len(buf) \in Nat
      BY <3>1, <3>2, ElemsAppend
    <3> QED BY <3>1, <3>2, <3>3, ElemsAppend
  <2>2. CASE TakeStranded(p)
    <3>1. buf # <<>> /\ buf' = Tail(buf) /\ Done
      BY <1>0, <2>2 DEF TakeStranded, ProcPlace, Place
    <3>2. buf \in Seq(Update) /\ Len(buf) <= ChCap
      BY <1>0 DEF QueueShape
    <3>3. buf' \in Seq(Update) /\ Len(buf') = Len(buf) - 1
      BY <3>1, <3>2, ElemsTail
    <3>4. Len(buf) \in Nat
      BY <3>2
    <3> QED BY <3>1, <3>2, <3>3, <3>4
  <2>3. CASE ~Send(p) /\ ~TakeStranded(p)
    <3>1. buf' = buf
      BY <2>3 DEF Commit, Observe, Retired, Recheck, Strand, PutStranded, TakeExtra, PutExtra,
         Unlock, Leave, Wake, Return, Attempt, work
    <3> QED BY <1>0, <3>1 DEF QueueShape
  <2> QED BY <2>1, <2>2, <2>3
<1>3. QueueShape'
  BY <1>0, <1>1, <1>2 DEF QueueShape
<1>4. fails' \in 0 .. setup.fails
  <2>1. \/ fails' = fails
        \/ fails' = fails + 1 /\ fails < setup.fails
    BY DEF Commit, Observe, Send, Retired, Recheck, Strand, TakeStranded, PutStranded, TakeExtra,
         PutExtra, Unlock, Leave, Wake, Return, Attempt, hist
  <2>2. setup.fails \in Nat
    BY <1>0 DEF QueueShape
  <2> QED BY <1>0, <2>1, <2>2 DEF RoomShape
<1>5. returned' = returned \/ (returned' = returned \cup {proc[p].update} /\ proc[p].pc # "idle")
  BY DEF Commit, Observe, Send, Retired, Recheck, Strand, TakeStranded, PutStranded, TakeExtra,
         PutExtra, Unlock, Leave, Wake, Return, Attempt, hist
<1>6. zero' = zero \/ zero' = zero + 1
  BY DEF Commit, Observe, Send, Retired, Recheck, Strand, TakeStranded, PutStranded, TakeExtra,
         PutExtra, Unlock, Leave, Wake, Return, Attempt, hist
<1>7. RoomShape' /\ returned \subseteq returned'
  BY <1>0, <1>1, <1>4, <1>5, <1>6 DEF RoomShape, ProcPlace, Place
<1>8. Flags'
  BY <1>0, <1>1, Zenon DEF Flags
<1>9. WorkerPlace' /\ Joined'
  BY <1>0, <1>1 DEF WorkerPlace, Joined, Done
<1>10. \/ UNCHANGED <<attempted, stored>>
       \/ /\ retire /\ attempted \subseteq attempted'
          /\ stored' \subseteq stored \cup attempted' /\ stored \subseteq stored'
  BY <1>0, Zenon DEF ProcPlace, Place, WorkerPlace, Commit, Observe, Send, Retired, Recheck, Strand,
     TakeStranded,
         PutStranded, TakeExtra, PutExtra, Unlock, Leave, Wake, Return, Attempt, hist
<1>11. Owed'
  BY <1>0, <1>1, <1>7, <1>10 DEF Owed
<1> QED BY <1>2, <1>3, <1>7, <1>8, <1>9, <1>10, <1>11

\* The goroutine itself, and the hand-over.
LEMMA ObserverStep ==
    ASSUME IInv, NEW p \in Proc, NEW u \in Update, Commit(p, u) \/ Observe(p)
    PROVE  IInv'
<1> USE PersistAssumption
<1>0. /\ QueueShape /\ ProcShape /\ RoomShape /\ Flags
      /\ Counted /\ WorkerPlace /\ ProcPlace /\ Hands
  BY DEF IInv
<1>a. UNCHANGED <<setup, batch, timer, worker, flushes, retire, stop, inMap, evict, shut, asked>>
  BY ObserverFrame
<1>c. /\ QueueShape' /\ RoomShape' /\ Flags' /\ WorkerPlace' /\ Owed' /\ Joined'
      /\ attempted \subseteq attempted' /\ (Elems(buf) \subseteq Elems(buf') \/ Done)
  BY ObserverRoom
<1>d. (Ending' <=> Ending) /\ (LastCall' <=> LastCall) /\ (Done' <=> Done)
  BY <1>a DEF Ending, LastCall, Done
<1>e. \A v : Safe(v) => Safe(v)'
  BY <1>a, <1>c, <1>d DEF Safe, Ending
<1>f. (Ending => Elems(batch) \subseteq attempted)'
  BY <1>0, <1>a, <1>c, <1>d DEF Hands
<1> DEFINE Goal == ProcShape' /\ Counted' /\ ProcPlace' /\ Hands'
<1>1. ASSUME Commit(p, u) PROVE Goal
  <2>1. /\ proc' \in [Proc -> ProcRec]
        /\ proc'[p].pc = "select" /\ proc'[p].update = u
        /\ proc'[p].extra = proc[p].extra /\ proc'[p].call = proc[p].call
        /\ \A q \in Proc \ {p} : proc'[q] = proc[q]
    BY <1>0, <1>1, Zenon DEF Commit, ProcShape, ProcRec, ProcPc, QueueShape, ProcPlace, Place
  <2>2. ProcShape'
    BY <1>0, <1>1, <2>1 DEF ProcShape, Commit
  <2>3. Counted'
    <3>1. Inside' = Inside \cup {p} /\ p \notin Inside /\ inflight' = inflight + 1
      BY <1>1, <2>1 DEF Inside, Commit
    <3>2. inflight \in Nat /\ ExistsBijection(1 .. inflight, Inside)
      BY <1>0 DEF Counted
    <3>3. ExistsBijection(1 .. inflight + 1, Inside \cup {p}) /\ inflight + 1 \in Nat
      BY <3>1, <3>2, CountMore
    <3> QED BY <3>1, <3>3 DEF Counted
  <2>4. ProcPlace'
    <3>1. Place(p)'
      BY <1>0, <1>d, <1>1, <2>1 DEF ProcPlace, Place, QueueShape, Commit, InCall
    <3>2. ASSUME NEW q \in Proc \ {p} PROVE Place(q)'
      BY <1>0, <1>d, <1>1, <2>1 DEF ProcPlace, Place, Commit, InCall
    <3> QED BY <3>1, <3>2 DEF ProcPlace
  <2>5. Hands'
    <3>1. \A v : Held(v) => Held(v)'
      BY <1>0, <1>a, <1>1, <2>1 DEF Held, QueueShape, InCall, ProcPlace, Place, Commit, work, hist
    <3>2. Handed(p)'
      BY <1>0, <1>a, <1>d, <1>e, <1>1, <2>1, <3>1 DEF Hands, Handed, Commit
    <3>3. ASSUME NEW q \in Proc \ {p} PROVE Handed(q)'
      BY <1>0, <1>e, <2>1, <3>1 DEF Hands, Handed
    <3>4. \A v \in returned' : Safe(v)'
      BY <1>0, <1>e, <1>1 DEF Hands, Commit, work, hist
    <3> QED BY <1>f, <3>2, <3>3, <3>4 DEF Hands
  <2> QED BY <2>2, <2>3, <2>4, <2>5
<1>2. ASSUME Send(p) PROVE Goal
  <2>1. /\ proc' \in [Proc -> ProcRec]
        /\ proc'[p].pc = "check" /\ proc'[p].update = proc[p].update
        /\ proc'[p].extra = proc[p].extra /\ proc'[p].call = proc[p].call
        /\ \A q \in Proc \ {p} : proc'[q] = proc[q]
    BY <1>0, <1>2, Zenon DEF Send, ProcShape, ProcRec, ProcPc, QueueShape, ProcPlace, Place
  <2>2. ProcShape'
    BY <1>0, <1>2, <2>1 DEF ProcShape, Send
  <2>3. Counted'
    <3>1. Inside' = Inside /\ inflight' = inflight
      BY <1>2, <2>1 DEF Inside, Send
    <3> QED BY <1>0, <3>1 DEF Counted
  <2>4. ProcPlace'
    <3>1. Place(p)'
      BY ElemsAppend, <1>0, <1>d, <1>2, <2>1 DEF ProcPlace, Place, QueueShape, Send, InCall
    <3>2. ASSUME NEW q \in Proc \ {p} PROVE Place(q)'
      BY <1>0, <1>d, <1>2, <2>1 DEF ProcPlace, Place, Send, InCall
    <3> QED BY <3>1, <3>2 DEF ProcPlace
  <2>5. Hands'
    <3>1. \A v : Held(v) => Held(v)'
      <4>1. Elems(buf) \subseteq Elems(buf') /\ proc[p].update \in Elems(buf')
        <5>1. buf \in Seq(Update) /\ proc[p].update \in Update /\ buf' = Append(buf, proc[p].update)
          BY <1>0, <1>2 DEF QueueShape, Send, ProcPlace, Place
        <5> QED BY <5>1, ElemsAppend
      <4>2. attempted' = attempted /\ ~InCall(p)
        BY <1>2 DEF Send, hist, InCall
      <4> QED BY <1>a, <2>1, <4>1, <4>2 DEF Held, InCall
    <3>2. Handed(p)'
      <4>1. buf \in Seq(Update) /\ proc[p].update \in Update /\ buf' = Append(buf, proc[p].update)
        BY <1>0, <1>2 DEF QueueShape, Send, ProcPlace, Place
      <4>2. proc'[p].update \in Elems(buf')
        BY <2>1, <4>1, ElemsAppend
      <4> QED BY <2>1, <4>2 DEF Handed, Held
    <3>3. ASSUME NEW q \in Proc \ {p} PROVE Handed(q)'
      BY <1>0, <1>e, <2>1, <3>1 DEF Hands, Handed
    <3>4. \A v \in returned' : Safe(v)'
      BY <1>0, <1>e, <1>2 DEF Hands, Send, work, hist
    <3> QED BY <1>f, <3>2, <3>3, <3>4 DEF Hands
  <2> QED BY <2>2, <2>3, <2>4, <2>5
<1>3. ASSUME Retired(p) PROVE Goal
  <2>1. /\ proc' \in [Proc -> ProcRec]
        /\ proc'[p].pc = "strand" /\ proc'[p].update = proc[p].update
        /\ proc'[p].extra = TRUE /\ proc'[p].call = proc[p].call
        /\ \A q \in Proc \ {p} : proc'[q] = proc[q]
    BY <1>0, <1>3 DEF Retired, ProcShape, ProcRec, ProcPc, QueueShape, ProcPlace, Place
  <2>2. ProcShape'
    BY <1>0, <1>3, <2>1 DEF ProcShape, Retired
  <2>3. Counted'
    <3>1. Inside' = Inside /\ inflight' = inflight
      BY <1>3, <2>1 DEF Inside, Retired
    <3> QED BY <1>0, <3>1 DEF Counted
  <2>4. ProcPlace'
    <3>1. Place(p)'
      BY <1>0, <1>d, <1>3, <2>1 DEF ProcPlace, Place, QueueShape, Retired, InCall
    <3>2. ASSUME NEW q \in Proc \ {p} PROVE Place(q)'
      BY <1>0, <1>d, <1>3, <2>1 DEF ProcPlace, Place, Retired, InCall
    <3> QED BY <3>1, <3>2 DEF ProcPlace
  <2>5. Hands'
    <3>1. \A v : Held(v) => Held(v)'
      <4>1. UNCHANGED <<buf, attempted>> /\ ~InCall(p)
        BY <1>3 DEF Retired, work, hist, InCall
      <4> QED BY <1>a, <2>1, <4>1 DEF Held, InCall
    <3>2. Handed(p)'
      BY <1>0, <1>a, <1>d, <1>e, <1>3, <2>1, <3>1 DEF Hands, Handed, Retired
    <3>3. ASSUME NEW q \in Proc \ {p} PROVE Handed(q)'
      BY <1>0, <1>e, <2>1, <3>1 DEF Hands, Handed
    <3>4. \A v \in returned' : Safe(v)'
      BY <1>0, <1>e, <1>3 DEF Hands, Retired, work, hist
    <3> QED BY <1>f, <3>2, <3>3, <3>4 DEF Hands
  <2> QED BY <2>2, <2>3, <2>4, <2>5
<1>4. ASSUME Recheck(p) PROVE Goal
  <2>1. /\ proc' \in [Proc -> ProcRec]
        /\ proc'[p].pc = (IF retire THEN "strand" ELSE "leave") /\ proc'[p].update = proc[p].update
        /\ proc'[p].extra = proc[p].extra /\ proc'[p].call = proc[p].call
        /\ \A q \in Proc \ {p} : proc'[q] = proc[q]
    BY <1>0, <1>4, Zenon DEF Recheck, ProcShape, ProcRec, ProcPc, QueueShape, ProcPlace, Place
  <2>2. ProcShape'
    BY <1>0, <1>4, <2>1 DEF ProcShape, Recheck
  <2>3. Counted'
    <3>1. Inside' = Inside /\ inflight' = inflight
      BY <1>4, <2>1 DEF Inside, Recheck
    <3> QED BY <1>0, <3>1 DEF Counted
  <2>4. ProcPlace'
    <3>1. Place(p)'
      <4>1. proc'[p].pc \in {"strand", "leave"} /\ proc[p].update \in Update
        BY <1>0, <1>4, <2>1 DEF Recheck, ProcPlace, Place
      <4> QED BY <2>1, <4>1 DEF Place, InCall
    <3>2. ASSUME NEW q \in Proc \ {p} PROVE Place(q)'
      BY <1>0, <1>d, <1>4, <2>1 DEF ProcPlace, Place, Recheck, InCall
    <3> QED BY <3>1, <3>2 DEF ProcPlace
  <2>5. Hands'
    <3>1. \A v : Held(v) => Held(v)'
      BY <1>0, <1>a, <1>4, <2>1 DEF Held, QueueShape, InCall, ProcPlace, Place, Recheck, work, hist
    <3>2. Handed(p)'
      <4>1. Held(proc[p].update) /\ proc'[p].update = proc[p].update
        BY <1>0, <1>4, <2>1 DEF Hands, Handed, Recheck
      <4>2. CASE retire
        BY <1>4, <2>1, <3>1, <4>1, <4>2 DEF Handed
      <4>3. CASE ~retire
        <5>1. ~Ending /\ ~LastCall /\ \A q \in Proc : ~InCall(q)
          BY <1>0, <4>3 DEF WorkerPlace, Ending, LastCall, ProcPlace, Place, InCall
        <5>2. PICK v : v = proc[p].update
          OBVIOUS
        <5>3. Safe(v)
          BY <4>1, <5>1, <5>2 DEF Held, Safe
        <5>4. Safe(v)' /\ proc'[p].update = v
          BY <1>e, <4>1, <5>2, <5>3
        <5> QED BY <1>a, <2>1, <4>3, <5>4 DEF Handed
      <4> QED BY <4>2, <4>3
    <3>3. ASSUME NEW q \in Proc \ {p} PROVE Handed(q)'
      BY <1>0, <1>e, <2>1, <3>1 DEF Hands, Handed
    <3>4. \A v \in returned' : Safe(v)'
      BY <1>0, <1>e, <1>4 DEF Hands, Recheck, work, hist
    <3> QED BY <1>f, <3>2, <3>3, <3>4 DEF Hands
  <2> QED BY <2>2, <2>3, <2>4, <2>5
<1>5. ASSUME Strand(p) PROVE Goal
  <2>1. /\ proc' \in [Proc -> ProcRec]
        /\ proc'[p].pc = "fallback" /\ proc'[p].update = proc[p].update
        /\ proc'[p].extra = proc[p].extra /\ proc'[p].call = proc[p].call
        /\ \A q \in Proc \ {p} : proc'[q] = proc[q]
    BY <1>0, <1>5 DEF Strand, ProcShape, ProcRec, ProcPc, QueueShape, ProcPlace, Place
  <2>2. ProcShape'
    BY <1>0, <1>5, <2>1 DEF ProcShape, Strand
  <2>3. Counted'
    <3>1. Inside' = Inside /\ inflight' = inflight
      BY <1>5, <2>1 DEF Inside, Strand
    <3> QED BY <1>0, <3>1 DEF Counted
  <2>4. ProcPlace'
    <3>1. Place(p)'
      BY <1>0, <1>d, <1>5, <2>1 DEF ProcPlace, Place, QueueShape, Strand, InCall
    <3>2. ASSUME NEW q \in Proc \ {p} PROVE Place(q)'
      BY <1>0, <1>d, <1>5, <2>1 DEF ProcPlace, Place, Strand, InCall
    <3> QED BY <3>1, <3>2 DEF ProcPlace
  <2>5. Hands'
    <3>1. \A v : Held(v) => Held(v)'
      BY <1>0, <1>a, <1>5, <2>1 DEF Held, QueueShape, InCall, ProcPlace, Place, Strand, work, hist
    <3>2. Handed(p)'
      BY <1>0, <1>a, <1>d, <1>e, <1>5, <2>1, <3>1 DEF Hands, Handed, Strand
    <3>3. ASSUME NEW q \in Proc \ {p} PROVE Handed(q)'
      BY <1>0, <1>e, <2>1, <3>1 DEF Hands, Handed
    <3>4. \A v \in returned' : Safe(v)'
      BY <1>0, <1>e, <1>5 DEF Hands, Strand, work, hist
    <3> QED BY <1>f, <3>2, <3>3, <3>4 DEF Hands
  <2> QED BY <2>2, <2>3, <2>4, <2>5
<1>6. ASSUME TakeStranded(p) PROVE Goal
  <2>1. /\ proc' \in [Proc -> ProcRec]
        /\ proc'[p].pc = "put" /\ proc'[p].update = proc[p].update
        /\ proc'[p].extra = proc[p].extra /\ proc'[p].call = Head(buf)
        /\ \A q \in Proc \ {p} : proc'[q] = proc[q]
    BY <1>0, <1>6, ElemsTail, Zenon DEF TakeStranded, ProcShape, ProcRec, ProcPc, QueueShape, ProcPlace,
       Place
  <2>2. ProcShape'
    BY <1>0, <1>6, <2>1 DEF ProcShape, TakeStranded
  <2>3. Counted'
    <3>1. Inside' = Inside /\ inflight' = inflight
      BY <1>6, <2>1 DEF Inside, TakeStranded
    <3> QED BY <1>0, <3>1 DEF Counted
  <2>4. ProcPlace'
    <3>1. Place(p)'
      BY ElemsTail, <1>0, <1>d, <1>6, <2>1 DEF ProcPlace, Place, QueueShape, TakeStranded, InCall
    <3>2. ASSUME NEW q \in Proc \ {p} PROVE Place(q)'
      BY <1>0, <1>d, <1>6, <2>1 DEF ProcPlace, Place, TakeStranded, InCall
    <3> QED BY <3>1, <3>2 DEF ProcPlace
  <2>5. Hands'
    <3>1. \A v : Held(v) => Held(v)'
      <4>1. /\ Elems(buf) = {Head(buf)} \cup Elems(buf') /\ attempted' = attempted
            /\ ~InCall(p) /\ InCall(p)' /\ proc'[p].call = Head(buf)
        <5>1. buf \in Seq(Update) /\ buf # <<>> /\ buf' = Tail(buf)
          BY <1>0, <1>6 DEF QueueShape, TakeStranded
        <5>2. Elems(buf) = {Head(buf)} \cup Elems(buf')
          BY <5>1, ElemsTail
        <5> QED BY <1>6, <2>1, <5>2 DEF TakeStranded, InCall, hist
      <4> QED BY <1>a, <2>1, <4>1 DEF Held, InCall
    <3>2. Handed(p)'
      BY ElemsTail, <1>0, <1>a, <1>d, <1>e, <1>6, <2>1, <3>1 DEF Hands, Handed, TakeStranded
    <3>3. ASSUME NEW q \in Proc \ {p} PROVE Handed(q)'
      BY <1>0, <1>e, <2>1, <3>1 DEF Hands, Handed
    <3>4. \A v \in returned' : Safe(v)'
      BY <1>0, <1>e, <1>6 DEF Hands, TakeStranded, work, hist
    <3> QED BY <1>f, <3>2, <3>3, <3>4 DEF Hands
  <2> QED BY <2>2, <2>3, <2>4, <2>5
<1>7. ASSUME NEW ok \in BOOLEAN, PutStranded(p, ok) PROVE Goal
  <2>1. /\ proc' \in [Proc -> ProcRec]
        /\ proc'[p].pc = "fallback" /\ proc'[p].update = proc[p].update
        /\ proc'[p].extra = proc[p].extra /\ proc'[p].call = None
        /\ \A q \in Proc \ {p} : proc'[q] = proc[q]
    BY <1>0, <1>7, ZenonT(60) DEF PutStranded, ProcShape, ProcRec, ProcPc, QueueShape, ProcPlace, Place
  <2>2. ProcShape'
    BY <1>0, <1>7, <2>1 DEF ProcShape, PutStranded
  <2>3. Counted'
    <3>1. Inside' = Inside /\ inflight' = inflight
      BY <1>7, <2>1 DEF Inside, PutStranded
    <3> QED BY <1>0, <3>1 DEF Counted
  <2>4. ProcPlace'
    <3>1. Place(p)'
      BY <1>0, <1>d, <1>7, <2>1 DEF ProcPlace, Place, QueueShape, PutStranded, InCall
    <3>2. ASSUME NEW q \in Proc \ {p} PROVE Place(q)'
      BY <1>0, <1>d, <1>7, <2>1 DEF ProcPlace, Place, PutStranded, InCall
    <3> QED BY <3>1, <3>2 DEF ProcPlace
  <2>5. Hands'
    <3>1. \A v : Held(v) => Held(v)'
      BY <1>0, <1>a, <1>7, <2>1 DEF Held, QueueShape, InCall, ProcPlace, Place, PutStranded,
         Attempt, work, hist
    <3>2. Handed(p)'
      BY <1>0, <1>a, <1>d, <1>e, <1>7, <2>1, <3>1 DEF Hands, Handed, PutStranded
    <3>3. ASSUME NEW q \in Proc \ {p} PROVE Handed(q)'
      BY <1>0, <1>e, <2>1, <3>1 DEF Hands, Handed
    <3>4. \A v \in returned' : Safe(v)'
      BY <1>0, <1>e, <1>7 DEF Hands, PutStranded, Attempt, work, hist
    <3> QED BY <1>f, <3>2, <3>3, <3>4 DEF Hands
  <2> QED BY <2>2, <2>3, <2>4, <2>5
<1>8. ASSUME TakeExtra(p) PROVE Goal
  <2>1. /\ proc' \in [Proc -> ProcRec]
        /\ proc'[p].pc = "extra" /\ proc'[p].update = proc[p].update
        /\ proc'[p].extra = proc[p].extra /\ proc'[p].call = proc[p].update
        /\ \A q \in Proc \ {p} : proc'[q] = proc[q]
    BY <1>0, <1>8, ZenonT(60) DEF TakeExtra, ProcShape, ProcRec, ProcPc
  <2>2. ProcShape'
    BY <1>0, <1>8, <2>1 DEF ProcShape, TakeExtra
  <2>3. Counted'
    <3>1. Inside' = Inside /\ inflight' = inflight
      BY <1>8, <2>1 DEF Inside, TakeExtra
    <3> QED BY <1>0, <3>1 DEF Counted
  <2>4. ProcPlace'
    <3>1. Place(p)'
      BY <1>0, <1>d, <1>8, <2>1 DEF ProcPlace, Place, QueueShape, TakeExtra, InCall
    <3>2. ASSUME NEW q \in Proc \ {p} PROVE Place(q)'
      BY <1>0, <1>d, <1>8, <2>1 DEF ProcPlace, Place, TakeExtra, InCall
    <3> QED BY <3>1, <3>2 DEF ProcPlace
  <2>5. Hands'
    <3>1. \A v : Held(v) => Held(v)'
      BY <1>0, <1>a, <1>8, <2>1 DEF Held, QueueShape, InCall, ProcPlace, Place, TakeExtra, work,
         hist
    <3>2. Handed(p)'
      BY <1>0, <1>a, <1>d, <1>e, <1>8, <2>1, <3>1 DEF Hands, Handed, TakeExtra
    <3>3. ASSUME NEW q \in Proc \ {p} PROVE Handed(q)'
      BY <1>0, <1>e, <2>1, <3>1 DEF Hands, Handed
    <3>4. \A v \in returned' : Safe(v)'
      BY <1>0, <1>e, <1>8 DEF Hands, TakeExtra, work, hist
    <3> QED BY <1>f, <3>2, <3>3, <3>4 DEF Hands
  <2> QED BY <2>2, <2>3, <2>4, <2>5
<1>9. ASSUME NEW ok \in BOOLEAN, PutExtra(p, ok) PROVE Goal
  <2>1. /\ proc' \in [Proc -> ProcRec]
        /\ proc'[p].pc = "leave" /\ proc'[p].update = proc[p].update
        /\ proc'[p].extra = proc[p].extra /\ proc'[p].call = None
        /\ \A q \in Proc \ {p} : proc'[q] = proc[q]
    BY <1>0, <1>9, Zenon DEF PutExtra, ProcShape, ProcRec, ProcPc
  <2>2. ProcShape'
    BY <1>0, <1>9, <2>1 DEF ProcShape, PutExtra
  <2>3. Counted'
    <3>1. Inside' = Inside /\ inflight' = inflight
      BY <1>9, <2>1 DEF Inside, PutExtra
    <3> QED BY <1>0, <3>1 DEF Counted
  <2>4. ProcPlace'
    <3>1. Place(p)'
      BY <1>0, <1>d, <1>9, <2>1 DEF ProcPlace, Place, QueueShape, PutExtra, InCall
    <3>2. ASSUME NEW q \in Proc \ {p} PROVE Place(q)'
      BY <1>0, <1>d, <1>9, <2>1 DEF ProcPlace, Place, PutExtra, InCall
    <3> QED BY <3>1, <3>2 DEF ProcPlace
  <2>5. Hands'
    <3>1. \A v : Held(v) => Held(v)'
      BY <1>0, <1>a, <1>9, <2>1 DEF Held, QueueShape, InCall, ProcPlace, Place, PutExtra, Attempt,
         work, hist
    <3>2. Handed(p)'
      <4>1. proc[p].update \in attempted'
        BY <1>0, <1>9 DEF PutExtra, Attempt, ProcPlace, Place
      <4> QED BY <2>1, <4>1 DEF Handed, Safe
    <3>3. ASSUME NEW q \in Proc \ {p} PROVE Handed(q)'
      BY <1>0, <1>e, <2>1, <3>1 DEF Hands, Handed
    <3>4. \A v \in returned' : Safe(v)'
      BY <1>0, <1>e, <1>9 DEF Hands, PutExtra, Attempt, work, hist
    <3> QED BY <1>f, <3>2, <3>3, <3>4 DEF Hands
  <2> QED BY <2>2, <2>3, <2>4, <2>5
<1>10. ASSUME Unlock(p) PROVE Goal
  <2>1. /\ proc' \in [Proc -> ProcRec]
        /\ proc'[p].pc = "leave" /\ proc'[p].update = proc[p].update
        /\ proc'[p].extra = proc[p].extra /\ proc'[p].call = proc[p].call
        /\ \A q \in Proc \ {p} : proc'[q] = proc[q]
    BY <1>0, <1>10 DEF Unlock, ProcShape, ProcRec, ProcPc, QueueShape, ProcPlace, Place
  <2>2. ProcShape'
    BY <1>0, <1>10, <2>1 DEF ProcShape, Unlock
  <2>3. Counted'
    <3>1. Inside' = Inside /\ inflight' = inflight
      BY <1>10, <2>1 DEF Inside, Unlock
    <3> QED BY <1>0, <3>1 DEF Counted
  <2>4. ProcPlace'
    <3>1. Place(p)'
      BY ElemsEmpty, <1>0, <1>d, <1>10, <2>1 DEF ProcPlace, Place, QueueShape, Unlock, InCall
    <3>2. ASSUME NEW q \in Proc \ {p} PROVE Place(q)'
      BY <1>0, <1>d, <1>10, <2>1 DEF ProcPlace, Place, Unlock, InCall
    <3> QED BY <3>1, <3>2 DEF ProcPlace
  <2>5. Hands'
    <3>1. \A v : Held(v) => Held(v)'
      BY ElemsEmpty, <1>0, <1>a, <1>10, <2>1 DEF Held, QueueShape, InCall, ProcPlace, Place,
         Unlock, work, hist
    <3>2. Handed(p)'
      <4>1. Held(proc[p].update) /\ Done /\ buf = <<>> /\ worker.job = <<>>
        BY <1>0, <1>10 DEF Hands, Handed, Unlock, ProcPlace, Place, WorkerPlace, Done
      <4>2. \A q \in Proc : ~InCall(q)
        BY <1>0, <1>10 DEF ProcPlace, Place, Unlock, InCall
      <4>3. proc[p].update \in attempted
        BY <1>0, <4>1, <4>2, ElemsEmpty DEF Held, Hands, Ending
      <4> QED BY <1>c, <2>1, <4>3 DEF Handed, Safe
    <3>3. ASSUME NEW q \in Proc \ {p} PROVE Handed(q)'
      BY <1>0, <1>e, <2>1, <3>1 DEF Hands, Handed
    <3>4. \A v \in returned' : Safe(v)'
      BY <1>0, <1>e, <1>10 DEF Hands, Unlock, work, hist
    <3> QED BY <1>f, <3>2, <3>3, <3>4 DEF Hands
  <2> QED BY <2>2, <2>3, <2>4, <2>5
<1>11. ASSUME Leave(p) PROVE Goal
  <2>1. /\ proc' \in [Proc -> ProcRec]
        /\ \/ proc'[p].pc = "wake" /\ proc'[p].update = proc[p].update /\ returned' = returned
           \/ proc'[p].pc = "idle" /\ ~proc'[p].extra /\ returned' = returned \cup {proc[p].update}
        /\ \A q \in Proc \ {p} : proc'[q] = proc[q]
    <3>1. CASE inflight = 1
      BY <1>0, <1>11, <3>1 DEF Leave, ProcShape, ProcRec, ProcPc, hist
    <3>2. CASE inflight # 1
      <4>1. Return(p)
        BY <1>11, <3>2 DEF Leave
      <4> QED BY <1>0, <4>1 DEF Return, ProcShape, ProcRec, ProcPc
    <3> QED BY <3>1, <3>2
  <2>2. ProcShape'
    BY <1>0, <1>11, <2>1 DEF ProcShape, Leave, Return
  <2>3. Counted'
    <3>1. Inside' = Inside \ {p} /\ p \in Inside /\ inflight' = inflight - 1
      BY <1>11, <2>1 DEF Inside, Leave
    <3>2. inflight \in Nat /\ ExistsBijection(1 .. inflight, Inside)
      BY <1>0 DEF Counted
    <3>3. ExistsBijection(1 .. inflight - 1, Inside \ {p}) /\ inflight - 1 \in Nat
      BY <3>1, <3>2, CountLess
    <3> QED BY <3>1, <3>3 DEF Counted
  <2>4. ProcPlace'
    <3>1. Place(p)'
      BY <1>0, <1>11, <2>1 DEF ProcPlace, Place, InCall, Leave
    <3>2. ASSUME NEW q \in Proc \ {p} PROVE Place(q)'
      BY <1>0, <1>d, <1>11, <2>1 DEF ProcPlace, Place, Leave, Return, InCall
    <3> QED BY <3>1, <3>2 DEF ProcPlace
  <2>5. Hands'
    <3>1. UNCHANGED <<buf, attempted>> /\ ~InCall(p)
      BY <1>11 DEF Leave, Return, InCall, work, hist
    <3>2. \A v : Held(v) => Held(v)'
      BY <1>a, <2>1, <3>1, Zenon DEF Held, InCall
    <3>3. PICK v : v = proc[p].update
      OBVIOUS
    <3>4. Safe(v)'
      BY <1>0, <1>e, <1>11, <3>3 DEF Hands, Handed, Leave
    <3>5. Handed(p)'
      BY <2>1, <3>3, <3>4 DEF Handed
    <3>6. ASSUME NEW q \in Proc \ {p} PROVE Handed(q)'
      BY <1>0, <1>e, <2>1, <3>2 DEF Hands, Handed
    <3>7. \A w \in returned' : Safe(w)'
      BY <1>0, <1>e, <2>1, <3>3, <3>4 DEF Hands
    <3> QED BY <1>f, <3>5, <3>6, <3>7 DEF Hands
  <2> QED BY <2>2, <2>3, <2>4, <2>5
<1>12. ASSUME Wake(p) PROVE Goal
  <2>1. /\ proc' \in [Proc -> ProcRec]
        /\ proc'[p].pc = "idle" /\ ~proc'[p].extra /\ returned' = returned \cup {proc[p].update}
        /\ \A q \in Proc \ {p} : proc'[q] = proc[q]
    BY <1>0, <1>12 DEF Wake, Return, ProcShape, ProcRec, ProcPc
  <2>2. ProcShape'
    BY <1>0, <1>12, <2>1 DEF ProcShape, Wake, Return
  <2>3. Counted'
    <3>1. Inside' = Inside /\ inflight' = inflight
      BY <1>12, <2>1 DEF Inside, Wake
    <3> QED BY <1>0, <3>1 DEF Counted
  <2>4. ProcPlace'
    <3>1. Place(p)'
      BY <1>0, <1>12, <2>1 DEF ProcPlace, Place, InCall, Wake
    <3>2. ASSUME NEW q \in Proc \ {p} PROVE Place(q)'
      BY <1>0, <1>d, <1>12, <2>1 DEF ProcPlace, Place, Wake, Return, InCall
    <3> QED BY <3>1, <3>2 DEF ProcPlace
  <2>5. Hands'
    <3>1. UNCHANGED <<buf, attempted>> /\ ~InCall(p)
      BY <1>12 DEF Wake, Return, InCall, work, hist
    <3>2. \A v : Held(v) => Held(v)'
      BY <1>a, <2>1, <3>1 DEF Held, InCall
    <3>3. PICK v : v = proc[p].update
      OBVIOUS
    <3>4. Safe(v)'
      BY <1>0, <1>e, <1>12, <3>3 DEF Hands, Handed, Wake
    <3>5. Handed(p)'
      BY <2>1, <3>3, <3>4 DEF Handed
    <3>6. ASSUME NEW q \in Proc \ {p} PROVE Handed(q)'
      BY <1>0, <1>e, <2>1, <3>2 DEF Hands, Handed
    <3>7. \A w \in returned' : Safe(w)'
      BY <1>0, <1>e, <2>1, <3>3, <3>4 DEF Hands
    <3> QED BY <1>f, <3>5, <3>6, <3>7 DEF Hands
  <2> QED BY <2>2, <2>3, <2>4, <2>5
<1>13. Goal
  BY <1>1, <1>2, <1>3, <1>4, <1>5, <1>6, <1>7, <1>8, <1>9, <1>10, <1>11, <1>12 DEF Observe
<1> QED BY <1>c, <1>13 DEF IInv

\* The worker takes a step: it touches no goroutine and no Shutdown.
LEMMA WorkerFrame ==
    ASSUME Work
    PROVE  UNCHANGED <<setup, stop, inMap, proc, fallback, inflight, zero, shut, returned>>
  BY DEF Work, Receive, TimerFires, FlushRequest, Exit, StoreRetained, Drain, Drained, Finish,
     Compacted,
         Flushed, Flush, Stored, hist

\* The hand-over after a step of the worker, when everything safe stays safe.
LEMMA HandsCarried ==
    ASSUME Hands, UNCHANGED <<proc, returned>>, \A v : Safe(v) => Safe(v)', \A v : Held(v) => Held(v)',
           (Ending => Elems(batch) \subseteq attempted)'
    PROVE  Hands'
<1>1. ASSUME NEW p \in Proc PROVE Handed(p)'
  BY DEF Hands, Handed
<1> QED BY <1>1 DEF Hands

LEMMA WorkerStep == ASSUME IInv, Work PROVE IInv'
<1> USE PersistAssumption
<1>0. /\ QueueShape /\ ProcShape /\ RoomShape /\ Flags
      /\ Counted /\ WorkerPlace /\ ProcPlace /\ Hands /\ Owed /\ Joined
  BY DEF IInv
<1>a. UNCHANGED <<setup, stop, inMap, proc, fallback, inflight, zero, shut, returned>>
  BY WorkerFrame
<1> DEFINE Goal == /\ QueueShape' /\ RoomShape' /\ Flags' /\ WorkerPlace' /\ Owed' /\ (Done => Done')
                  /\ \A v : (Safe(v) => Safe(v)') /\ (Held(v) => Held(v)')
                  /\ (Ending => Elems(batch) \subseteq attempted)'
<1>1. ASSUME Receive PROVE Goal
  <2>0. /\ worker.pc = "loop" /\ buf' \in Seq(Update) /\ Len(buf') <= ChCap
        /\ Elems(buf) = {Head(buf)} \cup Elems(buf') /\ Head(buf) \in Update
        /\ UNCHANGED <<flushes, retire, evict, fails, attempted, stored, asked>>
    <3>1. /\ worker.pc = "loop" /\ buf # <<>> /\ buf' = Tail(buf) /\ buf \in Seq(Update) /\ Len(buf) <= ChCap
          /\ UNCHANGED <<flushes, retire, evict, fails, attempted, stored, asked>>
      BY <1>0, <1>1 DEF Receive, QueueShape, hist
    <3>2. Len(buf') = Len(buf) - 1 /\ Len(buf) \in Nat
      BY <3>1, ElemsTail
    <3> QED BY <3>1, <3>2, ElemsTail
  <2>1. CASE setup.coalesce
    <3>0. /\ batch' \in Seq(Update) /\ Elems(batch') = Elems(batch) \cup {Head(buf)}
          /\ timer' = TRUE /\ worker' = worker
      BY <1>0, <1>1, <2>0, <2>1, ElemsAppend, Zenon DEF Receive, QueueShape
    <3>1. QueueShape'
      BY <1>0, <1>a, <2>0, <2>1, <3>0 DEF QueueShape, WorkerPlace
    <3>2. RoomShape'
      BY <1>0, <1>a, <2>0, <2>1, <3>0 DEF RoomShape, QueueShape
    <3>3. Flags'
      BY <1>0, <1>a, <2>0, <2>1, <3>0 DEF Flags
    <3>4. WorkerPlace' /\ (Done => Done')
      BY <1>0, <1>a, <2>0, <2>1, <3>0 DEF WorkerPlace, QueueShape, RoomShape, Done, WorkerRec
    <3>5. Owed'
      BY <1>0, <1>a, <2>0, <2>1, <3>0, ElemsEmpty DEF Owed, WorkerPlace, QueueShape, Hands, Safe,
         Done, Ending, LastCall, WorkerRec
    <3>6. \A v : Safe(v) => Safe(v)'
      BY <1>0, <1>a, <2>0, <2>1, <3>0, ElemsEmpty DEF Safe, QueueShape, WorkerPlace, Ending,
         LastCall, Done, WorkerRec
    <3>7. \A v : Held(v) => Held(v)'
      BY <1>0, <1>a, <2>0, <2>1, <3>0, ElemsEmpty DEF Held, QueueShape, WorkerPlace, Ending,
         LastCall, Done, InCall, WorkerRec
    <3>8. (Ending => Elems(batch) \subseteq attempted)'
      BY <1>0, <1>a, <2>0, <2>1, <3>0 DEF Hands, QueueShape, WorkerPlace, Ending, LastCall, Done,
         WorkerRec
    <3> QED BY <3>1, <3>2, <3>3, <3>4, <3>5, <3>6, <3>7, <3>8
  <2>2. CASE ~setup.coalesce
    <3>0. /\ batch' = batch /\ timer' = timer /\ Elems(worker'.job) = {Head(buf)}
          /\ worker' \in WorkerRec /\ worker'.pc = "store" /\ worker'.for = "update"
          /\ worker.job = <<>>
      <4>1. worker' = [pc |-> "store", job |-> <<Head(buf)>>, for |-> "update"] /\ batch' = batch /\ timer' = timer
        BY <1>1, <2>2, Zenon DEF Receive, At
      <4>2. <<Head(buf)>> \in Seq(Update) /\ Elems(<<Head(buf)>>) = {Head(buf)}
        BY <2>0, ElemsOne
      <4>3. worker' \in WorkerRec
        BY <4>1, <4>2 DEF WorkerRec
      <4> QED BY <1>0, <2>0, <4>1, <4>2, <4>3 DEF WorkerPlace
    <3>1. QueueShape'
      BY <1>0, <1>a, <2>0, <2>2, <3>0 DEF QueueShape, WorkerPlace
    <3>2. RoomShape'
      BY <1>0, <1>a, <2>0, <2>2, <3>0, Zenon DEF RoomShape, QueueShape
    <3>3. Flags'
      BY <1>0, <1>a, <2>0, <2>2, <3>0 DEF Flags
    <3>4. WorkerPlace' /\ (Done => Done')
      BY <1>0, <1>a, <2>0, <2>2, <3>0 DEF WorkerPlace, QueueShape, RoomShape, Done, WorkerRec
    <3>5. Owed'
      BY <1>0, <1>a, <2>0, <2>2, <3>0, ElemsEmpty DEF Owed, WorkerPlace, QueueShape, Hands, Safe,
         Done, Ending, LastCall, WorkerRec
    <3>6. \A v : Safe(v) => Safe(v)'
      BY <1>0, <1>a, <2>0, <2>2, <3>0, ElemsEmpty DEF Safe, QueueShape, WorkerPlace, Ending,
         LastCall, Done, WorkerRec
    <3>7. \A v : Held(v) => Held(v)'
      BY <1>0, <1>a, <2>0, <2>2, <3>0, ElemsEmpty DEF Held, QueueShape, WorkerPlace, Ending,
         LastCall, Done, InCall, WorkerRec
    <3>8. (Ending => Elems(batch) \subseteq attempted)'
      BY <1>0, <1>a, <2>0, <2>2, <3>0 DEF Hands, QueueShape, WorkerPlace, Ending, LastCall, Done,
         WorkerRec
    <3> QED BY <3>1, <3>2, <3>3, <3>4, <3>5, <3>6, <3>7, <3>8
  <2> QED BY <2>0, <2>1, <2>2
<1>2. ASSUME TimerFires PROVE Goal
  <2>0. /\ worker.pc = "loop" /\ timer /\ timer' = FALSE /\ setup.coalesce /\ worker.for = "none"
        /\ UNCHANGED <<buf, batch, flushes, retire, evict, fails, attempted, stored, asked>>
        /\ worker.job = <<>>
    BY <1>0, <1>2 DEF TimerFires, WorkerPlace, hist
  <2>1. CASE TRUE
    <3>0. worker' \in WorkerRec /\ worker'.pc = "store" /\ worker'.job = batch /\ worker'.for = "timer"
      <4>1. worker' = [pc |-> "store", job |-> batch, for |-> "timer"] /\ batch \in Seq(Update)
        BY <1>0, <1>2 DEF TimerFires, At, QueueShape
      <4>2. <<>> \in Seq(Update)
        OBVIOUS
      <4> QED BY <4>1, <4>2 DEF WorkerRec
    <3>1. QueueShape'
      BY <1>0, <1>a, <2>0, <2>1, <3>0, ZenonT(60) DEF QueueShape, WorkerPlace
    <3>2. RoomShape'
      BY <1>0, <1>a, <2>0, <2>1, <3>0, Zenon DEF RoomShape, QueueShape
    <3>3. Flags'
      BY <1>0, <1>a, <2>0, <2>1, <3>0, ZenonT(60) DEF Flags
    <3>4. WorkerPlace' /\ (Done => Done')
      BY <1>0, <1>a, <2>0, <2>1, <3>0 DEF WorkerPlace, QueueShape, RoomShape, Done, WorkerRec
    <3>5. Owed'
      BY <1>0, <1>a, <2>0, <2>1, <3>0, ElemsEmpty DEF Owed, WorkerPlace, QueueShape, Hands, Safe,
         Done, Ending, LastCall, WorkerRec
    <3>6. \A v : Safe(v) => Safe(v)'
      BY <1>0, <1>a, <2>0, <2>1, <3>0, ElemsEmpty DEF Safe, QueueShape, WorkerPlace, Ending,
         LastCall, Done, WorkerRec
    <3>7. \A v : Held(v) => Held(v)'
      BY <1>0, <1>a, <2>0, <2>1, <3>0, ElemsEmpty, ZenonT(60) DEF Held, QueueShape, WorkerPlace, Ending,
         LastCall, Done, InCall, WorkerRec
    <3>8. (Ending => Elems(batch) \subseteq attempted)'
      BY <1>0, <1>a, <2>0, <2>1, <3>0 DEF Hands, QueueShape, WorkerPlace, Ending, LastCall, Done,
         WorkerRec
    <3> QED BY <3>1, <3>2, <3>3, <3>4, <3>5, <3>6, <3>7, <3>8
  <2> QED BY <2>0, <2>1
<1>3. ASSUME FlushRequest PROVE Goal
  <2>1. QueueShape'
    BY <1>0, <1>a, <1>3 DEF QueueShape, WorkerPlace, WorkerRec, FlushRequest, At, hist
  <2>2. RoomShape'
    BY <1>0, <1>a, <1>3 DEF RoomShape, QueueShape, FlushRequest, At, hist
  <2>3. Flags'
    BY <1>0, <1>a, <1>3 DEF Flags, FlushRequest, At, hist
  <2>4. WorkerPlace' /\ (Done => Done')
    BY <1>0, <1>a, <1>3 DEF WorkerPlace, QueueShape, RoomShape, Done, WorkerRec, FlushRequest, At,
       hist
  <2>5. Owed'
    BY <1>0, <1>a, <1>3 DEF Owed, WorkerPlace, QueueShape, Hands, Safe, Done, Ending, LastCall,
       WorkerRec, FlushRequest, At, hist
  <2>6. \A v : Safe(v) => Safe(v)'
    BY <1>0, <1>a, <1>3 DEF Safe, QueueShape, WorkerPlace, Ending, LastCall, Done, WorkerRec,
       FlushRequest, At, hist
  <2>7. \A v : Held(v) => Held(v)'
    BY <1>0, <1>a, <1>3 DEF Held, QueueShape, WorkerPlace, Ending, LastCall, Done, InCall,
       WorkerRec, FlushRequest, At, hist
  <2>8. (Ending => Elems(batch) \subseteq attempted)'
    BY <1>0, <1>a, <1>3 DEF Hands, QueueShape, WorkerPlace, Ending, LastCall, Done, WorkerRec,
       FlushRequest, At, hist
  <2> QED BY <2>1, <2>2, <2>3, <2>4, <2>5, <2>6, <2>7, <2>8
<1>4. ASSUME Exit PROVE Goal
  <2>1. QueueShape'
    BY <1>0, <1>a, <1>4 DEF QueueShape, WorkerPlace, WorkerRec, Exit, At, hist
  <2>2. RoomShape'
    BY <1>0, <1>a, <1>4 DEF RoomShape, QueueShape, Exit, At, hist
  <2>3. Flags'
    BY <1>0, <1>a, <1>4 DEF Flags, Exit, At, hist
  <2>4. WorkerPlace' /\ (Done => Done')
    BY <1>0, <1>a, <1>4 DEF WorkerPlace, QueueShape, RoomShape, Done, WorkerRec, Exit, At, hist
  <2>5. Owed'
    BY <1>0, <1>a, <1>4 DEF Owed, WorkerPlace, QueueShape, Hands, Safe, Done, Ending, LastCall,
       WorkerRec, Exit, At, hist
  <2>6. \A v : Safe(v) => Safe(v)'
    BY <1>0, <1>a, <1>4, ZenonT(60) DEF Safe, QueueShape, WorkerPlace, Ending, LastCall, Done, WorkerRec,
       Exit, At, hist
  <2>7. \A v : Held(v) => Held(v)'
    BY <1>0, <1>a, <1>4 DEF Held, QueueShape, WorkerPlace, Ending, LastCall, Done, InCall,
       WorkerRec, Exit, At, hist
  <2>8. (Ending => Elems(batch) \subseteq attempted)'
    BY <1>0, <1>a, <1>4 DEF Hands, QueueShape, WorkerPlace, Ending, LastCall, Done, WorkerRec,
       Exit, At, hist
  <2> QED BY <2>1, <2>2, <2>3, <2>4, <2>5, <2>6, <2>7, <2>8
<1>5. ASSUME StoreRetained PROVE Goal
  <2>1. QueueShape'
    BY ElemsTail, ElemsOne, ElemsEmpty, <1>0, <1>a, <1>5 DEF QueueShape, WorkerPlace, WorkerRec,
       StoreRetained, At, hist
  <2>2. RoomShape'
    BY ElemsTail, ElemsOne, ElemsEmpty, <1>0, <1>a, <1>5 DEF RoomShape, QueueShape, StoreRetained,
       At, hist
  <2>3. Flags'
    BY ElemsTail, ElemsOne, ElemsEmpty, <1>0, <1>a, <1>5 DEF Flags, StoreRetained, At, hist
  <2>4. WorkerPlace' /\ (Done => Done')
    BY ElemsTail, ElemsOne, ElemsEmpty, <1>0, <1>a, <1>5 DEF WorkerPlace, QueueShape, RoomShape,
       Done, WorkerRec, StoreRetained, At, hist
  <2>5. Owed'
    BY ElemsTail, ElemsOne, ElemsEmpty, <1>0, <1>a, <1>5, ZenonT(60) DEF Owed, WorkerPlace, QueueShape, Hands,
       Safe, Done, Ending, LastCall, WorkerRec, StoreRetained, At, hist
  <2>6. \A v : Safe(v) => Safe(v)'
    BY ElemsTail, ElemsOne, ElemsEmpty, <1>0, <1>a, <1>5 DEF Safe, QueueShape, WorkerPlace,
       Ending, LastCall, Done, WorkerRec, StoreRetained, At, hist
  <2>7. \A v : Held(v) => Held(v)'
    BY ElemsTail, ElemsOne, ElemsEmpty, <1>0, <1>a, <1>5, ZenonT(60) DEF Held, QueueShape, WorkerPlace,
       Ending, LastCall, Done, InCall, WorkerRec, StoreRetained, At, hist
  <2>8. (Ending => Elems(batch) \subseteq attempted)'
    BY ElemsTail, ElemsOne, ElemsEmpty, <1>0, <1>a, <1>5 DEF Hands, QueueShape, WorkerPlace,
       Ending, LastCall, Done, WorkerRec, StoreRetained, At, hist
  <2> QED BY <2>1, <2>2, <2>3, <2>4, <2>5, <2>6, <2>7, <2>8
<1>6. ASSUME Drain PROVE Goal
  <2>0. /\ worker.pc = "drain" /\ buf' \in Seq(Update) /\ Len(buf') <= ChCap
        /\ Elems(buf) = {Head(buf)} \cup Elems(buf') /\ Head(buf) \in Update
        /\ setup.coalesce \/ worker.for = "flush" \/ batch = <<>>
        /\ UNCHANGED <<flushes, retire, evict, fails, attempted, stored, asked>>
    <3>1. /\ worker.pc = "drain" /\ buf # <<>> /\ buf' = Tail(buf) /\ buf \in Seq(Update) /\ Len(buf) <= ChCap
          /\ setup.coalesce \/ worker.for = "flush" \/ batch = <<>>
          /\ UNCHANGED <<flushes, retire, evict, fails, attempted, stored, asked>>
      BY <1>0, <1>6 DEF Drain, QueueShape, hist
    <3>2. Len(buf') = Len(buf) - 1 /\ Len(buf) \in Nat
      BY <3>1, ElemsTail
    <3> QED BY <3>1, <3>2, ElemsTail
  <2>1. CASE setup.coalesce
    <3>0. /\ batch' \in Seq(Update) /\ Elems(batch') = Elems(batch) \cup {Head(buf)}
          /\ worker' = worker /\ timer' = timer
      BY <1>0, <1>6, <2>0, <2>1, ElemsAppend, Zenon DEF Drain, QueueShape
    <3>1. QueueShape'
      BY <1>0, <1>a, <2>0, <2>1, <3>0 DEF QueueShape, WorkerPlace
    <3>2. RoomShape'
      BY <1>0, <1>a, <2>0, <2>1, <3>0 DEF RoomShape, QueueShape
    <3>3. Flags'
      BY <1>0, <1>a, <2>0, <2>1, <3>0 DEF Flags
    <3>4. WorkerPlace' /\ (Done => Done')
      BY <1>0, <1>a, <2>0, <2>1, <3>0 DEF WorkerPlace, QueueShape, RoomShape, Done, WorkerRec
    <3>5. Owed'
      BY <1>0, <1>a, <2>0, <2>1, <3>0, ElemsEmpty, ZenonT(60) DEF Owed, WorkerPlace, QueueShape, Hands, Safe,
         Done, Ending, LastCall, WorkerRec
    <3>6. \A v : Safe(v) => Safe(v)'
      BY <1>0, <1>a, <2>0, <2>1, <3>0, ElemsEmpty DEF Safe, QueueShape, WorkerPlace, Ending,
         LastCall, Done, WorkerRec
    <3>7. \A v : Held(v) => Held(v)'
      BY <1>0, <1>a, <2>0, <2>1, <3>0, ElemsEmpty DEF Held, QueueShape, WorkerPlace, Ending,
         LastCall, Done, InCall, WorkerRec
    <3>8. (Ending => Elems(batch) \subseteq attempted)'
      BY <1>0, <1>a, <2>0, <2>1, <3>0 DEF Hands, QueueShape, WorkerPlace, Ending, LastCall, Done,
         WorkerRec
    <3> QED BY <3>1, <3>2, <3>3, <3>4, <3>5, <3>6, <3>7, <3>8
  <2>2. CASE ~setup.coalesce
    <3>0. /\ batch' = batch /\ timer' = timer /\ Elems(worker'.job) = {Head(buf)}
          /\ worker' \in WorkerRec /\ worker'.pc = "store" /\ worker'.for = worker.for
          /\ worker.job = <<>>
      <4>1. worker' = [pc |-> "store", job |-> <<Head(buf)>>, for |-> worker.for] /\ batch' = batch /\ timer' = timer
        BY <1>6, <2>2 DEF Drain, At
      <4>2. <<Head(buf)>> \in Seq(Update) /\ Elems(<<Head(buf)>>) = {Head(buf)}
        BY <2>0, ElemsOne
      <4>3. worker' \in WorkerRec
        BY <1>0, <4>1, <4>2 DEF WorkerRec, QueueShape
      <4> QED BY <1>0, <2>0, <4>1, <4>2, <4>3 DEF WorkerPlace
    <3>1. QueueShape'
      BY <1>0, <1>a, <2>0, <2>2, <3>0 DEF QueueShape, WorkerPlace
    <3>2. RoomShape'
      BY <1>0, <1>a, <2>0, <2>2, <3>0 DEF RoomShape, QueueShape
    <3>3. Flags'
      BY <1>0, <1>a, <2>0, <2>2, <3>0 DEF Flags
    <3>4. WorkerPlace' /\ (Done => Done')
      BY <1>0, <1>a, <2>0, <2>2, <3>0 DEF WorkerPlace, QueueShape, RoomShape, Done, WorkerRec
    <3>5. Owed'
      BY <1>0, <1>a, <2>0, <2>2, <3>0, ElemsEmpty, ZenonT(60) DEF Owed, WorkerPlace, QueueShape, Hands, Safe,
         Done, Ending, LastCall, WorkerRec
    <3>6. \A v : Safe(v) => Safe(v)'
      BY <1>0, <1>a, <2>0, <2>2, <3>0, ElemsEmpty DEF Safe, QueueShape, WorkerPlace, Ending,
         LastCall, Done, WorkerRec
    <3>7. \A v : Held(v) => Held(v)'
      BY <1>0, <1>a, <2>0, <2>2, <3>0, ElemsEmpty DEF Held, QueueShape, WorkerPlace, Ending,
         LastCall, Done, InCall, WorkerRec
    <3>8. (Ending => Elems(batch) \subseteq attempted)'
      BY <1>0, <1>a, <2>0, <2>2, <3>0 DEF Hands, QueueShape, WorkerPlace, Ending, LastCall, Done,
         WorkerRec
    <3> QED BY <3>1, <3>2, <3>3, <3>4, <3>5, <3>6, <3>7, <3>8
  <2> QED BY <2>0, <2>1, <2>2, Zenon
<1>7. ASSUME Drained PROVE Goal
  <2>0. /\ worker.pc = "drain" /\ buf = <<>> /\ timer' = FALSE /\ Elems(buf) = {} /\ worker.job = <<>>
        /\ setup.coalesce \/ worker.for = "flush" \/ batch = <<>>
        /\ worker.for = "flush" \/ worker.for = "exit"
        /\ UNCHANGED <<buf, batch, flushes, retire, fails, attempted, stored, asked>>
    BY <1>0, <1>7, ElemsEmpty, ZenonT(60) DEF Drained, hist, WorkerPlace
  <2>1. CASE setup.coalesce /\ batch # <<>>
    <3>0. /\ evict' = evict /\ worker' \in WorkerRec
          /\ worker'.pc = "store" /\ worker'.job = batch /\ worker'.for = worker.for
      <4>1. worker' = [pc |-> "store", job |-> batch, for |-> worker.for] /\ evict' = evict
        BY <1>7, <2>1 DEF Drained, At
      <4> QED BY <1>0, <2>0, <4>1 DEF WorkerRec, QueueShape
    <3>1. QueueShape'
      BY <1>0, <1>a, <2>0, <2>1, <3>0 DEF QueueShape, WorkerPlace
    <3>2. RoomShape'
      BY <1>0, <1>a, <2>0, <2>1, <3>0, Zenon DEF RoomShape, QueueShape
    <3>3. Flags'
      BY <1>0, <1>a, <2>0, <2>1, <3>0, ZenonT(60) DEF Flags
    <3>4. WorkerPlace' /\ (Done => Done')
      BY <1>0, <1>a, <2>0, <2>1, <3>0 DEF WorkerPlace, QueueShape, RoomShape, Done, WorkerRec
    <3>5. Owed'
      BY <1>0, <1>a, <2>0, <2>1, <3>0, ElemsEmpty, ZenonT(60) DEF Owed, WorkerPlace, QueueShape, Hands, Safe,
         Done, Ending, LastCall, WorkerRec
    <3>6. \A v : Safe(v) => Safe(v)'
      BY <1>0, <1>a, <2>0, <2>1, <3>0, ElemsEmpty DEF Safe, QueueShape, WorkerPlace, Ending,
         LastCall, Done, WorkerRec
    <3>7. \A v : Held(v) => Held(v)'
      BY <1>0, <1>a, <2>0, <2>1, <3>0, ElemsEmpty, ZenonT(60) DEF Held, QueueShape, WorkerPlace, Ending,
         LastCall, Done, InCall, WorkerRec
    <3>8. (Ending => Elems(batch) \subseteq attempted)'
      BY <1>0, <1>a, <2>0, <2>1, <3>0, ZenonT(60) DEF Hands, QueueShape, WorkerPlace, Ending, LastCall, Done,
         WorkerRec
    <3> QED BY <3>1, <3>2, <3>3, <3>4, <3>5, <3>6, <3>7, <3>8
  <2>2. CASE ~(setup.coalesce /\ batch # <<>>) /\ worker.for = "exit"
    <3>0. /\ evict' = evict /\ worker' \in WorkerRec /\ batch = <<>> /\ Elems(batch) = {}
          /\ worker'.pc = "tidy" /\ worker'.job = <<>> /\ worker'.for = "exit"
      <4>1. worker' = [pc |-> "tidy", job |-> <<>>, for |-> "exit"] /\ evict' = evict
        BY <1>7, <2>2 DEF Drained, Finish, At
      <4>2. <<>> \in Seq(Update)
        OBVIOUS
      <4>3. worker' \in WorkerRec
        BY <4>1, <4>2 DEF WorkerRec
      <4>4. batch = <<>>
        BY <2>0, <2>2
      <4> QED BY <4>1, <4>3, <4>4, ElemsEmpty
    <3>1. QueueShape'
      BY <1>0, <1>a, <2>0, <2>2, <3>0 DEF QueueShape, WorkerPlace
    <3>2. RoomShape'
      BY <1>0, <1>a, <2>0, <2>2, <3>0, Zenon DEF RoomShape, QueueShape
    <3>3. Flags'
      BY <1>0, <1>a, <2>0, <2>2, <3>0, ZenonT(60) DEF Flags
    <3>4. WorkerPlace' /\ (Done => Done')
      BY <1>0, <1>a, <2>0, <2>2, <3>0 DEF WorkerPlace, QueueShape, RoomShape, Done, WorkerRec
    <3>5. Owed'
      BY <1>0, <1>a, <2>0, <2>2, <3>0, ElemsEmpty, ZenonT(60) DEF Owed, WorkerPlace, QueueShape, Hands, Safe,
         Done, Ending, LastCall, WorkerRec
    <3>6. \A v : Safe(v) => Safe(v)'
      BY <1>0, <1>a, <2>0, <2>2, <3>0, ElemsEmpty DEF Safe, QueueShape, WorkerPlace, Ending,
         LastCall, Done, WorkerRec
    <3>7. \A v : Held(v) => Held(v)'
      BY <1>0, <1>a, <2>0, <2>2, <3>0, ElemsEmpty, ZenonT(60) DEF Held, QueueShape, WorkerPlace, Ending,
         LastCall, Done, InCall, WorkerRec
    <3>8. (Ending => Elems(batch) \subseteq attempted)'
      BY <1>0, <1>a, <2>0, <2>2, <3>0 DEF Hands, QueueShape, WorkerPlace, Ending, LastCall, Done,
         WorkerRec
    <3> QED BY <3>1, <3>2, <3>3, <3>4, <3>5, <3>6, <3>7, <3>8
  <2>3. CASE ~(setup.coalesce /\ batch # <<>>) /\ worker.for = "flush"
    <3>0. /\ evict' = [evict EXCEPT !.pc = "acked"] /\ worker' \in WorkerRec
          /\ worker'.pc = "loop" /\ worker'.job = <<>> /\ worker'.for = "none" 
      <4>1. worker' = [pc |-> "loop", job |-> <<>>, for |-> "none"] /\ evict' = [evict EXCEPT !.pc = "acked"]
        BY <1>7, <2>3 DEF Drained, Finish, At
      <4>2. <<>> \in Seq(Update)
        OBVIOUS
      <4> QED BY <4>1, <4>2 DEF WorkerRec
    <3>1. QueueShape'
      BY <1>0, <1>a, <2>0, <2>3, <3>0 DEF QueueShape, WorkerPlace
    <3>2. RoomShape'
      BY <1>0, <1>a, <2>0, <2>3, <3>0 DEF RoomShape, QueueShape
    <3>3. Flags'
      BY <1>0, <1>a, <2>0, <2>3, <3>0, Zenon DEF Flags
    <3>4. WorkerPlace' /\ (Done => Done')
      BY <1>0, <1>a, <2>0, <2>3, <3>0 DEF WorkerPlace, QueueShape, RoomShape, Done, WorkerRec
    <3>5. Owed'
      BY <1>0, <1>a, <2>0, <2>3, <3>0, ElemsEmpty DEF Owed, WorkerPlace, QueueShape, Hands, Safe,
         Done, Ending, LastCall, WorkerRec
    <3>6. \A v : Safe(v) => Safe(v)'
      BY <1>0, <1>a, <2>0, <2>3, <3>0, ElemsEmpty DEF Safe, QueueShape, WorkerPlace, Ending,
         LastCall, Done, WorkerRec
    <3>7. \A v : Held(v) => Held(v)'
      BY <1>0, <1>a, <2>0, <2>3, <3>0, ElemsEmpty DEF Held, QueueShape, WorkerPlace, Ending,
         LastCall, Done, InCall, WorkerRec
    <3>8. (Ending => Elems(batch) \subseteq attempted)'
      BY <1>0, <1>a, <2>0, <2>3, <3>0 DEF Hands, QueueShape, WorkerPlace, Ending, LastCall, Done,
         WorkerRec
    <3> QED BY <3>1, <3>2, <3>3, <3>4, <3>5, <3>6, <3>7, <3>8
  <2> QED BY <2>0, <2>1, <2>2, <2>3, ZenonT(60)
<1>8. ASSUME Compacted PROVE Goal
  <2>1. QueueShape'
    BY <1>0, <1>a, <1>8 DEF QueueShape, WorkerPlace, WorkerRec, Compacted, At, hist
  <2>2. RoomShape'
    BY <1>0, <1>a, <1>8 DEF RoomShape, QueueShape, Compacted, At, hist
  <2>3. Flags'
    BY <1>0, <1>a, <1>8 DEF Flags, Compacted, At, hist
  <2>4. WorkerPlace' /\ (Done => Done')
    BY <1>0, <1>a, <1>8 DEF WorkerPlace, QueueShape, RoomShape, Done, WorkerRec, Compacted, At, hist
  <2>5. Owed'
    BY <1>0, <1>a, <1>8 DEF Owed, WorkerPlace, QueueShape, Hands, Safe, Done, Ending, LastCall,
       WorkerRec, Compacted, At, hist
  <2>6. \A v : Safe(v) => Safe(v)'
    BY <1>0, <1>a, <1>8 DEF Safe, QueueShape, WorkerPlace, Ending, LastCall, Done, WorkerRec,
       Compacted, At, hist
  <2>7. \A v : Held(v) => Held(v)'
    BY <1>0, <1>a, <1>8 DEF Held, QueueShape, WorkerPlace, Ending, LastCall, Done, InCall,
       WorkerRec, Compacted, At, hist
  <2>8. (Ending => Elems(batch) \subseteq attempted)'
    BY <1>0, <1>a, <1>8 DEF Hands, QueueShape, WorkerPlace, Ending, LastCall, Done, WorkerRec,
       Compacted, At, hist
  <2> QED BY <2>1, <2>2, <2>3, <2>4, <2>5, <2>6, <2>7, <2>8
<1>9. ASSUME NEW us \in SUBSET Elems(worker.job), Flushed(us) PROVE Goal
  <2>1. QueueShape'
    <3>1. \/ worker' = [pc |-> "tidy", job |-> <<>>, for |-> worker.for]
          \/ worker' = [pc |-> "loop", job |-> <<>>, for |-> "none"]
      BY <1>9, Zenon DEF Flushed, Flush, At
    <3>2. worker' \in WorkerRec
      <4>1. <<>> \in Seq(Update)
        OBVIOUS
      <4>2. worker.for \in {"none", "update", "timer", "flush", "exit"}
        BY <1>0 DEF WorkerRec, QueueShape
      <4>3. CASE worker' = [pc |-> "tidy", job |-> <<>>, for |-> worker.for]
        BY <4>1, <4>2, <4>3 DEF WorkerRec
      <4>4. CASE worker' = [pc |-> "loop", job |-> <<>>, for |-> "none"]
        BY <4>1, <4>4 DEF WorkerRec
      <4> QED BY <3>1, <4>3, <4>4
    <3>3. batch' \in Seq(Update) /\ buf' = buf
      <4>1. (batch' = <<>> \/ batch' = batch) /\ buf' = buf
        BY <1>9 DEF Flushed, Flush
      <4>2. <<>> \in Seq(Update) /\ batch \in Seq(Update)
        BY <1>0 DEF QueueShape
      <4> QED BY <4>1, <4>2, Zenon
    <3>4. /\ flushes' = 0 \/ flushes' = flushes \/ (flushes' = flushes + 1 /\ ~(flushes + 1 >= setup.compact))
          /\ setup.compact \in Nat /\ flushes \in 0 .. setup.compact
      BY <1>0, <1>9 DEF Flushed, Flush, QueueShape
    <3>5. flushes' \in 0 .. setup.compact
      BY <3>4
    <3> QED BY <1>0, <1>a, <3>2, <3>3, <3>5 DEF QueueShape
  <2>2. RoomShape'
    <3>1. fails' = fails \/ (fails' = fails + 1 /\ fails < setup.fails)
      BY <1>9 DEF Flushed, Flush
    <3>2. setup.fails \in Nat
      BY <1>0 DEF QueueShape
    <3>3. fails' \in 0 .. setup.fails
      BY <1>0, <3>1, <3>2 DEF RoomShape
    <3>4. /\ (us = Elems(worker.job)) \in BOOLEAN
          /\ \/ evict' = evict
             \/ evict' = [pc |-> "wait", ok |-> (us = Elems(worker.job))]
             \/ evict' = [pc |-> "acked", ok |-> (us = Elems(worker.job))]
      BY <1>9, Zenon DEF Flushed, Flush
    <3>5. evict' \in [pc : {"idle", "ask", "wait", "acked", "gone"}, ok : BOOLEAN]
      <4>1. PICK b \in BOOLEAN : b = (us = Elems(worker.job))
        BY Zenon
      <4>2. \/ evict' = evict
            \/ evict' = [pc |-> "wait", ok |-> b]
            \/ evict' = [pc |-> "acked", ok |-> b]
        BY <3>4, <4>1, Zenon
      <4> QED BY <1>0, <4>2 DEF RoomShape
    <3> QED BY <1>0, <1>a, <3>3, <3>5 DEF RoomShape
  <2>3. Flags'
    BY ElemsEmpty, <1>0, <1>a, <1>9, ZenonT(60) DEF Flags, Flushed, Flush, At, hist
  <2>4. WorkerPlace' /\ (Done => Done')
    BY ElemsEmpty, <1>0, <1>a, <1>9, ZenonT(60) DEF WorkerPlace, QueueShape, RoomShape, Done, WorkerRec,
       Flushed, Flush, At, hist
  <2>5. Owed'
    BY ElemsEmpty, <1>0, <1>a, <1>9, ZenonT(60) DEF Owed, WorkerPlace, QueueShape, Hands, Safe, Done, Ending,
       LastCall, WorkerRec, Flushed, Flush, At, hist
  <2>6. \A v : Safe(v) => Safe(v)'
    BY ElemsEmpty, <1>0, <1>a, <1>9, ZenonT(60) DEF Safe, QueueShape, WorkerPlace, Ending, LastCall, Done,
       WorkerRec, Flushed, Flush, At, hist
  <2>7. \A v : Held(v) => Held(v)'
    BY ElemsEmpty, <1>0, <1>a, <1>9, ZenonT(60) DEF Held, QueueShape, WorkerPlace, Ending, LastCall, Done,
       InCall, WorkerRec, Flushed, Flush, At, hist
  <2>8. (Ending => Elems(batch) \subseteq attempted)'
    BY ElemsEmpty, <1>0, <1>a, <1>9, Zenon DEF Hands, QueueShape, WorkerPlace, Ending, LastCall, Done,
       WorkerRec, Flushed, Flush, At, hist
  <2> QED BY <2>1, <2>2, <2>3, <2>4, <2>5, <2>6, <2>7, <2>8
<1>10. ASSUME NEW ok \in BOOLEAN, NEW aborted \in BOOLEAN, Stored(ok, aborted) PROVE Goal
  <2>1. QueueShape'
    <3>1. \/ worker' = [pc |-> "loop", job |-> <<>>, for |-> "none"]
          \/ worker' = [pc |-> "drain", job |-> <<>>, for |-> worker.for]
      BY <1>10 DEF Stored, At
    <3>2. worker' \in WorkerRec
      <4>1. <<>> \in Seq(Update)
        OBVIOUS
      <4>2. worker.for \in {"none", "update", "timer", "flush", "exit"}
        BY <1>0 DEF WorkerRec, QueueShape
      <4>3. CASE worker' = [pc |-> "drain", job |-> <<>>, for |-> worker.for]
        BY <4>1, <4>2, <4>3 DEF WorkerRec
      <4>4. CASE worker' = [pc |-> "loop", job |-> <<>>, for |-> "none"]
        BY <4>1, <4>4, Zenon DEF WorkerRec
      <4> QED BY <3>1, <4>3, <4>4, Zenon
    <3>3. batch \in Seq(Update) /\ worker.job \in Seq(Update)
      BY <1>0 DEF QueueShape, WorkerRec
    <3>4. batch' \in Seq(Update) /\ UNCHANGED <<buf, flushes>>
      BY <1>10, <3>3, ElemsConcat DEF Stored
    <3> QED BY <1>0, <1>a, <3>2, <3>4 DEF QueueShape
  <2>2. RoomShape'
    <3>1. fails' = fails \/ (fails' = fails + 1 /\ fails < setup.fails)
      BY <1>10 DEF Stored
    <3>2. setup.fails \in Nat
      BY <1>0 DEF QueueShape
    <3>3. fails' \in 0 .. setup.fails
      BY <1>0, <3>1, <3>2 DEF RoomShape
    <3>4. (evict.ok /\ ok) \in BOOLEAN
      OBVIOUS
    <3>5. evict' \in [pc : {"idle", "ask", "wait", "acked", "gone"}, ok : BOOLEAN]
      BY <1>0, <1>10, <3>4 DEF RoomShape, Stored
    <3> QED BY <1>0, <1>a, <3>3, <3>5 DEF RoomShape
  <2>3. Flags'
    BY ElemsConcat, ElemsEmpty, <1>0, <1>a, <1>10 DEF Flags, Stored, At, hist
  <2>4. WorkerPlace' /\ (Done => Done')
    BY ElemsConcat, ElemsEmpty, <1>0, <1>a, <1>10 DEF WorkerPlace, QueueShape, RoomShape, Done,
       WorkerRec, Stored, At, hist
  <2>5. Owed'
    BY ElemsConcat, ElemsEmpty, <1>0, <1>a, <1>10 DEF Owed, WorkerPlace, QueueShape, Hands, Safe,
       Done, Ending, LastCall, WorkerRec, Stored, At, hist
  <2>6. \A v : Safe(v) => Safe(v)'
    <3>1. batch \in Seq(Update) /\ worker.job \in Seq(Update)
      BY <1>0 DEF QueueShape, WorkerRec
    <3>2. /\ buf' = buf /\ attempted \subseteq attempted' /\ ~Ending' /\ ~LastCall' /\ worker.pc = "store"
          /\ Elems(batch) \subseteq Elems(batch')
          /\ Elems(worker.job) \subseteq attempted' \cup Elems(batch')
      BY <1>0, <1>10, <3>1, ElemsConcat DEF Stored, At, Ending, LastCall, Done, WorkerPlace
    <3> QED BY <3>2 DEF Safe
  <2>7. \A v : Held(v) => Held(v)'
    BY ElemsConcat, ElemsEmpty, <1>0, <1>a, <1>10 DEF Held, QueueShape, WorkerPlace, Ending,
       LastCall, Done, InCall, WorkerRec, Stored, At, hist
  <2>8. (Ending => Elems(batch) \subseteq attempted)'
    BY ElemsConcat, ElemsEmpty, <1>0, <1>a, <1>10 DEF Hands, QueueShape, WorkerPlace, Ending,
       LastCall, Done, WorkerRec, Stored, At, hist
  <2> QED BY <2>1, <2>2, <2>3, <2>4, <2>5, <2>6, <2>7, <2>8
<1>11. Goal
  BY <1>1, <1>2, <1>3, <1>4, <1>5, <1>6, <1>7, <1>8, <1>9, <1>10, Zenon DEF Work
<1>12. ProcShape' /\ ProcPlace' /\ Counted'
  BY <1>0, <1>a, <1>11, ProcKept
<1>13. Hands'
  BY <1>0, <1>a, <1>11, HandsCarried
<1>14. Joined'
  BY <1>0, <1>a, <1>11 DEF Joined
<1> QED BY <1>11, <1>12, <1>13, <1>14 DEF IInv

----------------------------------------------------------------------------

LEMMA InitInv == Init => IInv
<1> SUFFICES ASSUME Init PROVE IInv
  OBVIOUS
<1> USE PersistAssumption
<1>1. QueueShape /\ worker.job = <<>> /\ worker.pc = "loop" /\ worker.for = "none"
  <2>1. <<>> \in Seq(Update) /\ Len(<<>>) = 0
    OBVIOUS
  <2>2. worker = [pc |-> "loop", job |-> <<>>, for |-> "none"]
    BY DEF Init, At
  <2>3. worker \in WorkerRec
    BY <2>1, <2>2 DEF WorkerRec
  <2>4. setup \in Setups /\ setup.compact \in Nat
    BY DEF Init
  <2>5. buf = <<>> /\ batch = <<>> /\ flushes = 0
    BY DEF Init
  <2>6. flushes \in 0 .. setup.compact
    BY <2>4, <2>5
  <2>7. Len(buf) <= ChCap
    BY <2>1, <2>5
  <2>8. QueueShape
    BY <2>1, <2>3, <2>4, <2>5, <2>6, <2>7, Zenon DEF QueueShape
  <2> QED BY <2>2, <2>8
<1>2. ProcShape
  BY DEF Init, ProcShape, ProcRec, ProcPc
<1>3. RoomShape
  <2>1. setup.fails \in Nat
    BY DEF Init
  <2>2. zero \in Nat /\ fails \in 0 .. setup.fails /\ returned \subseteq Update
    <3>1. zero = 0 /\ fails = 0 /\ returned = {}
      BY DEF Init
    <3> QED BY <2>1, <3>1
  <2>3. evict \in [pc : {"idle", "ask", "wait", "acked", "gone"}, ok : BOOLEAN]
    BY DEF Init
  <2>4. shut \in [pc : {"idle", "closed", "join", "latched", "sleep", "returned", "expired"},
                  latch : Nat, found : BOOLEAN, joins : BOOLEAN]
    BY DEF Init
  <2> QED BY <2>2, <2>3, <2>4 DEF RoomShape
<1>4. Flags
  BY ZenonT(60) DEF Init, Flags
<1>5. Counted
  <2>1. Inside = {}
    BY DEF Init, Inside
  <2> QED BY <2>1, CountNone DEF Init, Counted
<1>6. WorkerPlace
  BY <1>1, ZenonT(60) DEF Init, WorkerPlace, Done
<1>7. ProcPlace
  BY DEF Init, ProcPlace, Place, InCall
<1>8. Hands
  BY <1>1, ZenonT(60) DEF Init, Hands, Handed, Ending, Done
<1>9. Owed /\ Joined
  BY Zenon DEF Init, Owed, Joined
<1> QED BY <1>1, <1>2, <1>3, <1>4, <1>5, <1>6, <1>7, <1>8, <1>9 DEF IInv

(* A step of an observer is one of ObserverFrame's and ObserverStep's. *)
LEMMA ObserverKeeps ==
    ASSUME IInv, NEW p \in Proc, Observe(p) \/ \E u \in Update : Commit(p, u)
    PROVE  IInv' /\ evict' = evict /\ shut' = shut
<1>1. CASE \E u \in Update : Commit(p, u)
  BY <1>1, ObserverStep, ObserverFrame
<1>2. CASE Observe(p)
  <2>1. proc[p].pc # "idle"
    BY <1>2, Zenon DEF Observe, Send, Retired, Recheck, Strand, TakeStranded, TakeExtra, Unlock,
       PutStranded,
                PutExtra, Leave, Wake
  <2>2. proc[p].update \in Update
    BY <2>1 DEF IInv, ProcPlace, Place
  <2> QED BY <1>2, <2>2, ObserverStep, ObserverFrame
<1> QED BY <1>1, <1>2

LEMMA NextInv == IInv /\ [Next]_vars => IInv'
<1> SUFFICES ASSUME IInv, [Next]_vars PROVE IInv'
  OBVIOUS
<1>1. CASE UNCHANGED vars
  <2>1. /\ UNCHANGED <<setup, buf, batch, timer, worker, flushes, retire>>
        /\ UNCHANGED <<stop, inMap, proc, fallback, inflight, zero, evict, shut>>
        /\ UNCHANGED <<fails, returned, attempted, stored, asked>>
    BY <1>1 DEF vars, work, hist
  <2>2. QueueShape' /\ ProcShape' /\ RoomShape' /\ Counted'
    BY <2>1 DEF IInv, QueueShape, ProcShape, RoomShape, Counted, Inside
  <2>3. Flags'
    BY <2>1 DEF IInv, Flags
  <2>4. WorkerPlace' /\ ProcPlace'
    BY <2>1, ZenonT(60) DEF IInv, WorkerPlace, ProcPlace, Place, Done, InCall
  <2>5. Hands'
    BY <2>1, Zenon DEF IInv, Hands, Handed, Safe, Held, InCall, Ending, LastCall, Done
  <2>6. Owed' /\ Joined'
    BY <2>1 DEF IInv, Owed, Joined, Done
  <2> QED BY <2>2, <2>3, <2>4, <2>5, <2>6 DEF IInv
<1>2. ASSUME NEW p \in setup.procs, Observe(p) \/ \E u \in Update : Commit(p, u) PROVE IInv'
  <2>1. p \in Proc
    BY <1>2, PersistAssumption DEF IInv, QueueShape
  <2> QED BY <1>2, <2>1, ObserverKeeps
<1>3. CASE Work
  BY <1>3, WorkerStep
<1>4. CASE Teardown \/ WorkerGone \/ Evict \/ KeepRoom \/ CloseRoom \/ CloseShutdownCh \/ Shutdown \/ Expire
  BY <1>4, RoomStep
<1> QED BY <1>1, <1>2, <1>3, <1>4 DEF Next

----------------------------------------------------------------------------

(* From the commit to the adapter an update is always in somebody's hands,    *)
(* the worker's exit included, and the adapter is called by one goroutine at  *)
(* a time (startPersistenceWorker, persistStranded): for every room.          *)
THEOREM HandOverHolds == Spec => []HandOver
<1>1. IInv => HandOver
  <2> SUFFICES ASSUME IInv PROVE HandOver
    OBVIOUS
  <2>0. /\ QueueShape /\ ProcShape /\ RoomShape /\ Flags
        /\ Counted /\ WorkerPlace /\ ProcPlace /\ Hands /\ Owed
    BY DEF IInv
  <2>1. TypeOK
    <3>1. /\ buf \in Seq(Update) /\ Len(buf) <= ChCap /\ batch \in Seq(Update) /\ flushes \in 0 .. setup.compact
          /\ worker.pc \in {"loop", "drain", "store", "tidy", "done"} /\ worker.job \in Seq(Update)
      BY <2>0 DEF QueueShape, WorkerRec
    <3>2. /\ \A p \in Proc : proc[p].update \in Update \cup {None} /\ proc[p].call \in Update \cup {None}
          /\ fallback \in Proc \cup {None}
      BY <2>0 DEF ProcShape, ProcRec
    <3>3. inflight \in Nat /\ ExistsBijection(1 .. inflight, {p \in Proc : proc[p].pc \notin {"idle", "wake"}})
      BY <2>0 DEF Counted, Inside
    <3>4. zero \in Nat /\ fails \in 0 .. setup.fails /\ returned \subseteq Update /\ stored \subseteq attempted \cup Elems(batch)
      BY <2>0 DEF RoomShape, Owed
    <3> QED BY <2>0, <3>1, <3>2, <3>3, <3>4, Zenon DEF TypeOK, Flags
  <2>2. NothingStranded
    BY <2>0 DEF Hands, Safe, Ending, NothingStranded
  <2>3. Carried
    BY <2>0 DEF Hands, Safe, Carried
  <2>4. SerialCalls
    BY <2>0, PersistAssumption DEF ProcPlace, Place, InCall, SerialCalls, Done
  <2> QED BY <2>1, <2>2, <2>3, <2>4 DEF HandOver
<1> QED BY InitInv, NextInv, <1>1, PTL DEF Spec

(* On the coalescing path a flush is acknowledged with true only when every   *)
(* commit that had returned when it was asked for is stored.                  *)
THEOREM FlushBarrierHolds == Spec => FlushBarrier
<1> DEFINE Act == setup.coalesce /\ evict.pc = "wait" /\ evict'.pc = "acked" /\ evict'.ok => asked \subseteq stored'
<1>1. IInv /\ [Next]_vars => [Act]_vars
  <2> SUFFICES ASSUME IInv, Next, setup.coalesce, evict.pc = "wait", evict'.pc = "acked", evict'.ok
               PROVE  asked \subseteq stored'
    BY DEF Act
  <2>0. QueueShape /\ WorkerPlace /\ Hands /\ Owed /\ RoomShape
    BY DEF IInv
  <2>1. Work
    <3>1. evict' # evict
      OBVIOUS
    <3>2. ASSUME NEW p \in setup.procs, Observe(p) \/ \E u \in Update : Commit(p, u) PROVE evict' = evict
      <4>1. p \in Proc
        BY PersistAssumption DEF IInv, QueueShape
      <4> QED BY <3>2, <4>1, ObserverKeeps
    <3>3. ~(Teardown \/ WorkerGone \/ Evict \/ KeepRoom \/ CloseRoom \/ CloseShutdownCh \/ Shutdown \/ Expire)
      BY <3>1 DEF Teardown, WorkerGone, Evict, KeepRoom, CloseRoom, CloseShutdownCh, Shutdown,
         Snapshot, Latch,
             CheckStranded, Expire
    <3> QED BY <3>1, <3>2, <3>3 DEF Next
  <2>2. worker.for = "flush" /\ ~retire
    BY <2>0 DEF WorkerPlace, Done
  <2>3. CASE Drained
    <3>1. /\ worker.pc = "drain" /\ buf = <<>> /\ batch = <<>> /\ worker.job = <<>> /\ stored' = stored
      BY <2>0, <2>2, <2>3 DEF Drained, WorkerPlace, hist
    <3>2. \A u \in returned : u \in attempted
      BY <2>0, <2>2, <3>1, ElemsEmpty DEF Hands, Safe
    <3> QED BY <2>0, <2>2, <3>1, <3>2 DEF Owed
  <2>4. ASSUME NEW us \in SUBSET Elems(worker.job), Flushed(us) PROVE asked \subseteq stored'
    <3>1. us = Elems(worker.job) /\ worker.pc = "store" /\ stored' = stored \cup us
      BY <2>2, <2>4, Zenon DEF Flushed, Flush
    <3>2. worker.job = batch /\ attempted \subseteq stored
      BY <2>0, <2>2, <3>1, Zenon DEF WorkerPlace, Owed
    <3>3. asked \subseteq attempted \cup Elems(batch)
      BY <2>0, <3>1 DEF Owed
    <3> QED BY <3>1, <3>2, <3>3
  <2>5. CASE Compacted
    BY <2>0, <2>5 DEF Compacted, Owed, hist
  <2>6. ~(Receive \/ TimerFires \/ FlushRequest \/ Exit \/ StoreRetained \/ Drain)
    BY DEF Receive, TimerFires, FlushRequest, Exit, StoreRetained, Drain
  <2>7. ~ \E ok, aborted \in BOOLEAN : Stored(ok, aborted)
    BY DEF Stored
  <2> QED BY <2>1, <2>3, <2>4, <2>5, <2>6, <2>7 DEF Work
<1> QED BY InitInv, NextInv, <1>1, PTL DEF Spec, FlushBarrier

(* When Shutdown returns nil for a room it joined, every returned commit was  *)
(* handed to the adapter and no late writer is in a call (waitStranded).      *)
THEOREM ShutdownCoversHolds == Spec => ShutdownCovers
<1> DEFINE Act == shut.pc # "returned" /\ shut'.pc = "returned" /\ shut.joins
                  => returned \subseteq attempted /\ \A p \in Proc : ~InCall(p)
<1>1. IInv /\ [Next]_vars => [Act]_vars
  <2> SUFFICES ASSUME IInv, Next, shut.pc # "returned", shut'.pc = "returned", shut.joins
               PROVE  returned \subseteq attempted /\ \A p \in Proc : ~InCall(p)
    BY DEF Act
  <2>0. ProcShape /\ Counted /\ Hands /\ Joined
    BY DEF IInv
  <2>1. CheckStranded
    <3>1. ASSUME NEW p \in setup.procs, Observe(p) \/ \E u \in Update : Commit(p, u) PROVE shut' = shut
      <4>1. p \in Proc
        BY PersistAssumption DEF IInv, QueueShape
      <4> QED BY <3>1, <4>1, ObserverKeeps
    <3>2. ASSUME Work PROVE shut' = shut
      BY <3>2, WorkerFrame
    <3>3. ASSUME Teardown \/ WorkerGone \/ Evict \/ KeepRoom \/ CloseRoom PROVE shut' = shut
      BY <3>3 DEF Teardown, WorkerGone, Evict, KeepRoom, CloseRoom
    <3>4. ~(CloseShutdownCh \/ Snapshot \/ Latch \/ Expire)
      <4>1. shut \in [pc : {"idle", "closed", "join", "latched", "sleep", "returned", "expired"},
                      latch : Nat, found : BOOLEAN, joins : BOOLEAN]
        BY DEF IInv, RoomShape
      <4>2. ~CloseShutdownCh
        BY <4>1, ZenonT(60) DEF CloseShutdownCh
      <4>3. ~Snapshot
        <5>1. ASSUME Snapshot PROVE shut'.pc = "join"
          BY <4>1, <5>1 DEF Snapshot
        <5> QED BY <5>1
      <4>4. ~Latch
        <5>1. ASSUME Latch PROVE shut'.pc = "latched"
          BY <4>1, <5>1 DEF Latch
        <5> QED BY <5>1
      <4>5. ~Expire
        BY <4>1 DEF Expire
      <4> QED BY <4>2, <4>3, <4>4, <4>5
    <3> QED BY <3>1, <3>2, <3>3, <3>4 DEF Next, Shutdown
  <2>2. shut.pc = "latched" /\ inflight = 0
    <3>1. shut.pc = "latched"
      BY <2>1 DEF CheckStranded
    <3>2. shut' = [shut EXCEPT !.pc = IF inflight = 0 THEN "returned" ELSE "sleep"]
      BY <2>1 DEF CheckStranded
    <3>3. shut \in [pc : {"idle", "closed", "join", "latched", "sleep", "returned", "expired"},
                    latch : Nat, found : BOOLEAN, joins : BOOLEAN]
      BY DEF IInv, RoomShape
    <3> QED BY <3>1, <3>2, <3>3
  <2>3. Inside = {}
    <3>1. ExistsBijection(1 .. 0, Inside)
      BY <2>0, <2>2 DEF Counted
    <3> QED BY <3>1, CountZero
  <2>4. \A p \in Proc : ~InCall(p)
    BY <2>3 DEF Inside, InCall
  <2>5. returned \subseteq attempted
    BY <2>0, <2>2 DEF Joined, Hands, Safe, Ending
  <2> QED BY <2>4, <2>5
<1> QED BY InitInv, NextInv, <1>1, PTL DEF Spec, ShutdownCovers
============================================================================
