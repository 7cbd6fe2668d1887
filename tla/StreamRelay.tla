----------------------------- MODULE StreamRelay -----------------------------
(***************************************************************************)
(* cluster/redis, the Redis Streams tier, for one room of one node: the    *)
(* other nodes append to the room's sync and awareness streams, a reader   *)
(* goroutine XREADs both, and hands what it read to the room's delivery    *)
(* worker, which injects it into the server.  The server activates and     *)
(* deactivates the room meanwhile, one activation per room instance; the   *)
(* worker an activation creates carries that instance's name.  A stream    *)
(* keeps every entry ever added, with `cut` entries removed by trimming.   *)
(* Instances are numbered as they are activated, the other nodes' payloads *)
(* as they are first published; this node's own payloads are all Mine.     *)
(***************************************************************************)
EXTENDS Naturals, Sequences, FiniteSets, SequencesExt

CONSTANTS
    LaneCap,  \* capacity of a delivery lane
    Setups    \* the situations considered, records of
              \*   payloads   how many updates another node publishes
              \*   own        how many updates this node publishes
              \*   bad        payloads with which MergeUpdatesV1 fails
              \*   pubs       how many goroutines of the other node publish
              \*   insts      how many local room instances there will be
              \*   entries    maxEntriesPerStream
              \*   presence   bound on awareness entries
              \*   events     which of the once-only events may happen

ASSUME StreamAssumption ==
    /\ LaneCap \in Nat \ {0}
    /\ \A s \in Setups :
         /\ s.payloads \in Nat /\ s.own \in Nat /\ s.insts \in Nat /\ s.presence \in Nat
         /\ s.bad \subseteq 1 .. s.payloads /\ s.pubs \in Nat \ {0} /\ s.entries \in Nat \ {0}
         /\ s.events \subseteq {"trim", "restart", "xadd", "inject", "evict", "read", "close"}

VARIABLES
    setup,          \* the one of Setups this behaviour is about
    log, cut,       \* the sync stream: entries ever added, how many are trimmed
    aws,            \* the awareness stream: entry k is the k-th ever added
    pub, seq,       \* the other node: what each goroutine is publishing, its seqs counter
    inst, mu,       \* each instance's state; the holder of Relay.mu
    active,         \* activeRooms = streamRooms, the room's reference count
    resident,       \* workers[room]
    worker,         \* each worker's goroutine state, lane, awareness cursor, what it
                    \* is injecting, and how long the awareness stream was when it
                    \* became the room's worker and when it ceased to be
    reader,         \* the reader goroutine
    cursor,         \* cursors[sync key]
    lastSeq,        \* lastSeq[the other node]: <<known, last, afterDecrease>>
    gaps, restarts, \* StreamStats
    closed,         \* Relay.closed; "returned" once Close has returned
    delivered,      \* payloads Inject has applied
    atRisk,         \* payloads trimmed while still past the cursor
    dropped,        \* payloads the lane hard-dropped or a failing Inject lost
    happened        \* events used up

nodeVars == <<setup, log, cut, aws, pub, seq, atRisk>>
roomVars == <<inst, mu, active, resident>>
readVars == <<reader, cursor, lastSeq, gaps, restarts>>
workVars == <<worker, delivered, dropped>>
vars == <<nodeVars, roomVars, readVars, workVars, closed, happened>>

None == 0
Mine == 0
Payload == 1 .. setup.payloads
Pub == 1 .. setup.pubs
Inst == 1 .. setup.insts

Once(e) == e \in setup.events \ happened /\ happened' = happened \cup {e}

IdleReader == [pc |-> "top", from |-> 0, awFrom |-> 0, res |-> None, w |-> None,
               batch |-> <<>>, awLast |-> 0]
NoWorker == [st |-> "none", q |-> <<>>, aw |-> 0, awCur |-> None, born |-> 0, ended |-> 0,
             inj |-> {}, injAw |-> 0, busy |-> FALSE]

Init ==
    /\ setup \in Setups
    /\ log = <<>> /\ cut = 0 /\ aws = 0 /\ seq = 0 /\ atRisk = {}
    /\ pub = [g \in Pub |-> [val |-> None, seq |-> 0]]
    /\ inst = [i \in Inst |-> "new"] /\ mu = None /\ active = 0 /\ resident = None
    /\ worker = [i \in Inst |-> NoWorker]
    /\ reader = IdleReader /\ cursor = 0 /\ lastSeq = <<FALSE, 0, FALSE>>
    /\ gaps = 0 /\ restarts = 0 /\ closed = "open"
    /\ delivered = {} /\ dropped = {} /\ happened = {}

(***************************************************************************)
(* Publishing and trimming.                                                *)
(***************************************************************************)

Vals(s) == {s[k].val : k \in DOMAIN s}

Fresh == Payload \ (Vals(log) \cup {pub[g].val : g \in Pub})

\* publishStream, up to nextSeq: the counter is taken before the XADD.
NextSeq(g) ==
    /\ pub[g].val = None /\ Fresh # {}
    /\ seq' = seq + 1 /\ pub' = [pub EXCEPT ![g] = [val |-> Min(Fresh), seq |-> seq + 1]]
    /\ UNCHANGED <<setup, log, cut, aws, atRisk, closed, happened>>
    /\ UNCHANGED roomVars /\ UNCHANGED readVars /\ UNCHANGED workVars

\* ... and its XADD, which either lands or fails.
XAdd(g) ==
    /\ pub[g].val # None
    /\ pub' = [pub EXCEPT ![g].val = None]
    /\ \/ log' = Append(log, [own |-> FALSE, seq |-> pub[g].seq, val |-> pub[g].val])
          /\ UNCHANGED happened
       \/ Once("xadd") /\ UNCHANGED log
    /\ UNCHANGED <<setup, cut, aws, seq, atRisk, closed>>
    /\ UNCHANGED roomVars /\ UNCHANGED readVars /\ UNCHANGED workVars

\* This node's own Publish; Close makes it return ErrRelayClosed.
PublishOwn ==
    /\ closed = "open" /\ Len(SelectSeq(log, LAMBDA e : e.own)) < setup.own
    /\ log' = Append(log, [own |-> TRUE, seq |-> 0, val |-> Mine])
    /\ UNCHANGED <<setup, cut, aws, pub, seq, atRisk, closed, happened>>
    /\ UNCHANGED roomVars /\ UNCHANGED readVars /\ UNCHANGED workVars

\* The other node publishes presence.
XAddAwareness ==
    /\ aws < setup.presence /\ aws' = aws + 1
    /\ UNCHANGED <<setup, log, cut, pub, seq, atRisk, closed, happened>>
    /\ UNCHANGED roomVars /\ UNCHANGED readVars /\ UNCHANGED workVars

\* The other node restarts under the same NodeID: its counters start over, and
\* an XADD under way is lost or still lands, among those of the new process.
Restart ==
    /\ Once("restart")
    /\ seq' = 0
    /\ \E lost \in SUBSET Pub :
         pub' = [g \in Pub |-> IF g \in lost THEN [val |-> None, seq |-> 0] ELSE pub[g]]
    /\ UNCHANGED <<setup, log, cut, aws, atRisk, closed>>
    /\ UNCHANGED roomVars /\ UNCHANGED readVars /\ UNCHANGED workVars

\* MAXLEN or the MINID sweep (trimOnce on whichever node) removes the oldest.
Trim ==
    /\ Once("trim")
    /\ \E n \in cut + 1 .. Len(log) :
         /\ cut' = n
         /\ atRisk' = atRisk \cup {log[k].val : k \in {j \in 1 .. n : j > cursor /\ ~log[j].own}}
    /\ UNCHANGED <<setup, log, aws, pub, seq, closed>>
    /\ UNCHANGED roomVars /\ UNCHANGED readVars /\ UNCHANGED workVars

(***************************************************************************)
(* RoomActivated and RoomDeactivated: under Relay.mu, the assignment count *)
(* first, then the worker is created, before the SUBSCRIBE, or stopped,    *)
(* after the UNSUBSCRIBE.                                                  *)
(***************************************************************************)

RoomActivated(i) ==
    /\ inst[i] = "new" /\ mu = None /\ \A j \in 1 .. i - 1 : inst[j] # "new"
    /\ inst' = [inst EXCEPT ![i] = "on"]
    /\ IF closed = "open"
         THEN /\ active' = active + 1
              /\ mu' = IF active = 0 THEN i ELSE None
         ELSE UNCHANGED <<active, mu>>
    /\ UNCHANGED <<resident, closed, happened>>
    /\ UNCHANGED nodeVars /\ UNCHANGED readVars /\ UNCHANGED workVars

\* workerFor, from RoomActivated.
WorkerFor(i) ==
    /\ mu = i /\ inst[i] = "on" /\ resident = None
    /\ worker' = [worker EXCEPT ![i].st = "live", ![i].born = aws]
    /\ resident' = i /\ mu' = None
    /\ UNCHANGED <<inst, active, delivered, dropped, closed, happened>>
    /\ UNCHANGED nodeVars /\ UNCHANGED readVars

RoomDeactivated(i) ==
    /\ inst[i] = "on" /\ mu = None
    /\ inst' = [inst EXCEPT ![i] = "off"]
    /\ IF closed = "open" /\ active > 0
         THEN active' = active - 1 /\ mu' = IF active = 1 THEN i ELSE None
         ELSE UNCHANGED <<active, mu>>
    /\ UNCHANGED <<resident, closed, happened>>
    /\ UNCHANGED nodeVars /\ UNCHANGED readVars /\ UNCHANGED workVars

\* stopWorker, from RoomDeactivated: the worker is told to drain and exit.
StopWorker(i) ==
    /\ mu = i /\ inst[i] = "off"
    /\ worker' = [worker EXCEPT ![resident].st = "stopped", ![resident].ended = aws]
    /\ resident' = None /\ mu' = None
    /\ UNCHANGED <<inst, active, delivered, dropped, closed, happened>>
    /\ UNCHANGED nodeVars /\ UNCHANGED readVars

(***************************************************************************)
(* The reader goroutine.                                                   *)
(***************************************************************************)

\* readBatch resolves both positions, and issues the XREAD.
ReadBatch ==
    /\ reader.pc = "top" /\ closed = "open" /\ active > 0
    /\ reader' = [IdleReader EXCEPT
         !.pc = "xread", !.from = cursor, !.res = resident,
         !.awFrom = IF resident = None \/ worker[resident].awCur = None
                      THEN aws ELSE worker[resident].awCur]
    /\ UNCHANGED <<cursor, lastSeq, gaps, restarts, closed, happened>>
    /\ UNCHANGED nodeVars /\ UNCHANGED roomVars /\ UNCHANGED workVars

MinOf(a, b) == IF a <= b THEN a ELSE b
MaxOf(a, b) == IF a >= b THEN a ELSE b

\* The XREAD returns what is past each position; nothing, when its block time
\* expires first; or an error.
XRead ==
    /\ reader.pc = "xread"
    /\ LET from == MaxOf(reader.from, cut)
           got == from < Len(log) \/ reader.awFrom < aws
       IN  \/ /\ got
              /\ reader' = [reader EXCEPT
                    !.pc = "sync", !.from = from, !.awLast = IF aws > reader.awFrom THEN aws ELSE 0,
                    !.batch = SubSeq(log, from + 1, MinOf(from + setup.entries, Len(log)))]
              /\ UNCHANGED happened
           \/ ~got /\ reader' = IdleReader /\ UNCHANGED happened
           \/ Once("read") /\ reader' = IdleReader
    /\ UNCHANGED <<cursor, lastSeq, gaps, restarts, closed>>
    /\ UNCHANGED nodeVars /\ UNCHANGED roomVars /\ UNCHANGED workVars

\* The foreign entries of a read, in stream order.
Foreign(batch) == SelectSeq(batch, LAMBDA e : ~e.own)

NoteJumpAfterDecrease(s, n) ==
    [seq |-> <<TRUE, n, s.seq[1] /\ n < s.seq[2]>>,
     restarts |-> s.restarts + IF s.seq[1] /\ n < s.seq[2] THEN 1 ELSE 0,
     gaps |-> s.gaps + IF s.seq[1] /\ (n < s.seq[2] \/ n > s.seq[2] + 1) THEN 1 ELSE 0]

\* noteSeq: the first is a baseline, a decrease a restart, and a jump a gap
\* unless the entry before it was a decrease.
NoteSeq(s, n) ==
    LET known == s.seq[1]
        decreased == known /\ n < s.seq[2]
        jumped == known /\ n > s.seq[2] + 1 /\ ~s.seq[3]
    IN  [seq |-> <<TRUE, n, decreased>>,
         restarts |-> s.restarts + IF decreased THEN 1 ELSE 0,
         gaps |-> s.gaps + IF jumped THEN 1 ELSE 0]

\* handleStream on the sync entries: without a worker, or with a full lane,
\* they stay under the cursor; else their sequence numbers are noted.
HandleSync ==
    /\ reader.pc = "sync"
    /\ IF reader.batch = <<>> \/ resident = None \/ Len(worker[resident].q) >= LaneCap
         THEN reader' = [reader EXCEPT !.pc = "aw"] /\ UNCHANGED <<lastSeq, gaps, restarts>>
         ELSE LET s == FoldLeft(LAMBDA a, e : NoteSeq(a, e.seq),
                                [seq |-> lastSeq, restarts |-> restarts, gaps |-> gaps],
                                Foreign(reader.batch))
              IN  /\ reader' = [reader EXCEPT !.pc = "push", !.w = resident]
                  /\ lastSeq' = s.seq /\ restarts' = s.restarts /\ gaps' = s.gaps
    /\ UNCHANGED <<cursor, closed, happened>>
    /\ UNCHANGED nodeVars /\ UNCHANGED roomVars /\ UNCHANGED workVars

Mergeable(q) == UNION {q[k] : k \in DOMAIN q} \cap setup.bad = {}
Merged(q) == UNION {q[k] : k \in DOMAIN q}

\* Lane.Push of one sync payload onto [q, drop], with its coalescing.
LanePush(l, p) ==
    LET q == Append(l.q, p)
    IN  CASE Len(q) <= LaneCap -> [l EXCEPT !.q = q]
          [] Len(q) > LaneCap /\ Mergeable(q) -> [l EXCEPT !.q = <<Merged(q)>>]
          [] OTHER -> IF Len(q) > 2 * LaneCap
                        THEN [q |-> Tail(q), drop |-> l.drop \cup Head(q)]
                        ELSE [l EXCEPT !.q = q]

\* pushSync: one merged update if the entries merge, else one by one.
PushSync ==
    /\ reader.pc = "push"
    /\ LET entries == Foreign(reader.batch)
           single == [k \in DOMAIN entries |-> {entries[k].val}]
           blobs == IF Mergeable(single) /\ entries # <<>> THEN <<Merged(single)>> ELSE single
           l == FoldLeft(LanePush, [q |-> worker[reader.w].q, drop |-> dropped], blobs)
       IN  worker' = [worker EXCEPT ![reader.w].q = l.q] /\ dropped' = l.drop
    /\ reader' = [reader EXCEPT !.pc = "check"]
    /\ UNCHANGED <<cursor, lastSeq, gaps, restarts, delivered, closed, happened>>
    /\ UNCHANGED nodeVars /\ UNCHANGED roomVars

ApplyBlind ==
    /\ reader.pc = "check"
    /\ cursor' = reader.from + Len(reader.batch)
    /\ reader' = [reader EXCEPT !.pc = "aw"]
    /\ UNCHANGED <<lastSeq, gaps, restarts, closed, happened>>
    /\ UNCHANGED nodeVars /\ UNCHANGED roomVars /\ UNCHANGED workVars

ApplyNever ==
    /\ reader.pc = "check"
    /\ cursor' = IF Foreign(reader.batch) = <<>> THEN reader.from + Len(reader.batch) ELSE cursor
    /\ reader' = [reader EXCEPT !.pc = "aw"]
    /\ UNCHANGED <<lastSeq, gaps, restarts, closed, happened>>
    /\ UNCHANGED nodeVars /\ UNCHANGED roomVars /\ UNCHANGED workVars

\* applySync, after the push: the cursor moves only if the worker is still the
\* room's, or if there was nothing to push.
ApplySync ==
    /\ reader.pc = "check"
    /\ cursor' = IF Foreign(reader.batch) = <<>> \/ resident = reader.w
                   THEN reader.from + Len(reader.batch) ELSE cursor
    /\ reader' = [reader EXCEPT !.pc = "aw"]
    /\ UNCHANGED <<lastSeq, gaps, restarts, closed, happened>>
    /\ UNCHANGED nodeVars /\ UNCHANGED roomVars /\ UNCHANGED workVars

HandleAwarenessUnfenced ==
    /\ reader.pc = "aw"
    /\ IF reader.awLast # 0 /\ resident # None
         THEN /\ worker' = [worker EXCEPT ![resident].awCur = reader.awLast]
              /\ reader' = [reader EXCEPT !.pc = "awpush", !.res = resident]
         ELSE reader' = IdleReader /\ UNCHANGED worker
    /\ UNCHANGED <<cursor, lastSeq, gaps, restarts, delivered, dropped, closed, happened>>
    /\ UNCHANGED nodeVars /\ UNCHANGED roomVars

\* handleStream on the awareness entries, and deliverAwareness up to its
\* unlock: accepted only for the residency the read was issued for.
HandleAwareness ==
    /\ reader.pc = "aw"
    /\ IF reader.awLast # 0 /\ reader.res # None /\ resident = reader.res
         THEN /\ worker' = [worker EXCEPT ![resident].awCur = reader.awLast]
              /\ reader' = [reader EXCEPT !.pc = "awpush"]
         ELSE reader' = IdleReader /\ UNCHANGED worker
    /\ UNCHANGED <<cursor, lastSeq, gaps, restarts, delivered, dropped, closed, happened>>
    /\ UNCHANGED nodeVars /\ UNCHANGED roomVars

\* ... and its push of the last entry into the lane's awareness slot.
PushAwareness ==
    /\ reader.pc = "awpush"
    /\ worker' = [worker EXCEPT ![reader.res].aw = reader.awLast]
    /\ reader' = IdleReader
    /\ UNCHANGED <<cursor, lastSeq, gaps, restarts, delivered, dropped, closed, happened>>
    /\ UNCHANGED nodeVars /\ UNCHANGED roomVars

\* The reader's loop sees the relay closed.
ReaderExit ==
    /\ reader.pc = "top" /\ closed # "open"
    /\ reader' = [reader EXCEPT !.pc = "exited"]
    /\ UNCHANGED <<cursor, lastSeq, gaps, restarts, closed, happened>>
    /\ UNCHANGED nodeVars /\ UNCHANGED roomVars /\ UNCHANGED workVars

\* setCursor or noteSeq for some other room, at the limit of its map, drops
\* what is kept for a room that is not assigned.
EvictStale ==
    /\ active = 0 /\ Once("evict")
    /\ \/ cursor' = 0 /\ UNCHANGED lastSeq
       \/ lastSeq' = <<FALSE, 0, FALSE>> /\ UNCHANGED cursor
    /\ UNCHANGED <<reader, gaps, restarts, closed>>
    /\ UNCHANGED nodeVars /\ UNCHANGED roomVars /\ UNCHANGED workVars

(***************************************************************************)
(* The delivery workers, and Close.                                        *)
(***************************************************************************)

\* drainLane takes from the lane: the whole backlog if it merges, else its
\* oldest payload; or the awareness slot.  (Its strict alternation is the
\* choice between the two when both are pending.)
Take(w) ==
    /\ worker[w].st \in {"live", "stopped"} /\ ~worker[w].busy /\ closed = "open"
    /\ LET q == worker[w].q IN
       \/ /\ q # <<>>
          /\ worker' = [worker EXCEPT ![w].busy = TRUE,
               ![w].inj = IF Mergeable(q) THEN Merged(q) ELSE Head(q),
               ![w].q = IF Mergeable(q) THEN <<>> ELSE Tail(q)]
       \/ /\ worker[w].aw # 0
          /\ worker' = [worker EXCEPT ![w].busy = TRUE, ![w].injAw = worker[w].aw, ![w].aw = 0]
    /\ UNCHANGED <<delivered, dropped, closed, happened>>
    /\ UNCHANGED nodeVars /\ UNCHANGED roomVars /\ UNCHANGED readVars

\* Sink.Inject returns; an error is logged and the payload is gone.
Inject(w) ==
    /\ worker[w].busy
    /\ \/ delivered' = delivered \cup worker[w].inj /\ UNCHANGED happened
          /\ UNCHANGED dropped
       \/ Once("inject") /\ worker[w].inj # {} /\ UNCHANGED delivered
          /\ dropped' = dropped \cup worker[w].inj
    /\ worker' = [worker EXCEPT ![w].busy = FALSE, ![w].inj = {}, ![w].injAw = 0]
    /\ UNCHANGED closed
    /\ UNCHANGED nodeVars /\ UNCHANGED roomVars /\ UNCHANGED readVars

\* runRoomWorker returns when it was stopped, after its final drain, or on Close.
MayExit(w) ==
    /\ ~worker[w].busy
    /\ \/ worker[w].st = "stopped" /\ worker[w].q = <<>> /\ worker[w].aw = 0
       \/ worker[w].st \in {"live", "stopped"} /\ closed # "open"

WorkerExit(w) ==
    /\ MayExit(w)
    /\ worker' = [worker EXCEPT ![w].st = "exited"]
    /\ UNCHANGED <<delivered, dropped, closed, happened>>
    /\ UNCHANGED nodeVars /\ UNCHANGED roomVars /\ UNCHANGED readVars

\* Close raises the flag under Relay.mu ...
Close ==
    /\ mu = None /\ closed = "open" /\ Once("close") /\ closed' = "closed"
    /\ UNCHANGED nodeVars /\ UNCHANGED roomVars /\ UNCHANGED readVars /\ UNCHANGED workVars

\* ... and returns once every goroutine has exited.
CloseReturns ==
    /\ closed = "closed" /\ reader.pc = "exited"
    /\ \A w \in Inst : worker[w].st \in {"none", "exited"}
    /\ closed' = "returned" /\ UNCHANGED happened
    /\ UNCHANGED nodeVars /\ UNCHANGED roomVars /\ UNCHANGED readVars /\ UNCHANGED workVars

ReaderStep ==
    \/ ReadBatch \/ XRead \/ HandleSync \/ PushSync \/ ApplySync
    \/ HandleAwareness \/ PushAwareness \/ ReaderExit
WorkerStep(w) == Take(w) \/ Inject(w) \/ WorkerExit(w)
RoomStep(i) == WorkerFor(i) \/ StopWorker(i)

Next ==
    \/ \E g \in Pub : NextSeq(g) \/ XAdd(g)
    \/ PublishOwn \/ XAddAwareness \/ Restart \/ Trim \/ EvictStale
    \/ \E i \in Inst : RoomActivated(i) \/ RoomDeactivated(i) \/ RoomStep(i)
    \/ ReaderStep
    \/ \E w \in Inst : WorkerStep(w)
    \/ Close \/ CloseReturns

Spec == Init /\ [][Next]_vars

\* When each goroutine can take a step.
ReaderCan == reader.pc # "exited" /\ (reader.pc = "top" /\ closed = "open" => active > 0)
WorkerCan(w) ==
    /\ w \in Inst
    /\ \/ worker[w].busy \/ MayExit(w)
       \/ /\ worker[w].st \in {"live", "stopped"} /\ closed = "open"
          /\ worker[w].q # <<>> \/ worker[w].aw # 0
CloseCan ==
    /\ closed = "closed" /\ reader.pc = "exited"
    /\ \A w \in Inst : worker[w].st \in {"none", "exited"}

(***************************************************************************)
(* Weak fairness of ReaderStep, of each WorkerStep, of RoomStep and of      *)
(* CloseReturns: goroutines that can run do.  Nobody is obliged to publish, *)
(* to activate or deactivate a room, or to Close.                           *)
(***************************************************************************)
FairSpec ==
    /\ Spec
    /\ []<>~ReaderCan \/ []<><<reader' # reader>>_reader
    /\ \A w \in UNION {1 .. s.insts : s \in Setups} :
         []<>~WorkerCan(w) \/ []<><<WorkerCan(w) /\ worker'[w].busy # worker[w].busy>>_worker
    /\ []<>(mu = None) \/ []<><<mu' # mu>>_mu
    /\ <>[]~CloseCan

(***************************************************************************)
(* Properties.                                                             *)
(***************************************************************************)

\* The shapes of the state.
TypeOK ==
    /\ \A k \in DOMAIN log : log[k].val \in Payload \cup {Mine} /\ log[k].seq \in Nat
    /\ cut \in 0 .. Len(log) /\ cursor \in 0 .. Len(log) /\ active \in 0 .. setup.insts
    /\ resident \in Inst \cup {None} /\ mu \in Inst \cup {None}
    /\ closed \in {"open", "closed", "returned"}
    /\ \A s \in {delivered, dropped, atRisk} : s \subseteq Payload \cup {Mine}

\* What a worker that still runs will inject.
InHand == UNION {Merged(worker[w].q) \cup worker[w].inj :
                   w \in {x \in Inst : worker[x].st \in {"live", "stopped"}}}

\* Delivery is at-least-once within the retention window (docs/CLUSTERING.md):
\* while the relay is open, an entry of another node that the sync cursor has
\* passed was injected, or is in the hands of a worker that will inject it, or
\* was trimmed from the stream before the cursor reached it.  Only an error of
\* Inject, or a lane that cannot merge its backlog, loses one.
AtLeastOnce ==
    /\ closed = "open" =>
         \A k \in 1 .. cursor :
           ~log[k].own => log[k].val \in delivered \cup InHand \cup atRisk \cup dropped
    /\ setup.bad = {} /\ "inject" \notin happened => dropped = {}

\* What this node publishes never comes back to it as a remote change.
NoEcho == Mine \notin delivered \cup InHand

\* Gaps counts provable losses: it is raised only if an entry really was
\* trimmed before the reader's cursor reached it (StreamStats.Gaps).  With one
\* publishing goroutine and no failed XADD: publishes that overlap may land out
\* of order, and an XADD that fails has used up a number.
GapsHonest == setup.pubs = 1 /\ "xadd" \notin happened /\ gaps > 0 => atRisk # {}

\* A loss in the middle of what was read is reported: if entries the reader
\* noted surround one that was trimmed unread and no number ever went back,
\* Gaps is raised.  For one residency: a batch declined at a hand-over has been
\* noted although it will be read again.
LossReported ==
    LET unread == {k \in 1 .. cursor : ~log[k].own /\ log[k].val \notin delivered \cup InHand \cup dropped}
    IN  (/\ setup.insts = 1 /\ closed = "open" /\ restarts = 0 /\ happened \cap {"restart", "evict", "inject"} = {}
         /\ \E k \in unread, j \in 1 .. cursor, m \in 1 .. cursor :
              /\ j < k /\ k < m /\ ~log[j].own /\ ~log[m].own
              /\ log[j].val \notin atRisk /\ log[m].val \in delivered \cup InHand)
        => gaps > 0

\* Outside Relay.mu, a room that is active has its worker, whichever order the
\* instances activate and deactivate in, and a room that is not has none.
ActiveHasWorker ==
    mu = None =>
      /\ (active > 0) <=> (resident # None)
      /\ resident # None => worker[resident].st = "live" \/ closed # "open"
      /\ closed = "open" => active = Cardinality({i \in Inst : inst[i] = "on"})

\* Presence is never replayed: what a worker injects, and what waits in its
\* lane, was published while that worker was the room's, and what waits is newer
\* than what is being injected.  So no XREAD of one residency feeds the lane of
\* the next, and a retired worker's final drain brings nothing published after
\* its time.  That drain may still reach the next occupants of the room: "the
\* payload half is narrowed, not closed" (deliverAwareness).
PresenceOfResidency ==
    \A w \in Inst :
      LET p == worker[w]
      IN  /\ \A k \in {p.aw, p.injAw} \ {0} : p.born < k /\ (p.st = "stopped" => k <= p.ended)
          /\ p.aw # 0 => p.injAw < p.aw

\* Nothing fires after Close has returned: no goroutine is left to inject.
QuietAfterClose ==
    closed = "returned" =>
      /\ reader.pc = "exited"
      /\ \A w \in Inst : ~worker[w].busy /\ worker[w].st \in {"none", "exited"}

\* Everything another node appends is injected in the end, or was trimmed
\* unread or lost by a failing Inject, if the room stays resident and open.
Delivered ==
    \/ []<>(active = 0 \/ closed # "open")
    \/ <>[](\A k \in DOMAIN log : log[k].own \/ log[k].val \in delivered \cup dropped \cup atRisk)

\* Close returns.
CloseFinishes == <>[](closed # "closed")

\* Between the stream and the server an entry is always in somebody's custody,
\* an active room has a worker, and this node's own entries stay out.
Custody == TypeOK /\ AtLeastOnce /\ NoEcho /\ ActiveHasWorker

\* Gaps is raised only by a loss, and by a loss between entries that were read.
GapsTrue == GapsHonest /\ LossReported

\* Everything arrives while the relay is open; Close returns, and quietly.
Progress == Delivered /\ CloseFinishes /\ []QuietAfterClose
=============================================================================
