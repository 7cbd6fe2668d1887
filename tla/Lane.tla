-------------------------------- MODULE Lane --------------------------------
(***************************************************************************)
(* internal/relaylane: the outbound queue that both the server's relay and *)
(* the client put between a commit and the network.  Producers never       *)
(* block: a sync backlog is merged when it passes the capacity, awareness  *)
(* keeps only the latest blob, and the wake-up signal has room for one.    *)
(* A push is two steps (the critical section, then notify), so a producer  *)
(* can be overtaken between them.  A batch is the set of updates merged    *)
(* into one blob; merging fails when the backlog holds an unmergeable one. *)
(* The lane is one of a running server: a worker whose context or room has *)
(* ended discards or drains it once more and exits, which is left out.     *)
(***************************************************************************)
EXTENDS Naturals, Sequences

CONSTANTS
    Producer,
    Update,       \* sync updates; each is pushed once
    Unmergeable,  \* updates with which MergeUpdatesV1 fails
    Cap,          \* the lane's capacity
    MaxAw         \* bound on awareness pushes

ASSUME LaneAssumption ==
    /\ Cap \in Nat \ {0} /\ MaxAw \in Nat
    /\ Unmergeable \subseteq Update

VARIABLES
    syncQ,       \* Lane.syncQ: a sequence of batches
    aw,          \* the version of Lane.aw; 0 for hasAw = FALSE
    signal,      \* is the capacity-one channel full?
    coalesced, superseded, hardDrops,    \* the atomic counters
    notifying,   \* producers between Unlock and notify
    phase,       \* the consumer: parked in its select, or at TakeSync or TakeAwareness
    pushed,      \* updates pushed so far
    awPushed,    \* awareness versions pushed so far
    pushes, takes, awTakes,              \* how many pushes and takes there were
    delivered,   \* updates the consumer has taken
    lost,        \* updates hard-dropped
    awSeen       \* the last awareness version taken

vars == <<syncQ, aw, signal, coalesced, superseded, hardDrops, notifying, phase,
          pushed, awPushed, pushes, takes, awTakes, delivered, lost, awSeen>>

syncVars == <<syncQ, coalesced, hardDrops, pushed, pushes, takes, delivered, lost>>
awVars == <<aw, superseded, awPushed, awTakes, awSeen>>

Batches(q) == {q[k] : k \in DOMAIN q}
Updates(q) == UNION Batches(q)
Mergeable(q) == Updates(q) \cap Unmergeable = {}

Init ==
    /\ syncQ = <<>> /\ aw = 0 /\ signal = FALSE
    /\ coalesced = 0 /\ superseded = 0 /\ hardDrops = 0
    /\ notifying = {} /\ phase = "parked"
    /\ pushed = {} /\ awPushed = 0 /\ pushes = 0 /\ takes = 0 /\ awTakes = 0
    /\ delivered = {} /\ lost = {} /\ awSeen = 0

CollapseDropsOnError(q) ==
    IF Mergeable(q)
      THEN /\ syncQ' = <<Updates(q)>> /\ coalesced' = coalesced + (Len(q) - 1)
           /\ UNCHANGED <<hardDrops, lost>>
      ELSE /\ syncQ' = Tail(q) /\ UNCHANGED <<coalesced, hardDrops, lost>>

\* collapseLocked: one merged blob; if merging fails keep everything, and only
\* past twice the capacity drop the oldest.
Collapse(q) ==
    IF Mergeable(q)
      THEN /\ syncQ' = <<Updates(q)>>
           /\ coalesced' = coalesced + (Len(q) - 1)
           /\ UNCHANGED <<hardDrops, lost>>
      ELSE IF Len(q) > 2 * Cap
        THEN /\ syncQ' = Tail(q)
             /\ hardDrops' = hardDrops + 1
             /\ lost' = lost \cup Head(q)
             /\ UNCHANGED coalesced
        ELSE syncQ' = q /\ UNCHANGED <<coalesced, hardDrops, lost>>

\* Push(KindSync), the critical section.
PushSync(p, u) ==
    /\ p \notin notifying /\ u \notin pushed
    /\ pushed' = pushed \cup {u} /\ pushes' = pushes + 1
    /\ LET q == Append(syncQ, {u})
       IN  IF Len(q) > Cap
             THEN Collapse(q)
             ELSE syncQ' = q /\ UNCHANGED <<coalesced, hardDrops, lost>>
    /\ notifying' = notifying \cup {p}
    /\ UNCHANGED <<signal, phase, takes, delivered>> /\ UNCHANGED awVars

\* Push(KindAwareness), the critical section: the latest blob only.
PushAwareness(p) ==
    /\ p \notin notifying /\ awPushed < MaxAw
    /\ awPushed' = awPushed + 1
    /\ superseded' = IF aw # 0 THEN superseded + 1 ELSE superseded
    /\ aw' = awPushed + 1
    /\ notifying' = notifying \cup {p}
    /\ UNCHANGED <<signal, phase, awTakes, awSeen>> /\ UNCHANGED syncVars

\* notify: a non-blocking send on the capacity-one channel.
Notify(p) ==
    /\ p \in notifying
    /\ notifying' = notifying \ {p}
    /\ signal' = TRUE
    /\ UNCHANGED phase /\ UNCHANGED syncVars /\ UNCHANGED awVars

\* The consumer's select receives from Signal().
Wake ==
    /\ phase = "parked" /\ signal
    /\ phase' = "sync" /\ signal' = FALSE
    /\ UNCHANGED notifying /\ UNCHANGED syncVars /\ UNCHANGED awVars

TakeSyncRequeues ==
    /\ phase = "sync" /\ syncQ # <<>>
    /\ IF Len(syncQ) = 1
         THEN syncQ' = <<>> /\ delivered' = delivered \cup Head(syncQ) /\ takes' = takes + 1
         ELSE syncQ' = Append(Tail(syncQ), Head(syncQ)) /\ UNCHANGED <<delivered, takes>>
    /\ UNCHANGED <<signal, notifying, phase, pushed, pushes, coalesced, hardDrops, lost>>
    /\ UNCHANGED awVars

\* TakeSync: the whole backlog merged, or its oldest batch if it cannot be.
TakeSync ==
    /\ phase = "sync" /\ syncQ # <<>>
    /\ takes' = takes + 1
    /\ IF Len(syncQ) = 1 \/ ~Mergeable(syncQ)
         THEN /\ delivered' = delivered \cup Head(syncQ)
              /\ syncQ' = Tail(syncQ) /\ coalesced' = coalesced
         ELSE /\ delivered' = delivered \cup Updates(syncQ)
              /\ syncQ' = <<>> /\ coalesced' = coalesced + (Len(syncQ) - 1)
    /\ UNCHANGED <<signal, notifying, phase, pushed, pushes, hardDrops, lost>>
    /\ UNCHANGED awVars

\* TakeSync reports false: the drain goes on to TakeAwareness.
SyncEmpty ==
    /\ phase = "sync" /\ syncQ = <<>>
    /\ phase' = "aw"
    /\ UNCHANGED <<signal, notifying>> /\ UNCHANGED syncVars /\ UNCHANGED awVars

\* TakeAwareness, after which the drain looks for sync work again.
TakeAwareness ==
    /\ phase = "aw" /\ aw # 0
    /\ awSeen' = aw /\ aw' = 0 /\ awTakes' = awTakes + 1
    /\ phase' = "sync"
    /\ UNCHANGED <<superseded, awPushed, signal, notifying>>
    /\ UNCHANGED syncVars

\* TakeAwareness reports false too: back to the select, whatever was pushed
\* since TakeSync looked.
Park ==
    /\ phase = "aw" /\ aw = 0
    /\ phase' = "parked"
    /\ UNCHANGED <<signal, notifying>> /\ UNCHANGED syncVars /\ UNCHANGED awVars

Consume == Wake \/ TakeSync \/ SyncEmpty \/ TakeAwareness \/ Park

Next ==
    \/ \E p \in Producer :
          \/ \E u \in Update : PushSync(p, u)
          \/ PushAwareness(p)
          \/ Notify(p)
    \/ Consume

Spec == Init /\ [][Next]_vars

\* The consumer goroutine keeps running and a producer that has unlocked the
\* lane goes on to notify.
FairSpec == Spec /\ WF_vars(Consume) /\ \A p \in Producer : WF_vars(Notify(p))

(***************************************************************************)
(* Properties                                                              *)
(***************************************************************************)
\* The lane's state has the shape the code gives it.
TypeOK ==
    /\ syncQ \in Seq(SUBSET Update) /\ aw \in Nat /\ signal \in BOOLEAN
    /\ coalesced \in Nat /\ superseded \in Nat /\ hardDrops \in Nat
    /\ notifying \subseteq Producer /\ phase \in {"parked", "sync", "aw"}
    /\ pushed \subseteq Update /\ awPushed \in Nat
    /\ pushes \in Nat /\ takes \in Nat /\ awTakes \in Nat
    /\ delivered \subseteq Update /\ lost \subseteq Update /\ awSeen \in Nat

\* No update disappears between a push and a take except by a hard drop, and
\* every blob that entered is accounted for by exactly one of the counters.
Conserved ==
    /\ pushed = delivered \cup Updates(syncQ) \cup lost
    /\ pushes = Len(syncQ) + coalesced + hardDrops + takes

\* The backlog never exceeds twice the capacity, whatever merging does.
Bounded == Len(syncQ) <= 2 * Cap

\* No wake-up is missed: while anything is queued, the consumer has yet to look
\* for it, is signalled, or a producer is about to signal it.  A sync push that
\* lands between the two takes of the drain is covered by its signal alone.
NoMissedWakeup ==
    /\ syncQ # <<>> => phase = "sync" \/ signal \/ notifying # {}
    /\ aw # 0 => phase # "parked" \/ signal \/ notifying # {}

\* Awareness is latest-wins: the consumer never sees an older version after a
\* newer one, what is queued or was last taken is the newest pushed, and the
\* superseded counter explains every version that was never sent.
LatestPresence ==
    /\ IF aw # 0 THEN aw = awPushed /\ awSeen < aw ELSE awSeen = awPushed
    /\ awPushed = superseded + awTakes + (IF aw # 0 THEN 1 ELSE 0)

\* Everything pushed is eventually taken, unless it was hard-dropped.
Drains == \A u \in Update : u \in pushed ~> u \in delivered \cup lost

\* All of it at once, which is an inductive invariant: nothing is lost unseen,
\* the backlog is bounded, no wake-up is missed, and presence is the latest.
Sound == TypeOK /\ Conserved /\ Bounded /\ NoMissedWakeup /\ LatestPresence
=============================================================================
