------------------------------ MODULE SqlStore ------------------------------
(***************************************************************************)
(* persistence/sqlite, one room: a table of updates by version and a table *)
(* with the checkpoint of a prune.  Writers hold s.mu, but each of their   *)
(* transactions is a step of its own and the process may crash, or the     *)
(* statement fail, between two of them.  Reads take no lock and each is    *)
(* one statement or one read transaction, so it sees one committed state.  *)
(* `mem` is MemoryPersistence given the same calls.                        *)
(***************************************************************************)
EXTENDS MemStore

CONSTANTS
    Edit,        \* the updates
    MaxVersion,  \* bound on versions
    None         \* no row

VARIABLES
    setup,     \* setup.sources: what callers roll back to, "version", "snapshot"
    rows,      \* updates: version -> data
    ckpt,      \* checkpoints.target
    snap,      \* the row of snapshots under one name
    op,        \* the operation that holds s.mu
    mem, hist  \* the reference store; the head state when each version was appended

vars == <<rows, ckpt, snap, op, mem, hist>>

Idle == [do |-> "idle"]
Only(f, S) == [v \in S |-> f[v]]

\* clampSQL, clampedHead and mergedUpTo on the tables t.
Clamped(t) == {v \in DOMAIN t.rows : t.ckpt = None \/ v <= t.ckpt}
ClampedHead(t) == IF Clamped(t) = {} THEN 0
                  ELSE CHOOSE v \in Clamped(t) : \A w \in Clamped(t) : w <= v
MergedUpTo(t, v) == UNION {t.rows[w] : w \in {x \in Clamped(t) : x <= v}}

Tables == [rows |-> rows, ckpt |-> ckpt]
Head == ClampedHead(Tables)
Load == MergedUpTo(Tables, Head)

Init ==
    /\ rows = [v \in {} |-> {}] /\ ckpt = None /\ snap = None /\ op = Idle
    /\ mem = MEmpty /\ hist = [v \in {} |-> {}]

\* AppendUpdate takes the lock.
AppendUpdate(u) ==
    /\ op = Idle /\ op' = [do |-> "append", update |-> u]
    /\ UNCHANGED <<rows, ckpt, snap, mem, hist>>

FinishPruneAfterHead ==
    /\ op.do \in {"append", "compact", "prune"} /\ ckpt # None
    /\ ckpt' = None
    /\ op' = IF op.do = "prune" THEN Idle ELSE op
    /\ UNCHANGED <<rows, snap, mem, hist>>

\* recoverInterruptedPrune, and phase 2 of PruneAfter: one transaction.
FinishPrune ==
    /\ op.do \in {"append", "compact", "prune"} /\ ckpt # None
    /\ rows' = Only(rows, {v \in DOMAIN rows : v <= ckpt}) /\ ckpt' = None
    /\ op' = IF op.do = "prune" THEN Idle ELSE op
    /\ UNCHANGED <<snap, mem, hist>>

\* The INSERT, one past the highest version in the table.
Insert ==
    /\ op.do = "append" /\ ckpt = None
    /\ Head < MaxVersion
    /\ rows' = [v \in DOMAIN rows \cup {Head + 1} |-> IF v = Head + 1 THEN {op.update} ELSE rows[v]]
    /\ hist' = [v \in DOMAIN hist \cup {Head + 1} |->
                  IF v = Head + 1 THEN Load \cup {op.update} ELSE hist[v]]
    /\ mem' = MAppend(mem, op.update) /\ op' = Idle
    /\ UNCHANGED <<ckpt, snap>>

\* PruneAfter, phase 1: from here on readers are clamped to the target.
PruneAfter(target, state) ==
    /\ op = Idle
    /\ op' = [do |-> "prune", target |-> target, state |-> state]
    /\ ckpt' = target
    /\ hist' = Only(hist, {v \in DOMAIN hist : v <= target})
    /\ mem' = MPruneAfter(mem, target)
    /\ UNCHANGED <<rows, snap>>

\* What a caller rolls back to: nothing, a listed version with what
\* MaterializeAt gives for it, or a named snapshot and its version.
Rollback ==
    \/ PruneAfter(0, {})
    \/ \E t \in Clamped(Tables) : PruneAfter(t, MergedUpTo(Tables, t))
    \/ "snapshot" \in setup.sources /\ snap # None /\ PruneAfter(snap.version, snap.state)

\* Compact takes the lock ...
Compact(keep) ==
    /\ op = Idle /\ op' = [do |-> "compact", keep |-> keep]
    /\ UNCHANGED <<rows, ckpt, snap, mem, hist>>

\* ... and folds in one transaction, which has the shape of the reference's.
Fold ==
    /\ op.do = "compact" /\ ckpt = None
    /\ rows' = MCompact([recs |-> rows, next |-> 0], op.keep).recs
    /\ mem' = MCompact(mem, op.keep)
    /\ hist' = Only(hist, DOMAIN hist \cap DOMAIN rows') /\ op' = Idle
    /\ UNCHANGED <<ckpt, snap>>

CaptureSnapshot ==
    /\ op = Idle /\ snap' = [version |-> Head, state |-> Load]
    /\ UNCHANGED <<rows, ckpt, op, mem, hist>>

Delete ==
    /\ op = Idle
    /\ rows' = [v \in {} |-> {}] /\ ckpt' = None /\ snap' = None
    /\ mem' = MEmpty /\ hist' = [v \in {} |-> {}]
    /\ UNCHANGED op

\* A crash and a reopen, or an error returned to the caller.
Abort ==
    /\ op # Idle /\ op' = Idle
    /\ UNCHANGED <<rows, ckpt, snap, mem, hist>>

Next ==
    \/ \E u \in Edit : AppendUpdate(u)
    \/ Insert \/ FinishPrune \/ Rollback \/ Fold \/ CaptureSnapshot \/ Delete \/ Abort
    \/ \E keep \in 1 .. MaxVersion : Compact(keep)

(***************************************************************************)
(* Properties.                                                             *)
(***************************************************************************)

\* The shapes of the tables.
TypeOK ==
    /\ DOMAIN rows \subseteq 1 .. MaxVersion /\ \A v \in DOMAIN rows : rows[v] \subseteq Edit
    /\ ckpt \in 0 .. MaxVersion \cup {None}
    /\ op.do \in {"idle", "append", "prune", "compact"}

\* The store implements the abstract log: an append takes effect at its INSERT,
\* a prune when its checkpoint is committed, and no other commit, crash or
\* recovery changes the head.  Claimed for rollbacks to a listed version.
Listed == setup.backend = "sqlite" /\ setup.sources = {"version"}
Log == INSTANCE VersionLog WITH
         content <- IF Listed THEN Load ELSE {},
         head <- IF Listed THEN Head ELSE 0,
         call <- IF ~Listed THEN Idle ELSE IF op.do = "compact" THEN [do |-> "compact"] ELSE op
RefinesVersionLog == Log!LSpec

\* "A crash between those steps must never resurrect a future version on
\* reopen": a version becomes visible when its update is inserted or when a new
\* prune asks for it, whatever was interrupted before.
NoFutureVersion ==
    [][\A v \in Clamped(Tables)' \ Clamped(Tables) :
         \/ op.do = "append" /\ op' = Idle /\ rows'[v] = {op.update}
         \/ op = Idle /\ op'.do = "prune" /\ v <= op'.target]_vars

\* The SQLite store shows what the reference implementation shows: the same
\* versions, and the same state at each, also while a prune is interrupted.
AgreesWithMemory == Listed =>
    /\ Clamped(Tables) = MVersions(mem)
    /\ \A v \in MVersions(mem) : MergedUpTo(Tables, v) = MMaterializeAt(mem, v)

\* MaterializeAt gives for every listed version the head state its append made,
\* through any sequence of compactions and interrupted prunes.
HistoryExact == Listed => \A v \in Clamped(Tables) : MergedUpTo(Tables, v) = hist[v]

\* After PruneAfter "the contract only requires the new version exceeds target"
\* (persistence/conformance.go): no append reuses a version up to the target,
\* which the reference gives its next version to.
VersionsContinue == [][Listed => \A v \in DOMAIN rows' \ DOMAIN rows : v = mem.next]_vars

\* PruneAfter "makes target the new head": when its call is over, the state
\* the caller passed is what Load returns.
PruneMakesHead == [][Listed /\ op.do = "prune" /\ FinishPrune => Load' = op.state]_vars
=============================================================================
