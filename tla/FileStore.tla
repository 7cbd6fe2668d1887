----------------------------- MODULE FileStore -----------------------------
(***************************************************************************)
(* FilePersistence, one room: every update is a file named by its version, *)
(* and a checkpoint file is the ceiling of an interrupted PruneAfter.  An   *)
(* operation holds f.mu, so there is one at a time, but each of its file    *)
(* system calls is a step and the process may crash, or the call fail,      *)
(* between any two of them.  A state is the set of updates merged into it.  *)
(***************************************************************************)
EXTENDS Integers, FiniteSets

CONSTANTS
  Edit,        \* the updates
  MaxVersion,  \* bound: versions appended
  None         \* no checkpoint, no snapshot

VARIABLES
  setup,    \* setup.sources: what callers roll back to, "version", "earlier"
            \* (than an interrupted prune's target), "snapshot"
  room,     \* the room's directory exists
  files,    \* updates/<version>.bin
  ceiling,  \* target in the checkpoint file, None when there is no file
  rolled,   \* rolledBack in the checkpoint file
  snap,     \* a named snapshot: its version and state
  op,       \* the operation that holds f.mu
  hist,     \* history: the head state when each version was appended
  torn      \* history: a Compact was cut short, or ran under a checkpoint

vars == <<room, files, ceiling, rolled, snap, op, hist, torn>>

Idle == [do |-> "idle"]

Versions == DOMAIN files
Remove(v) == [w \in Versions \ {v} |-> files[w]]

(* listUpdateVersions: what the checkpoint lets through. *)
Visible == {v \in Versions : ceiling = None \/ v <= ceiling}

(* materializeLocked. *)
MaterializeAt(v) == rolled \cup UNION {files[w] : w \in {x \in Visible : x <= v}}
Load == rolled \cup UNION {files[w] : w \in Visible}

(* headVersion. *)
IsHead(h) == /\ h \in Visible \cup {0} \cup ({ceiling} \ {None})
             /\ \A v \in Visible \cup ({ceiling} \ {None}) : v <= h

Init ==
  /\ room = FALSE
  /\ files = [v \in {} |-> {}]
  /\ ceiling = None /\ rolled = {}
  /\ snap = None
  /\ op = Idle
  /\ hist = [v \in {} |-> {}] /\ torn = FALSE

----------------------------------------------------------------------------

(* AppendUpdate: take the lock; the update is written once what an            *)
(* interrupted prune left is gone.                                            *)
AppendUpdate(u) ==
  /\ op = Idle
  /\ op' = [do |-> "append", update |-> u] /\ room' = TRUE
  /\ UNCHANGED <<files, ceiling, rolled, snap, hist, torn>>

(* recoverInterruptedPrune and step 2 of PruneAfter: files past the target,   *)
(* in the order of their names, which is not that of their versions.          *)
RemoveFuture(v) ==
  /\ op.do \in {"append", "prune"} /\ ceiling # None
  /\ v \in Versions /\ v > ceiling
  /\ files' = Remove(v)
  /\ UNCHANGED <<room, ceiling, rolled, snap, op, hist, torn>>

RemoveCheckpointEarly ==
  /\ op.do \in {"append", "prune"} /\ ceiling # None
  /\ ceiling' = None /\ rolled' = {}
  /\ op' = IF op.do = "prune" THEN Idle ELSE op
  /\ UNCHANGED <<room, files, snap, hist, torn>>

(* The prune is over: the checkpoint file goes. *)
RemoveCheckpoint ==
  /\ op.do \in {"append", "prune"} /\ ceiling # None
  /\ \A v \in Versions : v <= ceiling
  /\ ceiling' = None /\ rolled' = {}
  /\ op' = IF op.do = "prune" THEN Idle ELSE op
  /\ UNCHANGED <<room, files, snap, hist, torn>>

(* nextVersion and the write: v is one past the highest version on disk. *)
WriteUpdate(v) ==
  /\ op.do = "append" /\ ceiling = None
  /\ v \in 1 .. MaxVersion /\ \A w \in Versions : w < v
  /\ v = 1 \/ v - 1 \in Versions
  /\ files' = [w \in Versions \cup {v} |-> IF w = v THEN {op.update} ELSE files[w]]
  /\ hist' = [w \in DOMAIN hist \cup {v} |-> IF w = v THEN Load \cup {op.update} ELSE hist[w]]
  /\ op' = Idle
  /\ UNCHANGED <<room, ceiling, rolled, snap, torn>>

(* PruneAfter(target, state): the checkpoint is written before any delete. *)
PruneAfter(target, state) ==
  /\ op = Idle /\ room
  /\ ceiling' = target /\ rolled' = state
  /\ op' = [do |-> "prune", target |-> target, state |-> state]
  /\ hist' = [w \in {x \in DOMAIN hist : x <= target} |-> hist[w]]
  /\ UNCHANGED <<room, files, snap, torn>>

(* What a caller rolls back to: a listed version and its MaterializeAt; the   *)
(* same below the ceiling of an interrupted prune; a named snapshot with the  *)
(* version it was captured at.                                                *)
Rollback ==
  \/ PruneAfter(0, {})
  \/ \E t \in Visible : /\ "earlier" \in setup.sources \/ ceiling \in {None, t}
                       /\ PruneAfter(t, MaterializeAt(t))
  \/ "snapshot" \in setup.sources /\ snap # None /\ PruneAfter(snap.version, snap.state)

CompactLossy(fold, keep) ==
  /\ op = Idle
  /\ fold \in Visible /\ Cardinality({v \in Visible : v >= fold}) = keep
  /\ \E v \in Visible : v < fold
  /\ files' = [files EXCEPT ![fold] = UNION {files[w] : w \in {x \in Visible : x < fold}}]
  /\ op' = [do |-> "trim", fold |-> fold]
  /\ torn' = (torn \/ rolled # {})
  /\ UNCHANGED <<room, ceiling, rolled, snap, hist>>

(* Compact: fold everything up to the oldest version kept into its file ... *)
Compact(fold, keep) ==
  /\ op = Idle
  /\ fold \in Visible /\ Cardinality({v \in Visible : v >= fold}) = keep
  /\ \E v \in Visible : v < fold
  /\ files' = [files EXCEPT ![fold] = MaterializeAt(fold)]
  /\ op' = [do |-> "trim", fold |-> fold]
  /\ torn' = (torn \/ rolled # {})
  /\ UNCHANGED <<room, ceiling, rolled, snap, hist>>

(* ... then remove the files before it, oldest first ... *)
RemoveFolded(v) ==
  /\ op.do = "trim" /\ v \in Visible /\ v < op.fold
  /\ \A w \in Visible : v <= w
  /\ files' = Remove(v)
  /\ UNCHANGED <<room, ceiling, rolled, snap, op, hist, torn>>

(* ... and drop the rolled-back state, which the fold now contains. *)
FinishCompact ==
  /\ op.do = "trim" /\ \A v \in Visible : v >= op.fold
  /\ rolled' = {} /\ op' = Idle
  /\ UNCHANGED <<room, files, ceiling, snap, hist, torn>>

(* CaptureSnapshot of the head, under one name. *)
CaptureSnapshot(h) ==
  /\ op = Idle /\ IsHead(h)
  /\ room' = TRUE /\ snap' = [version |-> h, state |-> Load]
  /\ UNCHANGED <<files, ceiling, rolled, op, hist, torn>>

(* Delete: os.RemoveAll, taken as one step. *)
Delete ==
  /\ op = Idle
  /\ room' = FALSE /\ files' = [v \in {} |-> {}]
  /\ ceiling' = None /\ rolled' = {} /\ snap' = None
  /\ hist' = [v \in {} |-> {}] /\ torn' = FALSE
  /\ UNCHANGED op

(* A crash and a reopen, or an error returned to the caller, at any point. *)
Abort ==
  /\ op # Idle
  /\ op' = Idle /\ torn' = (torn \/ op.do = "trim")
  /\ UNCHANGED <<room, files, ceiling, rolled, snap, hist>>

Next ==
  \/ \E u \in Edit : AppendUpdate(u)
  \/ \E v \in 1 .. MaxVersion : RemoveFuture(v) \/ WriteUpdate(v) \/ RemoveFolded(v)
  \/ RemoveCheckpoint \/ Rollback \/ FinishCompact \/ Delete \/ Abort
  \/ \E fold, keep \in 1 .. MaxVersion : Compact(fold, keep)
  \/ \E h \in 0 .. MaxVersion : CaptureSnapshot(h)

----------------------------------------------------------------------------

TypeOK ==
  /\ room \in BOOLEAN /\ torn \in BOOLEAN
  /\ Versions \subseteq 1 .. MaxVersion /\ \A v \in Versions : files[v] \subseteq Edit
  /\ ceiling \in 0 .. MaxVersion \cup {None} /\ rolled \subseteq Edit
  /\ op.do \in {"idle", "append", "prune", "trim"}
  /\ ~room => Versions = {} /\ ceiling = None /\ snap = None

(* The store implements the abstract log: an append takes effect at the write *)
(* of its file, a prune at that of its checkpoint, and no removal, crash or   *)
(* recovery changes the head.  Claimed for rollbacks to a listed version, the *)
(* case PruneAfter is made for.                                               *)
Listed == setup.backend = "file" /\ setup.sources = {"version"}
Log == INSTANCE VersionLog WITH
         content <- IF Listed THEN Load ELSE {},
         head <- IF Listed THEN CHOOSE h \in 0 .. MaxVersion : IsHead(h) ELSE 0,
         call <- IF ~Listed THEN Idle ELSE IF op.do = "trim" THEN [do |-> "compact"] ELSE op
RefinesVersionLog == Log!LSpec

(* "A crash between those steps must never resurrect a future version on      *)
(* reopen": a version becomes visible when its update is appended or when a   *)
(* new prune asks for it, whatever was interrupted before.                    *)
NoFutureVersion ==
  [][\A v \in Visible' \ Visible :
       \/ op.do = "append" /\ op' = Idle /\ files'[v] = {op.update}
       \/ op = Idle /\ op'.do = "prune" /\ v <= op'.target]_vars

(* "PruneAfter resets the head to its target and subsequent appends continue  *)
(* at target+1": an update gets the version after the head's.                 *)
DenseVersions ==
  [][\A v \in Versions' \ Versions : v - 1 = 0 \/ IsHead(v - 1)]_vars

(* With no interrupted prune pending, and no compaction cut short or run      *)
(* while one was, every version that a running Compact is not folding         *)
(* materializes to the head state that its append produced.                   *)
HistoryExact ==
  Listed /\ ~torn /\ ceiling = None =>
    \A v \in Visible : (op.do = "trim" => v >= op.fold) => MaterializeAt(v) = hist[v]

(* A completed PruneAfter(target, state) has made state the head: "the        *)
(* surviving update files plus the rolled-back head fully reconstruct the     *)
(* head".                                                                     *)
PruneMakesHead == [][Listed /\ op.do = "prune" /\ RemoveCheckpoint => Load' = op.state]_vars
============================================================================
