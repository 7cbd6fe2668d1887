------------------------------ MODULE Snapshots ------------------------------
(***************************************************************************)
(* Labelled snapshots of one room: the SnapshotStore of the three backends *)
(* and, over it, LegacyAdapter.SaveVersion with its per-label retention.   *)
(* Each store call holds the store's lock; the adapter holds none, so a    *)
(* list is stale by the time its surplus is deleted.  `birth` tells apart  *)
(* snapshots that were given the same id.                                  *)
(***************************************************************************)
EXTENDS Naturals, FiniteSets

CONSTANTS
    Saver,     \* goroutines in SaveVersion
    Auto,      \* labels saved through SaveVersion
    Named,     \* labels the application saves directly
    Keep,      \* KeepSnapshots
    MaxFails   \* bound on failures of the retention

VARIABLES
    setup,   \* setup.backend: "memory", "file" or "sqlite"; setup.saves: bound on
             \* snapshots ever saved; setup.deletes: may the application delete
             \* the whole room?
    next,    \* nextSnapID, the nextid file, or AUTOINCREMENT
    snaps,   \* the stored snapshots
    saver,   \* each SaveVersion: where it is, its label, what it still deletes
    saved,   \* history: every snapshot ever saved
    fails,   \* lists and deletes that failed, and crashes
    given    \* history: the highest id ever given

vars == <<next, snaps, saver, saved, fails, given>>

Idle == [at |-> "idle", label |-> "", del |-> {}]

Init ==
    /\ next = 1 /\ snaps = {} /\ saved = {} /\ fails = 0 /\ given = 0
    /\ saver = [p \in Saver |-> Idle]

\* SaveSnapshot: take the id, advance the counter, store the record.
Save(label) ==
    /\ Cardinality(saved) < setup.saves
    /\ LET s == [id |-> next, label |-> label, birth |-> Cardinality(saved) + 1]
       IN  snaps' = snaps \cup {s} /\ saved' = saved \cup {s}
    /\ next' = next + 1 /\ given' = IF next > given THEN next ELSE given

\* The file store writes the counter first: when the record's write fails the
\* id is leaked.
LeakId ==
    /\ setup.backend = "file" /\ next <= setup.saves
    /\ next' = next + 1 /\ given' = IF next > given THEN next ELSE given
    /\ UNCHANGED <<snaps, saver, saved, fails>>

\* The application saves a version under a name of its own, without retention.
SaveNamed(label) == Save(label) /\ UNCHANGED <<saver, fails>>

\* SaveVersion: Load found a state (its bytes are left out), which is saved ...
SaveVersion(p, label) ==
    /\ saver[p].at = "idle" /\ Save(label)
    /\ saver' = [saver EXCEPT ![p] = [at |-> "list", label |-> label, del |-> {}]]
    /\ UNCHANGED fails

SurplusAnyLabel(label) ==
    IF Keep = 0 THEN {}
    ELSE {s \in snaps : Cardinality({t \in snaps : t.id > s.id}) >= Keep}

\* The ids past the Keep newest of a label; Keep = 0 keeps everything.
Surplus(label) ==
    IF Keep = 0 THEN {}
    ELSE {s \in snaps : s.label = label /\
            Cardinality({t \in snaps : t.label = label /\ t.id > s.id}) >= Keep}

\* ... then TrimSnapshots lists, or fails to, which SaveVersion swallows ...
List(p) ==
    /\ saver[p].at = "list"
    /\ \/ /\ saver' = [saver EXCEPT ![p].at = "delete",
                          ![p].del = {s.id : s \in Surplus(saver[p].label)}]
          /\ UNCHANGED fails
       \/ /\ fails < MaxFails /\ fails' = fails + 1
          /\ saver' = [saver EXCEPT ![p] = Idle]
    /\ UNCHANGED <<next, snaps, saved, given>>

\* ... and deletes what it listed, newest first, going on after a failure.
DeleteOne(p) ==
    /\ saver[p].at = "delete" /\ saver[p].del # {}
    /\ LET id == CHOOSE i \in saver[p].del : \A j \in saver[p].del : i >= j
       IN  /\ saver' = [saver EXCEPT ![p].del = @ \ {id}]
           /\ \/ snaps' = {s \in snaps : s.id # id} /\ UNCHANGED fails
              \/ fails < MaxFails /\ fails' = fails + 1 /\ UNCHANGED snaps
    /\ UNCHANGED <<next, saved, given>>

Done(p) ==
    /\ saver[p].at = "delete" /\ saver[p].del = {}
    /\ saver' = [saver EXCEPT ![p] = Idle]
    /\ UNCHANGED <<next, snaps, saved, fails, given>>

\* The application deletes one snapshot, or the room with all its data.
DeleteSnapshot(s) ==
    /\ snaps' = snaps \ {s}
    /\ UNCHANGED <<next, saver, saved, fails, given>>

Delete ==
    /\ setup.deletes /\ snaps' = {}
    /\ next' = IF setup.backend = "sqlite" THEN next ELSE 1
    /\ UNCHANGED <<saver, saved, fails, given>>

\* The process dies and restarts over a durable store: its trims are forgotten.
Crash ==
    /\ setup.backend # "memory" /\ fails < MaxFails /\ fails' = fails + 1
    /\ saver' = [p \in Saver |-> Idle]
    /\ UNCHANGED <<next, snaps, saved, given>>

Next ==
    \/ \E p \in Saver : \/ \E l \in Auto : SaveVersion(p, l)
                        \/ List(p) \/ DeleteOne(p) \/ Done(p)
    \/ \E l \in Named : SaveNamed(l)
    \/ \E s \in snaps : DeleteSnapshot(s)
    \/ Delete \/ LeakId \/ Crash

(***************************************************************************)
(* Properties.                                                             *)
(***************************************************************************)

\* "It is never reused within a room, even after the snapshot is deleted"
\* (persistence/snapshots.go): a snapshot gets an id above all given before.
IdsNeverReused == [][\A s \in snaps' \ snaps : s.id > given]_vars

\* Retention takes no snapshot away that it should keep: what a trim deletes
\* has at least Keep later saves under its own label, however stale its list.
TrimSparesNewest ==
    [][\A p \in Saver, s \in snaps \ snaps' : DeleteOne(p) =>
         Cardinality({t \in saved : t.label = s.label /\ t.birth > s.birth}) >= Keep]_vars

\* When every SaveVersion is over and nothing of their trims failed, no label of theirs has
\* more than Keep snapshots, whatever order their saves and lists came in.
RetentionAtRest ==
    (Keep > 0 /\ fails = 0 /\ \A p \in Saver : saver[p].at = "idle") =>
      \A l \in Auto : Cardinality({s \in snaps : s.label = l}) <= Keep
=============================================================================
