------------------------------- MODULE Stores -------------------------------
(***************************************************************************)
(* The versioned stores side by side, as persistence/conformance.go runs    *)
(* one suite over every backend.  A behaviour is about the update log of    *)
(* one backend, or about its labelled snapshots.  The variables that both   *)
(* logs have (the named snapshot, the operation that holds the lock, the    *)
(* history) are shared.                                                     *)
(***************************************************************************)
EXTENDS Naturals

CONSTANTS
    Edit,        \* the updates
    MaxVersion,  \* bound on versions
    None,        \* no checkpoint, no row
    Saver,       \* goroutines in SaveVersion
    Auto,        \* labels saved through SaveVersion
    Named,       \* labels the application saves directly
    Keep,        \* KeepSnapshots
    MaxFails,    \* bound on failures of the retention
    Setups       \* the stores considered, records of
                 \*   part     "log", "snapshots"
                 \*   backend  "memory", "file", "sqlite"
                 \*   sources  what callers roll back to: "version", "earlier", "snapshot"
                 \*   saves    bound on snapshots ever saved
                 \*   deletes  may the application delete the room under a trim?

ASSUME StoresAssumption ==
    /\ MaxVersion \in Nat /\ None \notin Nat /\ Keep \in Nat /\ MaxFails \in Nat
    /\ Setups \subseteq [part : {"log", "snapshots"}, backend : {"memory", "file", "sqlite"},
                         sources : SUBSET {"version", "earlier", "snapshot"},
                         saves : Nat, deletes : BOOLEAN]

VARIABLES
    setup,                                    \* the one of Setups this behaviour is about
    snap, op, hist,                           \* of both logs
    room, files, ceiling, rolled, torn,       \* of FileStore
    rows, ckpt, mem,                          \* of SqlStore
    next, snaps, saver, saved, fails, given   \* of Snapshots

logVars == <<snap, op, hist>>
fileVars == <<room, files, ceiling, rolled, torn>>
sqlVars == <<rows, ckpt, mem>>
snapVars == <<next, snaps, saver, saved, fails, given>>
vars == <<setup, logVars, fileVars, sqlVars, snapVars>>

File == INSTANCE FileStore
Sql == INSTANCE SqlStore
Snap == INSTANCE Snapshots

Init == setup \in Setups /\ File!Init /\ Sql!Init /\ Snap!Init

Logs(backend) == setup.part = "log" /\ setup.backend = backend

FileStep == Logs("file") /\ File!Next /\ UNCHANGED <<setup, sqlVars, snapVars>>
SqlStep == Logs("sqlite") /\ Sql!Next /\ UNCHANGED <<setup, fileVars, snapVars>>
SnapshotStep == setup.part = "snapshots" /\ Snap!Next /\ UNCHANGED <<setup, logVars, fileVars, sqlVars>>

Next == FileStep \/ SqlStep \/ SnapshotStep

Spec == Init /\ [][Next]_vars

(***************************************************************************)
(* Properties: those of the parts.                                         *)
(***************************************************************************)

\* What is stored has the shape of what the methods read back.
TypeOK == (Logs("file") => File!TypeOK) /\ (Logs("sqlite") => Sql!TypeOK)

\* FilePersistence and the SQLite store implement the abstract log: an append
\* takes effect at one file system call or one commit, a PruneAfter when its
\* checkpoint is there, each wholly, and no crash, failure, recovery or
\* compaction, at whatever step it comes, adds to the head or takes from it.
RefinesVersionLog == File!RefinesVersionLog /\ Sql!RefinesVersionLog

\* MaterializeAt gives for every listed version the head state its append made,
\* and the SQLite store lists and shows what the in-memory reference does, also
\* while a prune is interrupted.
HistoryExact == TypeOK /\ File!HistoryExact /\ Sql!HistoryExact /\ Sql!AgreesWithMemory

\* "A crash between those steps must never resurrect a future version on
\* reopen": a version becomes visible when its update is appended or when a new
\* prune asks for it.  A completed PruneAfter(target, state) has made state the
\* head, and appends continue at the version after it.
PrunesHold ==
    /\ File!NoFutureVersion /\ Sql!NoFutureVersion
    /\ File!PruneMakesHead /\ Sql!PruneMakesHead
    /\ File!DenseVersions /\ Sql!VersionsContinue

\* However SaveVersion calls overlap: an id is never reused within a room; what
\* a trim deletes has at least Keep later saves under its own label; and when
\* all calls are over and no trim failed, no label has more than Keep.
RetentionSound == Snap!IdsNeverReused /\ Snap!TrimSparesNewest /\ []Snap!RetentionAtRest
=============================================================================
