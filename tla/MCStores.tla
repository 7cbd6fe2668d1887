------------------------------ MODULE MCStores ------------------------------
(* Both logs, with rollbacks to listed versions only and with every kind of  *)
(* rollback; snapshots of the file store, and of SQLite, where the room may  *)
(* be deleted under a trim.                                                  *)
EXTENDS Stores, TLC

Log == [part |-> "log", backend |-> "file", sources |-> {"version"}, saves |-> 0, deletes |-> FALSE]
Labelled == [part |-> "snapshots", backend |-> "file", sources |-> {}, saves |-> 4, deletes |-> FALSE]
MCSetups ==
    {Log, [sources |-> {"earlier", "snapshot"}] @@ Log,
     [backend |-> "sqlite"] @@ Log, [backend |-> "sqlite", sources |-> {"snapshot"}] @@ Log,
     Labelled, [backend |-> "sqlite", saves |-> 5, deletes |-> TRUE] @@ Labelled}
Symmetry == Permutations(Edit) \cup Permutations(Saver) \cup Permutations(Auto)
=============================================================================
