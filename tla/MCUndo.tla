------------------------------- MODULE MCUndo -------------------------------
(* UndoManager on a list, on a key, and raced by other goroutines on a       *)
(* document that collects.                                                   *)
EXTENDS UndoManager

Quiet == [threads |-> FALSE, gc |-> FALSE, owner |-> {}]
MCSetups ==
    {[kinds |-> {"list"}, items |-> 4, edits |-> 3, others |-> 1] @@ Quiet,
     [kinds |-> {"key"}, items |-> 6, edits |-> 3, others |-> 2] @@ Quiet,
     [kinds |-> {"key"}, items |-> 5, edits |-> 2, others |-> 1,
      threads |-> TRUE, gc |-> TRUE, owner |-> {"clear", "destroy"}]}
=============================================================================
