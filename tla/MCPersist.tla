----------------------------- MODULE MCPersist -----------------------------
(* Two committing goroutines with an adapter that takes everything; one, with *)
(* two updates and an adapter call that fails, on either path.                *)
EXTENDS PersistWorker

MCSetups == {[coalesce |-> TRUE, compact |-> 1, fails |-> 0, procs |-> {"p", "q"}],
             [coalesce |-> TRUE, compact |-> 2, fails |-> 1, procs |-> {"p"}],
             [coalesce |-> FALSE, compact |-> 0, fails |-> 1, procs |-> {"p"}]}
============================================================================
