------------------------------ MODULE MCClient ------------------------------
(* Offline edits and restarts with a store; Close, with a store and without   *)
(* one; a good token and a bad one.                                           *)
EXTENDS Client, TLC

Stored == [part |-> "sync", edits |-> {"e1", "e2"}, store |-> TRUE, owned |-> TRUE, close |-> FALSE,
           late |-> FALSE, bad |-> FALSE, pings |-> FALSE, faults |-> 1]
Closing == [edits |-> {"e1"}, close |-> TRUE, faults |-> 2] @@ Stored
Tokens == [part |-> "token", pings |-> TRUE, faults |-> 3] @@ Stored
MCSetups ==
    {Stored, [edits |-> {"e1"}, faults |-> 2] @@ Stored,
     Closing, [store |-> FALSE] @@ Closing,
     [edits |-> {"e1", "e2"}, store |-> FALSE, faults |-> 0] @@ Closing,
     [late |-> TRUE, owned |-> FALSE, faults |-> 1] @@ Closing,
     Tokens, [bad |-> TRUE, pings |-> FALSE] @@ Tokens}
=============================================================================
