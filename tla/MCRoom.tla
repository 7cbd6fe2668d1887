------------------------------- MODULE MCRoom -------------------------------
(* Eager eviction with three requests for two seats, and with a writer; idle  *)
(* residency and its sweeper with refusals, with failures and with a writer;  *)
(* CloseRoom in both modes.                                                   *)
EXTENDS RoomLifecycle, TLC

Server(n, others, lazy, refusals, failing) ==
    [conns |-> n, others |-> others, lazy |-> lazy, refusals |-> refusals, fails |-> failing]
MCSetups ==
    {Server(3, {}, FALSE, TRUE, 0), Server(2, {"caller"}, FALSE, TRUE, 1),
     Server(2, {"sweeper"}, TRUE, TRUE, 0), Server(2, {"sweeper"}, TRUE, FALSE, 1),
     Server(2, {"caller"}, TRUE, TRUE, 0),
     Server(1, {"caller", "sweeper"}, TRUE, FALSE, 1),
     Server(2, {"admin"}, TRUE, TRUE, 0), Server(2, {"admin"}, FALSE, TRUE, 1)}
Symmetry == Permutations(Conn) \cup Permutations(Inst)
=============================================================================
