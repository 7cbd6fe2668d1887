---------------------------- MODULE MCAwareness ----------------------------
(* Awareness for TLC: the local client and three remote ones.  Room for one  *)
(* client that announces two states, or one state in two ways (x2 decodes to *)
(* what x1 does and is as long as y2); or room for two clients and one text. *)
EXTENDS Awareness, TLC

CONSTANTS x, y, x1, x2, y2
Parsed == [t \in Text |-> IF t = y2 THEN y ELSE x]
Sizes == [t \in Text |-> IF t = x1 THEN 1 ELSE 2]
Symmetry == Permutations(Id \ {Local})
MCSetups == {[clients |-> 1, foreign |-> 1, bytes |-> 3, texts |-> {x1, x2, y2}, tombs |-> 1],
             [clients |-> 1, foreign |-> 1, bytes |-> 3, texts |-> {x1, y2}, tombs |-> 2],
             [clients |-> 2, foreign |-> 0, bytes |-> 0, texts |-> {x1}, tombs |-> 2]}
============================================================================
