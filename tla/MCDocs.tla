------------------------------- MODULE MCDocs -------------------------------
(* Five groups of documents: three authors of one sequence; three writers of *)
(* one key and of the sequence beside it, with room for two parked structs;  *)
(* nested types with a deletion, one of two documents collecting; a relay    *)
(* with sync replies that may come late; and a reply that holds a collected  *)
(* struct and is refused half way.                                           *)
EXTENDS YDoc
CONSTANT k

Plain == [keys |-> {}, kinds |-> {"leaf"}, calls |-> {"Insert", "Push"}, gc |-> {},
          relays |-> {}, dels |-> <<0, 0, 0>>, pending |-> 1, syncs |-> {}]
MCSetups ==
  {[quota |-> <<2, 1, 1>>] @@ Plain,
   [quota |-> <<1, 1, 1>>, keys |-> {k}, pending |-> 2] @@ Plain,
   [quota |-> <<2, 1>>, keys |-> {k}, kinds |-> {"type"}, gc |-> {1}, dels |-> <<1, 1>>] @@ Plain,
   [quota |-> <<2, 1>>, relays |-> {2}, dels |-> <<0, 0>>,
    syncs |-> {<<1, 2>>, <<2, 1>>}] @@ Plain,
   [quota |-> <<1, 2, 0>>, calls |-> {"Push"}, gc |-> {1}, dels |-> <<1, 0, 0>>,
    syncs |-> {<<1, 3>>}] @@ Plain}
=============================================================================
