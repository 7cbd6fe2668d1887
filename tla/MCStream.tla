------------------------------ MODULE MCStream ------------------------------
(* Room instances that hand over in mid-batch, with a trim, an evicted cursor  *)
(* or a failing XREAD; a publisher that restarts, publishes that overlap, a    *)
(* batch that does not merge; presence over three residencies; Close.          *)
EXTENDS StreamRelay, TLC

HandOver == [payloads |-> 2, own |-> 0, bad |-> {}, pubs |-> 1, insts |-> 2, entries |-> 2,
             presence |-> 0, events |-> {"trim"}]
OneRoom == [insts |-> 1] @@ HandOver
MCSetups ==
    {HandOver,
     [payloads |-> 1, own |-> 1, events |-> {"evict", "read"}] @@ HandOver,
     [entries |-> 1, events |-> {"read"}] @@ HandOver,
     [payloads |-> 3, events |-> {"restart"}] @@ HandOver,
     [payloads |-> 4] @@ OneRoom,
     [payloads |-> 3, pubs |-> 2, events |-> {"restart"}] @@ OneRoom,
     [payloads |-> 3, bad |-> {1}, entries |-> 3, events |-> {"inject"}] @@ OneRoom,
     [payloads |-> 0, insts |-> 3, presence |-> 2, events |-> {}] @@ HandOver,
     [payloads |-> 1, entries |-> 1, presence |-> 1, events |-> {"close"}] @@ HandOver,
     [entries |-> 1, events |-> {"close", "xadd"}] @@ OneRoom}
=============================================================================
