------------------------------- MODULE MCText -------------------------------
(* RichText with other users' edits and markers arriving anywhere, with two  *)
(* attributes, and with deltas of three operations.                          *)
EXTENDS RichText

MCKeys == <<"b", "i">>
Edits == {"insert", "delete", "format"}
MCSetups ==
    {[uses |-> {"b"}, items |-> 4, deltas |-> 1, ops |-> Edits, remote |-> {"unit", "mark", "delete"}],
     [uses |-> {"b"}, items |-> 5, deltas |-> 1, ops |-> {"insert"}, remote |-> {"mark"}],
     [uses |-> {"b", "i"}, items |-> 4, deltas |-> 1, ops |-> Edits, remote |-> {"unit"}],
     [uses |-> {"b"}, items |-> 4, deltas |-> 3, ops |-> {"delta"}, remote |-> {}]}
=============================================================================
