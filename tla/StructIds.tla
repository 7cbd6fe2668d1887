----------------------------- MODULE StructIds -----------------------------
(***************************************************************************)
(* The IDs of structs: a client and a clock, which counts what the client  *)
(* has created.                                                            *)
(***************************************************************************)
EXTENDS Integers

CONSTANTS
  Client,   \* client IDs; every client owns one document
  Clock     \* the clocks a client may use: an initial segment of Nat

ASSUME ClockAssumption == Clock \subseteq Nat /\ \A n \in Clock : 0 .. n \subseteq Clock

Id == Client \X Clock

(* The structs of the same client with a lower clock. *)
Earlier(i) == {<<i[1], n>> : n \in {m \in Clock : m < i[2]}}

=============================================================================
