----------------------------- MODULE VersionLog -----------------------------
(***************************************************************************)
(* What a versioned store promises about the head of one room, whatever    *)
(* crash or error ends a call: an append takes effect whole, before its    *)
(* call is over, or not at all; PruneAfter(target, state) makes state the  *)
(* head as soon as its call begins, and how the call ends changes nothing; *)
(* a compaction, however far it got, is never seen in the head; and only   *)
(* the calls named here change what Load returns.                          *)
(***************************************************************************)
EXTENDS Naturals

CONSTANT Edit  \* the updates

VARIABLES
    content,   \* the updates merged into the head state
    head,      \* the head version
    call       \* the call in progress

lvars == <<content, head, call>>

Idle == [do |-> "idle"]
Calls == [do : {"append"}, update : Edit] \cup [do : {"compact"}]

LInit == content = {} /\ head = 0 /\ call = Idle

LBegin ==
    /\ call = Idle /\ call' \in Calls
    /\ UNCHANGED <<content, head>>

LAppend ==
    /\ call.do = "append" /\ call' = Idle
    /\ content' = content \cup {call.update} /\ head' = head + 1

LPruneAfter ==
    /\ call = Idle /\ call'.do = "prune"
    /\ content' = call'.state
    /\ call'.target <= head /\ head' = call'.target

\* The call is over, by a crash, an error or a return with nothing left to do.
LEnd ==
    /\ call # Idle /\ call' = Idle
    /\ UNCHANGED <<content, head>>

LDelete ==
    /\ call = Idle
    /\ content' = {} /\ head' = 0
    /\ UNCHANGED call

LNext == LBegin \/ LAppend \/ LPruneAfter \/ LEnd \/ LDelete

LSpec == LInit /\ [][LNext]_lvars
============================================================================
