------------------------------ MODULE MemStore ------------------------------
(***************************************************************************)
(* MemoryPersistence, the reference implementation of the versioned store, *)
(* as functions on the state of one room.  Every operation holds m.mu, so  *)
(* each is one function; the checkpoint fields only outlive a call under   *)
(* the test-only crash hook and are left out.  A state is the set of       *)
(* updates merged into it.                                                 *)
(***************************************************************************)
EXTENDS Naturals, FiniteSets

\* memRoom: records by version, and nextVer.
MEmpty == [recs |-> [v \in {} |-> {}], next |-> 1]

MVersions(m) == DOMAIN m.recs
MKeep(m, V) == [v \in V |-> m.recs[v]]

\* materializeLocked.
MMaterializeAt(m, v) == UNION {m.recs[w] : w \in {x \in MVersions(m) : x <= v}}
MLoad(m) == UNION {m.recs[w] : w \in MVersions(m)}

MAppend(m, u) ==
    [recs |-> [v \in MVersions(m) \cup {m.next} |-> IF v = m.next THEN {u} ELSE m.recs[v]],
     next |-> m.next + 1]

MPruneAfter(m, target) ==
    [recs |-> MKeep(m, {v \in MVersions(m) : v <= target}), next |-> target + 1]

\* Compact folds everything up to the keep-th newest version into it.
MCompact(m, keep) ==
    LET fold == CHOOSE v \in MVersions(m) : Cardinality({w \in MVersions(m) : w >= v}) = keep
    IN  IF Cardinality(MVersions(m)) <= keep THEN m
        ELSE [m EXCEPT !.recs = [v \in {w \in MVersions(m) : w >= fold} |->
                                   IF v = fold THEN MMaterializeAt(m, fold) ELSE m.recs[v]]]
=============================================================================
