------------------------- MODULE CausalStoreProofs -------------------------
(* Proofs about CausalStore, for every set of clients and of clocks. *)
EXTENDS CausalStore, TLAPS

(* A struct depends on all the earlier structs of its client. *)
Chained == \A i \in made : Earlier(i) \subseteq dep[i]

(* The inductive invariant: types, dependency closure, and the author's copy, *)
(* which is what makes a new struct new to every document.                    *)
CInv == CTypeOK /\ DependencyClosed /\ AuthorHolds /\ Chained

(* The first structs of a client are structs. *)
LEMMA EarlierType == ASSUME NEW i \in Id PROVE Earlier(i) \subseteq Id
  BY DEF Earlier, Id

(* The empty documents satisfy the invariant. *)
LEMMA InitInv == CInit => CInv
  BY DEF CInit, CInv, CTypeOK, DependencyClosed, AuthorHolds, Chained

(* A local transaction preserves it: the new struct is in no document yet,   *)
(* and is anchored on structs of its author's document.                      *)
LEMMA WriteInv ==
  ASSUME CInv, NEW c \in Client, NEW i \in Id, Write(c, i)
  PROVE  CInv'
<1>a. PICK D \in SUBSET have[c] : dep' = [dep EXCEPT ![i] = D \cup Earlier(i)]
  BY DEF Write
<1>b. PICK K \in SUBSET have'[c] : dead' = [dead EXCEPT ![c] = K]
  BY DEF Write, Kill
<1> USE DEF CInv, Write
<1>c. i \notin made
  BY DEF AuthorHolds
<1>1. CTypeOK'
  BY <1>a, <1>b, EarlierType DEF CTypeOK
<1>2. DependencyClosed'
  <2> SUFFICES ASSUME NEW e \in Client, NEW j \in have'[e]
               PROVE  j \in made' /\ dep'[j] \cup Earlier(j) \subseteq have'[e]
    BY DEF DependencyClosed
  <2>1. CASE j = i
    <3>1. e = c
      BY <1>c, <2>1 DEF DependencyClosed, CTypeOK
    <3> QED
      BY <1>a, <2>1, <3>1 DEF CTypeOK
  <2>2. CASE j # i
    <3>1. j \in have[e]
      BY <2>2 DEF CTypeOK
    <3>2. dep'[j] = dep[j]
      BY <1>a, <2>2, <3>1 DEF CTypeOK
    <3> QED
      BY <3>1, <3>2 DEF DependencyClosed, CTypeOK
  <2> QED
    BY <2>1, <2>2
<1>3. AuthorHolds'
  BY DEF AuthorHolds, CTypeOK
<1>4. Chained'
  BY <1>a DEF Chained, CTypeOK
<1> QED
  BY <1>1, <1>2, <1>3, <1>4

(* Applying an update preserves it: what comes in brings its dependencies,   *)
(* and each of those is followed by the earlier structs of its client.       *)
LEMMA AbsorbInv ==
  ASSUME CInv, NEW c \in Client, Absorb(c)
  PROVE  CInv'
<1>a. PICK S \in SUBSET made : /\ \A i \in S : dep[i] \subseteq have[c] \cup S
                              /\ have' = [have EXCEPT ![c] = @ \cup S]
  <2> DEFINE S == have'[c] \ have[c]
  <2>1. S \in SUBSET made /\ have'[c] = have[c] \cup S
    BY DEF Absorb
  <2>2. \A i \in S : dep[i] \subseteq have[c] \cup S
    BY <2>1 DEF Absorb
  <2>3. have' = [have EXCEPT ![c] = @ \cup S]
    BY <2>1 DEF Absorb, CInv, CTypeOK
  <2> HIDE DEF S
  <2> QED
    BY <2>1, <2>2, <2>3
<1>b. PICK K \in SUBSET have'[c] : dead' = [dead EXCEPT ![c] = K]
  BY DEF Absorb, Kill
<1> USE DEF CInv, Absorb
<1>1. CTypeOK'
  BY <1>a, <1>b DEF CTypeOK
<1>2. DependencyClosed'
  <2> SUFFICES ASSUME NEW e \in Client, NEW j \in have'[e]
               PROVE  j \in made /\ dep[j] \cup Earlier(j) \subseteq have'[e]
    BY DEF DependencyClosed
  <2>1. have[e] \subseteq have'[e]
    BY <1>a DEF CTypeOK
  <2>2. CASE j \in have[e]
    BY <2>1, <2>2 DEF DependencyClosed
  <2>3. CASE j \notin have[e]
    <3>1. e = c /\ j \in S /\ dep[j] \subseteq have'[e]
      BY <1>a, <2>3 DEF CTypeOK
    <3>2. Earlier(j) \subseteq dep[j]
      BY <3>1 DEF Chained
    <3> QED
      BY <3>1, <3>2
  <2> QED
    BY <2>2, <2>3
<1>3. AuthorHolds'
  BY <1>a DEF AuthorHolds, CTypeOK
<1>4. Chained'
  BY DEF Chained
<1> QED
  BY <1>1, <1>2, <1>3, <1>4

(* Every step preserves the invariant. *)
LEMMA StepInv == CInv /\ [CNext]_cvars => CInv'
<1> SUFFICES ASSUME CInv, [CNext]_cvars PROVE CInv'
  OBVIOUS
<1>1. ASSUME NEW c \in Client, NEW i \in Id, Write(c, i) PROVE CInv'
  BY <1>1, WriteInv
<1>2. ASSUME NEW c \in Client, Absorb(c) PROVE CInv'
  BY <1>2, AbsorbInv
<1>3. CASE UNCHANGED cvars
  BY <1>3 DEF cvars, CInv, CTypeOK, DependencyClosed, AuthorHolds, Chained
<1> QED
  BY <1>1, <1>2, <1>3 DEF CNext

LEMMA Invariant == CSpec => []CInv
  BY InitInv, StepInv, PTL DEF CSpec

(* Stores, deletions and dependencies keep their types. *)
THEOREM TypeCorrect == CSpec => []CTypeOK
<1>1. CInv => CTypeOK
  BY DEF CInv
<1> QED
  BY Invariant, <1>1, PTL

(* No document ever holds a struct without what it depends on: the check of  *)
(* decodeAndPark and tryIntegrate keeps a store causally closed, contiguous  *)
(* clocks included, for any number of clients and updates in any order.      *)
THEOREM Closure == CSpec => []DependencyClosed
<1>1. CInv => DependencyClosed
  BY DEF CInv
<1> QED
  BY Invariant, <1>1, PTL

(* The author of a struct holds it, which is why the next clock of the own   *)
(* document is a new one everywhere.                                         *)
THEOREM AuthorKnows == CSpec => []AuthorHolds
<1>1. CInv => AuthorHolds
  BY DEF CInv
<1> QED
  BY Invariant, <1>1, PTL

(* No ID is ever given to a second struct (Doc's clientID and NextClock). *)
THEOREM NoClockReuse == CSpec => ImmutableStructs
<1>1. CInv /\ [CNext]_cvars => [made \subseteq made' /\ \A i \in made : dep'[i] = dep[i]]_cvars
  <2> SUFFICES ASSUME CInv, CNext
               PROVE  made \subseteq made' /\ \A i \in made : dep'[i] = dep[i]
    OBVIOUS
  <2>1. ASSUME NEW c \in Client, Absorb(c)
        PROVE  made \subseteq made' /\ \A i \in made : dep'[i] = dep[i]
    BY <2>1 DEF Absorb
  <2>2. ASSUME NEW c \in Client, NEW j \in Id, Write(c, j)
        PROVE  made \subseteq made' /\ \A i \in made : dep'[i] = dep[i]
    <3>1. j \notin made
      BY <2>2 DEF Write, CInv, AuthorHolds
    <3> QED
      BY <2>2, <3>1 DEF Write, CInv, CTypeOK
  <2> QED
    BY <2>1, <2>2 DEF CNext
<1> QED
  BY Invariant, <1>1, PTL DEF CSpec, ImmutableStructs

(* What the diff against a state vector leaves out, the peer has; what it    *)
(* sends, the peer can integrate without anything else.                      *)
LEMMA ReplyStep == CInv => ReplyComplete
<1> SUFFICES ASSUME CInv, NEW s \in Client, NEW c \in Client,
                    NEW sv \in [Client -> Clock \cup {n + 1 : n \in Clock}],
                    Covers(c, sv)
             PROVE  /\ have[c] \cup Reply(s, sv) = have[c] \cup have[s]
                    /\ \A i \in Reply(s, sv) : dep[i] \subseteq have[c] \cup Reply(s, sv)
  BY DEF ReplyComplete
<1>1. \A i \in have[s] : i \in have[c] \/ i \in Reply(s, sv)
  <2> SUFFICES ASSUME NEW i \in have[s], i \notin have[c] PROVE i[2] >= sv[i[1]]
    BY DEF Reply
  <2>1. i \in Id
    BY DEF CInv, CTypeOK
  <2>2. i[1] \in Client /\ i[2] \in Nat
    BY <2>1, ClockAssumption DEF Id
  <2>3. sv[i[1]] \in Nat
    <3>1. \A m \in Clock \cup {n + 1 : n \in Clock} : m \in Nat
      BY ClockAssumption
    <3> QED
      BY <2>2, <3>1
  <2> QED
    BY <2>1, <2>2, <2>3 DEF Covers
<1>2. Reply(s, sv) \subseteq have[s]
  BY DEF Reply
<1>3. \A i \in have[s] : dep[i] \subseteq have[s]
  BY DEF CInv, DependencyClosed
<1> QED
  BY <1>1, <1>2, <1>3

(* One exchange of a state vector for a reply (encodeV1Locked with sv) is    *)
(* complete and can be integrated at once, from any reachable state and for  *)
(* a vector that is out of date by the time it is answered.                  *)
THEOREM SyncCorrect == CSpec => []ReplyComplete
  BY Invariant, ReplyStep, PTL
============================================================================
