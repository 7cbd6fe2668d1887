----------------------------- MODULE RoomProofs -----------------------------
(***************************************************************************)
(* What is proved of the life of a room, from the invariant that RoomSteps *)
(* shows every step to keep.                                               *)
(***************************************************************************)
EXTENDS RoomSteps, FiniteSetTheorems

USE ZenonT(30)

\* Sets of actors are finite, and so is the set of stamps in use.
LEMMA SizesHold == Sizes
<1>1. ASSUME NEW S \in SUBSET Actor
      PROVE  /\ Cardinality(S) \in Nat /\ (Cardinality(S) = 0 <=> S = {})
             /\ \A x \in Actor \ S : Cardinality(S \cup {x}) = Cardinality(S) + 1
             /\ \A T \in SUBSET S : Cardinality(T) <= Cardinality(S)
  <2>1. IsFiniteSet(S)
    BY LifeAssumption, FS_Subset DEF Actor
  <2> QED BY <2>1, FS_CardinalityType, FS_EmptySet, FS_AddElement, FS_Subset
<1>2. ASSUME NEW f \in [Inst -> Nat], NEW g \in [Actor -> Nat]
      PROVE  \E n \in Nat, k \in Nat \ {0} :
                /\ n = Cardinality({f[i] : i \in Inst} \cup {g[a] : a \in Actor}) /\ k <= n + 1
                /\ k \notin {f[i] : i \in Inst} \cup {g[a] : a \in Actor}
  <2> DEFINE F == {f[i] : i \in Inst}
             G == {g[a] : a \in Actor}
  <2>1. IsFiniteSet(F)
    <3>1. f \in Surjection(Inst, F)
      BY DEF Surjection
    <3> HIDE DEF F
    <3> QED BY <3>1, LifeAssumption, FS_Surjection
  <2>2. IsFiniteSet(G)
    <3>1. g \in Surjection(Actor, G) /\ IsFiniteSet(Actor)
      BY LifeAssumption DEF Surjection, Actor
    <3> HIDE DEF G
    <3> QED BY <3>1, FS_Surjection
  <2> HIDE DEF F, G
  <2>3. IsFiniteSet(F \cup G)
    BY <2>1, <2>2, FS_Union
  <2>4. PICK n \in Nat : n = Cardinality(F \cup G)
    BY <2>3, FS_CardinalityType
  <2>5. ~(1 .. n + 1 \subseteq F \cup G)
    <3>1. Cardinality(1 .. n + 1) = n + 1
      BY FS_Interval, SMTT(30)
    <3>2. 1 .. n + 1 \subseteq F \cup G => Cardinality(1 .. n + 1) <= n
      BY <2>3, <2>4, FS_Subset
    <3> QED BY <3>1, <3>2, SMTT(30)
  <2>6. PICK k \in 1 .. n + 1 : k \notin F \cup G
    BY <2>5
  <2>7. k \in Nat \ {0} /\ k <= n + 1
    BY SMTT(30)
  <2> QED BY <2>4, <2>6, <2>7 DEF F, G
<1> QED BY <1>1, <1>2 DEF Sizes

\* Every reachable state satisfies the inductive invariant.
THEOREM Invariance == Spec => []IInv
<1>1. Init => IInv
  BY SizesHold, InitInv
<1>2. IInv /\ [Next]_vars => IInv'
  BY SizesHold, NextInv
<1> QED BY <1>1, <1>2, PTL DEF Spec

\* getOrCreateRoom and evictIdleRoom never fork a document: peers, and with idle
\* residency server-side writers, are in the room that the map holds.
THEOREM AtHomeHolds == Spec => []AtHome
<1>1. IInv => AtHome
  <2> SUFFICES ASSUME IInv PROVE AtHome
    OBVIOUS
  <2>1. PeersAtHome
    BY DEF IInv, Home, Closed, PeersAtHome
  <2>2. WritersAtHome
    BY DEF IInv, Home, Closed, WritersAtHome, Writing, Holding, Guest
  <2> QED BY <2>1, <2>2 DEF AtHome
<1> QED BY <1>1, Invariance, PTL

\* What ServeHTTP, Apply and the evictions count is exact on every path: the
\* in-flight counts, the two semaphores, the idle stamps, OnUnloadDocument.
THEOREM AccountingHolds == Spec => []Accounting
<1>1. IInv => Accounting
  <2> SUFFICES ASSUME IInv PROVE Accounting
    OBVIOUS
  <2>0. Shape /\ Roles /\ Lives /\ Peers /\ Counts /\ Limits /\ Unloads
    BY DEF IInv, Table
  <2>1. TypeOK
    <3>1. /\ cur \in Inst \cup {None} /\ stored \subseteq Update /\ sent \subseteq Update
          /\ conns \in 0 .. MaxConns /\ fails \in 0 .. setup.fails
      BY <2>0, LifeAssumption, SMTT(30) DEF Shape, Limits
    <3>2. \A i \in Inst : /\ room[i] \in RoomRec /\ room[i].slots \in 0 .. MaxPeers
      BY <2>0, LifeAssumption, SMTT(30) DEF Shape, Limits, RoomRec
    <3>3. room \in [Inst -> [phase : {"none", "loading", "ready", "failed"},
                          peers : SUBSET Conn, idle : Nat, inflight : Nat,
                          slots : 0 .. MaxPeers, unsaved : SUBSET Update,
                          stop : BOOLEAN, done : BOOLEAN, unloads : Nat]]
      BY <2>0, <3>2 DEF Shape, RoomRec
    <3>4. act \in [Actor -> ActRec]
      BY <2>0 DEF Shape
    <3> QED BY <3>1, <3>3, <3>4 DEF TypeOK, ActRec, Pc
  <2>2. CountsExact
    BY <2>0 DEF Counts, CountsExact, Holders, Seats, Permits, Guest
  <2>3. OccupiedNotIdle
    BY <2>0 DEF Peers, OccupiedNotIdle
  <2>4. UnloadOnce
    <3> SUFFICES ASSUME NEW i \in Inst, room[i].phase = "ready"
                 PROVE  /\ room[i].unloads = (IF Unreachable(i) THEN 1 ELSE room[i].unloads)
                        /\ room[i].unloads <= (IF cur = i THEN 0 ELSE 1)
      BY DEF UnloadOnce
    <3>1. Unloaded(i)
      BY <2>0 DEF Unloads
    <3>2. room[i].unloads <= (IF cur = i THEN 0 ELSE 1)
      BY <3>1, SMTT(30) DEF Unloaded
    <3>3. Unreachable(i) => room[i].unloads = 1
      BY <3>1 DEF Unloaded, Unloader, Unreachable
    <3> QED BY <3>2, <3>3
  <2> QED BY <2>1, <2>2, <2>3, <2>4 DEF Accounting
<1> QED BY <1>1, Invariance, PTL

\* With idle residency, and while no flush failed and no request was refused, a
\* room that nobody uses carries the stamp by which sweepIdleRooms finds it.
THEOREM ReclaimableHolds == Spec => []Reclaimable
<1>1. IInv => Reclaimable
  <2> SUFFICES ASSUME IInv, setup.lazy, ~MayRefuse, fails = 0, NEW i \in Inst, Abandoned(i), room[i].idle = 0
               PROVE  FALSE
    BY DEF Reclaimable
  <2> QED BY DEF IInv, Stamped, Abandoned, Guest
<1> QED BY <1>1, Invariance, PTL

\* evictIdleRoom takes a stamped room off the map only once everything committed
\* to it is stored, so that loadRoom reads an up-to-date store.
THEOREM FreshLoadHolds == Spec => FreshLoad
<1> DEFINE Step ==
      setup.lazy /\ "admin" \notin setup.others =>
        /\ \A i \in Inst : cur = i /\ cur' # i /\ room[i].idle # 0 => room[i].unsaved = {}
        /\ \A j \in Inst : (~MayRefuse /\ room[j].phase = "loading" /\ room'[j].phase = "ready") =>
              \A i \in Inst \ {j} : room[i].unsaved = {}
<1>1. ASSUME IInv, Next PROVE Step
  <2> SUFFICES ASSUME setup.lazy, Closed
               PROVE  /\ \A i \in Inst : cur = i /\ cur' # i /\ room[i].idle # 0 => room[i].unsaved = {}
                      /\ \A j \in Inst : (~MayRefuse /\ room[j].phase = "loading" /\ room'[j].phase = "ready") =>
                            \A i \in Inst \ {j} : room[i].unsaved = {}
    BY DEF Closed
  <2>1. ASSUME NEW i \in Inst, cur = i, cur' # i, room[i].idle # 0
        PROVE  room[i].unsaved = {}
    <3>1. PICK a \in Actor : Load(a) \/ Decide(a) \/ Evict(a) \/ Delete(a)
      BY <1>1, <2>1, MapSteps, LifeAssumption
    <3>2. Role(a) /\ Life(i) /\ Fresh /\ Home /\ Shape /\ Roles /\ Counts
      BY <1>1, <2>1 DEF IInv, Table, Roles, Lives
    <3>3. CASE Load(a)
      <4>1. act[a].rm = i /\ act[a].pc = "load"
        BY <2>1, <3>3 DEF Load, At
      <4> QED BY <3>2, <4>1 DEF Role, Life
    <3>4. ~Decide(a)
      BY <2>1 DEF Decide, Detach
    <3>5. ~Delete(a)
      <4>1. ASSUME Delete(a) PROVE a \in Admin
        BY <3>2, <4>1 DEF Delete, At, Role, Actor, ConnPc, CallerPc
      <4> QED BY <3>2, <4>1 DEF Home, Delete, At
    <3>6. CASE Evict(a)
      <4>1. /\ act[a].pc = "evict" /\ act[a].ok /\ act[a].rm = i /\ act[a].stamp # 0
            /\ room[i].idle = act[a].stamp /\ room[i].inflight = 0
        BY <2>1, <3>6 DEF Evict, EvictDetach, Detach, At, Rm
      <4>2. a \in Conn \cup Sweeper /\ room[i].phase = "ready"
        BY <3>2, <4>1 DEF Role, Actor, CallerPc
      <4>3. \A b \in Caller : act[b].rm = i => act[b].pc # "mark"
        BY <3>2, <4>1, <4>2, NobodyHolds, SizesHold DEF Guest, Holding
      <4> QED BY <3>2, <4>1, <4>2, <4>3 DEF Fresh
    <3> QED BY <3>1, <3>3, <3>4, <3>5, <3>6
  <2>2. ASSUME NEW j \in Inst, ~MayRefuse, room[j].phase = "loading", NEW i \in Inst \ {j}
        PROVE  room[i].unsaved = {}
    <3>1. cur = j
      BY <1>1, <2>2 DEF IInv, Table, Lives, Life
    <3> QED BY <1>1, <2>2, <3>1 DEF IInv, Fresh
  <2> QED BY <2>1, <2>2
<1>2. IInv /\ [Next]_vars => [Step]_vars
  BY <1>1
<1>3. FreshLoad <=> [][Step]_vars
  BY DEF FreshLoad
<1> QED BY <1>2, <1>3, Invariance, PTL DEF Spec
=============================================================================
