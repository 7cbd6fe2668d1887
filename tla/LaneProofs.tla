----------------------------- MODULE LaneProofs -----------------------------
(***************************************************************************)
(* The lane for every capacity, every number of producers and every set of *)
(* unmergeable updates.  The four safety properties together with the type *)
(* invariant are inductive: merging and hard drops move updates between    *)
(* the terms of Conserved, and the two-step push is covered by notifying.  *)
(***************************************************************************)
EXTENDS Lane, TLAPS

\* The updates of a backlog to which a push appends one more.
LEMMA UpdatesAppend ==
    ASSUME NEW q \in Seq(SUBSET Update), NEW u \in Update
    PROVE  Updates(Append(q, {u})) = Updates(q) \cup {u}
<1> DEFINE r == Append(q, {u})
<1>1. /\ DOMAIN r = DOMAIN q \cup {Len(q) + 1}
      /\ \A k \in DOMAIN q : r[k] = q[k]
      /\ r[Len(q) + 1] = {u}
  OBVIOUS
<1>2. Batches(r) = Batches(q) \cup {{u}}
  BY <1>1 DEF Batches
<1>3. UNION (Batches(q) \cup {{u}}) = (UNION Batches(q)) \cup {u}
  OBVIOUS
<1> QED BY <1>2, <1>3 DEF Updates

\* The updates of a backlog, split at its oldest batch.
LEMMA UpdatesTail ==
    ASSUME NEW q \in Seq(SUBSET Update), q # <<>>
    PROVE  Updates(q) = Head(q) \cup Updates(Tail(q))
<1> DEFINE t == Tail(q)
<1>1. /\ Len(q) \in Nat /\ Len(q) >= 1
      /\ DOMAIN q = 1 .. Len(q) /\ DOMAIN t = 1 .. Len(q) - 1
      /\ Head(q) = q[1]
      /\ \A k \in 1 .. Len(q) - 1 : t[k] = q[k + 1]
  OBVIOUS
<1>2. \A k \in DOMAIN q : k # 1 => k - 1 \in DOMAIN t /\ t[k - 1] = q[k]
  BY <1>1
<1>3. \A k \in DOMAIN t : k + 1 \in DOMAIN q /\ t[k] = q[k + 1]
  BY <1>1
<1>4. 1 \in DOMAIN q
  BY <1>1
<1>5. Batches(q) = {Head(q)} \cup Batches(t)
  <2>1. ASSUME NEW b \in Batches(q) PROVE b \in {Head(q)} \cup Batches(t)
    <3>1. PICK k \in DOMAIN q : b = q[k]
      BY DEF Batches
    <3>2. CASE k = 1
      BY <3>1, <3>2, <1>1
    <3>3. CASE k # 1
      <4>1. k - 1 \in DOMAIN t /\ b = t[k - 1]
        BY <3>1, <3>3, <1>2
      <4> QED BY <4>1 DEF Batches
    <3> QED BY <3>2, <3>3
  <2>2. ASSUME NEW b \in {Head(q)} \cup Batches(t) PROVE b \in Batches(q)
    <3>1. CASE b = Head(q)
      BY <3>1, <1>1, <1>4 DEF Batches
    <3>2. CASE b \in Batches(t)
      <4>1. PICK k \in DOMAIN t : b = t[k]
        BY <3>2 DEF Batches
      <4>2. k + 1 \in DOMAIN q /\ b = q[k + 1]
        BY <4>1, <1>3
      <4> QED BY <4>2 DEF Batches
    <3> QED BY <3>1, <3>2
  <2> QED BY <2>1, <2>2
<1> QED BY <1>5 DEF Updates

\* The updates of an empty backlog and of a backlog of one batch.
LEMMA UpdatesSmall ==
    /\ Updates(<<>>) = {}
    /\ \A b \in SUBSET Update : Updates(<<b>>) = b
<1>1. Batches(<<>>) = {}
  BY DEF Batches
<1>2. ASSUME NEW b \in SUBSET Update PROVE Batches(<<b>>) = {b}
  <2>1. DOMAIN <<b>> = {1} /\ <<b>>[1] = b
    OBVIOUS
  <2> QED BY <2>1 DEF Batches
<1> QED BY <1>1, <1>2 DEF Updates

\* A backlog holds only updates.
LEMMA UpdatesType ==
    ASSUME NEW q \in Seq(SUBSET Update)
    PROVE  Updates(q) \subseteq Update
BY DEF Updates, Batches

\* An empty lane.
LEMMA InitInv == Init => Sound
<1> SUFFICES ASSUME Init PROVE Sound
  OBVIOUS
<1>1. TypeOK
  <2>1. signal \in BOOLEAN
    BY Zenon DEF Init
  <2>2. syncQ \in Seq(SUBSET Update)
    BY DEF Init
  <2> QED BY <2>1, <2>2 DEF Init, TypeOK
<1>2. Len(syncQ) = 0 /\ Updates(syncQ) = {}
  BY UpdatesSmall DEF Init
<1>3. Conserved /\ Bounded
  BY <1>2, LaneAssumption DEF Init, Conserved, Bounded
<1>4. NoMissedWakeup /\ LatestPresence
  BY DEF Init, NoMissedWakeup, LatestPresence
<1> QED BY <1>1, <1>3, <1>4 DEF Sound

\* What one call of Collapse does to the backlog and to the counters.
LEMMA CollapseKeeps ==
    ASSUME TypeOK, NEW q \in Seq(SUBSET Update), Len(q) > Cap,
           Len(q) <= 2 * Cap + 1, Collapse(q)
    PROVE  /\ syncQ' \in Seq(SUBSET Update)
           /\ Len(syncQ') <= 2 * Cap
           /\ coalesced' \in Nat /\ hardDrops' \in Nat /\ lost' \subseteq Update
           /\ Updates(syncQ') \cup lost' = Updates(q) \cup lost
           /\ Len(syncQ') + coalesced' + hardDrops' = Len(q) + coalesced + hardDrops
<1> USE LaneAssumption
<1>0. Updates(q) \subseteq Update /\ Len(q) \in Nat /\ Len(q) >= 2
  BY UpdatesType
<1>1. CASE Mergeable(q)
  <2>1. syncQ' = <<Updates(q)>> /\ coalesced' = coalesced + (Len(q) - 1)
        /\ hardDrops' = hardDrops /\ lost' = lost
    BY <1>1 DEF Collapse
  <2>2. Updates(syncQ') = Updates(q)
    BY <2>1, <1>0, UpdatesSmall
  <2>3. syncQ' \in Seq(SUBSET Update) /\ Len(syncQ') = 1
    BY <2>1, <1>0
  <2> QED BY <2>1, <2>2, <2>3, <1>0 DEF TypeOK
<1>2. CASE ~Mergeable(q) /\ Len(q) > 2 * Cap
  <2>1. syncQ' = Tail(q) /\ hardDrops' = hardDrops + 1 /\ lost' = lost \cup Head(q)
        /\ coalesced' = coalesced
    BY <1>2 DEF Collapse
  <2>2. /\ q # <<>> /\ Head(q) \in SUBSET Update /\ Tail(q) \in Seq(SUBSET Update)
        /\ Len(Tail(q)) = Len(q) - 1
    BY <1>0
  <2>3. Updates(q) = Head(q) \cup Updates(Tail(q))
    BY <2>2, UpdatesTail
  <2>5. Updates(syncQ') \cup lost' = Updates(q) \cup lost
    BY <2>1, <2>3
  <2>6. coalesced' \in Nat /\ hardDrops' \in Nat /\ lost' \subseteq Update
    BY <2>1, <2>2 DEF TypeOK
  <2>7. Len(syncQ') = Len(q) - 1 /\ syncQ' \in Seq(SUBSET Update)
    BY <2>1, <2>2
  <2>8. Len(syncQ') + coalesced' + hardDrops' = Len(q) + coalesced + hardDrops
    BY <2>1, <2>7, <1>0 DEF TypeOK
  <2>9. Len(syncQ') <= 2 * Cap
    BY <2>7, <1>0
  <2> QED BY <2>5, <2>6, <2>7, <2>8, <2>9, Zenon
<1>3. CASE ~Mergeable(q) /\ ~(Len(q) > 2 * Cap)
  <2>1. syncQ' = q /\ hardDrops' = hardDrops /\ lost' = lost /\ coalesced' = coalesced
    BY <1>3 DEF Collapse
  <2> QED BY <2>1, <1>3, <1>0 DEF TypeOK
<1> QED BY <1>1, <1>2, <1>3

\* Every step keeps the invariant.
LEMMA NextInv == Sound /\ [Next]_vars => Sound'
<1> USE LaneAssumption
<1> SUFFICES ASSUME Sound, [Next]_vars PROVE Sound'
  OBVIOUS
<1>0. /\ TypeOK /\ Conserved /\ Bounded /\ NoMissedWakeup /\ LatestPresence
      /\ Len(syncQ) \in Nat
  BY DEF Sound, TypeOK
<1>1. ASSUME NEW p \in Producer, NEW u \in Update, PushSync(p, u) PROVE Sound'
  <2> DEFINE q == Append(syncQ, {u})
  <2>1. q \in Seq(SUBSET Update) /\ Len(q) = Len(syncQ) + 1 /\ q # <<>>
    BY <1>0 DEF TypeOK
  <2>2. Updates(q) = Updates(syncQ) \cup {u}
    BY <1>0, UpdatesAppend DEF TypeOK
  <2>3. /\ syncQ' \in Seq(SUBSET Update) /\ Len(syncQ') <= 2 * Cap
        /\ coalesced' \in Nat /\ hardDrops' \in Nat /\ lost' \subseteq Update
        /\ Updates(syncQ') \cup lost' = Updates(q) \cup lost
        /\ Len(syncQ') + coalesced' + hardDrops' = Len(q) + coalesced + hardDrops
    <3>1. CASE Len(q) > Cap
      <4>1. Collapse(q)
        BY <3>1, <1>1 DEF PushSync
      <4>2. Len(q) <= 2 * Cap + 1
        BY <2>1, <1>0 DEF Bounded
      <4>3. q \in Seq(SUBSET Update)
        BY <2>1
      <4> HIDE DEF q
      <4> QED BY <4>1, <4>2, <4>3, <3>1, <1>0, CollapseKeeps
    <3>2. CASE ~(Len(q) > Cap)
      <4>1. syncQ' = q /\ coalesced' = coalesced /\ hardDrops' = hardDrops /\ lost' = lost
        BY <3>2, <1>1 DEF PushSync
      <4> QED BY <4>1, <2>1, <3>2, <1>0 DEF TypeOK
    <3> QED BY <3>1, <3>2
  <2>4. /\ pushed' = pushed \cup {u} /\ pushes' = pushes + 1
        /\ notifying' = notifying \cup {p}
        /\ UNCHANGED <<signal, phase, takes, delivered>> /\ UNCHANGED awVars
    BY <1>1 DEF PushSync
  <2>5. TypeOK'
    BY <2>3, <2>4, <1>0 DEF TypeOK, awVars
  <2>6. pushed' = delivered' \cup Updates(syncQ') \cup lost'
    BY <2>2, <2>3, <2>4, <1>0 DEF Conserved
  <2>7. pushes' = Len(syncQ') + coalesced' + hardDrops' + takes'
    <3>1. Len(syncQ') \in Nat
      BY <2>3
    <3> QED BY <3>1, <2>1, <2>3, <2>4, <1>0 DEF Conserved, TypeOK
  <2>8. NoMissedWakeup' /\ LatestPresence' /\ Bounded'
    BY <2>3, <2>4, <1>0 DEF NoMissedWakeup, LatestPresence, Bounded, awVars
  <2> QED BY <2>5, <2>6, <2>7, <2>8 DEF Sound, Conserved
<1>2. ASSUME NEW p \in Producer, PushAwareness(p) PROVE Sound'
  <2>1. TypeOK' /\ Conserved' /\ Bounded' /\ NoMissedWakeup'
    BY <1>2, <1>0
       DEF PushAwareness, TypeOK, Conserved, Bounded, NoMissedWakeup, syncVars
  <2>2. LatestPresence'
    BY <1>2, <1>0 DEF PushAwareness, TypeOK, LatestPresence
  <2> QED BY <2>1, <2>2 DEF Sound
<1>3. ASSUME NEW p \in Producer, Notify(p) PROVE Sound'
  BY <1>3, <1>0 DEF Notify, Sound, TypeOK, Conserved, Bounded, NoMissedWakeup,
                    LatestPresence, syncVars, awVars
<1>4. CASE Wake
  BY <1>4, <1>0 DEF Wake, Sound, TypeOK, Conserved, Bounded, NoMissedWakeup,
                    LatestPresence, syncVars, awVars
<1>5. CASE TakeSync
  <2>1. /\ syncQ # <<>> /\ phase' = phase /\ phase = "sync" /\ takes' = takes + 1
        /\ UNCHANGED <<signal, notifying, pushed, pushes, hardDrops, lost>>
        /\ UNCHANGED awVars
    BY <1>5 DEF TakeSync
  <2>2. /\ Head(syncQ) \in SUBSET Update /\ Tail(syncQ) \in Seq(SUBSET Update)
        /\ Len(Tail(syncQ)) = Len(syncQ) - 1 /\ Len(syncQ) >= 1
        /\ Updates(syncQ) = Head(syncQ) \cup Updates(Tail(syncQ))
        /\ Updates(syncQ) \subseteq Update
    BY <2>1, <1>0, UpdatesTail, UpdatesType DEF TypeOK
  <2>3. /\ syncQ' \in Seq(SUBSET Update) /\ Len(syncQ') < Len(syncQ)
        /\ coalesced' \in Nat /\ delivered' \subseteq Update
        /\ delivered' \cup Updates(syncQ') = delivered \cup Updates(syncQ)
        /\ coalesced' = Len(syncQ) + coalesced - Len(syncQ') - 1
    <3>1. CASE Len(syncQ) = 1 \/ ~Mergeable(syncQ)
      <4>1. delivered' = delivered \cup Head(syncQ) /\ syncQ' = Tail(syncQ)
            /\ coalesced' = coalesced
        BY <3>1, <1>5 DEF TakeSync
      <4>2. delivered' \cup Updates(syncQ') = delivered \cup Updates(syncQ)
        BY <4>1, <2>2
      <4> QED BY <4>1, <4>2, <2>2, <1>0 DEF TypeOK
    <3>2. CASE ~(Len(syncQ) = 1 \/ ~Mergeable(syncQ))
      <4>1. delivered' = delivered \cup Updates(syncQ) /\ syncQ' = <<>>
            /\ coalesced' = coalesced + (Len(syncQ) - 1)
        BY <3>2, <1>5 DEF TakeSync
      <4>2. Updates(syncQ') = {} /\ Len(syncQ') = 0 /\ syncQ' \in Seq(SUBSET Update)
        BY <4>1, UpdatesSmall
      <4>3. delivered' \cup Updates(syncQ') = delivered \cup Updates(syncQ)
        BY <4>1, <4>2
      <4> QED BY <4>1, <4>2, <4>3, <2>2, <1>0 DEF TypeOK
    <3> QED BY <3>1, <3>2
  <2>4. TypeOK'
    BY <2>1, <2>3, <1>0 DEF TypeOK, awVars
  <2>5. pushed' = delivered' \cup Updates(syncQ') \cup lost'
    BY <2>1, <2>3, <1>0 DEF Conserved
  <2>6. Len(syncQ') \in Nat
    BY <2>3
  <2>7. pushes' = Len(syncQ') + coalesced' + hardDrops' + takes'
    <3>1. /\ pushes' = pushes /\ hardDrops' = hardDrops /\ takes' = takes + 1
          /\ pushes = Len(syncQ) + coalesced + hardDrops + takes
          /\ coalesced' = Len(syncQ) + coalesced - Len(syncQ') - 1
      BY <2>1, <2>3, <1>0 DEF Conserved
    <3>2. /\ coalesced \in Nat /\ hardDrops \in Nat /\ takes \in Nat
          /\ coalesced' \in Nat /\ Len(syncQ) \in Nat /\ Len(syncQ') \in Nat
      BY <2>3, <2>6, <1>0 DEF TypeOK
    <3> QED BY <3>1, <3>2
  <2>8. Bounded' /\ NoMissedWakeup' /\ LatestPresence'
    BY <2>1, <2>3, <2>6, <1>0 DEF Bounded, NoMissedWakeup, LatestPresence, awVars
  <2> QED BY <2>4, <2>5, <2>7, <2>8 DEF Sound, Conserved
<1>6. CASE TakeAwareness
  <2>1. TypeOK' /\ Conserved' /\ Bounded' /\ NoMissedWakeup'
    BY <1>6, <1>0
       DEF TakeAwareness, TypeOK, Conserved, Bounded, NoMissedWakeup, syncVars
  <2>2. LatestPresence'
    BY <1>6, <1>0 DEF TakeAwareness, TypeOK, LatestPresence
  <2> QED BY <2>1, <2>2 DEF Sound
<1>7. CASE Park
  BY <1>7, <1>0 DEF Park, Sound, TypeOK, Conserved, Bounded, NoMissedWakeup,
                    LatestPresence, syncVars, awVars
<1>8. CASE SyncEmpty
  BY <1>8, <1>0 DEF SyncEmpty, Sound, TypeOK, Conserved, Bounded, NoMissedWakeup,
                    LatestPresence, syncVars, awVars
<1>9. CASE UNCHANGED vars
  BY <1>9, <1>0 DEF vars, Sound, TypeOK, Conserved, Bounded, NoMissedWakeup, LatestPresence
<1> QED BY <1>1, <1>2, <1>3, <1>4, <1>5, <1>6, <1>7, <1>8, <1>9 DEF Next, Consume

\* Sound is inductive as it stands, so the lane is sound for every capacity,
\* every number of producers and every pattern of failing merges.
THEOREM LaneSound == Spec => []Sound
<1> QED BY InitInv, NextInv, PTL DEF Spec

\* The lane is always well formed.
THEOREM LaneTypeCorrect == Spec => []TypeOK
<1>1. Sound => TypeOK
  BY DEF Sound
<1> QED BY <1>1, LaneSound, PTL

\* For any capacity and any merge failures: what was pushed is delivered,
\* queued or hard-dropped, and the counters account for every blob.
THEOREM LaneConserves == Spec => []Conserved
<1>1. Sound => Conserved
  BY DEF Sound
<1> QED BY <1>1, LaneSound, PTL

\* The backlog stays within twice the capacity.
THEOREM LaneBounded == Spec => []Bounded
<1>1. Sound => Bounded
  BY DEF Sound
<1> QED BY <1>1, LaneSound, PTL

\* With any number of producers, each overtaken between unlock and notify, a
\* non-empty lane always has a consumer that has yet to look or is signalled.
THEOREM LaneWakes == Spec => []NoMissedWakeup
<1>1. Sound => NoMissedWakeup
  BY DEF Sound
<1> QED BY <1>1, LaneSound, PTL

\* Awareness is latest-wins and its counters add up.
THEOREM LanePresence == Spec => []LatestPresence
<1>1. Sound => LatestPresence
  BY DEF Sound
<1> QED BY <1>1, LaneSound, PTL
=============================================================================
