-------------------------- MODULE AwarenessProofs --------------------------
(***************************************************************************)
(* Presence for every set of clients, states, sizes, caps and clock        *)
(* limits.  The side tables of an Awareness (meta, wireBytes, priorJSON,    *)
(* removedAt and the queue of tombstones) are what applyUpdate decides by,  *)
(* so IInv says how each of them follows the states; Counted and Capped    *)
(* say that the accounts are exact and stay under the two caps.            *)
(***************************************************************************)
EXTENDS Awareness, FiniteSetTheorems, TLAPS

USE SMTT(30), ZenonT(30)

\* What a step may rely on, one table at a time.
Shape ==
  /\ setup \in Setups
  /\ seen \subseteq Id /\ meta \subseteq Id
  /\ clk \in [Id -> 0 .. MaxClock] /\ st \in [Id -> State \cup {None}]
  /\ clock \in 0 .. MaxClock
Sizes == wire \in [Id -> Nat] /\ bytes \in Int /\ prior \in [Id -> Text \cup {None}]
Graves == tombSeq \in [Id -> Nat] /\ tombQ \subseteq Id \X Nat /\ nextSeq \in Nat
Events == change \subseteq Id /\ update \subseteq Id

\* A client that is not tracked has no clock.
Forgotten == \A id \in Id \ seen : clk[id] = 0

\* The queue numbers tombstones apart, and numbers it has not given are free.
Numbered ==
  /\ \A t \in tombQ : t[2] > 0
  /\ \A i \in Id : tombSeq[i] <= nextSeq
  /\ \A i, j \in Tombstones : tombSeq[i] = tombSeq[j] => i = j

\* What a remote client weighs, and the text its state came as.
Weighed ==
  \A id \in Id \ {Local} :
    /\ ~Live(id) => wire[id] = 0
    /\ Live(id) => /\ prior[id] \in Text
                   /\ wire[id] = Size[prior[id]] /\ st[id] = Parse[prior[id]]

IInv ==
  /\ Shape /\ Sizes /\ Graves /\ Events /\ Forgotten /\ Numbered
  /\ Bookkeeping /\ QueueCovers /\ Weighed

----------------------------------------------------------------------------
(* Marking a tombstone. *)

LEMMA MarkKeeps ==
    ASSUME Graves, Numbered, QueueCovers, NEW id \in Id, Mark(id)
    PROVE  /\ Graves' /\ Numbered' /\ QueueCovers'
           /\ Tombstones' = Tombstones \cup {id}
<1>1. /\ nextSeq' = nextSeq + 1 /\ nextSeq \in Nat
      /\ tombSeq' = [tombSeq EXCEPT ![id] = nextSeq + 1]
      /\ <<id, nextSeq + 1>> \in tombQ'
      /\ \A t \in tombQ' : t \in tombQ \/ t = <<id, nextSeq + 1>>
      /\ \A t \in tombQ : Fresh(t) => t \in tombQ'
  BY DEF Mark, Graves
<1>2. Graves'
  BY <1>1 DEF Graves
<1>3. /\ tombSeq'[id] = nextSeq + 1
      /\ \A j \in Id \ {id} : tombSeq'[j] = tombSeq[j]
      /\ \A j \in Id : tombSeq[j] \in Nat /\ tombSeq[j] <= nextSeq
  BY <1>1 DEF Graves, Numbered
<1>4. Tombstones' = Tombstones \cup {id}
  BY <1>1, <1>3 DEF Tombstones
<1>5. Numbered'
  <2>1. \A t \in tombQ' : t[2] > 0
    BY <1>1 DEF Numbered
  <2>2. \A i \in Id : tombSeq'[i] <= nextSeq'
    BY <1>1, <1>3
  <2>3. \A i, j \in Tombstones' : tombSeq'[i] = tombSeq'[j] => i = j
    BY <1>1, <1>3, <1>4 DEF Numbered, Tombstones
  <2> QED BY <2>1, <2>2, <2>3 DEF Numbered
<1>6. QueueCovers'
  <2> SUFFICES ASSUME NEW j \in Tombstones'
               PROVE  <<j, tombSeq'[j]>> \in tombQ' /\ tombSeq'[j] <= nextSeq'
    BY Zenon DEF QueueCovers
  <2>1. CASE j = id
    BY <2>1, <1>1, <1>3
  <2>2. CASE j # id
    <3>1. j \in Tombstones /\ j \in Id /\ tombSeq'[j] = tombSeq[j]
      BY <2>2, <1>3, <1>4 DEF Tombstones
    <3>2. <<j, tombSeq[j]>> \in tombQ /\ Fresh(<<j, tombSeq[j]>>)
      BY <3>1 DEF QueueCovers, Fresh
    <3> QED BY <1>1, <1>3, <3>1, <3>2
  <2> QED BY <2>1, <2>2
<1> QED BY <1>2, <1>4, <1>5, <1>6

(* Taking tombstones away, with the queue popped up to the oldest or not. *)
LEMMA UntombKeeps ==
    ASSUME Graves, Numbered, QueueCovers, NEW ids \in SUBSET Id,
           tombSeq' = Untomb(ids), nextSeq' = nextSeq, tombQ' \subseteq tombQ,
           \A j \in Tombstones \ ids : <<j, tombSeq[j]>> \in tombQ'
    PROVE  /\ Graves' /\ Numbered' /\ QueueCovers'
           /\ Tombstones' = Tombstones \ ids
<1>1. \A j \in Id : tombSeq'[j] = IF j \in ids THEN 0 ELSE tombSeq[j]
  BY DEF Untomb
<1>2. Graves'
  BY DEF Graves, Untomb
<1>3. Tombstones' = Tombstones \ ids
  BY <1>1 DEF Tombstones
<1>4. Numbered'
  BY <1>1, <1>3 DEF Numbered, Graves, Tombstones
<1>5. QueueCovers'
  BY <1>1, <1>3 DEF QueueCovers, Tombstones
<1> QED BY <1>2, <1>3, <1>4, <1>5

(* The oldest tombstone is one, and popping it loses no other. *)
LEMMA OldestIsOne ==
    ASSUME Graves, Numbered, QueueCovers, NEW t \in tombQ, IsOldest(t)
    PROVE  /\ t[1] \in Tombstones /\ tombSeq[t[1]] = t[2]
           /\ \A j \in Tombstones : t[2] <= tombSeq[j]
           /\ \A j \in Tombstones \ {t[1]} : <<j, tombSeq[j]>> \in PopTo(t)
<1>1. t \in Id \X Nat /\ t[1] \in Id /\ t[2] \in Nat /\ t[2] > 0 /\ tombSeq[t[1]] = t[2]
  BY DEF Graves, Numbered, IsOldest, Fresh
<1>2. t[1] \in Tombstones
  BY <1>1 DEF Tombstones
<1>3. ASSUME NEW j \in Tombstones PROVE <<j, tombSeq[j]>> \in tombQ /\ t[2] <= tombSeq[j]
  BY DEF QueueCovers, IsOldest, Fresh
<1>4. ASSUME NEW j \in Tombstones \ {t[1]} PROVE <<j, tombSeq[j]>> \in PopTo(t)
  <2>1. tombSeq[j] \in Nat /\ tombSeq[j] # t[2]
    BY <1>1, <1>2 DEF Graves, Numbered, Tombstones
  <2> QED BY <1>1, <1>3, <2>1 DEF PopTo
<1> QED BY <1>1, <1>2, <1>3, <1>4, Zenon

----------------------------------------------------------------------------
(* The steps keep IInv, one lemma per action. *)

LEMMA InitInv == Init => IInv
<1> SUFFICES ASSUME Init PROVE IInv
  OBVIOUS
<1>1. /\ \A id \in Id : clk[id] = 0 /\ st[id] = None /\ wire[id] = 0 /\ tombSeq[id] = 0
      /\ seen = {} /\ meta = {} /\ setup \in Setups /\ bytes = 0 /\ nextSeq = 0 /\ tombQ = {}
  BY DEF Init
<1>4. Shape /\ Sizes /\ Graves /\ Events
  BY LimitAssumption DEF Init, Shape, Sizes, Graves, Events
<1>5. Tombstones = {}
  BY <1>1 DEF Tombstones
<1>6. Forgotten /\ Numbered /\ Bookkeeping /\ QueueCovers
  BY <1>1, <1>5 DEF Forgotten, Numbered, Bookkeeping, QueueCovers, Live
<1>8. Weighed
  BY <1>1 DEF Weighed, Live
<1> QED BY <1>4, <1>6, <1>8 DEF IInv

(* The types the lemmas below share. *)
LEMMA Types ==
    ASSUME IInv
    PROVE  /\ setup.clients \in Nat /\ setup.bytes \in Nat /\ setup.texts \subseteq Text
           /\ Local \in Id /\ MaxWire \in Nat /\ MaxClock \in Nat /\ MaxWire < MaxClock
           /\ \A t \in Text : t # None /\ t # "null" /\ Size[t] \in Nat /\ Size[t] > 0
           /\ \A t \in Text : Parse[t] \in State
           /\ None \notin State
           /\ \A id \in Id : clk[id] \in Nat /\ clk[id] <= MaxClock /\ wire[id] \in Nat
           /\ clock \in Nat /\ clock <= MaxClock
BY LimitAssumption, IdAssumption, TextAssumption DEF IInv, Shape, Sizes

(* Tables that a step leaves alone keep what is said of them. *)
LEMMA GravesFrame ==
    ASSUME Graves, Numbered, QueueCovers, UNCHANGED tombs
    PROVE  Graves' /\ Numbered' /\ QueueCovers' /\ Tombstones' = Tombstones
<1>1. tombSeq' = tombSeq /\ tombQ' = tombQ /\ nextSeq' = nextSeq
  BY DEF tombs
<1>2. Tombstones' = Tombstones
  BY <1>1 DEF Tombstones
<1> QED BY <1>1, <1>2 DEF Graves, Numbered, QueueCovers

(* A change of the local client alone touches no remote one. *)
LEMMA LocalKeeps ==
    ASSUME IInv, setup' = setup, Sizes', UNCHANGED tombs,
           \A j \in Id \ {Local} : wire'[j] = wire[j] /\ prior'[j] = prior[j],
           NEW c \in 0 .. MaxClock, NEW s \in State \cup {None},
           seen' = seen \cup {Local}, clock' \in 0 .. MaxClock,
           clk' = [clk EXCEPT ![Local] = c], st' = [st EXCEPT ![Local] = s],
           meta' = IF s = None THEN meta \ {Local} ELSE meta \cup {Local},
           change' \subseteq {Local}, update' \subseteq {Local}
    PROVE  IInv'
<1>1. Local \in Id
  BY IdAssumption
<1>2. seen' \ {Local} = seen \ {Local}
  OBVIOUS
<1>3. Shape'
  BY <1>1, <1>2 DEF IInv, Shape
<1>4. Events'
  BY <1>1 DEF Events
<1>5. Graves' /\ Numbered' /\ QueueCovers' /\ Tombstones' = Tombstones
  BY GravesFrame DEF IInv
<1>6. /\ st'[Local] = s /\ clk'[Local] = c
      /\ \A j \in Id \ {Local} : st'[j] = st[j] /\ clk'[j] = clk[j]
  BY <1>1 DEF IInv, Shape
<1>7. Forgotten'
  BY <1>6 DEF IInv, Forgotten
<1>8. Bookkeeping'
  <2>1. meta = {j \in Id : st[j] # None} /\ meta \subseteq seen
    BY DEF IInv, Bookkeeping, Live
  <2>2. meta' = {j \in Id : st'[j] # None}
    BY <1>1, <1>6, <2>1
  <2>3. Tombstones = {j \in seen \ {Local} : st[j] = None}
    BY DEF IInv, Bookkeeping, Live
  <2>4. Tombstones' = {j \in seen' \ {Local} : st'[j] = None}
    BY <1>2, <1>5, <1>6, <2>3 DEF IInv, Shape
  <2> QED BY <2>1, <2>2, <2>4 DEF Bookkeeping, Live
<1>9. Weighed'
  BY <1>6 DEF IInv, Weighed, Live
<1> QED BY <1>3, <1>4, <1>5, <1>7, <1>8, <1>9 DEF IInv

LEMMA AccountFrame ==
    ASSUME IInv, UNCHANGED account, setup' = setup
    PROVE  /\ Sizes'
           /\ \A j \in Id \ {Local} : wire'[j] = wire[j] /\ prior'[j] = prior[j]
<1>1. wire' = wire /\ bytes' = bytes /\ prior' = prior
  BY DEF account
<1> QED BY <1>1 DEF IInv, Sizes

LEMMA SetLocalInv ==
    ASSUME IInv, NEW s \in States \cup {None}, SetLocalState(s)
    PROVE  IInv'
<1> DEFINE c == Bump(IF Local \in seen THEN MaxOf(clock, clk[Local]) ELSE clock)
<1>1. c \in 0 .. MaxClock
  BY Types DEF Bump, MaxOf
<1>2. s \in State \cup {None}
  BY Types, Zenon DEF States
<1>3. /\ setup' = setup /\ UNCHANGED account /\ UNCHANGED tombs /\ clock' = c
      /\ seen' = seen \cup {Local} /\ clk' = [clk EXCEPT ![Local] = c]
      /\ st' = [st EXCEPT ![Local] = s]
      /\ meta' = IF s = None THEN meta \ {Local} ELSE meta \cup {Local}
      /\ change' \subseteq {Local} /\ update' \subseteq {Local}
  BY DEF SetLocalState
<1> QED BY <1>1, <1>2, <1>3, AccountFrame, LocalKeeps, Zenon

LEMMA HeartbeatInv ==
    ASSUME IInv, Heartbeat
    PROVE  IInv'
<1> DEFINE c == Bump(MaxOf(clock, clk[Local]))
<1>1. c \in 0 .. MaxClock
  BY Types DEF Bump, MaxOf
<1>2. st[Local] \in State \cup {None} /\ st[Local] # None /\ Local \in meta /\ Local \in seen
  BY Types DEF IInv, Shape, Bookkeeping, Live, Heartbeat
<1>3. st' = [st EXCEPT ![Local] = st[Local]]
  BY Types DEF IInv, Shape, Heartbeat
<1>4. /\ setup' = setup /\ UNCHANGED account /\ UNCHANGED tombs /\ clock' = c
      /\ seen' = seen /\ clk' = [clk EXCEPT ![Local] = c] /\ meta' = meta \cup {Local}
      /\ change' \subseteq {Local} /\ update' \subseteq {Local}
  BY DEF Heartbeat
<1>5. seen' = seen \cup {Local}
  BY <1>2, <1>4
<1> QED BY <1>1, <1>2, <1>3, <1>4, <1>5, AccountFrame, LocalKeeps, Zenon

(* A remote client becomes a tombstone. *)
LEMMA RemovalKeeps ==
    ASSUME IInv, setup' = setup, NEW id \in Id \ {Local}, NEW c \in 0 .. MaxClock,
           seen' = seen \cup {id}, clk' = [clk EXCEPT ![id] = c],
           st' = [st EXCEPT ![id] = None], meta' = meta \ {id}, clock' = clock,
           bytes' = bytes - wire[id], wire' = [wire EXCEPT ![id] = 0],
           prior' \in [Id -> Text \cup {None}],
           \A j \in Id \ {id} : prior'[j] = prior[j],
           Mark(id), change' \subseteq {id}, update' \subseteq {id}
    PROVE  IInv'
<1>2. Shape' /\ Events'
  BY TextAssumption DEF IInv, Shape, Events
<1>3. Sizes'
  <2>1. wire \in [Id -> Nat] /\ bytes \in Int /\ wire[id] \in Nat
    BY DEF IInv, Sizes
  <2>2. wire' \in [Id -> Nat] /\ bytes' \in Int
    BY <2>1
  <2> QED BY <2>2 DEF Sizes
<1>4. Graves' /\ Numbered' /\ QueueCovers' /\ Tombstones' = Tombstones \cup {id}
  BY MarkKeeps DEF IInv
<1>5. /\ st'[id] = None /\ clk'[id] = c /\ wire'[id] = 0
      /\ \A j \in Id \ {id} : st'[j] = st[j] /\ clk'[j] = clk[j] /\ wire'[j] = wire[j]
  BY DEF IInv, Shape, Sizes
<1>6. Forgotten'
  BY <1>5 DEF IInv, Forgotten
<1>7. Bookkeeping'
  <2>1. meta = {j \in Id : st[j] # None} /\ meta \subseteq seen
    BY DEF IInv, Bookkeeping, Live
  <2>2. meta' = {j \in Id : st'[j] # None}
    BY <1>5, <2>1
  <2>3. Tombstones = {j \in seen \ {Local} : st[j] = None}
    BY DEF IInv, Bookkeeping, Live
  <2>4. Tombstones' = {j \in seen' \ {Local} : st'[j] = None}
    BY <1>4, <1>5, <2>3 DEF IInv, Shape
  <2> QED BY <2>1, <2>2, <2>4 DEF Bookkeeping, Live
<1>9. Weighed'
  BY <1>5 DEF IInv, Weighed, Live
<1> QED BY <1>2, <1>3, <1>4, <1>6, <1>7, <1>9 DEF IInv

LEMMA ExpireInv ==
    ASSUME IInv, NEW id \in Id, Expire(id)
    PROVE  IInv'
<1>1. id \in Id \ {Local} /\ id \in meta
  BY DEF Expire
<1>2. id \in seen /\ clk[id] \in 0 .. MaxClock /\ prior \in [Id -> Text \cup {None}]
  BY <1>1 DEF IInv, Bookkeeping, Shape, Sizes
<1>3. seen' = seen \cup {id} /\ clk' = [clk EXCEPT ![id] = clk[id]]
  BY <1>2 DEF Expire, IInv, Shape
<1>4. /\ setup' = setup /\ st' = [st EXCEPT ![id] = None] /\ meta' = meta \ {id}
      /\ clock' = clock /\ bytes' = bytes - wire[id] /\ wire' = [wire EXCEPT ![id] = 0]
      /\ prior' = prior /\ Mark(id) /\ change' \subseteq {id} /\ update' \subseteq {id}
  BY DEF Expire
<1> QED BY <1>1, <1>2, <1>3, <1>4, RemovalKeeps, Zenon

LEMMA PurgeInv ==
    ASSUME IInv, NEW id \in Id, Purge(id)
    PROVE  IInv'
<1>1. id \in Tombstones /\ id # Local /\ id \in seen /\ st[id] = None /\ wire[id] = 0 /\ id \notin meta
  BY DEF IInv, Purge, Bookkeeping, Weighed, Live
<1>2. st' = st /\ wire' = wire /\ meta' = meta
  BY <1>1 DEF Purge, IInv, Shape, Sizes
<1>3. /\ setup' = setup /\ seen' = seen \ {id} /\ clk' = [clk EXCEPT ![id] = 0]
      /\ clock' = clock /\ bytes' = bytes /\ prior' = prior /\ tombQ' = tombQ
      /\ tombSeq' = Untomb({id}) /\ nextSeq' = nextSeq /\ change' = {} /\ update' = {}
  BY DEF Purge
<1>5. Shape' /\ Sizes' /\ Events'
  BY <1>2, <1>3, Types DEF IInv, Shape, Sizes, Events
<1>7. Graves' /\ Numbered' /\ QueueCovers' /\ Tombstones' = Tombstones \ {id}
  <2>1. \A j \in Tombstones \ {id} : <<j, tombSeq[j]>> \in tombQ'
    BY <1>3 DEF IInv, QueueCovers
  <2> QED BY <1>3, <2>1, UntombKeeps DEF IInv
<1>8. Forgotten'
  BY <1>3 DEF IInv, Forgotten, Shape
<1>9. Bookkeeping'
  BY <1>1, <1>2, <1>3, <1>7 DEF IInv, Bookkeeping, Live
<1>11. Weighed'
  BY <1>2, <1>3 DEF IInv, Weighed, Live
<1> QED BY <1>5, <1>7, <1>8, <1>9, <1>11 DEF IInv

(* What an accepted entry may rely on. *)
LEMMA PassesMeans ==
    ASSUME IInv, NEW id \in Id, NEW c \in 0 .. MaxWire, NEW p \in Payload, Passes(id, c, p)
    PROVE  /\ c \in 0 .. MaxClock /\ clk[id] \in Nat /\ clk[id] <= c
           /\ p # "null" /\ id \in seen => clk[id] < c
<1>1. c \in 0 .. MaxClock /\ clk[id] \in Nat
  BY Types
<1>2. CASE id \notin seen
  BY <1>1, <1>2 DEF IInv, Forgotten
<1>3. CASE id \in seen
  BY <1>1, <1>3 DEF Passes, IsNullEntry
<1> QED BY <1>1, <1>2, <1>3

LEMMA DecodedMeans ==
    ASSUME IInv, NEW id \in Id, NEW p
    PROVE  /\ Decoded(id, p) # None =>
                /\ p \in Text /\ p # None /\ p # "null" /\ Size[p] \in Nat /\ Size[p] > 0
                /\ Parse[p] \in State /\ Parse[p] # None
                /\ setup.bytes > 0 => bytes + Size[p] - wire[id] <= setup.bytes
BY Types DEF Decoded

LEMMA SelfNullInv ==
    ASSUME IInv, NEW id \in Id, NEW c \in 0 .. MaxWire, NEW p \in Payload, SelfNull(id, c, p)
    PROVE  IInv'
<1>0. /\ Local \in Id /\ clock \in 0 .. MaxClock /\ clk \in [Id -> 0 .. MaxClock]
      /\ st \in [Id -> State \cup {None}]
  BY IdAssumption DEF IInv, Shape
<1>1. /\ setup' = setup /\ UNCHANGED account /\ UNCHANGED tombs
      /\ seen' = seen /\ st' = st /\ meta' = meta
      /\ change' \subseteq {Local} /\ update' \subseteq {Local}
  BY DEF SelfNull
<1>2. clock' \in 0 .. MaxClock
  BY <1>0, LimitAssumption DEF SelfNull
<1>3. st = [st EXCEPT ![Local] = st[Local]] /\ st[Local] \in State \cup {None}
  BY <1>0
<1>4. CASE Local \in seen
  <2>1. PICK k \in 0 .. MaxClock : clk' = [clk EXCEPT ![Local] = k]
    <3>1. CASE Live(Local)
      BY <1>2, <3>1, Zenon DEF SelfNull
    <3>2. CASE ~Live(Local)
      <4>1. clk' = [clk EXCEPT ![Local] = clk[Local]] /\ clk[Local] \in 0 .. MaxClock
        BY <1>0, <3>2 DEF SelfNull
      <4> QED BY <4>1, Zenon
    <3> QED BY <3>1, <3>2
  <2>2. meta' = IF st[Local] = None THEN meta \ {Local} ELSE meta \cup {Local}
    BY <1>0, <1>1, <1>4 DEF IInv, Bookkeeping, Live
  <2>3. seen' = seen \cup {Local}
    BY <1>1, <1>4
  <2> QED BY <1>1, <1>2, <1>3, <2>1, <2>2, <2>3, AccountFrame, LocalKeeps, Zenon
<1>5. CASE Local \notin seen
  <2>1. ~Live(Local)
    BY <1>0, <1>5 DEF IInv, Bookkeeping
  <2>2. clk' = clk
    BY <2>1 DEF SelfNull
  <2>3. Shape' /\ Events'
    BY <1>0, <1>1, <1>2, <2>2 DEF IInv, Shape, Events
  <2>4. Sizes'
    BY <1>1, AccountFrame
  <2>5. Graves' /\ Numbered' /\ QueueCovers' /\ Tombstones' = Tombstones
    BY <1>1, GravesFrame DEF IInv
  <2>6. Forgotten'
    BY <1>1, <2>2 DEF IInv, Forgotten
  <2>7. Bookkeeping' /\ Weighed'
    BY <1>1, <2>5, AccountFrame DEF IInv, Bookkeeping, Weighed, Live
  <2> QED BY <2>3, <2>4, <2>5, <2>6, <2>7 DEF IInv
<1> QED BY <1>4, <1>5

LEMMA DropInv ==
    ASSUME IInv, NEW id, NEW c, NEW p, NEW foreign, NEW admit, Drop(id, c, p, foreign, admit)
    PROVE  IInv'
<1>1. /\ setup' = setup /\ UNCHANGED account /\ UNCHANGED tombs /\ clock' = clock
      /\ seen' = seen /\ clk' = clk /\ st' = st /\ meta' = meta
      /\ change' = {} /\ update' = {}
  BY DEF Drop, table
<1>2. Shape' /\ Events' /\ Forgotten'
  BY <1>1 DEF IInv, Shape, Events, Forgotten
<1>3. Sizes'
  BY <1>1, AccountFrame
<1>4. Graves' /\ Numbered' /\ QueueCovers' /\ Tombstones' = Tombstones
  BY <1>1, GravesFrame DEF IInv
<1>5. Bookkeeping' /\ Weighed'
  BY <1>1, <1>4, AccountFrame DEF IInv, Bookkeeping, Weighed, Live
<1> QED BY <1>2, <1>3, <1>4, <1>5 DEF IInv

LEMMA RemoveInv ==
    ASSUME IInv, NEW id \in Id, NEW c \in 0 .. MaxWire, NEW p \in Payload,
           NEW foreign, NEW admit, Remove(id, c, p, foreign, admit)
    PROVE  IInv'
<1>1. /\ setup' = setup /\ clock' = clock
      /\ seen' = seen \cup {id} /\ clk' = [clk EXCEPT ![id] = c]
      /\ st' = [st EXCEPT ![id] = None] /\ meta' = meta \ {id}
      /\ bytes' = bytes - wire[id] /\ wire' = [wire EXCEPT ![id] = 0]
      /\ prior' = [prior EXCEPT ![id] = None]
      /\ change' \subseteq {id} /\ update' \subseteq {id}
  BY DEF Remove
<1>2. Passes(id, c, p) /\ ~AtCap(id)
  BY DEF Remove, Accepted, Refused
<1>3. c \in 0 .. MaxClock
  BY <1>2, PassesMeans
<1>4. /\ prior' \in [Id -> Text \cup {None}]
      /\ \A j \in Id \ {id} : prior'[j] = prior[j] /\ wire'[j] = wire[j]
  BY <1>1 DEF IInv, Sizes
<1>5. CASE id = Local
  <2>1. UNCHANGED tombs
    BY <1>5 DEF Remove
  <2>2. Sizes'
    BY <1>1, <1>4, Types DEF IInv, Sizes
  <2>3. clock' \in 0 .. MaxClock
    BY <1>1 DEF IInv, Shape
  <2> QED BY <1>1, <1>3, <1>4, <1>5, <2>1, <2>2, <2>3, LocalKeeps, Zenon
<1>6. CASE id # Local
  <2>1. Mark(id)
    BY <1>6 DEF Remove
  <2> QED BY <1>1, <1>2, <1>3, <1>4, <1>6, <2>1, RemovalKeeps, Zenon
<1> QED BY <1>5, <1>6

(* What an announcement does to the tables, with freed the tombstone whose   *)
(* slot it takes, if any.                                                    *)
Frees(id, c, freed) ==
  /\ freed \subseteq Tombstones /\ id \notin freed /\ Local \notin freed
  /\ freed # {} => \E x : freed = {x} /\ \A j \in Tombstones : tombSeq[x] <= tombSeq[j]
  /\ IF AtCap(id) THEN freed # {} ELSE freed = {}
  /\ seen' = (seen \ freed) \cup {id}
  /\ clk' = [i \in Id |-> IF i = id THEN c ELSE IF i \in freed THEN 0 ELSE clk[i]]
  /\ tombSeq' = Untomb(freed \cup {id}) /\ tombQ' \subseteq tombQ
  /\ \A j \in Tombstones \ (freed \cup {id}) : <<j, tombSeq[j]>> \in tombQ'

LEMMA AnnounceMeans ==
    ASSUME IInv, NEW id \in Id, NEW c \in 0 .. MaxWire, NEW p \in Payload,
           NEW foreign, NEW admit, Announce(id, c, p, foreign, admit)
    PROVE  \E freed \in SUBSET Id : Frees(id, c, freed)
<1>1. PICK t \in tombQ \cup {<<id, 0>>} :
        LET freed == IF AtCap(id) THEN {t[1]} ELSE {}
        IN  /\ IF AtCap(id) THEN IsOldest(t) ELSE t = <<id, 0>>
            /\ seen' = (seen \ freed) \cup {id}
            /\ clk' = [i \in Id |-> IF i = id THEN c ELSE IF i \in freed THEN 0 ELSE clk[i]]
            /\ tombSeq' = Untomb(freed \cup {id})
            /\ tombQ' = IF AtCap(id) THEN PopTo(t) ELSE tombQ
  BY Zenon DEF Announce
<1>2. Tombstones \subseteq seen \ {Local} /\ Tombstones \subseteq Id
  BY DEF IInv, Bookkeeping, Tombstones
<1>3. CASE AtCap(id)
  <2>1. t \in tombQ /\ IsOldest(t)
    BY <1>1, <1>3 DEF IsOldest
  <2>2. /\ t[1] \in Tombstones /\ tombSeq[t[1]] = t[2]
        /\ \A j \in Tombstones : t[2] <= tombSeq[j]
        /\ \A j \in Tombstones \ {t[1]} : <<j, tombSeq[j]>> \in PopTo(t)
    BY <2>1, OldestIsOne DEF IInv
  <2>3. id \notin seen
    BY <1>3 DEF AtCap
  <2>4. PopTo(t) \subseteq tombQ
    BY DEF PopTo
  <2> {t[1]} \in SUBSET Id
    BY <1>2, <2>2
  <2> WITNESS {t[1]} \in SUBSET Id
  <2> QED BY <1>1, <1>2, <1>3, <2>2, <2>3, <2>4 DEF Frees
<1>4. CASE ~AtCap(id)
  <2>1. \A j \in Tombstones : <<j, tombSeq[j]>> \in tombQ
    BY DEF IInv, QueueCovers
  <2> WITNESS {} \in SUBSET Id
  <2> QED BY <1>1, <1>4, <2>1 DEF Frees
<1> QED BY <1>3, <1>4

LEMMA AnnounceInv ==
    ASSUME IInv, NEW id \in Id, NEW c \in 0 .. MaxWire, NEW p \in Payload,
           NEW foreign, NEW admit, Announce(id, c, p, foreign, admit)
    PROVE  IInv'
<1>1. /\ setup' = setup /\ clock' = clock /\ nextSeq' = nextSeq
      /\ st' = [st EXCEPT ![id] = Parse[p]] /\ meta' = meta \cup {id}
      /\ bytes' = bytes + Size[p] - wire[id] /\ wire' = [wire EXCEPT ![id] = Size[p]]
      /\ prior' = [prior EXCEPT ![id] = p]
      /\ change' \subseteq {id} /\ update' \subseteq {id}
  BY DEF Announce
<1> PICK freed \in SUBSET Id : Frees(id, c, freed)
  BY AnnounceMeans
<1>2. /\ freed \subseteq Tombstones /\ id \notin freed /\ Local \notin freed
      /\ freed # {} => \E x : freed = {x}
      /\ IF AtCap(id) THEN freed # {} ELSE freed = {}
      /\ seen' = (seen \ freed) \cup {id}
      /\ clk' = [i \in Id |-> IF i = id THEN c ELSE IF i \in freed THEN 0 ELSE clk[i]]
      /\ tombSeq' = Untomb(freed \cup {id}) /\ tombQ' \subseteq tombQ
      /\ \A j \in Tombstones \ (freed \cup {id}) : <<j, tombSeq[j]>> \in tombQ'
  BY Zenon DEF Frees
<1>3. Passes(id, c, p) /\ Decoded(id, p) # None
  BY Zenon DEF Announce, Accepted
<1>4. c \in 0 .. MaxClock
  BY <1>3, PassesMeans
<1>5. /\ p \in Text /\ Size[p] \in Nat /\ Parse[p] \in State /\ Parse[p] # None
      /\ setup.bytes > 0 => bytes + Size[p] - wire[id] <= setup.bytes
  BY <1>3, DecodedMeans
<1>6. /\ st'[id] = Parse[p] /\ wire'[id] = Size[p] /\ prior'[id] = p
      /\ \A j \in Id \ {id} : st'[j] = st[j] /\ wire'[j] = wire[j] /\ prior'[j] = prior[j]
  BY <1>1, <1>5 DEF IInv, Shape, Sizes
<1>7. Graves' /\ Numbered' /\ QueueCovers' /\ Tombstones' = Tombstones \ (freed \cup {id})
  BY <1>1, <1>2, UntombKeeps, ZenonT(60) DEF IInv
<1>9. Shape' /\ Events'
  <2>1. clk' \in [Id -> 0 .. MaxClock]
    <3>1. \A j \in Id : clk[j] \in 0 .. MaxClock
      BY Zenon DEF IInv, Shape
    <3>2. 0 \in 0 .. MaxClock
      BY Types
    <3> QED BY <1>2, <1>4, <3>1, <3>2, Zenon
  <2>2. st' \in [Id -> State \cup {None}]
    <3>1. st \in [Id -> State \cup {None}]
      BY Zenon DEF IInv, Shape
    <3> QED BY <1>1, <1>5, <3>1, Zenon
  <2>3. seen' \subseteq Id /\ meta' \subseteq Id
    BY <1>1, <1>2, Zenon DEF IInv, Shape
  <2> QED BY <1>1, <2>1, <2>2, <2>3, Zenon DEF IInv, Shape, Events
<1>10. Sizes'
  <2>1. wire \in [Id -> Nat] /\ bytes \in Int /\ prior \in [Id -> Text \cup {None}]
    BY Zenon DEF IInv, Sizes
  <2>2. bytes' \in Int
    BY <1>1, <1>5, <2>1
  <2>3. wire' \in [Id -> Nat]
    BY <1>1, <1>5, <2>1
  <2>4. prior' \in [Id -> Text \cup {None}]
    BY <1>1, <1>5, <2>1
  <2> QED BY <2>2, <2>3, <2>4, Zenon DEF Sizes
<1>11. Forgotten'
  BY <1>2 DEF IInv, Forgotten
<1>12. Bookkeeping'
  <2>1. meta = {j \in Id : st[j] # None} /\ meta \subseteq seen
    BY DEF IInv, Bookkeeping, Live
  <2>2. Tombstones = {j \in seen \ {Local} : st[j] = None} /\ seen \subseteq Id
    BY DEF IInv, Bookkeeping, Live, Shape
  <2>3. meta' = {j \in Id : st'[j] # None}
    BY <1>1, <1>5, <1>6, <2>1, Zenon
  <2>4. Tombstones' = {j \in seen' \ {Local} : st'[j] = None}
    <3>1. seen' \ {Local} = ((seen \ freed) \cup {id}) \ {Local}
      BY <1>2, Zenon
    <3> QED BY <1>2, <1>5, <1>6, <1>7, <2>2, <3>1, Zenon
  <2>5. meta' \subseteq seen'
    <3>1. meta \cap freed = {}
      BY <1>2, <2>1, <2>2, Zenon
    <3> QED BY <1>1, <1>2, <2>1, <3>1, Zenon
  <2> QED BY <2>3, <2>4, <2>5 DEF Bookkeeping, Live
<1>14. Weighed'
  BY <1>5, <1>6, Zenon DEF IInv, Weighed, Live
<1> QED BY <1>7, <1>9, <1>10, <1>11, <1>12, <1>14, Zenon DEF IInv

LEMMA NextInv ==
    ASSUME IInv, [Next]_vars
    PROVE  IInv'
<1>1. CASE UNCHANGED vars
  <2>1. /\ UNCHANGED <<setup, seen, clk, st, meta, clock, change, update>>
        /\ UNCHANGED account /\ UNCHANGED tombs
    BY <1>1 DEF vars, account, tombs
  <2>2. Shape' /\ Events' /\ Forgotten'
    BY <2>1 DEF IInv, Shape, Events, Forgotten
  <2>3. Sizes'
    BY <2>1, AccountFrame
  <2>4. Graves' /\ Numbered' /\ QueueCovers' /\ Tombstones' = Tombstones
    BY <2>1, GravesFrame DEF IInv
  <2>5. Bookkeeping' /\ Weighed'
    BY <2>1, <2>4, AccountFrame DEF IInv, Bookkeeping, Weighed, Live
  <2> QED BY <2>2, <2>3, <2>4, <2>5 DEF IInv
<1>2. CASE \E s \in States \cup {None} : SetLocalState(s)
  BY <1>2, SetLocalInv
<1>3. CASE Heartbeat
  BY <1>3, HeartbeatInv
<1>4. CASE \E id \in Id : Purge(id) \/ Expire(id)
  BY <1>4, PurgeInv, ExpireInv
<1>5. CASE \E id \in Id, c \in 0 .. MaxWire, p \in Payload, how \in {"own", "foreign", "refused"} :
             ApplyEntry(id, c, p, how = "foreign", how # "refused")
  <2>1. PICK id \in Id, c \in 0 .. MaxWire, p \in Payload, how \in {"own", "foreign", "refused"} :
          ApplyEntry(id, c, p, how = "foreign", how # "refused")
    BY <1>5
  <2>2. CASE SelfNull(id, c, p)
    BY <2>2, SelfNullInv
  <2>3. CASE Drop(id, c, p, how = "foreign", how # "refused")
    BY <2>3, DropInv, Zenon
  <2>4. CASE Remove(id, c, p, how = "foreign", how # "refused")
    BY <2>4, RemoveInv, Zenon
  <2>5. CASE Announce(id, c, p, how = "foreign", how # "refused")
    BY <2>5, AnnounceInv, Zenon
  <2> QED BY <2>1, <2>2, <2>3, <2>4, <2>5 DEF ApplyEntry
<1> QED BY <1>1, <1>2, <1>3, <1>4, <1>5 DEF Next

----------------------------------------------------------------------------
(* What a step may do to one client.  Kept is the body of NoGoingBack and    *)
(* Told that of ChangesAnnounced.                                            *)

Kept ==
  /\ \A id \in (seen \cap seen') \ {Local} :
       /\ clk'[id] >= clk[id]
       /\ st'[id] \notin {st[id], None} => clk'[id] > clk[id]
  /\ clock' >= clock /\ clk'[Local] >= clk[Local]
  /\ \A id \in seen \ seen' : change' # {} =>
       \A j \in Tombstones : tombSeq[id] <= tombSeq[j]

Told ==
  /\ \A id \in Id \ {Local} : id \in change' <=> st'[id] # st[id] \/ wire'[id] # wire[id]
  /\ \A id \in Id : (st'[id] # st[id] \/ (st'[id] # None /\ clk'[id] # clk[id])) => id \in update'

(* What the next lemmas need of the types. *)
LEMMA ClockTypes ==
    ASSUME IInv
    PROVE  /\ seen \subseteq Id /\ Local \in Id /\ clock \in Nat /\ clock <= MaxClock /\ MaxClock \in Nat
           /\ clk \in [Id -> Nat] /\ st \in [Id -> State \cup {None}]
           /\ \A id \in Id : clk[id] <= MaxClock
BY Types DEF IInv, Shape

LEMMA NotBack ==
    ASSUME NEW m \in Nat, NEW n \in Nat
    PROVE  (m = n \/ m <= n => n >= m) /\ (m < n => n >= m /\ n > m)
OBVIOUS

LEMMA LocalSteps ==
    ASSUME IInv,
           (\E s \in States \cup {None} : SetLocalState(s)) \/ Heartbeat
    PROVE  Kept /\ Told
<1>0. /\ seen \subseteq Id /\ Local \in Id /\ clock \in Nat /\ clk \in [Id -> Nat]
      /\ st \in [Id -> State \cup {None}]
  BY ClockTypes
<1>1. ASSUME NEW s \in States \cup {None}, SetLocalState(s) PROVE Kept /\ Told
  <2> DEFINE c == Bump(IF Local \in seen THEN MaxOf(clock, clk[Local]) ELSE clock)
  <2>1. /\ clock' = c /\ seen' = seen \cup {Local} /\ clk' = [clk EXCEPT ![Local] = c]
        /\ st' = [st EXCEPT ![Local] = s]
        /\ change' = IF st[Local] = s THEN {} ELSE {Local}
        /\ update' = IF st[Local] = None /\ s = None THEN {} ELSE {Local}
        /\ wire' = wire
    BY <1>1, Zenon DEF SetLocalState, account
  <2>2. c >= clock /\ c >= clk[Local]
    BY <1>0, ClockTypes DEF Bump, MaxOf, IInv, Forgotten
  <2> HIDE DEF c
  <2>3. /\ clk'[Local] = c /\ st'[Local] = s
        /\ \A j \in Id \ {Local} : clk'[j] = clk[j] /\ st'[j] = st[j]
    BY <1>0, <2>1
  <2>4. Kept
    BY <1>0, <2>1, <2>2, <2>3 DEF Kept
  <2>5. Told
    BY <1>0, <2>1, <2>3 DEF Told
  <2> QED BY <2>4, <2>5
<1>2. ASSUME Heartbeat PROVE Kept /\ Told
  <2> DEFINE c == Bump(MaxOf(clock, clk[Local]))
  <2>1. /\ clock' = c /\ seen' = seen /\ clk' = [clk EXCEPT ![Local] = c] /\ st' = st
        /\ change' = {} /\ update' = {Local} /\ wire' = wire
    BY <1>2, Zenon DEF Heartbeat, account
  <2>2. c >= clock /\ c >= clk[Local]
    BY <1>0, ClockTypes DEF Bump, MaxOf
  <2> HIDE DEF c
  <2>3. clk'[Local] = c /\ \A j \in Id \ {Local} : clk'[j] = clk[j]
    BY <1>0, <2>1
  <2> QED BY <1>0, <2>1, <2>2, <2>3 DEF Kept, Told
<1> QED BY <1>1, <1>2

LEMMA TimerSteps ==
    ASSUME IInv, NEW id \in Id, Purge(id) \/ Expire(id)
    PROVE  Kept /\ Told
<1>0. /\ seen \subseteq Id /\ Local \in Id /\ clock \in Nat /\ clk \in [Id -> Nat]
      /\ st \in [Id -> State \cup {None}]
  BY ClockTypes
<1>1. ASSUME Purge(id) PROVE Kept /\ Told
  <2>1. id # Local /\ id \in seen /\ st[id] = None /\ wire[id] = 0
    BY <1>1 DEF IInv, Purge, Bookkeeping, Live, Weighed
  <2>2. /\ seen' = seen \ {id} /\ clk' = [clk EXCEPT ![id] = 0] /\ st' = st /\ wire' = wire
        /\ clock' = clock /\ change' = {} /\ update' = {}
    BY <1>0, <1>1, <2>1 DEF Purge, IInv, Sizes
  <2>3. clk'[id] = 0 /\ \A j \in Id \ {id} : clk'[j] = clk[j]
    BY <1>0, <2>2
  <2> QED BY <1>0, <2>1, <2>2, <2>3 DEF Kept, Told
<1>2. ASSUME Expire(id) PROVE Kept /\ Told
  <2>1. id # Local /\ id \in seen /\ st[id] # None
    BY <1>2 DEF IInv, Expire, Bookkeeping, Live
  <2>2. /\ seen' = seen /\ clk' = clk /\ st' = [st EXCEPT ![id] = None]
        /\ wire' = [wire EXCEPT ![id] = 0]
        /\ clock' = clock /\ change' = {id} /\ update' = {id}
    BY <1>2, Zenon DEF Expire
  <2>3. st'[id] = None /\ \A j \in Id \ {id} : st'[j] = st[j] /\ wire'[j] = wire[j]
    BY <1>0, <2>2, Zenon DEF IInv, Sizes
  <2> QED BY <1>0, <2>1, <2>2, <2>3 DEF Kept, Told
<1> QED BY <1>1, <1>2

LEMMA SelfNullSteps ==
    ASSUME IInv, NEW id \in Id, NEW c \in 0 .. MaxWire, NEW p \in Payload, SelfNull(id, c, p)
    PROVE  Kept /\ Told
<1>0. /\ seen \subseteq Id /\ Local \in Id /\ clock \in Nat /\ clk \in [Id -> Nat]
      /\ st \in [Id -> State \cup {None}]
  BY ClockTypes
<1>1. /\ id = Local /\ seen' = seen /\ st' = st /\ change' = {} /\ wire' = wire
      /\ clock' = IF c >= clock THEN c + 1 ELSE clock
      /\ clk' = IF Live(Local) THEN [clk EXCEPT ![Local] = clock'] ELSE clk
      /\ update' = IF Live(Local) THEN {Local} ELSE {}
      /\ Passes(id, c, p)
  BY Zenon DEF SelfNull, account
<1>2. clk[Local] <= c
  BY <1>1, PassesMeans, Zenon
<1>3. clock' >= clock /\ clock' > c /\ clock' \in Nat
  <2>1. c \in Nat
    BY LimitAssumption
  <2> QED BY <1>0, <1>1, <2>1
<1>4. clk'[Local] >= clk[Local] /\ \A j \in Id \ {Local} : clk'[j] = clk[j]
  BY <1>0, <1>1, <1>2, <1>3
<1>5. Live(Local) \/ clk' = clk
  BY <1>1
<1> QED BY <1>0, <1>1, <1>3, <1>4, <1>5 DEF Kept, Told

LEMMA RemoveSteps ==
    ASSUME IInv, NEW id \in Id, NEW c \in 0 .. MaxWire, NEW p \in Payload,
           NEW foreign, NEW admit, Remove(id, c, p, foreign, admit)
    PROVE  Kept /\ Told
<1>0. /\ seen \subseteq Id /\ Local \in Id /\ clock \in Nat /\ clk \in [Id -> Nat]
      /\ st \in [Id -> State \cup {None}]
  BY ClockTypes
<1>1. /\ seen' = seen \cup {id} /\ clk' = [clk EXCEPT ![id] = c]
      /\ st' = [st EXCEPT ![id] = None] /\ clock' = clock
      /\ change' = {id} \cap meta /\ update' = {id} \cap meta /\ Passes(id, c, p)
      /\ wire' = [wire EXCEPT ![id] = 0]
  BY Zenon DEF Remove, Accepted
<1>2. clk[id] <= c
  BY <1>1, PassesMeans
<1>3. /\ st'[id] = None /\ clk'[id] = c /\ wire'[id] = 0
      /\ \A j \in Id \ {id} : st'[j] = st[j] /\ clk'[j] = clk[j] /\ wire'[j] = wire[j]
  BY <1>0, <1>1, Zenon DEF IInv, Sizes
<1>4. /\ id \in meta <=> st[id] # None
      /\ id # Local /\ st[id] = None => wire[id] = 0
  BY Zenon DEF IInv, Bookkeeping, Live, Weighed
<1>5. Kept
  BY <1>0, <1>1, <1>2, <1>3 DEF Kept
<1>6. Told
  BY <1>0, <1>1, <1>3, <1>4, Zenon DEF Told
<1> QED BY <1>5, <1>6

LEMMA AnnounceSteps ==
    ASSUME IInv, NEW id \in Id, NEW c \in 0 .. MaxWire, NEW p \in Payload,
           NEW foreign, NEW admit, Announce(id, c, p, foreign, admit)
    PROVE  Kept /\ Told
<1>1. /\ clock' = clock /\ st' = [st EXCEPT ![id] = Parse[p]] /\ update' = {id}
      /\ change' = IF id \notin seen \/ Changed(id, p) THEN {id} ELSE {}
      /\ wire' = [wire EXCEPT ![id] = Size[p]]
      /\ Passes(id, c, p) /\ Decoded(id, p) # None
  BY Zenon DEF Announce, Accepted
<1> PICK freed \in SUBSET Id : Frees(id, c, freed)
  BY AnnounceMeans
<1>2. id \notin freed /\ Local \notin freed /\ seen' = (seen \ freed) \cup {id}
  BY Zenon DEF Frees
<1>0. /\ seen \subseteq Id /\ Local \in Id /\ clock \in Nat /\ clk \in [Id -> Nat]
      /\ st \in [Id -> State \cup {None}]
  BY ClockTypes
<1>3. /\ p \in Text /\ p # "null" /\ Size[p] \in Nat /\ Size[p] > 0
      /\ Parse[p] \in State /\ Parse[p] # None
  BY <1>1, DecodedMeans
<1>4. c \in Nat /\ clk[id] <= c /\ (id \in seen => clk[id] < c)
  <2>1. c \in Nat
    BY LimitAssumption
  <2> QED BY <1>1, <1>3, <2>1, PassesMeans, Zenon
<1>5. /\ st'[id] = Parse[p] /\ wire'[id] = Size[p]
      /\ \A j \in Id \ {id} : st'[j] = st[j] /\ wire'[j] = wire[j]
  BY <1>0, <1>1, Zenon DEF IInv, Sizes
<1>9. clk'[id] = c /\ \A j \in Id \ {id} : j \notin freed => clk'[j] = clk[j]
  <2>1. clk' = [i \in Id |-> IF i = id THEN c ELSE IF i \in freed THEN 0 ELSE clk[i]]
    BY Zenon DEF Frees
  <2> QED BY <2>1, Zenon
<1>10. \A j \in freed : st[j] = None
  <2>1. freed \subseteq Tombstones
    BY Zenon DEF Frees
  <2> QED BY <2>1, Zenon DEF IInv, Bookkeeping, Live
<1>6. Kept
  <2>1. \A j \in seen \ seen' : \A k \in Tombstones : tombSeq[j] <= tombSeq[k]
    <3>1. freed # {} => \E x : freed = {x} /\ \A k \in Tombstones : tombSeq[x] <= tombSeq[k]
      BY Zenon DEF Frees
    <3> QED BY <1>2, <3>1, Zenon
  <2>2. clk'[Local] >= clk[Local]
    <3>1. CASE id = Local
      BY <1>0, <1>4, <1>9, <3>1, NotBack, Zenon
    <3>2. CASE id # Local
      BY <1>0, <1>2, <1>9, <3>2, NotBack, Zenon
    <3> QED BY <3>1, <3>2, Zenon
  <2>3. ASSUME NEW j \in (seen \cap seen') \ {Local}
        PROVE  clk'[j] >= clk[j] /\ (st'[j] \notin {st[j], None} => clk'[j] > clk[j])
    <3>1. CASE j = id
      BY <1>0, <1>4, <1>9, <3>1, NotBack, Zenon
    <3>2. CASE j # id
      BY <1>0, <1>2, <1>5, <1>9, <3>2, NotBack, Zenon
    <3> QED BY <3>1, <3>2, Zenon
  <2>4. clock' >= clock
    BY <1>0, <1>1
  <2> QED BY <2>1, <2>2, <2>3, <2>4, Zenon DEF Kept
<1>7. ASSUME id # Local
      PROVE  id \in change' <=> st[id] # Parse[p] \/ wire[id] # Size[p]
  <2>1. CASE st[id] = Parse[p]
    <3>1. id \in seen
      BY <1>3, <2>1, Zenon DEF IInv, Bookkeeping, Live
    <3> QED BY <1>1, <2>1, <3>1, Zenon DEF Changed
  <2>2. CASE st[id] = None
    <3>1. wire[id] = 0
      BY <1>7, <2>2, Zenon DEF IInv, Weighed, Live
    <3>2. wire[id] # Size[p]
      BY <1>3, <3>1
    <3> QED BY <1>1, <3>2, Zenon DEF Changed
  <2>3. CASE st[id] # Parse[p] /\ st[id] # None
    <3>1. st[id] = Parse[prior[id]]
      BY <1>7, <2>3, Zenon DEF IInv, Weighed, Live
    <3>2. prior[id] # p
      BY <2>3, <3>1, Zenon
    <3> QED BY <1>1, <2>3, <3>2, Zenon DEF Changed
  <2> QED BY <2>1, <2>2, <2>3, Zenon
<1>8. Told
  <2>1. change' \subseteq {id}
    BY <1>1
  <2>2. update' = {id}
    BY <1>1
  <2>3. \A j \in Id \ {id} : st'[j] = None \/ clk'[j] = clk[j]
    BY <1>5, <1>9, <1>10, Zenon
  <2>4. \A j \in Id \ {Local} : j \in change' <=> st'[j] # st[j] \/ wire'[j] # wire[j]
    BY <1>5, <1>7, <2>1, Zenon
  <2> QED BY <1>5, <2>2, <2>3, <2>4, Zenon DEF Told
<1> QED BY <1>6, <1>8

LEMMA NextSteps ==
    ASSUME IInv, Next
    PROVE  Kept /\ Told
<1>1. CASE (\E s \in States \cup {None} : SetLocalState(s)) \/ Heartbeat
  BY <1>1, LocalSteps, Zenon
<1>2. CASE \E id \in Id : Purge(id) \/ Expire(id)
  BY <1>2, TimerSteps
<1>3. CASE \E id \in Id, c \in 0 .. MaxWire, p \in Payload, how \in {"own", "foreign", "refused"} :
             ApplyEntry(id, c, p, how = "foreign", how # "refused")
  <2>1. PICK id \in Id, c \in 0 .. MaxWire, p \in Payload, how \in {"own", "foreign", "refused"} :
          ApplyEntry(id, c, p, how = "foreign", how # "refused")
    BY <1>3
  <2>2. CASE SelfNull(id, c, p)
    BY <2>2, SelfNullSteps
  <2>3. CASE Drop(id, c, p, how = "foreign", how # "refused")
    <3>1. /\ seen' = seen /\ clk' = clk /\ st' = st /\ clock' = clock /\ wire' = wire
          /\ change' = {} /\ update' = {}
      BY <2>3, Zenon DEF Drop, table, account
    <3> QED BY <3>1, ClockTypes DEF Kept, Told
  <2>4. CASE Remove(id, c, p, how = "foreign", how # "refused")
    BY <2>4, RemoveSteps, Zenon
  <2>5. CASE Announce(id, c, p, how = "foreign", how # "refused")
    BY <2>5, AnnounceSteps, Zenon
  <2> QED BY <2>1, <2>2, <2>3, <2>4, <2>5 DEF ApplyEntry
<1> QED BY <1>1, <1>2, <1>3 DEF Next

(* A delayed or repeated entry never brings a replaced or removed state of a *)
(* remembered client back, no clock goes back, and a full room forgets its   *)
(* oldest tombstone first.                                                   *)
THEOREM NothingGoesBack == Spec => NoGoingBack
<1>1. IInv /\ [Next]_vars => [Kept]_vars
  BY NextSteps
<1>2. Init => IInv
  BY InitInv
<1>3. IInv /\ [Next]_vars => IInv'
  BY NextInv
<1>4. Spec => [][Kept]_vars
  BY <1>1, <1>2, <1>3, PTL DEF Spec
<1>5. [Kept]_vars =>
        /\ [\A id \in (seen \cap seen') \ {Local} :
              /\ clk'[id] >= clk[id]
              /\ st'[id] \notin {st[id], None} => clk'[id] > clk[id]]_vars
        /\ [clock' >= clock /\ clk'[Local] >= clk[Local]]_vars
        /\ [\A id \in seen \ seen' : change' # {} =>
              \A j \in Tombstones : tombSeq[id] <= tombSeq[j]]_vars
  BY DEF Kept
<1> QED BY <1>4, <1>5, PTL DEF NoGoingBack, NoResurrection, LocalClockMonotone, ReclaimsOldest

(* applyUpdate decides by the length and the text it remembers whether to    *)
(* call OnChange, and yet misses no change of a remote client's state; it    *)
(* calls it without one only when an equal state came as a text of another   *)
(* length.  OnUpdate misses no change and no renewal.                        *)
THEOREM ChangesTold == Spec => ChangesAnnounced
<1>1. IInv /\ [Next]_vars => [Told]_vars
  BY NextSteps
<1>2. Init => IInv
  BY InitInv
<1>3. IInv /\ [Next]_vars => IInv'
  BY NextInv
<1>4. Spec => [][Told]_vars
  BY <1>1, <1>2, <1>3, PTL DEF Spec
<1>5. [Told]_vars =>
        /\ [\A id \in Id \ {Local} :
              id \in change' <=> st'[id] # st[id] \/ wire'[id] # wire[id]]_vars
        /\ [\A id \in Id : (st'[id] # st[id] \/ (st'[id] # None /\ clk'[id] # clk[id]))
              => id \in update']_vars
  BY DEF Told
<1> QED BY <1>4, <1>5, PTL DEF ChangesAnnounced, RemoteChangesAnnounced, UpdatesRelayed


\* The byte account, with what makes Cardinality count it.
Counted ==
  /\ IsFiniteSet(WireBytes) /\ bytes = Cardinality(WireBytes)
  /\ setup.bytes > 0 => bytes <= setup.bytes

Capped == IsFiniteSet(seen) /\ CapHolds

----------------------------------------------------------------------------
(* The byte account. *)

(* The bytes of one client, and of two sets that have none in common. *)
LEMMA BytesOfOne ==
    ASSUME NEW id, NEW k \in Nat
    PROVE  IsFiniteSet({id} \X (1 .. k)) /\ Cardinality({id} \X (1 .. k)) = k
<1>1. IsFiniteSet(1 .. k) /\ Cardinality(1 .. k) = k
  BY FS_Interval
<1>2. IsFiniteSet({id}) /\ Cardinality({id}) = 1
  BY FS_Singleton, Zenon
<1>3. /\ IsFiniteSet({id} \X (1 .. k))
      /\ Cardinality({id} \X (1 .. k)) = Cardinality({id}) * Cardinality(1 .. k)
  BY <1>1, <1>2, FS_Product, Zenon
<1>4. 1 * k = k
  OBVIOUS
<1> QED BY <1>1, <1>2, <1>3, <1>4, Zenon

LEMMA Apart ==
    ASSUME NEW S, IsFiniteSet(S), NEW T, IsFiniteSet(T), S \cap T = {}
    PROVE  IsFiniteSet(S \cup T) /\ Cardinality(S \cup T) = Cardinality(S) + Cardinality(T)
<1>1. /\ IsFiniteSet(S \cup T)
      /\ Cardinality(S \cup T) = Cardinality(S) + Cardinality(T) - Cardinality(S \cap T)
  BY FS_Union, Zenon
<1>2. Cardinality({}) = 0 /\ Cardinality(S) \in Nat /\ Cardinality(T) \in Nat
  BY FS_EmptySet, FS_CardinalityType
<1>3. Cardinality(S \cup T) = Cardinality(S) + Cardinality(T) - 0
  BY <1>1, <1>2, Zenon
<1> QED BY <1>1, <1>2, <1>3

(* When one client's state gets another size, the bytes differ by as much. *)
LEMMA Reweighed ==
    ASSUME Sizes, IsFiniteSet(WireBytes), NEW id \in Id, NEW n \in Nat,
           wire' = [wire EXCEPT ![id] = n]
    PROVE  /\ IsFiniteSet(WireBytes)' 
           /\ Cardinality(WireBytes)' = Cardinality(WireBytes) - wire[id] + n
<1> DEFINE R == {x \in WireBytes : x[1] # id}
           B(k) == {id} \X (1 .. k)
<1>1. wire \in [Id -> Nat] /\ wire[id] \in Nat
  BY DEF Sizes
<1>2. WireBytes = R \cup B(wire[id]) /\ R \cap B(wire[id]) = {}
  BY <1>1 DEF WireBytes
<1>3. WireBytes' = R \cup B(n) /\ R \cap B(n) = {}
  <2>1. wire'[id] = n /\ \A j \in Id \ {id} : wire'[j] = wire[j]
    BY <1>1
  <2>2. WireBytes' = UNION {{j} \X (1 .. wire'[j]) : j \in Id}
    BY DEF WireBytes
  <2> QED BY <2>1, <2>2 DEF WireBytes
<1>4. ASSUME NEW k \in Nat PROVE IsFiniteSet(B(k)) /\ Cardinality(B(k)) = k
  BY BytesOfOne
<1>5. IsFiniteSet(R) /\ Cardinality(R) \in Nat
  BY FS_Subset, FS_CardinalityType
<1> HIDE DEF R, B
<1>6. Cardinality(WireBytes) = Cardinality(R) + wire[id]
  <2>1. IsFiniteSet(B(wire[id])) /\ Cardinality(B(wire[id])) = wire[id]
    BY <1>1, <1>4
  <2> QED BY <1>2, <1>5, <2>1, Apart, Zenon
<1>7. IsFiniteSet(WireBytes') /\ Cardinality(WireBytes') = Cardinality(R) + n
  BY <1>3, <1>4, <1>5, Apart
<1> QED BY <1>1, <1>5, <1>6, <1>7

(* Tracking one more client. *)
LEMMA OneMore ==
    ASSUME NEW S, IsFiniteSet(S), NEW x
    PROVE  /\ IsFiniteSet(S \cup {x}) /\ IsFiniteSet(S \ {x})
           /\ Cardinality(S) \in Nat
           /\ Cardinality(S \cup {x}) = IF x \in S THEN Cardinality(S) ELSE Cardinality(S) + 1
           /\ Cardinality(S \ {x}) = IF x \in S THEN Cardinality(S) - 1 ELSE Cardinality(S)
BY FS_AddElement, FS_RemoveElement, FS_CardinalityType


LEMMA CountedFrame ==
    ASSUME Counted, wire' = wire, bytes' = bytes, setup' = setup
    PROVE  Counted'
<1>1. WireBytes' = WireBytes
  BY DEF WireBytes
<1> QED BY <1>1 DEF Counted

(* A client's state is replaced by one of n bytes, if that fits. *)
LEMMA CountedStep ==
    ASSUME IInv, Counted, NEW id \in Id, NEW n \in Nat, setup' = setup,
           bytes' = bytes + n - wire[id], wire' = [wire EXCEPT ![id] = n],
           n = 0 \/ (setup.bytes > 0 => bytes + n - wire[id] <= setup.bytes)
    PROVE  Counted'
<1>1. /\ IsFiniteSet(WireBytes)'
      /\ Cardinality(WireBytes)' = Cardinality(WireBytes) - wire[id] + n
  BY Reweighed, Zenon DEF IInv, Counted
<1>2. bytes \in Int /\ wire[id] \in Nat /\ setup.bytes \in Nat
  BY Types DEF IInv, Sizes
<1>3. bytes' = Cardinality(WireBytes)'
  BY <1>1, <1>2 DEF Counted
<1>4. setup'.bytes > 0 => bytes' <= setup'.bytes
  BY <1>2 DEF Counted
<1> QED BY <1>1, <1>3, <1>4 DEF Counted

(* One more client is tracked where there is room for it, or none is. *)
LEMMA CappedStep ==
    ASSUME IInv, Capped, NEW id \in Id, setup' = setup, ~AtCap(id),
           seen' = seen \/ seen' = seen \cup {id}
    PROVE  Capped'
<1> DEFINE S == seen \ {Local}
<1>1. /\ IsFiniteSet(seen) /\ IsFiniteSet(S) /\ Cardinality(S) \in Nat /\ setup.clients \in Nat
      /\ setup.clients > 0 => Cardinality(S) <= setup.clients
  BY OneMore, Types, ZenonT(60) DEF Capped, CapHolds
<1>2. CASE seen' = seen
  BY <1>1, <1>2 DEF Capped, CapHolds
<1>3. CASE seen' = seen \cup {id} /\ id \notin seen
  <2>1. IsFiniteSet(seen')
    BY <1>1, <1>3, OneMore
  <2>2. setup.clients > 0 => Cardinality(S) < setup.clients
    BY <1>1, <1>3 DEF AtCap
  <2>3. seen' \ {Local} = S \/ seen' \ {Local} = S \cup {id}
    BY <1>3
  <2>4. Cardinality(S \cup {id}) = Cardinality(S) + 1
    BY <1>1, <1>3, OneMore
  <2> HIDE DEF S
  <2>5. setup.clients > 0 => Cardinality(seen' \ {Local}) <= setup.clients
    BY <1>1, <2>2, <2>3, <2>4
  <2> QED BY <2>1, <2>5 DEF Capped, CapHolds
<1>4. CASE seen' = seen \cup {id} /\ id \in seen
  <2>1. seen' = seen
    BY <1>4
  <2> QED BY <1>2, <2>1
<1> QED BY <1>2, <1>3, <1>4

(* A tombstone gives up its slot to another client. *)
LEMMA CappedSwap ==
    ASSUME IInv, Capped, NEW id \in Id \ seen, NEW x \in seen \ {Local}, setup' = setup,
           seen' = (seen \ {x}) \cup {id}
    PROVE  Capped'
<1> DEFINE S == seen \ {Local}
<1>1. /\ IsFiniteSet(seen) /\ IsFiniteSet(S) /\ Cardinality(S) \in Nat /\ setup.clients \in Nat
      /\ setup.clients > 0 => Cardinality(S) <= setup.clients
  BY OneMore, Types, ZenonT(60) DEF Capped, CapHolds
<1>2. /\ IsFiniteSet(seen \ {x}) /\ IsFiniteSet(S \ {x})
      /\ Cardinality(S \ {x}) = Cardinality(S) - 1
  BY <1>1, OneMore
<1>3. IsFiniteSet(seen')
  BY <1>2, OneMore, Zenon
<1>4. Cardinality((S \ {x}) \cup {id}) = Cardinality(S)
  <2>1. id \notin S \ {x}
    OBVIOUS
  <2>2. Cardinality((S \ {x}) \cup {id}) = Cardinality(S \ {x}) + 1
    BY <1>2, <2>1, OneMore
  <2> QED BY <1>1, <1>2, <2>2
<1>5. seen' \ {Local} = S \ {x} \/ seen' \ {Local} = (S \ {x}) \cup {id}
  OBVIOUS
<1>6. Cardinality(seen' \ {Local}) \in {Cardinality(S) - 1, Cardinality(S)}
  BY <1>2, <1>4, <1>5, Zenon
<1> HIDE DEF S
<1>7. setup.clients > 0 => Cardinality(seen' \ {Local}) <= setup.clients
  BY <1>1, <1>6
<1> QED BY <1>3, <1>7 DEF Capped, CapHolds

(* A tombstone is forgotten. *)
LEMMA CappedLess ==
    ASSUME IInv, Capped, NEW x \in seen \ {Local}, setup' = setup, seen' = seen \ {x}
    PROVE  Capped'
<1> DEFINE S == seen \ {Local}
<1>1. /\ IsFiniteSet(seen) /\ IsFiniteSet(S) /\ Cardinality(S) \in Nat /\ setup.clients \in Nat
      /\ setup.clients > 0 => Cardinality(S) <= setup.clients
  BY OneMore, Types, ZenonT(60) DEF Capped, CapHolds
<1>2. IsFiniteSet(seen') /\ Cardinality(S \ {x}) = Cardinality(S) - 1
  BY <1>1, OneMore
<1>3. seen' \ {Local} = S \ {x}
  OBVIOUS
<1> HIDE DEF S
<1>4. setup.clients > 0 => Cardinality(seen' \ {Local}) <= setup.clients
  BY <1>1, <1>2, <1>3
<1> QED BY <1>2, <1>4 DEF Capped, CapHolds

----------------------------------------------------------------------------
(* Every step keeps both caps. *)

LEMMA BoundsInit == Init => Counted /\ Capped
<1> SUFFICES ASSUME Init PROVE Counted /\ Capped
  OBVIOUS
<1>1. /\ \A id \in Id : wire[id] = 0
      /\ seen = {} /\ setup \in Setups /\ bytes = 0
  BY DEF Init
<1>2. IsFiniteSet({}) /\ Cardinality({}) = 0
  BY FS_EmptySet
<1>3. setup.clients \in Nat /\ setup.bytes \in Nat
  BY <1>1, LimitAssumption
<1>4. Capped
  BY <1>1, <1>2, <1>3 DEF Capped, CapHolds
<1>5. WireBytes = {}
  BY <1>1 DEF WireBytes
<1> QED BY <1>1, <1>2, <1>3, <1>4, <1>5 DEF Counted

LEMMA BoundsLocal ==
    ASSUME IInv, Counted, Capped, UNCHANGED <<setup, account>>, seen' = seen \cup {Local} \/ seen' = seen
    PROVE  Counted' /\ Capped'
<1>1. setup' = setup /\ wire' = wire /\ bytes' = bytes
  BY DEF account
<1>2. seen' \ {Local} = seen \ {Local}
  OBVIOUS
<1>3. Capped'
  <2>1. IsFiniteSet(seen \cup {Local}) /\ IsFiniteSet(seen)
    BY OneMore, Zenon DEF Capped
  <2> QED BY <1>1, <1>2, <2>1, Zenon DEF Capped, CapHolds
<1> QED BY <1>1, <1>3, CountedFrame

LEMMA BoundsPurge ==
    ASSUME IInv, Counted, Capped, NEW id \in Id, Purge(id)
    PROVE  Counted' /\ Capped'
<1>1. id \in seen \ {Local} /\ wire[id] = 0
  BY DEF IInv, Purge, Bookkeeping, Weighed, Live
<1>2. setup' = setup /\ bytes' = bytes /\ seen' = seen \ {id} /\ wire' = wire
  BY <1>1 DEF Purge, IInv, Sizes
<1> QED BY <1>1, <1>2, CountedFrame, CappedLess

LEMMA BoundsRemoval ==
    ASSUME IInv, Counted, Capped, NEW id \in Id, setup' = setup, ~AtCap(id),
           bytes' = bytes - wire[id], wire' = [wire EXCEPT ![id] = 0],
           seen' = seen \/ seen' = seen \cup {id}
    PROVE  Counted' /\ Capped'
<1>1. bytes' = bytes + 0 - wire[id]
  BY Types DEF IInv, Sizes
<1> QED BY <1>1, CountedStep, CappedStep, ZenonT(60)

LEMMA BoundsAnnounce ==
    ASSUME IInv, Counted, Capped, NEW id \in Id, NEW c \in 0 .. MaxWire, NEW p \in Payload,
           NEW foreign, NEW admit, Announce(id, c, p, foreign, admit)
    PROVE  Counted' /\ Capped'
<1>1. /\ setup' = setup /\ Decoded(id, p) # None
      /\ bytes' = bytes + Size[p] - wire[id] /\ wire' = [wire EXCEPT ![id] = Size[p]]
  BY Zenon DEF Announce
<1>2. Size[p] \in Nat /\ (setup.bytes > 0 => bytes + Size[p] - wire[id] <= setup.bytes)
  BY <1>1, DecodedMeans
<1>3. Counted'
  BY <1>1, <1>2, CountedStep, ZenonT(60)
<1> PICK freed \in SUBSET Id : Frees(id, c, freed)
  BY AnnounceMeans
<1>4. CASE AtCap(id)
  <2>1. PICK x : freed = {x}
    BY <1>4, ZenonT(60) DEF Frees
  <2>2. x \in seen \ {Local} /\ id \notin seen /\ seen' = (seen \ {x}) \cup {id}
    <3>1. freed \subseteq Tombstones /\ seen' = (seen \ freed) \cup {id}
      BY Zenon DEF Frees
    <3>2. Tombstones \subseteq seen \ {Local}
      BY Zenon DEF IInv, Bookkeeping
    <3> QED BY <1>4, <2>1, <3>1, <3>2, Zenon DEF AtCap
  <2> QED BY <1>1, <1>3, <2>2, CappedSwap
<1>5. CASE ~AtCap(id)
  <2>1. seen' = seen \cup {id}
    <3>1. freed = {} /\ seen' = (seen \ freed) \cup {id}
      BY <1>5, Zenon DEF Frees
    <3> QED BY <3>1, Zenon
  <2> QED BY <1>1, <1>3, <1>5, <2>1, CappedStep
<1> QED BY <1>4, <1>5

LEMMA BoundsNext ==
    ASSUME IInv, Counted, Capped, [Next]_vars
    PROVE  Counted' /\ Capped'
<1>1. CASE UNCHANGED vars
  <2>1. UNCHANGED <<setup, account>> /\ seen' = seen
    BY <1>1 DEF vars, account
  <2> QED BY <2>1, BoundsLocal
<1>2. CASE \E s \in States \cup {None} : SetLocalState(s)
  BY <1>2, BoundsLocal, Zenon DEF SetLocalState
<1>3. CASE Heartbeat
  BY <1>3, BoundsLocal, Zenon DEF Heartbeat
<1>4. ASSUME NEW id \in Id, Purge(id) PROVE Counted' /\ Capped'
  BY <1>4, BoundsPurge
<1>5. ASSUME NEW id \in Id, Expire(id) PROVE Counted' /\ Capped'
  <2>1. ~AtCap(id)
    BY <1>5 DEF Expire, IInv, Bookkeeping, AtCap
  <2>2. /\ setup' = setup /\ bytes' = bytes - wire[id] /\ wire' = [wire EXCEPT ![id] = 0]
        /\ seen' = seen
    BY <1>5 DEF Expire
  <2> QED BY <2>1, <2>2, BoundsRemoval, ZenonT(60)
<1>6. CASE \E id \in Id, c \in 0 .. MaxWire, p \in Payload, how \in {"own", "foreign", "refused"} :
             ApplyEntry(id, c, p, how = "foreign", how # "refused")
  <2>1. PICK id \in Id, c \in 0 .. MaxWire, p \in Payload, how \in {"own", "foreign", "refused"} :
          ApplyEntry(id, c, p, how = "foreign", how # "refused")
    BY <1>6
  <2>2. CASE SelfNull(id, c, p)
    <3>1. UNCHANGED <<setup, account>> /\ seen' = seen
      BY <2>2 DEF SelfNull
    <3> QED BY <3>1, BoundsLocal
  <2>3. CASE Drop(id, c, p, how = "foreign", how # "refused")
    <3>1. UNCHANGED <<setup, account>> /\ seen' = seen
      BY <2>3 DEF Drop, table
    <3> QED BY <3>1, BoundsLocal
  <2>4. CASE Remove(id, c, p, how = "foreign", how # "refused")
    <3>1. /\ setup' = setup /\ bytes' = bytes - wire[id] /\ wire' = [wire EXCEPT ![id] = 0]
          /\ seen' = seen \cup {id} /\ ~AtCap(id)
      BY <2>4 DEF Remove, Accepted, Refused
    <3> QED BY <3>1, BoundsRemoval, ZenonT(60)
  <2>5. CASE Announce(id, c, p, how = "foreign", how # "refused")
    BY <2>5, BoundsAnnounce, Zenon
  <2> QED BY <2>1, <2>2, <2>3, <2>4, <2>5 DEF ApplyEntry
<1> QED BY <1>1, <1>2, <1>3, <1>4, <1>5, <1>6 DEF Next

(* Whatever is announced, expires, is purged or refused, in whatever order,  *)
(* the side tables agree with the states: meta has the live clients, every   *)
(* removed remote client has its tombstone in the queue, the tracked clients *)
(* stay within SetMaxClients, and activeBytes is the size of their texts.    *)
THEOREM AccountsHold == Spec => []AccountsExact
<1>1. Init => IInv /\ Counted /\ Capped
  BY InitInv, BoundsInit
<1>2. IInv /\ Counted /\ Capped /\ [Next]_vars => (IInv /\ Counted /\ Capped)'
  BY NextInv, BoundsNext
<1>3. IInv /\ Counted /\ Capped => AccountsExact
  <2> SUFFICES ASSUME IInv, Counted, Capped PROVE AccountsExact
    OBVIOUS
  <2>1. TypeOK
    BY DEF IInv, Shape, Sizes, Graves, Events, TypeOK
  <2>2. BytesExact
    BY Zenon DEF IInv, Counted, Weighed, BytesExact
  <2> QED BY <2>1, <2>2 DEF AccountsExact, IInv, Capped
<1> QED BY <1>1, <1>2, <1>3, PTL DEF Spec
============================================================================
