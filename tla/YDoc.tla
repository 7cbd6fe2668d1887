-------------------------------- MODULE YDoc --------------------------------
(***************************************************************************)
(* The replicated document of package crdt: the struct store, the YATA    *)
(* placement of Item.integrate, tombstones and their cascade, the queues   *)
(* of structs and deletions whose dependencies have not arrived, the       *)
(* encoding of updates and the whole of ApplyUpdateV1.                     *)
(*                                                                         *)
(* One clock unit is one item.  A run of n units in the code is n items    *)
(* here, each with the previous one as origin and the run's right origin:  *)
(* splitting and merging runs (module SearchMarkers) do not change this    *)
(* view.  A document operator takes a document value and returns the next  *)
(* one, so an action is a whole transaction under the document lock.       *)
(***************************************************************************)
EXTENDS StructIds, Sequences, FiniteSets, SequencesExt

CONSTANTS
  Nil,         \* the nil pointer, the nil ID and the nil key
  Root,        \* the root type
  Unnamed,     \* the root type whose name is the empty string
  Setups       \* the groups of documents considered, records of
               \*   quota    clock units each client of the group may create
               \*   keys     map keys, attribute names
               \*   kinds    content a local insertion may carry: "leaf", "type"
               \*   calls    bound: the calls that add to a sequence, "Insert", "Push"
               \*   gc       the clients whose document was created with GC enabled
               \*   relays   the clients that send on what OnUpdate gives them
               \*            after an apply
               \*   dels     bound: a client with this many tombstones,
               \*            dels[c] for client c, deletes no more
               \*   pending  maxPendingItemsLimit
               \*   syncs    bound: pairs <<s, c>>, s answers a sync step 1 of c once

ASSUME SetupAssumption ==
  \A s \in Setups :
    /\ DOMAIN s.quota \subseteq Client /\ \A c \in DOMAIN s.quota : 0 .. s.quota[c] - 1 \subseteq Clock
    /\ s.gc \cup s.relays \subseteq DOMAIN s.quota /\ s.kinds \subseteq {"leaf", "type"}
    /\ s.calls \subseteq {"Insert", "Push"}
    /\ s.dels \in [DOMAIN s.quota -> Nat] /\ s.pending \in Nat
    /\ s.syncs \subseteq (DOMAIN s.quota) \X (DOMAIN s.quota)

VARIABLES
  setup,  \* the one of Setups this behaviour is about, never changed
  doc,    \* doc[c]: the document of client c
  net,    \* every update ever emitted; any of them may be delivered at any
          \* time, any number of times, or never
  synced  \* the pairs whose sync reply has been computed

vars == <<setup, doc, net, synced>>

Peer == DOMAIN setup.quota
Key == setup.keys
MaxPending == setup.pending

ID == UNION {{c} \X (0 .. setup.quota[c] - 1) : c \in Peer}
Parent == {Root, Unnamed} \cup ID

(* kind "gone" is ContentDeleted, what GC leaves of a deleted item.  pid is   *)
(* the container of an item that has not found it yet (Item.parentID).        *)
ItemRec == [id : ID, origin : ID \cup {Nil}, right : ID \cup {Nil},
            parent : Parent \cup {Nil}, pid : ID \cup {Nil}, key : Key \cup {Nil},
            kind : {"leaf", "type", "gone"}]

EmptyDoc ==
  [item    |-> <<>>,                               \* StructStore.clients
   list    |-> [p \in Parent |-> <<>>],            \* start .. Right .. Right
   map     |-> [p \in Parent |-> [k \in Key |-> Nil]],    \* itemMap
   del     |-> {},                                 \* items with Deleted set
   pend    |-> <<>>,                               \* store.pending.items
   missing |-> [c \in {} |-> 0],                   \* store.pending.missing
   pds     |-> {}]                                 \* store.pendingDs

----------------------------------------------------------------------------
(* The struct store. *)

Store(d) == DOMAIN d.item

NextClock(d, c) ==
  LET ends == {i[2] + 1 : i \in {j \in Store(d) : j[1] = c}}
  IN  IF ends = {} THEN 0 ELSE Max(ends)

StateVector(d) == [c \in Peer |-> NextClock(d, c)]

(* An ID the store has not reached: the "future clock" test. *)
Future(d, i) == i # Nil /\ i[2] >= NextClock(d, i[1])

Append1(d, it) == [d EXCEPT !.item = [i \in Store(d) \cup {it.id} |->
                                        IF i = it.id THEN it ELSE d.item[i]]]

----------------------------------------------------------------------------
(* Item.delete: the item and, depth first, the live children of a type. *)

RECURSIVE Cascade(_, _)
Cascade(d, i) ==
  IF i \in d.del THEN {}
  ELSE {i} \cup (IF d.item[i].kind = "type"
                   THEN UNION {Cascade(d, j) : j \in ToSet(d.list[i])}
                   ELSE {})

DeleteItem(d, i) == [d EXCEPT !.del = @ \cup Cascade(d, i)]

----------------------------------------------------------------------------
(* Item.integrate. *)

IndexOf(l, i) == IF i \in ToSet(l) THEN CHOOSE n \in 1 .. Len(l) : l[n] = i ELSE 0

VerdictNoTie(it, o, before, confl) ==
  CASE o.key # it.key -> "other"
    [] o.key = it.key /\ o.origin = it.origin -> "after"
    [] o.key = it.key /\ o.origin # it.origin ->
         IF o.origin \notin before THEN "stop"
         ELSE IF o.origin \notin confl THEN "after" ELSE "pass"

(* What the conflict scan does at item o: "other" key, o is skipped; "after", *)
(* the new item goes after o; "pass", o is scanned past; "stop".  before is   *)
(* beforeOrigin and confl is conflicting, both with o already in them.        *)
Verdict(it, o, before, confl) ==
  CASE o.key # it.key -> "other"
    [] o.key = it.key /\ o.origin = it.origin ->
         IF o.id[1] < it.id[1] THEN "after"
         ELSE IF o.right = it.right THEN "stop" ELSE "pass"
    [] o.key = it.key /\ o.origin # it.origin ->
         IF o.origin \notin before THEN "stop"
         ELSE IF o.origin \notin confl THEN "after" ELSE "pass"

(* The scan over positions k .. stop-1 of list l, left the best place so far. *)
RECURSIVE Scan(_, _, _, _, _, _, _, _)
Scan(d, it, l, k, stop, left, before, confl) ==
  IF k >= stop THEN left
  ELSE LET o == d.item[l[k]]
           b == before \cup {o.id}
           c == confl \cup {o.id}
           v == Verdict(it, o, b, c)
       IN  CASE v = "other" -> Scan(d, it, l, k + 1, stop, left, before, confl)
             [] v = "after" -> Scan(d, it, l, k + 1, stop, k, b, {})
             [] v = "pass"  -> Scan(d, it, l, k + 1, stop, left, b, c)
             [] v = "stop"  -> left

(* Position after which item it, with left neighbour left, is linked. *)
Place(d, it, left) ==
  LET l     == d.list[it.parent]
      start == IndexOf(l, left)
      stop  == IF it.right \in ToSet(l) THEN IndexOf(l, it.right) ELSE Len(l) + 1
      uncontestedMapKey == it.key # Nil /\ d.map[it.parent][it.key] = left
  IN  IF uncontestedMapKey THEN start
      ELSE Scan(d, it, l, start + 1, stop, start, {}, {})

(* Last writer wins on a key: the rightmost item of the key is its value. *)
SettleKey(d, it, prevNeighbour) ==
  LET p    == it.parent
      l    == d.list[p]
      prev == d.map[p][it.key]
      superseded == /\ prev # Nil /\ prev # prevNeighbour
                    /\ \E n \in 1 .. Len(l) : n > IndexOf(l, it.id)
                                              /\ d.item[l[n]].key = it.key
      lost == IF prev = Nil \/ prev = it.id THEN d ELSE DeleteItem(d, prev)
  IN  IF superseded THEN DeleteItem(d, it.id)
      ELSE [lost EXCEPT !.map[p][it.key] = it.id]

(* An item of a deleted container is born deleted. *)
Bury(d, it) == IF it.parent \in d.del THEN DeleteItem(d, it.id) ELSE d

(* Item it joins the store, and its key has a new value or keeps the old one. *)
Enter(d, it, prevNeighbour) ==
  IF it.key = Nil THEN Append1(d, it) ELSE SettleKey(Append1(d, it), it, prevNeighbour)

LinkAfter(d, it, at) ==
  LET l == d.list[it.parent]
  IN  Enter([d EXCEPT !.list[it.parent] = InsertAt(l, at + 1, it.id)], it,
            IF at = 0 THEN Nil ELSE l[at])

(* An item whose left neighbour is a GC struct is linked behind that struct,  *)
(* off its parent's list.                                                     *)
Integrate(d, it, left) ==
  Bury(IF left = Nil \/ left \in ToSet(d.list[it.parent])
         THEN LinkAfter(d, it, Place(d, it, left))
         ELSE Enter(d, it, left), it)

----------------------------------------------------------------------------
(* Receiving structs. *)

(* A GC struct on the wire carries nothing but its clock. *)
GCStruct(i) == [id |-> i, origin |-> Nil, right |-> Nil, parent |-> Nil,
                pid |-> Nil, key |-> Nil, kind |-> "gone"]
IsGCStruct(it) == it = GCStruct(it.id)

(* A GC struct, or an item whose parent is lost, is stored off every list. *)
StoreOrphan(d, i) == [Append1(d, GCStruct(i)) EXCEPT !.del = @ \cup {i}]

(* Parent and key of a received item: those of the item its origin names, or  *)
(* the container it names; parent Nil when it has not arrived or was lost.    *)
Inherit(d, it, i) == [it EXCEPT !.parent = d.item[i].parent, !.key = d.item[i].key]

Contain(d, it) ==
  IF it.pid \in Store(d) /\ d.item[it.pid].kind = "type"
    THEN [it EXCEPT !.parent = it.pid, !.pid = Nil] ELSE it

(* decodeItem: the right origin is asked only when there is no origin. *)
DecodeParent(d, it) ==
  CASE it.parent # Nil                                         -> it
    [] it.parent = Nil /\ it.origin \in Store(d)               -> Inherit(d, it, it.origin)
    [] it.parent = Nil /\ it.origin = Nil /\ it.right \in Store(d) -> Inherit(d, it, it.right)
    [] OTHER                                                   -> Contain(d, it)

(* tryIntegrate: an origin without a parent falls back on the right origin. *)
ResolveParent(d, it) ==
  LET a == DecodeParent(d, it)
  IN  IF a.parent = Nil /\ it.right \in Store(d) THEN Inherit(d, it, it.right) ELSE a

(* What a struct waits for, in the order pendingBlocker asks for it. *)
Deps(it) == <<IF it.id[2] = 0 THEN Nil ELSE <<it.id[1], it.id[2] - 1>>,
              it.origin, it.right, it.pid>>

Unmet(d, it) == SelectSeq(Deps(it), LAMBDA i : Future(d, i))

Covered(d, it) == it.id[2] < NextClock(d, it.id[1])
Blocked(d, it) == ~Covered(d, it) /\ Unmet(d, it) # <<>>

(* tryIntegrate for a struct that is not blocked. *)
TryIntegrate(d, it) ==
  LET r == ResolveParent(d, it)
  IN  IF Covered(d, it) THEN d
      ELSE IF r.parent = Nil THEN StoreOrphan(d, it.id)
      ELSE Integrate(d, r, it.origin)

----------------------------------------------------------------------------
(* Updates: the structs in wire order and a set of deleted IDs. *)

(* An anchor that is a GC struct is of no use to the receiver: not written.   *)
Anchor(at, i) == IF i \in DOMAIN at /\ IsGCStruct(at[i]) THEN Nil ELSE i

(* encodeItem, with at for the look-up of anchors: parent and key are on the  *)
(* wire only without anchors, a nested parent as the ID of its container and  *)
(* a parent that is not known as a root type without a name.                  *)
Wire(at, it) ==
  LET w == [it EXCEPT !.origin = Anchor(at, @), !.right = Anchor(at, @)]
  IN  IF w.origin # Nil \/ w.right # Nil THEN [w EXCEPT !.parent = Nil, !.key = Nil]
      ELSE IF w.parent \in ID THEN [w EXCEPT !.parent = Nil, !.pid = w.parent]
      ELSE IF w.parent = Nil /\ w.pid = Nil /\ ~IsGCStruct(it) THEN [w EXCEPT !.parent = Unnamed]
      ELSE w

(* By client and clock. *)
RECURSIVE WireOrder(_)
WireOrder(structs) ==
  IF structs = {} THEN <<>>
  ELSE LET first == CHOOSE a \in structs : \A b \in structs :
                      \/ a.id[1] < b.id[1]
                      \/ a.id[1] = b.id[1] /\ a.id[2] <= b.id[2]
       IN  <<first>> \o WireOrder(structs \ {first})

EncodeV1Late(d, sv) ==
  [structs |-> WireOrder({Wire(d.item, d.item[i]) : i \in {j \in Store(d) : j[2] > sv[j[1]]}}),
   ds      |-> d.del]

EncodeV1NoDeletes(d, sv) ==
  [structs |-> WireOrder({Wire(d.item, d.item[i]) : i \in {j \in Store(d) : j[2] >= sv[j[1]]}}),
   ds      |-> {}]

(* encodeV1Locked: the structs sv does not cover, and every deletion. *)
EncodeV1(d, sv) ==
  [structs |-> WireOrder({Wire(d.item, d.item[i]) : i \in {j \in Store(d) : j[2] >= sv[j[1]]}}),
   ds      |-> d.del]

(* EncodeStateAsUpdateV1: parked structs and deletions are merged in, and all *)
(* of it encoded again (MergeUpdatesV1).                                      *)
EncodeStateAsUpdate(d, sv) ==
  LET u == EncodeV1(d, sv)
      parked == {it \in ToSet(d.pend) : it.id \notin Store(d) /\ it.id[2] >= sv[it.id[1]]}
      ids    == {it.id : it \in parked}
      both   == ToSet(u.structs) \cup {Wire(d.item, CHOOSE it \in parked : it.id = i) : i \in ids}
      gone   == {it \in both : IsGCStruct(it)}
      lost   == [i \in {it.id : it \in gone} |-> GCStruct(i)]
  IN  IF d.pend = <<>> /\ d.pds = {} THEN u
      ELSE [structs |-> WireOrder({Wire(lost, it) : it \in both}), ds |-> u.ds \cup d.pds]

----------------------------------------------------------------------------
(* ApplyUpdateV1.  decodeAndPark: structs in wire order; the ones that cannot *)
(* be placed yet are put aside for the within-update retry.                   *)

(* pendingBudget: the structs of the update that would still be blocked after *)
(* everything in it that can be integrated is, as clocks alone tell.          *)
RECURSIVE Unresolvable(_, _)
Unresolvable(sv, structs) ==
  LET met(i)  == i = Nil \/ i[2] < sv[i[1]]
      open    == {it \in structs : it.id[2] >= sv[it.id[1]]}
      ready   == {it \in open : \A n \in 1 .. 4 : met(Deps(it)[n])}
  IN  IF ready = {} THEN open
      ELSE LET it == CHOOSE x \in ready : TRUE
           IN  Unresolvable([sv EXCEPT ![it.id[1]] = it.id[2] + 1], open \ {it})

OverBudget(d, structs, parked) ==
  LET remaining == MaxPending - Len(d.pend)
  IN  /\ Len(parked) >= remaining
      /\ Cardinality(Unresolvable(StateVector(d), ToSet(structs))) > remaining

DecodeOneNoRight(d0, structs, acc, it) ==
  LET d      == acc.doc
      r      == DecodeParent(d, it)
      parked == Append(acc.parked, r)
      gap    == Future(d, Deps(it)[1])
  IN  IF acc.err \/ Covered(d, it) THEN acc
      ELSE IF IsGCStruct(it) /\ ~gap THEN [acc EXCEPT !.doc = StoreOrphan(d, it.id)]
      ELSE IF gap \/ r.parent = Nil
        THEN [acc EXCEPT !.parked = parked, !.err = OverBudget(d0, structs, parked)]
      ELSE [acc EXCEPT !.doc = Integrate(d, r, it.origin)]

(* One struct of the first pass; d0 is the document before the update.        *)
DecodeOne(d0, structs, acc, it) ==
  LET d      == acc.doc
      r      == DecodeParent(d, it)
      parked == Append(acc.parked, r)
      gap    == Future(d, Deps(it)[1])
  IN  IF acc.err \/ Covered(d, it) THEN acc
      ELSE IF IsGCStruct(it) /\ ~gap THEN [acc EXCEPT !.doc = StoreOrphan(d, it.id)]
      ELSE IF gap \/ r.parent = Nil \/ Future(d, it.right)
        THEN [acc EXCEPT !.parked = parked, !.err = OverBudget(d0, structs, parked)]
      ELSE [acc EXCEPT !.doc = Integrate(d, r, it.origin)]

DecodeAndPark(d, structs) ==
  FoldLeft(LAMBDA acc, it : DecodeOne(d, structs, acc, it),
           [doc |-> d, parked |-> <<>>, err |-> FALSE], structs)

(* retryWithinUpdatePending: one pass over the structs put aside. *)
RetryPass(d, parked) ==
  FoldLeft(LAMBDA acc, it : IF Blocked(acc.doc, it)
                              THEN [acc EXCEPT !.parked = Append(@, it)]
                              ELSE [acc EXCEPT !.doc = TryIntegrate(@, it)],
           [doc |-> d, parked |-> <<>>], parked)

RECURSIVE ResolveWithinUpdate(_, _)
ResolveWithinUpdate(d, parked) ==
  LET pass == RetryPass(d, parked)
  IN  IF Len(pass.parked) = Len(parked) THEN pass
      ELSE ResolveWithinUpdate(pass.doc, pass.parked)

(* The client a blocked struct is filed under (itemFutureDep, else its own),  *)
(* with the clock that client had: the watermark of store.pending.missing.    *)
MissingClient(d, it) ==
  LET future == SelectSeq(Tail(Deps(it)), LAMBDA i : Future(d, i))
  IN  IF future = <<>> THEN it.id[1] ELSE future[1][1]

Watermarks(d, parked) ==
  [c \in {MissingClient(d, it) : it \in ToSet(parked)} |-> NextClock(d, c)]

MergeMissing(m, n) ==
  [c \in DOMAIN m \cup DOMAIN n |->
     Min({m[x] : x \in DOMAIN m \cap {c}} \cup {n[x] : x \in DOMAIN n \cap {c}})]

(* parkWithinUpdatePending of what the last pass left; structs past the cap   *)
(* are refused, with an error.                                                *)
Park(pass) ==
  LET room == MaxPending - Len(pass.doc.pend)
      kept == IF Len(pass.parked) > room THEN SubSeq(pass.parked, 1, room) ELSE pass.parked
  IN  [doc |-> [pass.doc EXCEPT !.pend = @ \o kept,
                                !.missing = MergeMissing(@, Watermarks(pass.doc, kept))],
       err |-> Len(pass.parked) > room]

(* applyToPartial: deletions whose target has not arrived are kept. *)
ApplyDeletes(d, ds) ==
  [d EXCEPT !.del = @ \cup UNION {Cascade(d, i) : i \in ds \cap Store(d)},
            !.pds = @ \cup (ds \ Store(d))]

RetryPendingDs(d) == ApplyDeletes([d EXCEPT !.pds = {}], d.pds)

(* integratePending: queue indices on a stack; a blocked one waits for its    *)
(* first unmet dependency and is pushed again, lowest clock first, when a     *)
(* struct of that client is integrated and the dependency is met.             *)
RECURSIVE IntegratePending(_, _, _, _)
Proceed(d, q, stack, waits) ==
  LET done  == q[Last(stack)].id[1]
      woken == {w \in DOMAIN waits : waits[w][1] = done /\ ~Future(d, waits[w])}
  IN  IntegratePending(d, q,
        Front(stack) \o SetToSortSeq(woken, LAMBDA a, b : waits[a][2] < waits[b][2]),
        [w \in DOMAIN waits \ woken |-> waits[w]])
IntegratePending(d, q, stack, waits) ==
  IF stack = <<>> THEN [doc |-> d, waits |-> waits]
  ELSE LET n == Last(stack)
       IN  IF Blocked(d, q[n])
             THEN IntegratePending(d, q, Front(stack), [w \in DOMAIN waits \cup {n} |->
                    IF w = n THEN Unmet(d, q[n])[1] ELSE waits[w]])
             ELSE Proceed(TryIntegrate(d, q[n]), q, stack, waits)

RetryableLate(d) == \E c \in DOMAIN d.missing : NextClock(d, c) > d.missing[c] + 1

(* store.retryable: some watermark has been passed. *)
Retryable(d) == \E c \in DOMAIN d.missing : NextClock(d, c) > d.missing[c]

(* The queue keeps, in its order, what still waits. *)
Requeue(q, run) ==
  LET left == [m \in 1 .. Cardinality(DOMAIN run.waits) |->
                 q[CHOOSE n \in DOMAIN run.waits :
                     Cardinality({w \in DOMAIN run.waits : w <= n}) = m]]
  IN  [run.doc EXCEPT !.pend = left, !.missing = Watermarks(run.doc, left)]

RECURSIVE DrainQueue(_)
DrainQueue(d) ==
  IF ~Retryable(d) THEN d
  ELSE LET d1 == Requeue(d.pend, IntegratePending(d, d.pend, Reverse([n \in 1 .. Len(d.pend) |-> n]), <<>>))
       IN  IF Len(d1.pend) = Len(d.pend) THEN d1 ELSE DrainQueue(RetryPendingDs(d1))

DrainPending(d) == DrainQueue(RetryPendingDs(d))

(* applyV1Txn: an error leaves what was integrated, and skips the rest. *)
Conclude(park, ds) ==
  IF park.err THEN park
  ELSE [doc |-> DrainPending(ApplyDeletes(park.doc, ds)), err |-> FALSE]

Resolve(first, ds) ==
  IF first.err THEN [doc |-> first.doc, err |-> TRUE]
  ELSE Conclude(Park(ResolveWithinUpdate(first.doc, first.parked)), ds)

ApplyUpdate(d, u) == Resolve(DecodeAndPark(d, u.structs), u.ds)

----------------------------------------------------------------------------
(* Transactions. *)

(* gcTxnDeleteSet: with GC on, what a transaction deleted loses its content. *)
Collect(c, before, after) ==
  IF c \notin setup.gc THEN after
  ELSE [after EXCEPT !.item = [i \in Store(after) |->
          IF i \in after.del \ before.del THEN [after.item[i] EXCEPT !.kind = "gone"]
                                          ELSE after.item[i]]]

(* What OnUpdate is given: encoded before the collection. *)
TxnUpdate(before, after) == EncodeV1(after, StateVector(before))

Commit(c, after, sends) ==
  /\ doc' = [doc EXCEPT ![c] = Collect(c, doc[c], after)]
  /\ net' = IF sends THEN net \cup {TxnUpdate(doc[c], after)} ELSE net
  /\ UNCHANGED <<setup, synced>>

(* The types a caller can hold: the root and any container not collected. *)
Handles(d) == {Root} \cup {i \in Store(d) : d.item[i].kind = "type"}

NewItem(c, d, p, k, kind, origin, right) ==
  [id |-> <<c, NextClock(d, c)>>, origin |-> origin, right |-> right, parent |-> p,
   pid |-> Nil, key |-> k, kind |-> kind]

Child(d, p) == SelectSeq(d.list[p], LAMBDA i : d.item[i].key = Nil)
Live(d, l) == SelectSeq(l, LAMBDA i : i \notin d.del /\ d.item[i].kind # "gone")

(* insertContentAfterItem: anchored after left and before the next child.  *)
InsertAfter(c, p, left, kind) ==
  LET d     == doc[c]
      n     == IndexOf(Child(d, p), left)
      right == IF n < Len(Child(d, p)) THEN Child(d, p)[n + 1] ELSE Nil
  IN  /\ NextClock(d, c) < setup.quota[c]
      /\ Commit(c, Integrate(d, NewItem(c, d, p, Nil, kind, left, right), left), TRUE)

(* YArray.Insert, YXmlFragment.Insert: left is the live child before index. *)
Insert(c, p, index, kind) ==
  LET live == Live(doc[c], Child(doc[c], p))
  IN  /\ index \in 0 .. Len(live)
      /\ InsertAfter(c, p, IF index = 0 THEN Nil ELSE live[index], kind)

(* YArray.Push: left is the last child, deleted or not. *)
Push(c, p, kind) ==
  LET all == Child(doc[c], p)
  IN  InsertAfter(c, p, IF all = <<>> THEN Nil ELSE Last(all), kind)

(* YArray.Delete, YXmlFragment.Delete of one live child. *)
Delete(c, p, index) ==
  LET live == Live(doc[c], Child(doc[c], p))
  IN  /\ index \in 1 .. Len(live) /\ Cardinality(doc[c].del) < setup.dels[c]
      /\ Commit(c, DeleteItem(doc[c], live[index]), TRUE)

(* YMap.Set, YXmlElement.SetAttribute: anchored after the key's last value. *)
Set(c, p, k, kind) ==
  LET d    == doc[c]
      prev == d.map[p][k]
  IN  /\ NextClock(d, c) < setup.quota[c]
      /\ Commit(c, Integrate(d, NewItem(c, d, p, k, kind, prev, Nil), prev), TRUE)

(* YMap.Delete, YXmlElement.DeleteAttribute. *)
DeleteKey(c, p, k) ==
  /\ doc[c].map[p][k] \notin doc[c].del \cup {Nil} /\ Cardinality(doc[c].del) < setup.dels[c]
  /\ Commit(c, DeleteItem(doc[c], doc[c].map[p][k]), TRUE)

(* ApplyUpdateV1 of an update some client sent. *)
Deliver(c, u) == Commit(c, ApplyUpdate(doc[c], u).doc, c \in setup.relays)

(* SyncStep1 of c answered by s: the reply may be delivered late or never. *)
SyncReply(s, c) ==
  /\ <<s, c>> \in setup.syncs \ synced
  /\ synced' = synced \cup {<<s, c>>}
  /\ net' = net \cup {EncodeStateAsUpdate(doc[s], StateVector(doc[c]))}
  /\ UNCHANGED <<setup, doc>>

Init ==
  /\ setup \in Setups
  /\ doc = [c \in Peer |-> EmptyDoc]
  /\ net = {}
  /\ synced = {}

Next ==
  \E c \in Peer :
    \/ \E p \in Handles(doc[c]), kind \in setup.kinds :
         \/ "Insert" \in setup.calls /\ \E index \in 0 .. Len(doc[c].list[p]) : Insert(c, p, index, kind)
         \/ "Push" \in setup.calls /\ Push(c, p, kind)
         \/ \E k \in Key : Set(c, p, k, kind)
    \/ \E p \in Handles(doc[c]) :
         \/ \E index \in 1 .. Len(doc[c].list[p]) : Delete(c, p, index)
         \/ \E k \in Key : DeleteKey(c, p, k)
    \/ \E u \in net : Deliver(c, u)
    \/ \E s \in Peer \ {c} : SyncReply(s, c)

Spec == Init /\ [][Next]_vars

(* A provider keeps delivering: a document that some update would change     *)
(* does not stay as it is for ever.  This is weak fairness of the deliveries *)
(* that change something, with ENABLED spelled out.                          *)
HasNews(c) == c \in Peer /\ \E u \in net : ApplyUpdate(doc[c], u).doc # doc[c]
Fairness == \A c \in Client : []<>(~HasNews(c)) \/ []<><<c \in Peer /\ doc'[c] # doc[c]>>_vars
FairSpec == Spec /\ Fairness

----------------------------------------------------------------------------
(* Properties. *)

View(d) ==
  [p \in {Root, Unnamed} \cup {i \in Store(d) \ d.del : d.item[i].kind = "type"} |->
     [children |-> Live(d, Child(d, p)),
      entries  |-> [k \in Key |-> IF d.map[p][k] \in d.del THEN Nil ELSE d.map[p][k]]]]

(* Structs without content that are not deleted. *)
Stripped(d) == {i \in Store(d) \ d.del : d.item[i].kind = "gone"}

(* Every document is well formed: item IDs, parents, positions and parked    *)
(* structs are in range, and each list and map holds stored items only.      *)
TypeOK ==
  /\ synced \subseteq setup.syncs
  /\ \A c \in Peer :
       LET d == doc[c]
       IN  /\ Store(d) \subseteq ID /\ d.del \subseteq Store(d) /\ d.pds \subseteq ID
           /\ \A i \in Store(d) : d.item[i] \in ItemRec /\ d.item[i].id = i
           /\ \A p \in Parent : /\ ToSet(d.list[p]) \subseteq Store(d)
                               /\ \A k \in Key : d.map[p][k] \in Store(d) \cup {Nil}
           /\ ToSet(d.pend) \subseteq ItemRec /\ Len(d.pend) <= MaxPending

(* Two documents never disagree about the order of two children both hold,   *)
(* even while each lacks items of the other.                                 *)
CommonOrder ==
  \A c, e \in Peer : \A p \in Parent :
    LET a == Child(doc[c], p)
        b == Child(doc[e], p)
    IN  SelectSeq(a, LAMBDA i : i \in ToSet(b)) = SelectSeq(b, LAMBDA i : i \in ToSet(a))

(* Strong convergence: two documents that hold the same structs and the same *)
(* deletions show the same children, in the same order, and the same entries,*)
(* whatever the order and the repetition of the updates that brought them;   *)
(* and as CommonOrder says they do not disagree before that either.  A       *)
(* refused update may have left one of them a stripped struct where the      *)
(* other has its content: then they agree once the deletion has arrived.     *)
Convergence ==
  /\ CommonOrder
  /\ \A c, e \in Peer :
       /\ Store(doc[c]) = Store(doc[e]) /\ doc[c].del = doc[e].del
       /\ Stripped(doc[c]) = Stripped(doc[e])
       => View(doc[c]) = View(doc[e])

(* integrate keeps an item between the two neighbours its author saw.        *)
BetweenOrigins ==
  \A c \in Peer : \A p \in Parent :
    LET d == doc[c]
        l == d.list[p]
        on == ToSet(l)
    IN  \A n \in 1 .. Len(l) :
          /\ d.item[l[n]].origin \in on => IndexOf(l, d.item[l[n]].origin) < n
          /\ d.item[l[n]].right \in on => n < IndexOf(l, d.item[l[n]].right)

(* A key's entry is the last item of that key in the list, and every other   *)
(* item of the key is deleted: at most one value of a key is ever live.      *)
KeyWinner ==
  \A c \in Peer : \A p \in Parent, k \in Key :
    LET d    == doc[c]
        same == SelectSeq(d.list[p], LAMBDA i : d.item[i].key = k)
    IN  same # <<>> => /\ d.map[p][k] = Last(same)
                       /\ ToSet(Front(same)) \subseteq d.del

(* Nothing live sits in a deleted container, and collection only ever strips *)
(* what is deleted.  An update that is refused half way (applyV1Txn) leaves   *)
(* its structs without its deletions, so a document may hold a struct that    *)
(* was collected elsewhere and that it has not deleted itself yet.           *)
NoLiveOrphan ==
  \A c \in Peer :
    /\ \A i \in Stripped(doc[c]) : \E e \in setup.gc : i \in doc[e].del
    /\ \A i \in Store(doc[c]) \ doc[c].del :
         doc[c].item[i].parent \notin doc[c].del \cup {Nil}

(* The drain gate hides nothing: a parked struct whose dependencies have all *)
(* arrived is behind a watermark that has been passed, so the next update    *)
(* retries it.                                                               *)
GateSound ==
  \A c \in Peer :
    (\E n \in 1 .. Len(doc[c].pend) : ~Blocked(doc[c], doc[c].pend[n])) => Retryable(doc[c])

Holds(r, d) ==
  /\ Store(d) \subseteq Store(r) /\ d.del \subseteq r.del
  /\ d.pds \subseteq r.pds \cup r.del
  /\ \A n \in 1 .. Len(d.pend) :
       \/ d.pend[n].id \in Store(r)
       \/ \E m \in 1 .. Len(r.pend) : r.pend[m].id = d.pend[n].id

(* One sync exchange is complete: after applying s's reply to its state      *)
(* vector, c has every struct and every deletion of s, parked ones included. *)
SyncComplete ==
  \A s \in Peer : \A c \in Peer \ {s} :
    \E r \in {ApplyUpdate(doc[c], EncodeStateAsUpdate(doc[s], StateVector(doc[c])))} :
      r.err \/ Holds(r.doc, doc[s])

(* The budget check is exact: an update it lets through never overflows the  *)
(* queue later, so the refusal in parkWithinUpdatePending is unreachable.    *)
BudgetExact ==
  \A c \in Peer, u \in net :
    \E first \in {DecodeAndPark(doc[c], u.structs)} :
      first.err \/ ~Park(ResolveWithinUpdate(first.doc, first.parked)).err

(* Once the clients stop editing, every document ends up showing the same    *)
(* thing, with nothing left waiting, although updates were reordered,        *)
(* repeated and refused on the way.                                          *)
EventualConsistency ==
  <>[](\A c, e \in Peer : /\ doc[c].pend = <<>> /\ doc[c].pds = {}
                          /\ View(doc[c]) = View(doc[e]))

----------------------------------------------------------------------------
(* The abstract store this implements.  What a struct depends on is read off *)
(* its author's document.                                                    *)
DepSet(i) ==
  LET d == doc[i[1]]
  IN  IF i \notin Store(d) THEN {}
      ELSE {<<i[1], n>> : n \in 0 .. i[2] - 1}
           \cup ({d.item[i].origin, d.item[i].right, d.item[i].parent} \cap ID)

(* A client outside the group holds nothing. *)
Causal == INSTANCE CausalStore WITH
  made  <- UNION {Store(doc[c]) : c \in Peer},
  dep   <- [i \in Id |-> IF i[1] \in Peer THEN DepSet(i) ELSE {}],
  have  <- [c \in Client |-> IF c \in Peer THEN Store(doc[c]) ELSE {}],
  dead  <- [c \in Client |-> IF c \in Peer THEN doc[c].del ELSE {}]

(* Every transaction, local or remote, successful or refused, grows a        *)
(* document by a causally closed set of structs and loses no deletion.       *)
RefinesCausalStore == Causal!CSpec

(* What integration, deletion and parking keep true of every document at all *)
(* times: origins in order, one live value per key, no live child of a dead  *)
(* parent, no ready struct out of reach, and no overrun of the budget.       *)
WellFormed ==
  TypeOK /\ BetweenOrigins /\ KeyWinner /\ NoLiveOrphan /\ GateSound /\ BudgetExact
============================================================================
