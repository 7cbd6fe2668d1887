------------------------------ MODULE RichText ------------------------------
(***************************************************************************)
(* crdt.YText: formatted text as a list of units and format markers, the   *)
(* cursor algorithms that edit it, the delta given to observers, and the   *)
(* clean-up of redundant markers after a remote transaction, in a          *)
(* transaction of its own.  One replica: what others write arrives         *)
(* anywhere in the list, which is all that the placement of items (YDoc)   *)
(* promises.  An embed is a unit like a character.  Of markers of several  *)
(* keys at one place only the set matters, so keys have a fixed order.     *)
(***************************************************************************)
EXTENDS Naturals, Sequences, FiniteSets, SequencesExt

CONSTANTS
    Keys,      \* attribute names, in the order markers are written
    Val,       \* attribute values
    Nil,       \* the nil value: no attribute
    Setups     \* the texts considered, records of
               \*   uses    the attributes that edits name
               \*   items   bound on the items of the list, tombstones included
               \*   ops     what this client does: "insert", "delete", "format", "delta"
               \*   remote  what arrives: "unit", "mark", "format", "delete"
               \*   deltas  bound on the operations of one applied delta

Key == ToSet(Keys)
Absent == "absent"
Attr == Val \cup {Nil}
NoCache == [k \in Key |-> Absent]

ASSUME TextAssumption ==
    /\ Nil \notin Val
    /\ Setups \subseteq [uses : SUBSET Key, items : Nat, deltas : Nat,
                         ops : SUBSET {"insert", "delete", "format", "delta"},
                         remote : SUBSET {"unit", "mark", "format", "delete"}]

VARIABLES
    setup,  \* the one of Setups this behaviour is about, never changed
    text,   \* the list of items
    cache,  \* attrCache: the attributes after the item marked `cached`, or NoCache
    due     \* is a remote transaction waiting for its clean-up?

vars == <<setup, text, cache, due>>

(***************************************************************************)
(* Items.  `new` and `dead`: inserted, deleted by the current transaction; *)
(* `fresh` and `gone`: by the remote transaction that awaits its clean-up. *)
(***************************************************************************)
Blank == [mark |-> FALSE, key |-> Nil, val |-> Nil, del |-> FALSE, cached |-> FALSE,
          new |-> TRUE, dead |-> FALSE, fresh |-> FALSE, gone |-> FALSE]
Unit == Blank
Mark(k, v) == [Blank EXCEPT !.mark = TRUE, !.key = k, !.val = v]
IsUnit(it) == ~it.mark /\ ~it.del
IsMark(it) == it.mark /\ ~it.del

NoAttrs == [k \in Key |-> Nil]
Pass(attrs, it) == IF IsMark(it) THEN [attrs EXCEPT ![it.key] = it.val] ELSE attrs
AttrsAfter(t, n) == FoldLeft(Pass, NoAttrs, SubSeq(t, 1, n))
Named(attrs, k) == IF k \in DOMAIN attrs THEN attrs[k] ELSE Nil

HasFormatting(t) == \E n \in DOMAIN t : t[n].mark
Units(t) == {n \in DOMAIN t : IsUnit(t[n])}
Length(t) == Cardinality(Units(t))

\* The place of the unit before index i, 0 for the head.
PlaceOf(t, i) ==
    IF i = 0 \/ Units(t) = {} THEN 0
    ELSE IF i >= Length(t) THEN Max(Units(t))
    ELSE CHOOSE n \in Units(t) : Cardinality({m \in Units(t) : m <= n}) = i

\* What a transaction works on: the list, the cache and a cursor.
\* Integrating or deleting a marker starts a new format generation.
At(c, it) == [c EXCEPT !.text = InsertAt(@, c.at + 1, it), !.cache = IF it.mark THEN NoCache ELSE @]
Kill(c, n) == [c EXCEPT !.text[n].del = TRUE, !.text[n].dead = ~c.text[n].new,
                        !.cache = IF c.text[n].mark THEN NoCache ELSE @]
InOrder(places, t) == SelectSeq([n \in DOMAIN t |-> n], LAMBDA n : n \in places)
KillAll(c, places) == FoldLeft(Kill, c, InOrder(places, c.text))

(***************************************************************************)
(* The cursor: itemTextPos.                                                *)
(***************************************************************************)
AtEnd(c) == c.at = Len(c.text)
Right(c) == c.text[c.at + 1]
Forward(c) == [c EXCEPT !.at = @ + 1, !.cur = Pass(@, Right(c))]

RECURSIVE Advance(_, _)
Advance(c, n) ==
    IF n = 0 \/ AtEnd(c) THEN c
    ELSE Advance(Forward(c), IF IsUnit(Right(c)) THEN n - 1 ELSE n)

Rewind(c) == [c EXCEPT !.at = 0, !.cur = NoAttrs]

CacheHit(c, n) == n # 0 /\ c.cache # NoCache /\ c.text[n].cached

\* findTextPos: with no marker ever written, or with the cache, no walk.
FindTextPos(c, i) ==
    LET n == PlaceOf(c.text, i)
    IN  IF ~HasFormatting(c.text) THEN [c EXCEPT !.at = n, !.cur = NoAttrs]
        ELSE IF i <= Length(c.text) /\ CacheHit(c, n) THEN [c EXCEPT !.at = n, !.cur = c.cache]
        ELSE Advance(Rewind(c), i)

CacheAttrsAfter(c, n, attrs) ==
    [c EXCEPT !.text = [m \in DOMAIN @ |-> [@[m] EXCEPT !.cached = (m = n)]], !.cache = attrs]

RECURSIVE MinimizeAttributeChanges(_, _)
MinimizeAttributeChanges(c, attrs) ==
    IF ~AtEnd(c) /\ (Right(c).del \/ (Right(c).mark /\ Named(attrs, Right(c).key) = Right(c).val))
    THEN MinimizeAttributeChanges(Forward(c), attrs) ELSE c

InsertFormatAt(c, k, v) == Forward(At(c, Mark(k, v)))

\* insertAttributes: a marker where the value changes; `neg` is what to restore.
InsertAttributes(c, keys, attrs) ==
    FoldLeft(LAMBDA x, k : IF x.cur[k] = Named(attrs, k) THEN x
                           ELSE [InsertFormatAt(x, k, Named(attrs, k)) EXCEPT !.neg[k] = x.cur[k]],
             [c EXCEPT !.neg = [k \in Key |-> Absent]], SelectSeq(Keys, LAMBDA k : k \in keys))

Restores(c) == {k \in Key : c.neg[k] # Absent}

RECURSIVE SkipRestored(_)
SkipRestored(c) ==
    IF AtEnd(c) THEN c
    ELSE IF Right(c).del THEN SkipRestored(Forward(c))
    ELSE IF Right(c).mark /\ c.neg[Right(c).key] = Right(c).val
    THEN SkipRestored([Forward(c) EXCEPT !.neg[Right(c).key] = Absent])
    ELSE c

InsertNegatedAttributes(c) ==
    LET s == SkipRestored(c)
    IN  FoldLeft(LAMBDA x, k : InsertFormatAt(x, k, x.neg[k]), s,
                 SelectSeq(Keys, LAMBDA k : k \in Restores(s)))

(***************************************************************************)
(* Operations.                                                             *)
(***************************************************************************)
\* The loop of applyFormatAtPos: markers of the range that the new ones
\* override are deleted, and what they set is restored after the range.
RECURSIVE FormatRange(_, _, _)
FormatRange(c, n, attrs) ==
    IF AtEnd(c) \/ ~(n > 0 \/ (Restores(c) # {} /\ (Right(c).del \/ Right(c).mark))) THEN c
    ELSE LET it == Right(c)
             touched == IsMark(it) /\ it.key \in DOMAIN attrs
         IN  IF ~touched THEN FormatRange(Forward(c), IF IsUnit(it) THEN n - 1 ELSE n, attrs)
             ELSE IF attrs[it.key] = it.val
             THEN FormatRange(Forward([Kill(c, c.at + 1) EXCEPT !.neg[it.key] = Absent]), n, attrs)
             ELSE IF n = 0 THEN c
             ELSE FormatRange(Forward([Kill(c, c.at + 1) EXCEPT !.neg[it.key] = it.val]), n, attrs)

RECURSIVE FormatRangeGreedy(_, _, _)
FormatRangeGreedy(c, n, attrs) ==
    IF AtEnd(c) \/ ~(n > 0 \/ (Restores(c) # {} /\ (Right(c).del \/ Right(c).mark))) THEN c
    ELSE LET it == Right(c)
             touched == IsMark(it) /\ it.key \in DOMAIN attrs
         IN  IF ~touched THEN FormatRangeGreedy(Forward(c), IF IsUnit(it) THEN n - 1 ELSE n, attrs)
             ELSE FormatRangeGreedy(Forward(Kill(c, c.at + 1)), n, attrs)

ApplyFormatAtPos(c, n, attrs) ==
    InsertNegatedAttributes(FormatRange(InsertAttributes(MinimizeAttributeChanges(c, attrs), DOMAIN attrs, attrs), n, attrs))

Format(c, i, n, attrs) == ApplyFormatAtPos(FindTextPos(c, i), n, attrs)

\* insertText: exactly attrs, whatever is in effect at the cursor.
InsertText(c, attrs, caches) ==
    LET keys == DOMAIN attrs \cup {k \in Key : c.cur[k] # Nil}
        b == Forward(At(InsertAttributes(MinimizeAttributeChanges(c, attrs), keys, attrs), Unit))
        e == InsertNegatedAttributes(b)
    IN  IF caches THEN CacheAttrsAfter(e, b.at, b.cur) ELSE e

\* The inheriting insert: no markers; its anchor passes tombstones and markers
\* that restate what is in effect (skipDeletedForTextAnchor).
InsertInheriting(c, i) ==
    LET left == PlaceOf(c.text, i)
        attrs == IF left = 0 THEN NoAttrs ELSE IF CacheHit(c, left) THEN c.cache ELSE AttrsAfter(c.text, left)
        passes(n) == c.text[n].del \/ (c.text[n].mark /\ attrs[c.text[n].key] = c.text[n].val)
        anchor == Max({m \in left .. Len(c.text) : \A n \in left + 1 .. m : passes(n)})
        met == \E n \in left + 1 .. anchor + 1 : n <= Len(c.text) /\ IsMark(c.text[n])
        put == At([c EXCEPT !.at = anchor], Unit)
    IN  IF met THEN CacheAttrsAfter(put, anchor + 1, attrs) ELSE put

Insert(c, i, attrs) ==
    IF DOMAIN attrs = {} THEN InsertInheriting(c, i) ELSE InsertText(FindTextPos(c, i), attrs, TRUE)
InsertEmbed(c, i, attrs) == InsertText(FindTextPos(c, i), attrs, TRUE)

Opened(t, n) ==
    LET before == {m \in 1 .. n - 1 : IsMark(t[m]) /\ t[m].key = t[n].key}
    IN  before # {} /\ t[Max(before)].val # Nil
InUse(t, n) ==
    LET after == {m \in n + 1 .. Len(t) : IsMark(t[m]) /\ t[m].key = t[n].key}
    IN  \E m \in n + 1 .. (IF after = {} THEN Len(t) ELSE Min(after)) : IsUnit(t[m])

DanglingAny(t, n) == IsMark(t[n]) /\ (IF t[n].val = Nil THEN TRUE ELSE ~InUse(t, n))

\* A marker that the deletion may have left without effect.
Dangling(t, n) == IsMark(t[n]) /\ (IF t[n].val = Nil THEN ~Opened(t, n) ELSE ~InUse(t, n))

\* cleanupDanglingFormatsInRegion, from item n to the second unit after it.
RECURSIVE CleanRegion(_, _, _)
CleanRegion(c, n, seen) ==
    IF n > Len(c.text) \/ (IsUnit(c.text[n]) /\ seen) THEN c
    ELSE CleanRegion(IF Dangling(c.text, n) THEN Kill(c, n) ELSE c, n + 1, seen \/ IsUnit(c.text[n]))

DeleteRange(c, i, n) ==
    LET doomed == {m \in Units(c.text) : Cardinality({l \in Units(c.text) : l <= m}) \in i + 1 .. i + n}
    IN  KillAll(c, doomed)

Delete(c, i, n) ==
    LET d == DeleteRange(c, i, n)
    IN  IF HasFormatting(c.text) THEN CleanRegion(d, PlaceOf(c.text, i) + 1, FALSE) ELSE d

RECURSIVE ApplyDeltaDeleteAny(_, _)
ApplyDeltaDeleteAny(c, n) ==
    IF n = 0 \/ AtEnd(c) THEN c
    ELSE IF ~Right(c).del THEN ApplyDeltaDeleteAny(Forward(Kill(c, c.at + 1)), n - 1)
    ELSE ApplyDeltaDeleteAny(Forward(c), n)

RECURSIVE ApplyDeltaDelete(_, _)
ApplyDeltaDelete(c, n) ==
    IF n = 0 \/ AtEnd(c) THEN c
    ELSE IF IsUnit(Right(c)) THEN ApplyDeltaDelete(Forward(Kill(c, c.at + 1)), n - 1)
    ELSE ApplyDeltaDelete(Forward(c), n)

\* applyDelta: one cursor for all operations.
ApplyOp(c, d) ==
    CASE d.op = "insert" -> InsertText(c, d.attrs, FALSE)
      [] d.op = "delete" -> ApplyDeltaDelete(c, d.n)
      [] d.op = "retain" -> IF DOMAIN d.attrs = {} THEN Advance(c, d.n) ELSE ApplyFormatAtPos(c, d.n, d.attrs)
ApplyDelta(c, delta) == FoldLeft(ApplyOp, Rewind(c), delta)

(***************************************************************************)
(* The delta given to observers: computeDelta.                             *)
(***************************************************************************)
Diff(cur, old) ==
    LET changed == {k \in Key : cur[k] # old[k]} IN [k \in changed |-> cur[k]]
Flush(a) ==
    IF a.retain = 0 THEN a
    ELSE [a EXCEPT !.ops = Append(@, [op |-> "retain", n |-> a.retain, attrs |-> Diff(a.cur, a.old)]), !.retain = 0]

ComputeOpLate(a, it) ==
    IF it.mark
    THEN IF it.new THEN (IF it.del THEN a ELSE [Flush(a) EXCEPT !.cur = Pass(@, it)])
         ELSE IF it.dead THEN [a EXCEPT !.old[it.key] = it.val]
         ELSE [a EXCEPT !.cur = Pass(@, it), !.old = Pass(@, it)]
    ELSE IF it.new THEN [Flush(a) EXCEPT !.ops = Append(@, [op |-> "insert", n |-> 1, attrs |-> a.cur])]
         ELSE IF it.dead THEN [Flush(a) EXCEPT !.ops = Append(@, [op |-> "delete", n |-> 1, attrs |-> <<>>])]
         ELSE IF it.del THEN a ELSE [a EXCEPT !.retain = @ + 1]

ComputeOp(a, it) ==
    IF it.mark
    THEN IF it.new THEN (IF it.del THEN a ELSE [Flush(a) EXCEPT !.cur = Pass(@, it)])
         ELSE IF it.dead THEN [Flush(a) EXCEPT !.old[it.key] = it.val]
         ELSE [a EXCEPT !.cur = Pass(@, it), !.old = Pass(@, it)]
    ELSE IF it.new THEN (IF it.del THEN a ELSE [Flush(a) EXCEPT !.ops = Append(@, [op |-> "insert", n |-> 1, attrs |-> a.cur])])
         ELSE IF it.dead THEN [Flush(a) EXCEPT !.ops = Append(@, [op |-> "delete", n |-> 1, attrs |-> <<>>])]
         ELSE IF it.del THEN a ELSE [a EXCEPT !.retain = @ + 1]

ComputeDelta(t) ==
    LET a == FoldLeft(ComputeOp, [ops |-> <<>>, retain |-> 0, cur |-> NoAttrs, old |-> NoAttrs], t)
    IN  IF a.retain > 0 /\ DOMAIN Diff(a.cur, a.old) # {} THEN Flush(a).ops ELSE a.ops

(***************************************************************************)
(* Clean-up after a remote transaction.                                    *)
(***************************************************************************)
\* cleanupYTextFormatting: only the markers before the first unit are cleaned;
\* those overwritten there and those that clear nothing go.
CleanHead(c) ==
    LET t == c.text
        redundant == {n \in DOMAIN t :
                        /\ IsMark(t[n]) /\ Units(t) # {} /\ n < Min(Units(t))
                        /\ \/ t[n].val = Nil
                           \/ \E m \in n + 1 .. Min(Units(t)) : IsMark(t[m]) /\ t[m].key = t[n].key}
    IN  KillAll(c, redundant)

CleanGapFirst(c, n) ==
    LET t == c.text
        gap == {m \in DOMAIN t : \A l \in DOMAIN t : (n <= l /\ l <= m) \/ (m <= l /\ l <= n) => ~IsUnit(t[l])}
        redundant == {m \in gap : IsMark(t[m]) /\ \E l \in gap : l < m /\ IsMark(t[l]) /\ t[l].key = t[m].key}
    IN  KillAll(c, redundant)

\* cleanupContextlessFormattingGap: around deleted item n, up to the next unit on
\* each side, only the last marker of a key stays.
CleanGap(c, n) ==
    LET t == c.text
        gap == {m \in DOMAIN t : \A l \in DOMAIN t : (n <= l /\ l <= m) \/ (m <= l /\ l <= n) => ~IsUnit(t[l])}
        redundant == {m \in gap : IsMark(t[m]) /\ \E l \in gap : l > m /\ IsMark(t[l]) /\ t[l].key = t[m].key}
    IN  KillAll(c, redundant)

\* cleanupYTextAfterTransaction: a text that gained or lost a marker is cleaned
\* whole, any other around each deletion.
CleanUp(c) ==
    LET t == c.text
        lost == {n \in DOMAIN t : t[n].gone}
        full == \E n \in DOMAIN t : (t[n].fresh /\ IsMark(t[n])) \/ (t[n].gone /\ t[n].mark)
    IN  IF full THEN CleanHead(c) ELSE FoldLeft(CleanGap, c, InOrder(lost, t))

(***************************************************************************)
(* Steps.                                                                  *)
(***************************************************************************)
AttrSets == UNION {[ks -> Attr] : ks \in SUBSET setup.uses}
Now == [text |-> text, cache |-> cache, at |-> 0, cur |-> NoAttrs, neg |-> [k \in Key |-> Absent]]

DeltaOps ==
    LET counts == 1 .. Length(text)
    IN  {[op |-> "insert", n |-> 1, attrs |-> a] : a \in AttrSets}
        \cup {[op |-> "delete", n |-> n, attrs |-> <<>>] : n \in counts}
        \cup {[op |-> "retain", n |-> n, attrs |-> a] : n \in counts, a \in AttrSets}
Deltas == UNION {[1 .. n -> DeltaOps] : n \in 1 .. setup.deltas}

Inserts == {Insert(Now, i, a) : i \in 0 .. Length(text), a \in AttrSets}
           \cup {InsertEmbed(Now, i, a) : i \in 0 .. Length(text), a \in AttrSets}
Deletes == {Delete(Now, i, n) : i \in 0 .. Length(text) - 1, n \in 1 .. Length(text)}
Formats == {Format(Now, i, n, a) : i \in 0 .. Length(text) - 1, n \in 1 .. Length(text), a \in AttrSets \ {<<>>}}

\* What a remote transaction changes: one unit, one marker or a formatted range
\* more anywhere, or one item fewer.
Arrivals ==
    LET placed(n, it) == At([Now EXCEPT !.at = n], [it EXCEPT !.fresh = TRUE])
        places == 0 .. Len(text)
        wrapped(m, n, k, v) ==
            LET open == placed(m, Mark(k, v)) IN At([open EXCEPT !.at = n + 1], [Mark(k, Nil) EXCEPT !.fresh = TRUE])
    IN  (IF "unit" \in setup.remote THEN {placed(n, Unit) : n \in places} ELSE {})
        \cup (IF "mark" \in setup.remote THEN {placed(n, Mark(k, v)) : n \in places, k \in setup.uses, v \in Attr} ELSE {})
        \cup (IF "format" \in setup.remote
              THEN {wrapped(p[1], p[2], k, v) : p \in {q \in places \X places : q[1] < q[2]}, k \in setup.uses, v \in Val} ELSE {})
        \cup (IF "delete" \in setup.remote
              THEN {[Kill(Now, n) EXCEPT !.text[n].gone = TRUE] : n \in {m \in DOMAIN text : ~text[m].del}} ELSE {})

Commit(c) ==
    /\ Len(c.text) <= setup.items
    /\ text' = [n \in DOMAIN c.text |-> [c.text[n] EXCEPT !.new = FALSE, !.dead = FALSE, !.cached = @ /\ c.cache # NoCache]]
    /\ cache' = c.cache
    /\ UNCHANGED setup

Init == setup \in Setups /\ text = <<>> /\ cache = NoCache /\ due = FALSE

LocalInsert == "insert" \in setup.ops /\ (\E c \in Inserts : Commit(c)) /\ UNCHANGED due
LocalDelete == "delete" \in setup.ops /\ (\E c \in Deletes : Commit(c)) /\ UNCHANGED due
LocalFormat == "format" \in setup.ops /\ (\E c \in Formats : Commit(c)) /\ UNCHANGED due
LocalDelta == "delta" \in setup.ops /\ (\E d \in Deltas : Commit(ApplyDelta(Now, d))) /\ UNCHANGED due

\* A remote transaction commits; a text that has had a marker awaits clean-up.
RemoteChange ==
    /\ ~due
    /\ \E c \in Arrivals :
         /\ Commit(IF HasFormatting(c.text) THEN c
                   ELSE [c EXCEPT !.text = [n \in DOMAIN @ |-> [@[n] EXCEPT !.fresh = FALSE, !.gone = FALSE]]])
         /\ due' = HasFormatting(c.text)

\* afterRemoteObservers, once the observers have run; other transactions may
\* have committed in between.
AfterRemoteObservers ==
    /\ due /\ due' = FALSE
    /\ LET c == CleanUp(Now)
       IN  Commit([c EXCEPT !.text = [n \in DOMAIN @ |-> [@[n] EXCEPT !.fresh = FALSE, !.gone = FALSE]]])

Next == LocalInsert \/ LocalDelete \/ LocalFormat \/ LocalDelta \/ RemoteChange \/ AfterRemoteObservers
Spec == Init /\ [][Next]_vars

(***************************************************************************)
(* The reference: a text is the sequence of its units with their           *)
(* attributes, and a delta edits it from left to right.                    *)
(***************************************************************************)
Shown(t) ==
    LET us == InOrder(Units(t), t)
    IN  [n \in DOMAIN us |-> [new |-> t[us[n]].new, attrs |-> AttrsAfter(t, us[n])]]
Full(attrs) == [k \in Key |-> Named(attrs, k)]
Restyled(u, attrs) == [u EXCEPT !.attrs = [k \in Key |-> IF k \in DOMAIN attrs THEN attrs[k] ELSE @[k]]]

EditOp(a, d) ==
    LET n == IF d.n < Len(a.rest) THEN d.n ELSE Len(a.rest)
    IN  CASE d.op = "insert" -> [a EXCEPT !.out = Append(@, [new |-> TRUE, attrs |-> Full(d.attrs)])]
          [] d.op = "delete" -> [a EXCEPT !.rest = SubSeq(@, n + 1, Len(@))]
          [] d.op = "retain" -> [out |-> a.out \o [m \in 1 .. n |-> Restyled(a.rest[m], d.attrs)],
                                 rest |-> SubSeq(a.rest, n + 1, Len(a.rest))]
Edited(shown, delta) ==
    LET a == FoldLeft(EditOp, [out |-> <<>>, rest |-> shown], delta) IN a.out \o a.rest

Step(op, n, attrs) == [op |-> op, n |-> n, attrs |-> attrs]
Does(c, delta) == Shown(c.text) = Edited(Shown(text), delta)

(***************************************************************************)
(* Properties.                                                             *)
(***************************************************************************)
\* Types; the cache is about one unit, and only while a remote transaction
\* waits are items marked as its own.
TypeOK ==
    /\ text \in Seq([mark : BOOLEAN, key : Key \cup {Nil}, val : Attr, del : BOOLEAN, cached : BOOLEAN,
                     new : {FALSE}, dead : {FALSE}, fresh : BOOLEAN, gone : BOOLEAN])
    /\ Len(text) <= setup.items
    /\ cache \in [Key -> Attr] \cup {NoCache}
    /\ due \in BOOLEAN
    /\ Cardinality({n \in DOMAIN text : text[n].cached}) = (IF cache = NoCache THEN 0 ELSE 1)
    /\ \A n \in DOMAIN text : (text[n].cached => ~text[n].mark) /\ (text[n].fresh \/ text[n].gone => due)

\* Format gives the range the attributes it names, leaves its other attributes
\* alone and changes nothing outside, wherever markers and tombstones lie.
FormatExact ==
    \A i \in 0 .. Length(text) - 1, n \in 1 .. Length(text), a \in AttrSets \ {<<>>} :
      Does(Format(Now, i, n, a), <<Step("retain", i, <<>>), Step("retain", n, a)>>)

\* Formatting a range again writes no marker.
FormatTwice ==
    \A i \in 0 .. Length(text) - 1, n \in 1 .. Length(text), a \in AttrSets \ {<<>>} :
      LET c == Format(Now, i, n, a) IN i + n <= Length(text) => Len(Format(c, i, n, a).text) = Len(c.text)

\* "When attrs is non-empty, the text carries exactly attrs"; an embed always
\* does; other units keep their attributes.
InsertExact ==
    \A i \in 0 .. Length(text), a \in AttrSets :
      /\ Does(InsertEmbed(Now, i, a), <<Step("retain", i, <<>>), Step("insert", 1, a)>>)
      /\ a # <<>> => Does(Insert(Now, i, a), <<Step("retain", i, <<>>), Step("insert", 1, a)>>)

\* "When attrs is nil or empty, the new text inherits the formatting in effect
\* at the cursor": that of the unit before it.
InsertInherits ==
    \A i \in 0 .. Length(text) :
      Does(Insert(Now, i, <<>>), <<Step("retain", i, <<>>), Step("insert", 1, AttrsAfter(text, PlaceOf(text, i)))>>)

\* Delete and its clean-up of dangling markers leave the attributes of every
\* other unit as they were.
DeleteExact ==
    \A i \in 0 .. Length(text) - 1, n \in 1 .. Length(text) :
      Does(Delete(Now, i, n), <<Step("retain", i, <<>>), Step("delete", n, <<>>)>>)

\* A delta applied with one cursor is the delta applied to what the text shows.
DeltaExact == \A d \in Deltas : Does(ApplyDelta(Now, d), d)

\* The clean-up after a remote transaction is invisible.
CleanUpInvisible == due => Shown(CleanUp(Now).text) = Shown(text)

\* The cached attributes are those after the cached unit.
CacheHonest ==
    \A n \in DOMAIN text : (cache # NoCache /\ text[n].cached /\ IsUnit(text[n])) => cache = AttrsAfter(text, n)

\* What observers are told takes what the text showed to what it shows now,
\* whoever writes and deletes, as long as nobody else formats the text.
ObserversTold ==
    setup.remote \subseteq {"unit", "delete"} =>
      \A c \in Inserts \cup Deletes \cup Formats \cup Arrivals \cup (IF due THEN {CleanUp(Now)} ELSE {}) :
        Edited(Shown(text), ComputeDelta(c.text)) = Shown(c.text)

\* Whatever the list of markers and tombstones, each edit does to it what its
\* documentation says it does to the text: Format, Insert, InsertEmbed, Delete
\* and ApplyDelta.
EditsExact == FormatExact /\ FormatTwice /\ InsertExact /\ InsertInherits /\ DeleteExact /\ DeltaExact

\* What is kept beside the list never shows: neither the cached attributes nor
\* the clean-up that a remote transaction has left to a later lock section.
HiddenStateHonest == TypeOK /\ CacheHonest /\ CleanUpInvisible
=============================================================================
