---------------------------- MODULE SearchMarkers ----------------------------
(***************************************************************************)
(* crdt's search markers: cached positions in the item list of a text or   *)
(* an array, from which an index is looked up instead of from the start.   *)
(* Every edit keeps them, shifts them or drops them.  A text holds format  *)
(* markers, which have no width; an array holds moves, which show their    *)
(* target where they stand.                                                *)
(***************************************************************************)
EXTENDS Naturals, Sequences, FiniteSets, SequencesExt

CONSTANTS
    MaxLen,      \* bound on the length of an inserted item
    MaxMine,     \* bounds on this client's clock
    MaxTheirs,   \* and on that of the others
    MaxMarkers   \* maxSearchMarker

ASSUME MarkersAssumption ==
    MaxLen \in Nat \ {0} /\ MaxMine \in Nat /\ MaxTheirs \in Nat /\ MaxMarkers \in Nat \ {0}

Me == 1
Peer == 2
None == <<0, 0>>

VARIABLES
    owner,    \* what the list belongs to, a "text" or an "array"
    list,     \* the items, tombstones included
    markers,  \* t.markers; stamps are kept as ranks
    open      \* the open transaction: "none", "local" or "remote"

vars == <<owner, list, markers, open>>

Text == owner = "text"

(***************************************************************************)
(* Items.  `by` is the move that shows a unit elsewhere, `new` and `half`  *)
(* that the open transaction inserted an item or split it off; of a new    *)
(* one `right` is its right origin and `run` that both its origins         *)
(* continue its left neighbour.                                            *)
(***************************************************************************)
Item(id, kind, len) ==
    [id |-> id, kind |-> kind, len |-> len, del |-> FALSE, by |-> None, target |-> None,
     right |-> None, run |-> FALSE, new |-> TRUE, half |-> FALSE]

IdAt(l, n) == IF n \in DOMAIN l THEN l[n].id ELSE None
PlaceOf(l, id) == IF \E n \in DOMAIN l : l[n].id = id THEN CHOOSE n \in DOMAIN l : l[n].id = id ELSE 0
Clock(l, c) ==
    LET ends == {l[n].id[2] + l[n].len : n \in {m \in DOMAIN l : l[m].id[1] = c}}
    IN  IF ends = {} THEN 0 ELSE Max(ends)
Follows(a, b) == a.id[1] = b.id[1] /\ a.id[2] + a.len = b.id[2]
IsUnit(it) == it.kind = "unit" /\ ~it.del
Length(l) == FoldLeft(LAMBDA s, it : IF IsUnit(it) THEN s + it.len ELSE s, 0, l)

\* renderedStep: the positions that the item at place n shows, 0 when none.
Width(l, n) ==
    LET it == l[n]
        t == PlaceOf(l, it.target)
    IN  IF it.del THEN 0
        ELSE IF it.kind = "move" THEN (IF t # 0 /\ l[t].by = it.id /\ ~l[t].del THEN l[t].len ELSE 0)
        ELSE IF it.kind = "unit" /\ it.by = None THEN it.len ELSE 0
StartOf(l, n) == FoldLeft(LAMBDA s, m : s + Width(l, m), 0, [m \in 1 .. n - 1 |-> m])
Shows(l, n) == StartOf(l, n + 1)

(***************************************************************************)
(* Lookup.                                                                 *)
(***************************************************************************)
Found(n, start) == [at |-> n, start |-> start]

RECURSIVE WalkColdFrom(_, _, _, _)
WalkColdFrom(l, n, counted, index) ==
    IF n > Len(l) THEN Found(0, counted)
    ELSE IF Width(l, n) > 0 /\ counted + Width(l, n) >= index THEN Found(n, counted)
    ELSE WalkColdFrom(l, n + 1, counted + Width(l, n), index)

RECURSIVE WalkLeftFrom(_, _, _, _)
WalkLeftFrom(l, n, start, index) ==
    LET before == {m \in 1 .. n - 1 : Width(l, m) > 0}
    IN  IF start < index \/ before = {} THEN Found(n, start)
        ELSE WalkLeftFrom(l, Max(before), start - Width(l, Max(before)), index)

Distance(a, b) == IF a < b THEN b - a ELSE a - b

\* The nearest marker, the first of several.
Nearest(ms, index) ==
    CHOOSE i \in DOMAIN ms :
      \A j \in DOMAIN ms :
        LET di == Distance(ms[i].index, index)
            dj == Distance(ms[j].index, index)
        IN  di < dj \/ (di = dj /\ i <= j)

FindMarkerRO(l, ms, index) ==
    IF index = 0 THEN Found(0, 0)
    ELSE IF ms = <<>> THEN WalkColdFrom(l, 1, 0, index)
    ELSE LET m == ms[Nearest(ms, index)]
             n == PlaceOf(l, m.item)
         IN  IF Width(l, n) = 0 THEN WalkColdFrom(l, 1, 0, index)
             ELSE IF m.index + Width(l, n) >= index THEN WalkLeftFrom(l, n, m.index, index)
             ELSE WalkColdFrom(l, n + 1, m.index + Width(l, n), index)

RECURSIVE StepRight(_, _, _)
StepRight(l, p, index) ==
    IF p.at = Len(l) \/ p.start >= index \/ (Width(l, p.at) > 0 /\ index < p.start + Width(l, p.at)) THEN p
    ELSE StepRight(l, Found(p.at + 1, p.start + Width(l, p.at)), index)

StepBack(l, p) == Found(p.at - 1, p.start - Width(l, p.at - 1))

RECURSIVE StepLeft(_, _, _)
StepLeft(l, p, index) ==
    IF p.at = 1 \/ p.start <= index THEN p ELSE StepLeft(l, StepBack(l, p), index)

RECURSIVE RunStart(_, _)
RunStart(l, p) ==
    IF p.at > 1 /\ Follows(l[p.at - 1], l[p.at]) THEN RunStart(l, StepBack(l, p)) ELSE p

Newest == MaxMarkers + 2
Ranked(ms) ==
    [i \in DOMAIN ms |-> [ms[i] EXCEPT !.stamp = Cardinality({j \in DOMAIN ms : ms[j].stamp <= ms[i].stamp})]]

\* markPosition: one more marker, in place of the oldest when there is no room.
MarkPosition(ms, item, index) ==
    LET m == [item |-> item, index |-> index, stamp |-> Newest]
        oldest == CHOOSE i \in DOMAIN ms : \A j \in DOMAIN ms : ms[i].stamp <= ms[j].stamp
    IN  Ranked(IF Len(ms) < MaxMarkers THEN Append(ms, m) ELSE [ms EXCEPT ![oldest] = m])

\* markPositionAt: from the nearest marker to the run that holds index; a short
\* walk refreshes the marker, a long one leaves a new one.
MarkPositionAt(l, ms, index) ==
    LET near == Nearest(ms, index)
        from == IF ms = <<>> THEN Found(1, 0) ELSE Found(PlaceOf(l, ms[near].item), ms[near].index)
        used == IF ms = <<>> THEN ms ELSE [ms EXCEPT ![near].stamp = MaxMarkers + 1]
        p == RunStart(l, StepLeft(l, StepRight(l, from, index), index))
    IN  IF ms # <<>> /\ Distance(ms[near].index, p.start) * MaxMarkers < Length(l)
        THEN Ranked([used EXCEPT ![near].item = l[p.at].id, ![near].index = p.start])
        ELSE MarkPosition(used, l[p.at].id, p.start)

(***************************************************************************)
(* What a transaction works on: s.list and s.markers.                      *)
(***************************************************************************)
ClearMarkers(s) == [s EXCEPT !.markers = <<>>]
Mark(s, index) ==
    IF index > 0 /\ s.list # <<>> THEN [s EXCEPT !.markers = MarkPositionAt(s.list, @, index)] ELSE s

\* updateMarkerChanges(index, add - sub), after the edit.
UpdateMarkerChanges(s, index, add, sub) ==
    LET live == SelectSeq(s.markers, LAMBDA m : PlaceOf(s.list, m.item) # 0 /\ ~s.list[PlaceOf(s.list, m.item)].del)
        moved(i) == IF i + add < index + sub THEN index ELSE i + add - sub
    IN  [s EXCEPT !.markers = Ranked([i \in DOMAIN live |->
            IF index <= live[i].index THEN [live[i] EXCEPT !.index = moved(@)] ELSE live[i]])]

DropNoMarkers(s, index) == s

DropUncountedMarkersAt(s, index) ==
    [s EXCEPT !.markers = Ranked(SelectSeq(@, LAMBDA m :
        ~(m.index = index /\ s.list[PlaceOf(s.list, m.item)].kind # "unit")))]

\* splitItem: the item at place n keeps its first k units.
SplitItem(s, n, k) ==
    LET it == s.list[n]
        half == [it EXCEPT !.id[2] = @ + k, !.len = @ - k, !.by = None, !.run = TRUE, !.new = FALSE, !.half = TRUE]
    IN  ClearMarkers([s EXCEPT !.list = InsertAt([@ EXCEPT ![n].len = k], n + 1, half)])

\* moveBeats: the lower client, within one the later move.
Beats(m, w) == w = None \/ m[1] < w[1] \/ (m[1] = w[1] /\ m[2] > w[2])

\* Item.integrate: it goes after place n; a hint is the index it goes to.
Integrate(s, n, it, hint) ==
    LET placed == [it EXCEPT !.right = IdAt(s.list, n + 1),
                             !.run = n > 0 /\ Follows(s.list[n], it) /\ s.list[n].right = IdAt(s.list, n + 1)]
        put == [s EXCEPT !.list = InsertAt(@, n + 1, placed)]
        beside == n > 0 /\ ~IsUnit(s.list[n])
    IN  CASE it.kind = "mark" -> put
          [] it.kind = "unit" ->
               IF n = Len(s.list) THEN put
               ELSE IF hint = 0 THEN ClearMarkers(put)
               ELSE UpdateMarkerChanges(IF beside THEN DropUncountedMarkersAt(put, hint) ELSE put, hint, it.len, 0)
          [] it.kind = "move" ->
               LET t == PlaceOf(put.list, it.target)
               IN  ClearMarkers([put EXCEPT !.list[t].by = IF Beats(it.id, @) THEN it.id ELSE @])

\* Item.delete of the item at place n.
DeleteItem(s, n, local) ==
    LET it == s.list[n]
        dead == [s EXCEPT !.list[n].del = TRUE]
        t == PlaceOf(s.list, it.target)
        freed == IF it.kind = "move" /\ s.list[t].by = it.id THEN [dead EXCEPT !.list[t].by = None] ELSE dead
    IN  IF it.del THEN s
        ELSE IF it.kind = "move" \/ it.by # None \/ (it.kind = "unit" /\ ~local) THEN ClearMarkers(freed) ELSE freed

(***************************************************************************)
(* Local edits.                                                            *)
(***************************************************************************)
Now == [list |-> list, markers |-> markers]
Shown == Shows(list, Len(list))

\* The place that ends at index, after a split there if need be.
Boundary(s, n, start, index) ==
    IF n > 0 /\ index - start < Width(s.list, n) THEN SplitItem(s, n, index - start) ELSE s

\* leftNeighbourAt, which leaves a marker.
LeftNeighbourAt(s, index) ==
    LET m == Mark(s, index)
        f == FindMarkerRO(m.list, m.markers, index)
        shown == {n \in DOMAIN s.list : Width(s.list, n) > 0}
    IN  IF index = 0 \/ (f.at = 0 /\ shown = {}) THEN [s |-> m, at |-> 0]
        ELSE IF f.at = 0 THEN [s |-> m, at |-> Max(shown)]
        ELSE [s |-> Boundary(m, f.at, f.start, index), at |-> f.at]

\* A cursor that walks from the start instead.
CursorAt(s, index) ==
    LET f == WalkColdFrom(s.list, 1, 0, index)
    IN  IF index = 0 THEN [s |-> s, at |-> 0] ELSE [s |-> Boundary(s, f.at, f.start, index), at |-> f.at]

\* Where a text may anchor: past the tombstones and some of the marks after
\* the unit; an array anchors right after it.
Anchors(l, n) ==
    IF Text THEN {m \in n .. Len(l) : (\A k \in n + 1 .. m : ~IsUnit(l[k])) /\ (m = Len(l) \/ ~l[m + 1].del)}
    ELSE {n}

Fresh(s, c, kind, len) == Item(<<c, Clock(s.list, c)>>, kind, len)
Room(c, len) == Clock(list, c) + len <= (IF c = Me THEN MaxMine ELSE MaxTheirs)
HasFormatting == \E n \in DOMAIN list : list[n].kind = "mark"

Become(s) == list' = s.list /\ markers' = s.markers /\ UNCHANGED owner
Locally(s) == open # "remote" /\ open' = "local" /\ Become(s)

Init == owner \in {"text", "array"} /\ list = <<>> /\ markers = <<>> /\ open = "none"

LocalInsert(index, len) ==
    /\ Room(Me, len)
    /\ LET p == LeftNeighbourAt(Now, index)
       IN  \E n \in Anchors(p.s.list, p.at) : Locally(Integrate(p.s, n, Fresh(p.s, Me, "unit", len), index))

\* YArray.Push: after the last item, tombstones included.
Push(len) ==
    /\ ~Text /\ Room(Me, len)
    /\ LET p == LeftNeighbourAt(Now, Length(list))
       IN  Locally(Integrate(p.s, Len(p.s.list), Fresh(p.s, Me, "unit", len), Length(list)))

\* ApplyDelta and formatted inserts: by a cursor, with the same hint.
CursorInsert(index, len) ==
    /\ Text /\ Room(Me, len)
    /\ LET p == CursorAt(Now, index)
       IN  \E n \in Anchors(p.s.list, p.at) : Locally(Integrate(p.s, n, Fresh(p.s, Me, "unit", len), index))

\* A format marker; the first one is placed by a lookup, later ones by a walk.
InsertFormat(index) ==
    /\ Text /\ Room(Me, 1)
    /\ LET p == IF HasFormatting THEN CursorAt(Now, index) ELSE LeftNeighbourAt(Now, index)
       IN  \E n \in Anchors(p.s.list, p.at) : Locally(Integrate(p.s, n, Fresh(p.s, Me, "mark", 1), 0))

DeleteFormat == \E n \in DOMAIN list : list[n].kind = "mark" /\ ~list[n].del /\ Locally(DeleteItem(Now, n, TRUE))

\* The loop of deleteRange, from place n that shows position `counted`.
RECURSIVE DeleteFrom(_, _, _, _, _)
DeleteFrom(s, n, counted, index, len) ==
    LET w == Width(s.list, n)
        it == s.list[n]
    IN  IF n > Len(s.list) \/ len = 0 THEN [s |-> s, left |-> len]
        ELSE IF w = 0 \/ counted + w <= index THEN DeleteFrom(s, n + 1, counted + w, index, len)
        ELSE IF it.kind = "move" THEN DeleteFrom(DeleteItem(s, PlaceOf(s.list, it.target), TRUE), n + 1, counted, index, len - 1)
        ELSE IF counted < index THEN DeleteFrom(SplitItem(s, n, index - counted), n + 1, index, index, len)
        ELSE IF w <= len THEN DeleteFrom(DeleteItem(s, n, TRUE), n + 1, counted, index, len - w)
        ELSE [s |-> DeleteItem(SplitItem(s, n, len), n, TRUE), left |-> 0]

DeleteRange(index, len) ==
    LET m == Mark(Now, index)
        f == IF index = 0 THEN Found(1, 0) ELSE FindMarkerRO(m.list, m.markers, index)
        d == DeleteFrom(m, f.at, f.start, index, len)
    IN  Locally(UpdateMarkerChanges(d.s, index, 0, len - d.left))

\* applyDeltaDelete: the same from a cursor.
CursorDelete(index, len) ==
    /\ Text
    /\ LET p == CursorAt(Now, index)
           d == DeleteFrom(p.s, p.at + 1, index, index, len)
       IN  Locally(UpdateMarkerChanges(d.s, index, 0, len - d.left))

\* YArray.Move: the unit is split off and a move of it put at the destination.
Isolated(s, index) ==
    LET f == WalkColdFrom(s.list, 1, 0, index + 1)
        n == IF s.list[f.at].kind = "move" THEN PlaceOf(s.list, s.list[f.at].target) ELSE f.at
        a == IF index > f.start THEN SplitItem(s, n, index - f.start) ELSE s
        t == IF index > f.start THEN n + 1 ELSE n
    IN  [s |-> IF a.list[t].len > 1 THEN SplitItem(a, t, 1) ELSE a, id |-> a.list[t].id]

Move(from, to) ==
    /\ ~Text /\ from # to /\ Room(Me, 1)
    /\ LET t == Isolated(Now, from)
           p == LeftNeighbourAt(t.s, IF from < to THEN to + 1 ELSE to)
       IN  Locally(Integrate(p.s, p.at, [Fresh(p.s, Me, "move", 1) EXCEPT !.target = t.id], to))

\* An undo deletes items where they stand and then drops every marker.
UndoInsert == \E n \in DOMAIN list : IsUnit(list[n]) /\ Locally(ClearMarkers(DeleteItem(Now, n, TRUE)))

(***************************************************************************)
(* Remote changes, anywhere in the list and with no index.                 *)
(***************************************************************************)
Remotely(s) == open # "local" /\ open' = "remote" /\ Become(s)

\* The unit after which a remote item goes may lie inside an item.
SplitAfter(s, n, k) == IF n > 0 /\ k < s.list[n].len THEN SplitItem(s, n, k) ELSE s

RemoteInsert(kind, len) ==
    /\ kind \in {"unit", IF Text THEN "mark" ELSE "unit"} /\ Room(Peer, len)
    /\ \E n \in 0 .. Len(list) : \E k \in 1 .. (IF n = 0 THEN 1 ELSE list[n].len) :
         LET s == SplitAfter(Now, n, k) IN Remotely(Integrate(s, n, Fresh(s, Peer, kind, len), 0))

RemoteMove ==
    /\ ~Text /\ Room(Peer, 1)
    /\ \E t \in DOMAIN list : list[t].kind = "unit" /\ list[t].len = 1
         /\ \E n \in 0 .. Len(list) :
              Remotely(Integrate(Now, n, [Fresh(Now, Peer, "move", 1) EXCEPT !.target = list[t].id], 0))

\* applyToPartial: a range of one item, split at its ends.
RemoteDelete ==
    \E n \in DOMAIN list : ~list[n].del /\ \E a \in 1 .. list[n].len : \E b \in a .. list[n].len :
      LET s == SplitAfter(Now, n, b)
          t == IF a > 1 THEN SplitItem(s, n, a - 1) ELSE s
      IN  Remotely(DeleteItem(t, IF a > 1 THEN n + 1 ELSE n, FALSE))

(***************************************************************************)
(* Commit: moves are arbitrated again, runs squashed, splits reversed.     *)
(***************************************************************************)
RearbitrateNone(s) == s

Rearbitrate(s) ==
    LET moves(t) == {m \in DOMAIN s.list : s.list[m].kind = "move" /\ ~s.list[m].del /\ s.list[m].target = s.list[t].id}
        owed == {t \in DOMAIN s.list : s.list[t].by = None /\ moves(t) # {}}
        best(t) == CHOOSE m \in moves(t) : \A o \in moves(t) : o = m \/ Beats(s.list[m].id, s.list[o].id)
    IN  IF owed = {} THEN s
        ELSE ClearMarkers([s EXCEPT !.list = [t \in DOMAIN @ |->
                 IF t \in owed THEN [@[t] EXCEPT !.by = s.list[best(t)].id] ELSE @[t]]])

Mergeable(a, b) ==
    /\ a.kind = "unit" /\ b.kind = "unit" /\ Follows(a, b) /\ b.run
    /\ a.del = b.del
    /\ (Text /\ a.new /\ b.new /\ ~a.del) \/ (b.half /\ a.by = b.by)

RECURSIVE MergeRuns(_, _)
MergeRuns(s, n) ==
    IF n >= Len(s.list) THEN s
    ELSE IF Mergeable(s.list[n], s.list[n + 1])
    THEN MergeRuns(ClearMarkers([s EXCEPT !.list = RemoveAt([@ EXCEPT ![n].len = @ + s.list[n + 1].len], n + 1)]), n)
    ELSE MergeRuns(s, n + 1)

Settled(s) == [s EXCEPT !.list = [n \in DOMAIN @ |-> [@[n] EXCEPT !.new = FALSE, !.half = FALSE, !.run = FALSE, !.right = None]]]

Commit == open # "none" /\ open' = "none" /\ Become(Settled(MergeRuns(Rearbitrate(Now), 1)))

Next ==
    \/ \E len \in 1 .. MaxLen :
         \/ \E index \in 0 .. Shown : LocalInsert(index, len) \/ CursorInsert(index, len)
         \/ Push(len)
         \/ \E kind \in {"unit", "mark"} : (kind = "mark" => len = 1) /\ RemoteInsert(kind, len)
    \/ \E index \in 0 .. Shown : InsertFormat(index)
    \/ \E index \in 0 .. Shown - 1, len \in 1 .. Shown : DeleteRange(index, len) \/ CursorDelete(index, len)
    \/ \E from \in 0 .. Shown - 1, to \in 0 .. Shown - 1 : Move(from, to)
    \/ DeleteFormat \/ UndoInsert \/ RemoteMove \/ RemoteDelete \/ Commit
Spec == Init /\ [][Next]_vars

(***************************************************************************)
(* Properties.                                                             *)
(***************************************************************************)
\* Types.
TypeOK ==
    /\ \A n \in DOMAIN list : list[n].kind \in {"unit", IF Text THEN "mark" ELSE "move"} /\ list[n].len \in Nat \ {0}
    /\ \A m, n \in DOMAIN list : m # n => list[m].id # list[n].id
    /\ Len(markers) <= MaxMarkers
    /\ open \in {"none", "local", "remote"}

\* updateMarkerChanges' post-condition, after any sequence of edits: a marker is
\* on an item of the list, at the position where that item starts.
MarkersTrue ==
    \A i \in DOMAIN markers :
      LET n == PlaceOf(list, markers[i].item) IN n # 0 /\ markers[i].index = StartOf(list, n)

\* A lookup from the markers answers as one from the start of the list.
LookupsAgree ==
    \A index \in 0 .. Shown + 1 : FindMarkerRO(list, markers, index) = FindMarkerRO(list, <<>>, index)

\* Every live unit is shown once, where it stands or where its move stands.
ShownOnce == Shown = Length(list)

\* Between transactions the move that shows a unit is the one moveBeats prefers
\* among all live moves of it, whatever the order they came and went in.
BestMoveWins ==
    open = "none" =>
      \A t \in DOMAIN list : IsUnit(list[t]) =>
        LET moves == {list[m].id : m \in {n \in DOMAIN list : list[n].kind = "move" /\ ~list[n].del /\ list[n].target = list[t].id}}
        IN  IF moves = {} THEN list[t].by = None
            ELSE list[t].by \in moves /\ \A m \in moves : m = list[t].by \/ Beats(list[t].by, m)

\* The markers are true after any sequence of edits, splits, merges and moves,
\* and looking up with them gives what looking up without them gives.
MarkersSound == TypeOK /\ MarkersTrue /\ LookupsAgree

\* Rival moves, however they come and go, show a unit once, where the preferred
\* of the live ones stands.
MovesSound == ShownOnce /\ BestMoveWins
=============================================================================
