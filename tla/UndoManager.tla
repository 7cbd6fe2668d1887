----------------------------- MODULE UndoManager -----------------------------
(***************************************************************************)
(* crdt.UndoManager over one list and one map key, both root types in its  *)
(* scope.  Local transactions commit under the document's lock and are     *)
(* captured later, by an observer that runs without it; Undo and Redo take *)
(* the manager's lock, release it, apply a stack item in a transaction of  *)
(* their own, and take it again.  Edits that are not tracked (remote ones, *)
(* other origins) land in between.  An item is one clock; its id is its    *)
(* place in `items`, and `val` the item whose content it first carried.    *)
(***************************************************************************)
EXTENDS Naturals, Sequences, FiniteSets, FiniteSetsExt, SequencesExt

CONSTANT
    Setups      \* the documents and applications considered, records of
                \*   kinds    where edits go: "list", "key"
                \*   items    bound on items, copies included
                \*   edits    bound on tracked edits
                \*   others   bound on items the others write
                \*   threads  do tracked edits and undos come from different goroutines?
                \*   gc       WithGC: does a commit free what it deleted?
                \*   owner    what the application does with the manager: "clear", "destroy"

ASSUME UndoAssumption ==
    Setups \subseteq [kinds : SUBSET {"list", "key"}, items : Nat, edits : Nat, others : Nat,
                      threads : BOOLEAN, gc : BOOLEAN, owner : SUBSET {"clear", "destroy"}]

VARIABLES
    setup,    \* the one of Setups this behaviour is about, never changed
    doc,      \* the document: items, the order of the list, the chain of the key
    stacks,   \* undoStack, redoStack, lastTxnTime set?, captures
    attach,   \* "subscribed", then "counted" (undoManagerCount), then "destroyed"
    commits,  \* committed tracked transactions whose observer has not run
    pop,      \* the Undo or Redo in progress
    last      \* history: the latest change to the document and what it showed before

vars == <<setup, doc, stacks, attach, commits, pop, last>>

None == 0
Idle == [at |-> "idle"]
NoChange == [ins |-> {}, del |-> <<>>]

(***************************************************************************)
(* The document.                                                           *)
(***************************************************************************)
Live(d, i) == ~d.items[i].deleted
Shown(d) == [list |-> [n \in 1 .. Len(SelectSeq(d.list, LAMBDA i : Live(d, i))) |->
                         d.items[SelectSeq(d.list, LAMBDA i : Live(d, i))[n]].val],
             key |-> IF d.key # <<>> /\ Live(d, Last(d.key)) THEN d.items[Last(d.key)].val ELSE None]
LiveValues(d) == {d.items[i].val : i \in {j \in DOMAIN d.items : Live(d, j)}}

\* Every change is a record: the new document and what it inserted and deleted.
Kill(c, i) ==
    IF ~Live(c.doc, i) THEN c
    ELSE [c EXCEPT !.doc.items[i].deleted = TRUE, !.del = Append(@, i)]

Place(c, at, client, val) ==
    LET id == Len(c.doc.items) + 1
        item == [val |-> IF val = None THEN id ELSE val, client |-> client, deleted |-> FALSE,
                 freed |-> FALSE, redone |-> None]
    IN  [c EXCEPT !.doc.items = Append(@, item), !.doc.list = InsertAt(@, at, id),
                  !.ins = @ \cup {id}]

\* An entry chained last under the key deletes the one before it; one that a
\* later entry already supersedes arrives deleted.
Chain(c, at, client, val) ==
    LET id == Len(c.doc.items) + 1
        item == [val |-> IF val = None THEN id ELSE val, client |-> client, deleted |-> FALSE,
                 freed |-> FALSE, redone |-> None]
        n == Len(c.doc.key)
        put == [c EXCEPT !.doc.items = Append(@, item), !.doc.key = InsertAt(@, at, id),
                         !.ins = @ \cup {id}]
    IN  IF at <= n THEN Kill(put, id)
        ELSE IF n = 0 THEN put ELSE Kill(put, c.doc.key[n])

\* What one edit can do; a writer only sets the key after its current entry.
Edits(client) ==
    LET c == [doc |-> doc] @@ NoChange
        ends == IF client = "me" THEN {Len(doc.key) + 1} ELSE 1 .. Len(doc.key) + 1
        grow == /\ Len(doc.items) < setup.items
                /\ client = "me" \/ Len(SelectSeq(doc.items, LAMBDA x : x.client = client)) < setup.others
    IN  (IF grow /\ "list" \in setup.kinds THEN {Place(c, p, client, None) : p \in 1 .. Len(doc.list) + 1} ELSE {})
        \cup (IF grow /\ "key" \in setup.kinds THEN {Chain(c, p, client, None) : p \in ends} ELSE {})
        \cup {Kill(c, i) : i \in {j \in DOMAIN doc.items : Live(doc, j)}}

(***************************************************************************)
(* Applying a stack item.                                                  *)
(***************************************************************************)
FollowRedone(d, i) ==
    LET end[j \in DOMAIN d.items] == IF d.items[j].redone = None THEN j ELSE end[d.items[j].redone]
    IN  end[i]

\* iterateItems: clients in the order of their first deletion, clocks upwards.
RedoOrder(d, del) ==
    LET of(client) == {i \in ToSet(del) : d.items[i].client = client}
        first == IF del = <<>> THEN "me" ELSE d.items[del[1]].client
        other == IF first = "me" THEN "other" ELSE "me"
    IN  SetToSortSeq(of(first), <) \o SetToSortSeq(of(other), <)

KeyEndAnywhere(d, i, ins, others) == Len(d.key)

\* Where the walk over the later values of the key stops: it passes what this
\* undo deletes and what is undo history, following redone copies.
KeyEnd(d, i, ins, others) ==
    LET at(j) == CHOOSE p \in DOMAIN d.key : d.key[p] = j
        own(j) == d.items[j].redone # None \/ j \in ins \/ j \in others
        stop[p \in DOMAIN d.key] ==
            IF p < Len(d.key) /\ own(d.key[p + 1]) THEN stop[at(FollowRedone(d, d.key[p + 1]))] ELSE p
    IN  stop[at(i)]

RedoItemLast(c, i, ins, others) ==
    LET link(x) == [x EXCEPT !.doc.items[i].redone = Len(x.doc.items), !.performed = TRUE]
    IN  IF c.doc.items[i].redone # None THEN [c EXCEPT !.performed = TRUE]
        ELSE IF Contains(c.doc.list, i)
        THEN link(Place(c, Len(c.doc.list) + 1, "me", c.doc.items[i].val))
        ELSE link(Chain(c, Len(c.doc.key) + 1, "me", c.doc.items[i].val))

\* redoItem: the content comes back as a new item before its original, or, for
\* the key, after its last entry unless that would overwrite a value that is
\* nobody's undo history.  (A run of neighbours is copied as one struct; only
\* the order of tombstones tells, which is left out.)
RedoItem(c, i, ins, others) ==
    LET val == c.doc.items[i].val
        link(x) == [x EXCEPT !.doc.items[i].redone = Len(x.doc.items), !.performed = TRUE]
        key == c.doc.key
    IN  IF c.doc.items[i].redone # None THEN [c EXCEPT !.performed = TRUE]
        ELSE IF Contains(c.doc.list, i) THEN link(Place(c, SelectInSeq(c.doc.list, LAMBDA j : j = i), "me", val))
        ELSE IF KeyEnd(c.doc, i, ins, others) < Len(key) THEN c
        ELSE link(Chain(c, Len(key) + 1, "me", val))

DeleteOriginals(c, ins) == FoldLeft(Kill, c, SetToSortSeq(ins, <))

\* Step 1 of applyStackItem: what the captured transactions inserted, or what
\* it lives on as, is deleted.
DeleteInserted(c, ins) ==
    FoldLeft(Kill, c, [n \in 1 .. Cardinality(ins) |-> FollowRedone(c.doc, SetToSortSeq(ins, <)[n])])

\* Step 2: what they deleted is restored, except what they had inserted.
RestoreDeleted(c, item, others) ==
    FoldLeft(LAMBDA x, i : RedoItem(x, i, item.ins, others), c,
             SelectSeq(RedoOrder(c.doc, item.del),
                       LAMBDA i : ~Live(c.doc, i) /\ i \notin item.ins /\ ~c.doc.items[i].freed))

ApplyStackItem(item, others) ==
    LET one == DeleteInserted([doc |-> doc, ins |-> {}, del |-> <<>>, performed |-> FALSE], item.ins)
    IN  RestoreDeleted([one EXCEPT !.performed = one.del # <<>>], item, others)

(***************************************************************************)
(* Steps.                                                                  *)
(***************************************************************************)
\* NewUndoManager has subscribed; without auto-GC its count does not matter.
Init ==
    /\ setup \in Setups
    /\ doc = [items |-> <<>>, list |-> <<>>, key |-> <<>>]
    /\ stacks = [undo |-> <<>>, redo |-> <<>>, recent |-> FALSE, captures |-> 0]
    /\ attach = (IF setup.gc THEN "subscribed" ELSE "counted") /\ commits = {} /\ pop = Idle
    /\ last = [doc |-> doc, ins |-> {}, del |-> <<>>, shown |-> Shown(doc)]

\* The rest of NewUndoManager: from now on commits free nothing.
CountManager ==
    /\ attach = "subscribed" /\ attach' = "counted"
    /\ UNCHANGED <<setup, doc, stacks, commits, pop, last>>

\* A transaction commits change c; auto-GC frees what it deleted.
Commit(c) ==
    doc' = IF setup.gc /\ attach # "counted"
           THEN [c.doc EXCEPT !.items = [i \in DOMAIN @ |-> [@[i] EXCEPT !.freed = @ \/ i \in ToSet(c.del)]]]
           ELSE c.doc

\* captureTransaction: merged into the top of the stack within the capture
\* timeout of the last one, and redo is invalidated.
CaptureTransaction(t) ==
    /\ \E within \in BOOLEAN :
         stacks' = [stacks EXCEPT
           !.undo = IF stacks.undo # <<>> /\ stacks.recent /\ within
                    THEN Append(Front(@), [ins |-> Last(@).ins \cup t.ins, del |-> Last(@).del \o t.del])
                    ELSE Append(@, t),
           !.redo = <<>>, !.recent = TRUE, !.captures = @ + 1]

\* A tracked transaction.  Its observer runs in the same goroutine, after the
\* document's lock is released.
Transact ==
    /\ stacks.captures + Cardinality(commits) < setup.edits
    /\ setup.threads \/ pop = Idle
    /\ \E c \in Edits("me") :
         LET t == [ins |-> c.ins, del |-> c.del] IN
           /\ Commit(c)
           /\ last' = [doc |-> doc', ins |-> t.ins, del |-> t.del, shown |-> Shown(doc)]
           /\ IF attach = "destroyed" THEN UNCHANGED <<stacks, commits>>
              ELSE IF setup.threads THEN commits' = commits \cup {t} /\ UNCHANGED stacks
              ELSE CaptureTransaction(t) /\ UNCHANGED commits
    /\ UNCHANGED <<setup, attach, pop>>

Observe(t) ==
    /\ CaptureTransaction(t) /\ commits' = commits \ {t}
    /\ UNCHANGED <<setup, doc, attach, pop, last>>

\* A remote update, or a local transaction with an origin that is not tracked.
OtherEdit ==
    /\ \E c \in Edits("other") : Commit(c)
    /\ UNCHANGED <<setup, stacks, attach, commits, pop, last>>

\* pop: take the top of a stack, under the manager's lock.
Take(redo) ==
    LET from == IF redo THEN stacks.redo ELSE stacks.undo
        left == [stacks EXCEPT !.undo = IF redo THEN @ ELSE Front(@),
                               !.redo = IF redo THEN Front(@) ELSE @,
                               !.recent = redo /\ @]
    IN  /\ pop = Idle \/ (pop.at = "again" /\ pop.redo = redo)
        /\ from # <<>>
        /\ stacks' = left
        /\ pop' = [at |-> "apply", redo |-> redo, item |-> Last(from),
                   others |-> UNION {ToSet(s.del) : s \in ToSet(left.undo) \cup ToSet(left.redo)},
                   captures |-> stacks.captures, len |-> Len(left.undo)]
        /\ UNCHANGED <<setup, doc, attach, commits, last>>

\* The transaction of the undo; when it changed nothing the next item is tried.
Apply ==
    /\ pop.at = "apply"
    /\ LET c == ApplyStackItem(pop.item, pop.others) IN
         /\ Len(c.doc.items) <= setup.items
         /\ IF c.performed
            THEN /\ Commit(c)
                 /\ pop' = [pop EXCEPT !.at = "push", !.item = [ins |-> c.ins, del |-> c.del]]
                 /\ last' = [doc |-> doc', ins |-> c.ins, del |-> c.del, shown |-> Shown(doc)]
            ELSE /\ pop' = [at |-> "again", redo |-> pop.redo]
                 /\ UNCHANGED <<doc, last>>
    /\ UNCHANGED <<setup, stacks, attach, commits>>

\* The stack ran out: pop returns false.
GiveUp ==
    /\ pop.at = "again" /\ (IF pop.redo THEN stacks.redo ELSE stacks.undo) = <<>>
    /\ pop' = Idle
    /\ UNCHANGED <<setup, doc, stacks, attach, commits, last>>

\* The inverse goes onto the other stack.  If an edit was captured meanwhile,
\* a redo's goes below it and an undo's is dropped, redo having been invalidated.
Push ==
    /\ pop.at = "push"
    /\ LET raced == stacks.captures # pop.captures
           at == IF pop.len < Len(stacks.undo) THEN pop.len ELSE Len(stacks.undo)
       IN  stacks' = IF pop.redo
                     THEN [stacks EXCEPT !.undo = IF raced THEN InsertAt(@, at + 1, pop.item)
                                                  ELSE Append(@, pop.item)]
                     ELSE IF raced THEN stacks
                     ELSE [stacks EXCEPT !.redo = Append(@, pop.item)]
    /\ pop' = Idle
    /\ UNCHANGED <<setup, doc, attach, commits, last>>

StopCapturing ==
    /\ stacks.recent /\ stacks' = [stacks EXCEPT !.recent = FALSE]
    /\ UNCHANGED <<setup, doc, attach, commits, pop, last>>

Clear ==
    /\ "clear" \in setup.owner
    /\ stacks' = [stacks EXCEPT !.undo = <<>>, !.redo = <<>>]
    /\ UNCHANGED <<setup, doc, attach, commits, pop, last>>

\* Unsubscribe and uncount; the stacks stay.
Destroy ==
    /\ "destroy" \in setup.owner /\ attach = "counted" /\ attach' = "destroyed"
    /\ UNCHANGED <<setup, doc, stacks, commits, pop, last>>

Next ==
    \/ CountManager \/ Transact \/ OtherEdit \/ Apply \/ GiveUp \/ Push
    \/ \E t \in commits : Observe(t)
    \/ \E redo \in BOOLEAN : Take(redo)
    \/ StopCapturing \/ Clear \/ Destroy

Spec == Init /\ [][Next]_vars

(***************************************************************************)
(* Properties.                                                             *)
(***************************************************************************)
Applies == pop.at = "apply" /\ pop' # pop
Changes(c) == [ins |-> c.ins, del |-> c.del]

\* The stacks name items that exist, and a redone link leads to a later item
\* from a deleted one.
TypeOK ==
    /\ \A s \in ToSet(stacks.undo) \cup ToSet(stacks.redo) :
         s.ins \cup ToSet(s.del) \subseteq DOMAIN doc.items
    /\ \A i \in DOMAIN doc.items : doc.items[i].redone # None =>
         doc.items[i].deleted /\ doc.items[i].redone > i

\* Undoing (redoing) the latest change, when nothing has happened since and the
\* collector has not freed what it deleted, shows what was shown before it: of a
\* tracked edit, of an undo and of a redo, in any nesting.
Inverts ==
    [][(/\ Applies /\ last.doc = doc /\ pop.item = Changes(last)
        /\ \A i \in ToSet(last.del) : ~doc.items[i].freed) => Shown(doc') = last.shown]_vars

\* Undo and Redo delete only what their stack item had inserted, and copies that
\* an undo or redo had made: what anybody else wrote and is live stays.
KillsOnlyOwn ==
    [][Applies => \A i \in DOMAIN doc.items :
         (Live(doc, i) /\ ~Live(doc', i) /\ doc.items[i].val = i) =>
           doc.items[i].client = "me" /\ i \in pop.item.ins]_vars

\* They bring back only what their stack item had taken away and not itself
\* brought.
RevivesOnlyOwn ==
    [][Applies =>
         LiveValues(doc') \ LiveValues(doc) \subseteq {doc.items[i].val : i \in ToSet(pop.item.del) \ pop.item.ins}]_vars

\* With edits and undos from one goroutine and a manager that is neither cleared
\* nor destroyed, undoing everything leaves nothing that tracked edits wrote.
AllUndone ==
    (~setup.threads /\ setup.owner = {} /\ stacks.undo = <<>> /\ pop = Idle) =>
      \A i \in DOMAIN doc.items : Live(doc, i) => doc.items[doc.items[i].val].client = "other"

\* "Any new local edit invalidates the redo stack", also one that is captured
\* while an undo is being applied: while there is something to redo no edit has
\* been captured since, so the next one starts a stack item of its own.
RedoInvalidated == stacks.redo # <<>> => ~stacks.recent

\* Undo and Redo touch nothing but what their stack item names (undo.go:
\* deleteInserted, restoreDeleted), whoever wrote in between.
OnlyOwn == KillsOnlyOwn /\ RevivesOnlyOwn

\* The stacks are true to the edits: they name existing items, undoing them all
\* leaves nothing of the user's, and an edit invalidates what could be redone.
StacksSound == TypeOK /\ AllUndone /\ RedoInvalidated
=============================================================================
