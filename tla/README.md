# ygo in TLA+

TLA+ models of ygo, the Go implementation of the Yjs document type with its
sync, awareness, persistence, clustering, server and client packages. Each
module is translated from the source lines that `PROJECT.json` lists under
`map`. TLC checks the modules on small instances; TLAPS proves the central
invariants of seven of them for every value of their constants.

- [The system](#the-system)
- [Modules](#modules)
- [Documents](#documents) · [Presence](#presence) · [Stores](#stores) ·
  [Server](#server) · [Cluster](#cluster) · [Client](#client) · [Webhooks](#webhooks)
- [Fairness](#fairness)
- [Proofs](#proofs)
- [Disagreements found](#disagreements-found)
- [What is not modelled](#what-is-not-modelled)
- [Plan](#plan)

To run one check: `tlc -workers 2 -config MCLane.cfg Lane`. To check a proof:
`tlapm LaneProofs.tla`.

## The system

| Part | State | Operations | What makes it hard |
|---|---|---|---|
| `crdt`: documents | struct store, item lists, key chains, delete set, parked structs and deletions | edits in transactions, apply an update, encode, collect garbage | updates arrive in any order, twice, in part, or after what they delete |
| `crdt`: markers | cached positions of a list | look up, mark, shift, drop | every edit, split, merge and move must keep them true |
| `crdt`: rich text | list with format markers, attribute cache | insert, delete, format, delta, clean-up | overlapping formats; the clean-up runs later, in its own lock section |
| `crdt`: undo | two stacks, capture group | capture, undo, redo, clear, destroy | edits of others and captures race the undo |
| `sync` | none | step 1, step 2, update | a reply may be late |
| `awareness` | client states, clocks, byte accounts, tombstone queue | set, apply, expire, purge | stale and repeated entries, caps |
| `persistence` | versions, checkpoint, named snapshots | append, prune, compact, materialize, trim | a crash between any two calls |
| `provider/websocket`: worker | queue, batch, timers | commit, store, flush, retire, shut down | commits race retirement and shutdown |
| `provider/websocket`: rooms | the room map, peers, in-flight counts | join, leave, evict, sweep, close | decisions are made, locks released, then acted upon |
| `internal/relaylane` | bounded queue, latest presence, wake-up channel | push, take, notify | overflow; the signal comes after the unlock |
| `cluster/redis` | stream, cursor, sequence numbers, room workers | publish, read, decline, drain, close | a room changes hands while the reader is mid-batch |
| `provider/client` | document, store, lane, session | connect, hydrate, flush, reconnect, close | edits go on while the link breaks and Close runs |
| `provider/webhook` | buckets, batch, deliveries | enqueue, drain, retry, close | retries against Close |

A commit on a server's document calls its observers: the persistence worker
queues the bytes, the peers and the relay lane get them. The relay publishes
what it takes from the lane, and on the other node injects it as a commit of
its own. A client runs the same document code at the other end of a socket.
`CausalStore` is the promise the documents make to all of the transports: take
updates in any order and any number of times, end up closed under
dependencies, and answer a state vector with exactly what its owner lacks. The
transports, in turn, promise not to lose an update silently: `HandOver`
(worker), `FreshLoad` (rooms), `Conserved` in `Sound` (lane), `Custody`
(streams), `NothingLost` (client).

## Modules

| Module | Models | Abstract specification or reference |
|---|---|---|
| `YDoc`, `StructIds` | documents that exchange updates; their ids | implements `CausalStore` |
| `CausalStore` | what a document promises about structs and dependencies | – |
| `SearchMarkers` | search markers, splits, merges, moves | lookup by counting from the start |
| `RichText` | formatted text | the text as a sequence of characters with attributes |
| `UndoManager` | undo and redo | what the document showed before |
| `Awareness` | presence | – |
| `FileStore` | the file version store | implements `VersionLog` |
| `SqlStore` | the SQLite version store | implements `VersionLog`, agrees with `MemStore` |
| `MemStore` | the in-memory version store as operators | – |
| `VersionLog` | what a store promises about its head, across calls, errors and crashes | – |
| `Snapshots` | named snapshots and retention | – |
| `Stores` | composes the three store modules over one choice of setup | – |
| `PersistWorker` | the room's persistence worker and Shutdown | – |
| `RoomLifecycle` | rooms, peers, eviction | – |
| `Lane` | the relay lane and its consumer | – |
| `StreamRelay` | the Redis streams relay | – |
| `SyncClient`, `ClientAuth`, `Client` | the client's data path; its handling of rejected tokens; both as one specification | – |
| `Webhook` | the webhook dispatcher | – |
| `CausalStoreProofs`, `AwarenessProofs`, `PersistProofs`, `RoomSteps`, `RoomProofs`, `LaneProofs`, `ClientProofs`, `WebhookProofs` | theorems and their proofs | |
| `MC…` | constants and symmetry for TLC | |

Definitions keep the names of the functions they translate. A definition whose
name ends in a description of a fault (`CollapseDropsOnError`) is a deliberately
wrong variant: `PROJECT.json` pairs each checked property with a variant that
breaks it, which shows that the property depends on that line of the code.

Most modules have a constant `Setups` and a variable `setup` that is chosen in
`Init` and never changes. One run then covers several configurations of the
program (a server that evicts eagerly and one that keeps idle rooms, a store
with and without rollbacks to snapshots), and what a configuration leaves out
costs no states. A property that the code keeps only in some configurations
says so in its formula and in its comment; the other cases are listed under
[Disagreements found](#disagreements-found).

A checked property is often the conjunction of several definitions that each
have a comment of their own: `WellFormed` is six, `EditsExact` is six. The
tables below name the checked ones and, in brackets, their parts.

## Documents

Run `documents` (`MCDocs.cfg`). `YDoc` has one record per document: the structs
it holds (`item`), the child list and the key map of every type, the deleted
ids, the parked structs (`pend`) with the watermarks they wait for, and parked
deletions (`pds`). `net` is the set of updates ever sent; it is never emptied,
so an update may be delivered at any time, again, or never. Actions: `Insert`,
`Push`, `Set`, `Delete` and `DeleteKey` are one transaction each, with the
collection at its end where the document collects; `Deliver` is the whole of
`ApplyUpdateV1`: decode, park, resolve within the update, retry the queue,
apply the deletions; `SyncReply` answers a state vector read earlier.

| Property | Says |
|---|---|
| `WellFormed` (`TypeOK`, `BetweenOrigins`, `KeyWinner`, `NoLiveOrphan`, `GateSound`, `BudgetExact`) | items lie between the neighbours their author saw; a key has at most one live value, the last; nothing live is in a dead container, and content is stripped only from what is deleted; a parked struct that could be integrated is behind a watermark that has been passed; the budget check is exact |
| `Convergence` (`CommonOrder`) | the same structs and deletions show the same thing (unless a refused update has left one document a struct without content), and two documents never order two common children differently |
| `SyncComplete` | applying the reply to one's state vector leaves nothing of the peer out, parked structs and deletions included |
| `RefinesCausalStore` | every transaction, refused ones too, is a step of `CausalStore` |
| `EventualConsistency` | all documents end up equal with empty queues, also when a short queue refused updates on the way |

Bounds: three authors with 2, 1 and 1 inserts in one sequence, which reaches
the three-way cases of the conflict rule (an item between two items that have
the same origin); three writers of one key; two levels of nesting with a
deletion and a collecting document; a relay that also writes, with one late
reply; and a reply with a collected struct that is refused half way. One or two
parked structs fill the queue. An insert is one unit; splitting of runs is in
`SearchMarkers`.

On the wire a struct names its parent only when it has neither an origin nor a
right origin (`Wire`), and one that is a placeholder of a collected item is not
written (`Anchor`). A parent that the sender does not know is written as the root
type with the empty name, `Unnamed`. `Stripped` are the structs whose content was collected and
that the document has not deleted: only a refused update leaves one, because
`applyV1Txn` returns before it reads the deletions of the update.

Run `markers` (`MCMarkers.cfg`, module `SearchMarkers`). One list of items with
lengths, deletions and moves, and the cache of markers. Lookups by index and
by cursor, inserts, deletes, splits, merges at commit, moves and the new
arbitration when a move or its target goes. `MarkersSound` (`MarkersTrue`,
`LookupsAgree`): a marker is on an item of the list at the position where it
starts, and a lookup answers as a count from the start does. `MovesSound`
(`ShownOnce`, `BestMoveWins`): a unit is shown once, by the move that
`moveBeats` prefers among the live ones. Bounds: three edits of the local user
and one of another, items of up to two units, two markers instead of 80, so
that eviction happens all the time. A move has one unit as its target.

Run `text` (`MCText.cfg`, module `RichText`). A text is a sequence of units and
format markers, some of them tombstones, with the attribute cache and a remote
transaction that still awaits its clean-up. The reference is what the text
shows: a sequence of characters with attributes. `EditsExact`: in every
reachable list and for every argument, `Format`, `Insert`, `InsertEmbed`,
`Delete` and `ApplyDelta` do to the list what the same edit does to what is
shown; formatting twice writes nothing the second time; an insert without
attributes inherits. `HiddenStateHonest` (`CacheHonest`, `CleanUpInvisible`):
the cache holds the attributes after the cached unit, and the clean-up, which
runs in a later lock section, changes nothing that shows. Whether a clean-up is
due is decided at the commit. `ObserversTold`: the
delta given to observers takes what was shown to what is shown, as long as no
other user formats, which is so in two of the four setups. Bounds: lists of four or five items, one or two attributes,
deltas of three operations.

Run `undo` (`MCUndo.cfg`, module `UndoManager`). Items of a list and of a key
with `redone` links, both stacks, the capture group, and the three steps of an
undo (take, apply, push) between which other goroutines commit and their
observers capture. `Inverts`: undoing or redoing the latest change shows what
was shown before it. `OnlyOwn` (`KillsOnlyOwn`, `RevivesOnlyOwn`): the rest of
the document, whoever wrote it, is left alone. `StacksSound` (`AllUndone`,
`RedoInvalidated`): undoing everything leaves nothing of the tracked user's, and
a new edit always invalidates the redo stack. Bounds: two or three tracked
edits, one or two of others, five or six items with the copies a redo makes.

## Presence

Run `presence` (`MCAwareness.cfg`). `Awareness` has the variables of the struct:
states and clocks, `meta`, byte accounts, `priorJSON`, tombstones with their
sequence numbers and queue. A state comes as a JSON text; `Parse` gives the state
and `Size` the length of a text, and several texts may decode to one state. An action is one locked section: `SetLocalState`, a
wire entry, `RemoveExpired`, the purge. `AccountsExact` (`Bookkeeping`,
`QueueCovers`, `CapHolds`, `BytesExact`): all side tables agree with the states.
`NoGoingBack` (`NoResurrection`, `LocalClockMonotone`, `ReclaimsOldest`): a
remembered client's clock never goes back and a new state has a new clock; a
slot is taken from the oldest tombstone. `ChangesAnnounced`: `OnChange` names
every remote client whose state changed and otherwise only one whose equal state
came as a text of another length; `OnUpdate` misses nothing.
Bounds: three remote clients for one or two slots, so the cap is always in
play; clocks up to 2; two states, one of them with two texts, of which one is as
long as the other state's. The remote clients are symmetric.

## Stores

Run `stores` (`MCStores.cfg`). `VersionLog` is what a store promises about the
call in progress and the head: an append extends the head in one step before its
call is over, or not at all; a rollback replaces it when its call begins; the
end of a call, by a return, an error or a crash, changes nothing.
`FileStore` has the files of a room, its checkpoint and the call in progress,
with one action per file system call; `SqlStore` has the rows, the checkpoint
row and one action per transaction. A crash may come between any two and
forgets the call in progress; an error of a call is modelled as well.
`MemStore` is the in-memory store as operators, which `SqlStore` carries along.
`Snapshots` has the named snapshots of a store under `SaveVersion` and
`TrimSnapshots` calls that overlap.

| Property | Says |
|---|---|
| `RefinesVersionLog` | both stores implement `VersionLog`: whatever step a crash, an error, a recovery or a compaction comes at, the head shows all of an append or a prune or nothing of it, and no other step changes it |
| `HistoryExact` | `MaterializeAt` gives for every listed version the state its append made; SQLite and memory agree on versions and states, also in the middle of a prune |
| `PrunesHold` (`NoFutureVersion`, `PruneMakesHead`, `DenseVersions`, `VersionsContinue`) | a pruned version never comes back, the state passed to a completed prune is the head, and the next append gets the version after it |
| `RetentionSound` (`IdsNeverReused`, `TrimSparesNewest`, `RetentionAtRest`) | ids are not reused, a trim deletes only what has `Keep` later saves under its own label, and in the end no label has more than `Keep` |

Rollbacks are to a listed version, except `NoFutureVersion`, which is claimed
for rollbacks to an earlier state or a named snapshot too. Bounds: three edits
and versions, which allows prune, append, compact and a second prune with a
crash inside each; two savers, five saves, `Keep = 2`.

## Server

Run `persist` (`MCPersist.cfg`). `PersistWorker` has the channel `persistCh`,
the worker's batch, timer and program counter, one record per committing
goroutine (in its `select`, its re-check, its turn as a late writer), the
leaving peer that asks for a flush and evicts, and `Shutdown`. `HandOver`
(`NothingStranded`, `Carried`, `SerialCalls`): a commit that has returned is
always in the channel, the batch, a call, or was handed to the adapter, also
when the worker retired between the send and the re-check; and one caller at a
time is in the adapter. `FlushBarrier`: an acknowledged flush covers what had
returned when it was asked for (coalescing path). `ShutdownCovers`: the same
for a `Shutdown` that returns nil, for rooms it found. `Progress`: commits
return, `Shutdown` returns, and what was committed is stored. Bounds: a channel
of one, two committing goroutines or one with a failing adapter call.

Run `rooms` (`MCRoom.cfg`). `RoomLifecycle` has the map entry of one room name
(`cur`), the room instances behind it, and an actor per request, per
server-side writer, for the sweeper and for `CloseRoom`, each with a program
counter between lock sections. A departing peer leaves the room (`Remove`), gives
its seat and its connection permit back (`Free`, both in one step) and then
flushes; a refused request gives its permits back (`Refuse`) and then releases
the room it created (`Reap`). A worker's final store may fail, and what it held
is then gone. `AtHome`: peers and writers are in the room the
map holds. `Accounting`: in-flight counts, the two semaphores, idle stamps and
unload notifications are exact on every path. `FreshLoad`: with idle residency
a stamped room leaves the map with everything stored, and where no request is
refused a load reads an up-to-date store. `Reclaimable`: with idle residency,
where no request is refused and no flush failed, an abandoned room has a stamp
for the sweeper to find. Bounds: three requests for two seats; a writer beside
two requests of which one may be refused; two instances, enough for a fork and
for a reload behind an eviction. Requests and instances are symmetric.

## Cluster

Run `lane` (`MCLane.cfg`). `Lane` has the queue, the latest presence, the
counters, the one-slot wake-up channel, producers that are between unlock and
signal, and the consumer's place in its drain. The server is running: a worker
that exits with its context or its room is left out. `Sound` (`Conserved`, `Bounded`,
`NoMissedWakeup`, `LatestPresence`) is inductive and is proved below; `Drains`:
everything pushed is taken unless hard-dropped. Bounds: capacity 1, so four
updates go through collapse, a failing merge and a hard drop.

Run `stream` (`MCStream.cfg`). `StreamRelay` has the stream with what was
trimmed, publishers that take a sequence number and then `XADD`, the reader
(cursors, the batch in hand, the baselines of `noteSeq`), the workers with their
lanes, and the room instances that activate and deactivate. `Custody`
(`AtLeastOnce`, `NoEcho`, `ActiveHasWorker`): an entry the cursor has passed was
injected, is with a worker that will inject it, or was trimmed unread; an
active room has a worker; own entries stay out. `GapsTrue`: `Gaps` is raised
only by a loss, and by a loss between entries that were read.
`PresenceOfResidency`: the presence a worker holds or injects was published
during its own residency and is never replayed. `Progress`: entries
arrive, `Close` returns, and nothing fires after it. Bounds: up to four
entries, three residencies and one of each kind of fault per setup; a lane of
capacity 1.

## Client

Run `client` (`MCClient.cfg`). `SyncClient` has document, store and server as
sets of updates, the observer of each local edit in its two steps (store, then
lane), the loop, the session and `Close` with its five steps. `ClientAuth` has
one connection attempt after the other with the frames that are under way and
the writes that fail. `Client` takes one or the other by setup.
`NothingLost` (`Saved`, `Accounted`): with a store nothing is lost by a
restart, and an edit is on the lane, written, stored or counted. `Converges`:
document and server end up equal unless `Close` intervenes, and a good token's
client is always back in a synced session. `CloseCompletes` (`CloseReturns`,
`Joined`): `Close` returns and has joined the loop. `RejectionsTrue`: before the
handshake is complete no failing write hides the rejection of a token, and a
good token is never reported as rejected. Bounds: two edits, one remote update,
up to three faults.

## Webhooks

Run `webhook` (`MCWebhook.cfg`). `Webhook` has a bucket per room and event type,
callers between storing and signalling, the dispatcher, the drained batch, one
record per delivery and the callers of `Close`. `Sound` is proved below;
`Progress`: every event reaches its fate and `Close` returns. Bounds: three
events in two buckets, two attempts, one slot, one closer; more closers are
left to the proof.

## Fairness

- `YDoc`: a document that some sent update would change is changed in the end.
  This is the provider's promise to keep delivering; nothing is assumed about
  order or repetition. It is weak fairness with its enabling condition spelled
  out (`HasNews`).
- `PersistWorker`: weak for a committing goroutine inside its observer, for a
  running worker and for a `Shutdown` under way: goroutines run. Strong for the
  worker's receive, timer and exit cases: Go's `select` picks among ready cases
  at random, so one that is ready again and again is taken.
- `Lane`: weak for the consumer and for a producer between unlock and signal.
- `StreamRelay`: weak for the reader, each worker, each room step and `Close`,
  spelled out with the operators that also guard the steps. None for
  publishers, trims and faults.
- `Client`: weak for `Connect` (the application calls it), the loop, the
  observers, the server and a `Close` that has
  begun; none for edits, restarts or breaking links.
- `Webhook`: weak for signalling callers, the dispatcher, deliveries and
  `Close`; none for `Emit`.

`RoomLifecycle`, the stores, `Awareness`, `SearchMarkers`, `RichText` and
`UndoManager` have safety properties only: their operations are calls that
nobody has to make.

## Proofs

TLAPS proves the following for every value of the constants, under the named
assumptions of the modules: counts are natural numbers, sets of different kinds
are disjoint, `Setups` is a set of records of the right type, and the actors and
instances of `RoomLifecycle` are finitely many (`Cardinality` means nothing
otherwise). A property that has a theorem is the definition that its run checks.

| Module | Theorems that state a checked property |
|---|---|
| `AwarenessProofs` | `NothingGoesBack` (`NoGoingBack`), `ChangesTold` (`ChangesAnnounced`), `AccountsHold` (`AccountsExact`) |
| `PersistProofs` | `HandOverHolds`, `FlushBarrierHolds`, `ShutdownCoversHolds` |
| `RoomProofs` | `AtHomeHolds`, `AccountingHolds`, `ReclaimableHolds`, `FreshLoadHolds` |
| `LaneProofs` | `LaneSound` (`Sound`) |
| `ClientProofs` | `NothingIsLost` (`NothingLost`), `RejectionsAreTrue` (`RejectionsTrue`) |
| `WebhookProofs` | `WebhookSound` (`Sound`) |

- `CausalStoreProofs`: any number of documents and structs. `Closure` (a
  document is closed under dependencies), `AuthorKnows`, `NoClockReuse`,
  `SyncCorrect` (the reply to a state vector is what the peer lacks, and is
  integrated whole, also when the vector is out of date by then). Closure is not inductive by itself: a new
  struct depends on what its author holds, and its clock is new only if the
  author holds all its own structs. The invariant `CInv` adds `AuthorHolds` and
  `Chained`, the clocks of a client without a hole. Run `documents` shows that
  the documents implement this specification on its instance.
- `AwarenessProofs`: any clients, states, sizes, caps and clock limits.
  `applyUpdate` decides by what it remembers beside the states, so `IInv` says
  how each side table follows them: an untracked client has no clock
  (`Forgotten`), the queue numbers tombstones apart (`Numbered`), the remembered
  size and text of a remote client are those of its state (`Weighed`). The two
  action properties follow action by action. For the two caps (`Counted`,
  `Capped`) the byte account is the number of elements of a set with one element
  per byte, and a step changes the bytes of one client.
- `PersistProofs`: any number of goroutines, updates, channel sizes and failing
  calls. What a committing goroutine may rely on depends on how far the worker's
  exit has come. `Hands` says it place by place: an update nobody waits for is
  `Safe` (attempted, or where the worker will still look), one whose goroutine is
  at its re-check is `Held`. `Counted` ties `strandedInFlight` to the goroutines
  inside by a bijection, `Owed` says what a flush under way still owes, `Joined`
  what a `Shutdown` past its join has seen.
- `RoomSteps` and `RoomProofs`: any number of requests, seats, writers, rooms
  and failures. `RoomSteps` shows that every action keeps the invariant, given
  `Sizes`, what it needs of finite sets; `RoomProofs` proves `Sizes` and draws
  the conclusions. The invariant has the place of every actor and what it says of its room (`Roles`,
  `OneLoader`, `Life`), the peers (`Peers`), the three counts as cardinalities of
  sets of actors (`Counts`), who owes the unload notification of a room out of
  the map (`Unloads`), who keeps a room in the map (`Home`), what is stored when
  an eviction is about to commit (`Fresh`), and who will stamp an unstamped room
  (`Stamped`). `Fresh` needs the writer that has committed and not yet marked:
  it holds the in-flight count, and the eviction tests that count.
- `LaneProofs`: any capacity, producers and failing merges. `Sound` is
  inductive as it stands; the work is in the lemmas on `Collapse`, which moves
  updates between the terms of `Conserved`, and in the push, which is two steps.
  `LaneSound` has the parts as corollaries: `LaneConserves`, `LaneBounded`,
  `LaneWakes`, `LanePresence`.
- `ClientProofs`: any edits, remote updates and faults. What is safe to drop
  depends on where the loop and `Close` stand together (`Places`) and on what an
  observer has done with its edit (`Kept`); `Covered` says that what the document
  has is stored, counted or on its way to the store. For the token, `Answers`
  gives the order in which frames, rejections and read errors can come.
  `CloseJoins` is the safety part of `CloseCompletes`.
- `WebhookProofs`: any number of buckets, events, attempts, slots and closers.
  The invariant `WInv` adds to the properties where an event may be in each
  state of the dispatcher (`Placed`), what a waiting dispatcher waits for
  (`Awaited`), what is over once the dispatcher has exited (`Final`), and how
  many attempts a delivery has made (`Budgeted`). `Bounded` is proved from the
  type invariant and a count of the running deliveries. `WebhookSound` collects
  them.

Only model-checked:

- All liveness (`EventualConsistency`, `Progress`, `Drains`, `Converges`,
  `CloseCompletes`): fairness and `ENABLED` are out of the prover's reach.
- The refinements by `YDoc`, `FileStore` and `SqlStore`, and the properties of
  `YDoc`, `RichText`, `SearchMarkers`, `UndoManager` and the stores. These
  modules compute with folds and recursive operators over sequences; what they
  give for every input needs induction over data, which the prover does not do.
- `StreamRelay` (`Custody`, `GapsTrue`, `PresenceOfResidency`): within reach of the
  method used for `PersistWorker`, not done.

## Disagreements found

What follows came up while the models were written: places where the code does
something that a comment, a document or a test description says it does not.
Each was seen as a trace of TLC with the property stated without the
restriction it has now. The checked properties leave these cases out by the
conditions in their formulas, and hold for the rest.

Documents
- `crdt/undo.go:143`: `NewUndoManager` subscribes first and raises
  `undoManagerCount` in a lock section of its own. A deletion committed in
  between is captured, and auto-GC frees its content; undoing it restores
  nothing. `crdt/undo.go:151`: "Suppress transaction-commit auto-GC (#78 H1)
  while this UndoManager is attached." (`Inverts` asks that nothing was freed.)
- `crdt/undo.go:219`: `pop` does not look whether the manager was destroyed.
  `crdt/undo.go:173`: "After Destroy, Undo and Redo are no-ops."
- `crdt/ytext.go:248`: `computeDelta` passes an unchanged marker without first
  emitting the retain before it. A text x coloured 1 is `[1] x [nil]`; with a
  concurrent colour 2 the list is `[1] [2] x [nil] [nil]`, which shows 2, and
  observers get no operation with attributes. `crdt/ytext.go:108-110`: "it now
  accounts for ContentFormat changes so that a Format() call produces the
  correct Retain+Attributes ops". (`ObserversTold` asks that no other user
  formats.)
- `crdt/update.go:576`: an update that exceeds the budget of parked structs is
  refused after some of its structs were integrated and before its deletions
  are read. A struct that its sender had collected is then in the document with
  `ContentDeleted` and without `Deleted`, and `YMap.Has` and `Keys`
  (`crdt/ymap.go:310`, `327`) show its key until the deletion arrives.
  `crdt/item.go:5-6`: "deleted items become tombstones (Deleted = true, content
  replaced by ContentDeleted when GC runs)". (`NoLiveOrphan` and `Convergence`
  allow for such a struct; `EventualConsistency` says that it goes.)

Presence
- `awareness/awareness.go:828`: the contents are compared only when the texts are
  of the same length. An equal state that comes as a text of another length
  calls `OnChange`. Lines 421-422: "invoked whenever client state content
  changes (added, removed, or content-differing update)"; `CHANGELOG.md:1808`:
  "`OnChange` no longer fires on content-identical re-emits".
- `awareness/awareness.go:829`: the fast path compares with `priorJSON`, which
  `SetLocalState` does not maintain. After a wire entry for the local id, a
  `SetLocalState` and the first wire bytes again, `GetStates` changes and
  `OnChange` is silent. Lines 421-422: "invoked whenever client state content
  changes". (`RemoteChangesAnnounced` is about remote ids.)
- `awareness/awareness.go:1031`: `RemoveExpired` deletes `wireBytes` and keeps
  `priorJSON`. Lines 152-153: "Same lifecycle as wireBytes: written on non-null
  accept, deleted on tombstone."
- `awareness/awareness.go:719`: once remote entries fill the cap and nothing
  can be reclaimed, an untracked local id is refused too. Lines 712-714: "The
  local client is exempt [...] so it does not count toward the cap and is never
  rejected here".

Stores
- `persistence/file.go:568`: `Compact` folds into the oldest retained file and
  then removes the trimmed ones oldest first. A crash or a failed remove after
  the first leaves listed versions that lack state.
  `persistence/versioned.go:105-106`: "MaterializeAt rebuilds the full V1 head
  state as of version v by merging all updates with version <= v". Removing
  newest first would keep every listed version exact.
- `persistence/file.go:211`: while a prune is interrupted, the rolled-back head
  is merged into every version, so an earlier one shows the state at the target
  (same promise).
- `persistence/file.go:521`: `PruneAfter` removes the checkpoint. When the
  files up to the target do not hold the rolled-back state (a named snapshot
  whose version was folded or pruned), the room loses it. Lines 515-516: "the
  surviving update files (<=target) plus the rolled-back head fully reconstruct
  the head". In the same situation `persistence/sqlite/methods.go:319` never
  reads the rolled-back head, and `persistence/sqlite/sqlite.go:51-52` says
  "Head is reconstructed purely by merging surviving updates".
- After an interrupted prune, a second `PruneAfter` to a named snapshot with a
  version above the first target raises the ceiling, and versions the first
  prune hid are visible again.
- `persistence/sqlite/methods.go:69`: an append gets `MAX(version)+1`, which can
  be at or below the target of a prune to such a snapshot.
  `persistence/versioned.go:16-17`: "subsequent appends continue at target+1".
- `persistence/memory.go:412`: `Delete` drops the id counter (in the file store
  the `nextid` file). `persistence/snapshots.go:13-15`: the id "is never reused
  within a room, even after the snapshot is deleted".
- `persistence/adapter.go:195`: `TrimSnapshots` deletes by ids it listed
  earlier. With the previous point, a room deleted and written again in between
  may lose a new snapshot of any label. `persistence/adapter.go:151-152`: "an
  auto-version save never evicts a snapshot a user named".

Server
- `provider/websocket/persistence.go:404`: on the strict path a refused update
  is not retained, so a later flush acknowledges true.
  `provider/websocket/server.go:698-702`: "The ack is a real durability
  barrier". (`FlushBarrier` is about the coalescing path.)
- `provider/websocket/server.go:1556`: a room that a teardown takes off the map
  between the closing of `shutdownCh` and the collection of the `persistDone`
  channels is not joined. `docs/PERSISTENCE.md:677-680`: "any commit whose
  Transact returned before Shutdown returned has been handed to the adapter".
- `provider/websocket/peer.go:653`: before an eager eviction another peer may
  have joined, written and left, with its flush still to come; a reconnect can
  load a stale store. Lines 606-607: "reads an up-to-date store, never a stale
  one."
- `provider/websocket/peer.go:656`: the eager eviction does not test the
  in-flight count. `provider/websocket/inject.go:334`: "Also protects rm from a
  concurrent eviction while in use."
- `provider/websocket/inject.go:602`: `CloseRoom` counts peers, flushes without
  the locks and removes the room although a peer has joined. Line 480:
  "force=false: returns ErrRoomHasPeers without modifying state."
- `provider/websocket/server.go:2064`: only the request that created a room
  reaps it, and not while another is in flight; if that one is refused too the
  room stays, unstamped. `CHANGELOG.md:1721-1725`: "is now reaped instead of
  leaking the room". (`Reclaimable` is about servers that refuse nobody.)
- `provider/websocket/server.go:2076`: a refused creator reaps with the zero
  stamp. A room is unstamped also between the removal of its last peer and that
  peer's stamp, so the reap can take a room that was used and written to since
  its own flush, and the next load can be stale.
  `provider/websocket/idle_sweep.go:145`: "any join/leave churn restamps it to a
  different time.Now()". (`FreshLoad` is about stamped rooms, and about loads
  where nobody is refused.)

Cluster
- `cluster/redis/streams_reader.go:732`: two publishes that overlap and land as
  n, n+2, n+1 raise `Gaps` with every entry delivered. An `XADD` that fails has
  used up its number and does the same. `cluster/redis/streams_stats.go:25`:
  "counts PROVABLE losses: a source node's seq jumped, so entries existed and
  were trimmed".
- `cluster/redis/streams_reader.go:625`: `applySync` declines a batch after
  `noteSeq` has recorded it. Reading it again counts a restart that did not
  happen (`streams_stats.go:37`: "counts source nodes observed restarting"); and
  if its oldest entries are trimmed meanwhile their loss is not counted
  (`docs/CLUSTERING.md:619`: "unlike pub/sub, *says so*").
- `cluster/redis/worker.go:100`: a retired worker may be inside `Inject` while
  the next residency's worker injects. `cluster/relay.go:84`: "Calls for the
  SAME room must still be serialised".
- `cluster/redis/streams_reader.go:650`: entries that do not merge are pushed
  one by one and a lane past twice its capacity drops its oldest. Line 489:
  "Lane.Push never blocks on capacity and never drops".
- `cluster/redis/worker.go:315`: an error of `Inject` is logged after the cursor
  has moved. `docs/CLUSTERING.md:602`: "`Streams` is at-least-once".

- `cluster/redis/worker.go:306`: a retired worker has a payload in `Inject`, takes
  the one in its lane, and gets one more that the fence let pass just before:
  three payloads of a residency can reach the next. Lines 274-275 and
  `docs/CLUSTERING.md:639-640`: "bounded at one in-flight read times one drain
  window". (`PresenceOfResidency` is about which residency a payload is of, not
  about who sees the last ones.)

Client and webhooks
- `provider/client/client.go:1336`: an observer in flight may queue its edit
  after `Close` drained the lane. Line 1244: "whatever step 3 finds is
  everything there will ever be to find".
- `provider/client/client.go:1314`: `Connect` does not look at `closed`, so one
  accepted after `Close` read `connectStarted` outlives it. Line 376: "no send
  this Client makes can outlive Close once Close has returned."
- `provider/client/loop.go:663`: a failing ping is not classified, so a
  rejected token may be dialled again. Line 787: "upgrades ANY write failure on
  this session".
- `provider/client/loop.go:823`: the server sends SyncStep2 before it reads the
  token, so a rejection may come after `synced`. Line 817: "a completed
  handshake proves the token was accepted".
- `provider/webhook/webhook.go:472`: a `Close` that finds the webhook closed
  returns at once, also while the first is draining. Line 464: "waits for
  in-flight deliveries to finish or for ctx to cancel."

## What is not modelled

- Byte formats (V1 and V2 updates, variable-length integers, the any codec, the
  bytes of messages): updates are sets of structs. Their correctness is a
  matter of round trips on data, which the repository's fuzz tests exercise.
- `YDoc`: subdocuments, `RunGC`, root type placeholders, runs of several units
  (in `SearchMarkers`), XML types as types of their own. Of
  `resolveWithinUpdatePending` the loop at its end: from 32 parked structs on the
  code first tries other schedules of the same retries (`crdt/update.go:759-771`).
- `SearchMarkers`: moves that arrive before their target, the split of a longer
  item around the target of a move (`crdt/item.go:650-659`), redo of moves, the
  collection of tombstones, the walks of XML children, the cached first live
  item.
- `RichText`: one replica; embeds are units; a fixed order of attribute keys;
  one remote transaction at a time awaits its clean-up; observers do not edit, so
  that the second look at the gate after the type observers
  (`crdt/doc.go:658-665`) finds what the first one did.
- `UndoManager`: nested types, moves, `RunGC`, grouping of runs.
- `Awareness`: caps that do not change, no `Destroy`, the saturation of the local
  clock as a property of its own.
- `FileStore`, `SqlStore`: the order in which a device writes, power loss under
  `synchronous=NORMAL`, a second process. `Snapshots`: the state bytes.
- `PersistWorker`: `AutoVersion`, a second teardown at the same time.
- `RoomLifecycle`: `MaxRooms`, rate limits, several room names (rooms share only
  the map lock and the connection count), more than one candidate of the
  sweeper, per-peer send queues.
- `Lane`: the worker's cases for the end of its context (`discardRelayLane`) and
  of its room (a final drain).
- `StreamRelay`: subscription management of the pub/sub tier, trimming of the
  awareness stream, several rooms or remote nodes. A restarting publisher loses
  what it had in flight.
- `SyncClient`: awareness; compaction of the store is one atomic replacement; the
  cancellation of the context given to `Connect` (the loop stops as for `Close`).
- `ClientAuth`: a write that times out on a connection the server has not closed,
  and with it the deadline of the classification: a rejection that comes later
  than that deadline is not seen by the attempt. A read that times out is a
  network error like any other.
- `Webhook`: bodies, signatures, delays, the wiring to the server; a POST is one
  step with any outcome.
- HTTP provider, mobile bindings, server command, examples: wrappers over
  operations that are modelled above, or wiring.

## Plan

In this order: presence and registration in one model (whose presence is
removed when a peer leaves); moves across replicas with missing targets;
merging of updates and the interval sets of delete sets as operators against
set-theoretic references; the pub/sub tier; the order of callbacks after
`Close` in the mobile bindings; a proof that two documents with the same
structs agree on an order, for the sequence rule without nesting.
