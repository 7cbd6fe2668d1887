----------------------------- MODULE Awareness -----------------------------
(***************************************************************************)
(* One Awareness of package awareness: the presence states of the clients  *)
(* it has heard of, the tombstones of removed clients, the caps on clients *)
(* and bytes, and the two kinds of event it announces.                     *)
(*                                                                         *)
(* An update is a list of entries applied one after the other under the    *)
(* lock; each entry is one step here, so every grouping of entries into    *)
(* updates is covered.  Time is abstract: any live remote client may have  *)
(* been silent for the timeout, any tombstone may have outlived the grace. *)
(***************************************************************************)
EXTENDS Integers, FiniteSets

CONSTANTS
  Id,          \* client IDs
  Local,       \* the client this instance speaks for
  State,       \* the states a client may be in
  Text,        \* the JSON texts that announce one of them
  Parse,       \* Parse[t]: the state that text t decodes to
  Size,        \* Size[t]: the bytes of text t
  None,        \* the nil state
  MaxWire,     \* the highest clock a varint may carry (53 bits)
  MaxClock,    \* math.MaxUint64
  Slack,       \* stale entries the tombstone queue may hold before compaction
  Setups       \* the configurations considered, records of
               \*   clients   SetMaxClients, 0: no cap
               \*   foreign   SetMaxForeignClients, 0: no cap
               \*   bytes     SetMaxBytes, 0: no cap
               \*   texts     those of Text that are used
               \*   tombs     bound: tombstones formed in one behaviour

ASSUME IdAssumption == Local \in Id
ASSUME TextAssumption ==
  /\ None \notin State /\ {None, "null", "bad"} \cap Text = {}
  /\ Parse \in [Text -> State] /\ Size \in [Text -> Nat \ {0}]
ASSUME LimitAssumption ==
  /\ MaxWire \in Nat /\ MaxClock \in Nat /\ MaxWire < MaxClock /\ Slack \in Nat
  /\ Setups \subseteq [clients : Nat, foreign : Nat, bytes : Nat, texts : SUBSET Text, tombs : Nat]

VARIABLES
  setup,    \* the one of Setups this behaviour is about, never changed
  seen,     \* the keys of states
  clk,      \* states[id].Clock
  st,       \* states[id].State
  meta,     \* the keys of meta: clients with a last-update time
  clock,    \* the local clock
  wire,     \* wireBytes[id], 0 when absent
  bytes,    \* activeBytes
  prior,    \* priorJSON[id]
  tombSeq,  \* tombSeq[id], 0 when absent; removedAt has the same keys
  tombQ,    \* the queue of tombstones: <<client, sequence number>>, the lowest
            \* number first, entries that are no longer fresh included
  nextSeq,
  change,   \* the clients named by the ChangeEvent of the last step
  update    \* the clients named by the UpdateEvent of the last step

table == <<seen, clk, st, meta>>
tombs == <<tombSeq, tombQ, nextSeq>>
account == <<wire, bytes, prior>>
vars == <<setup, seen, clk, st, meta, clock, wire, bytes, prior, tombSeq, tombQ, nextSeq, change, update>>

(* What an entry carries: the text of a state, "null" (or nothing), or a text *)
(* that decodes to no state (too deep, not an object, too many keys).         *)
Payload == setup.texts \cup {"null", "bad"}
States == {Parse[t] : t \in setup.texts}
IsNullEntry(p) == p = "null"

Live(id) == st[id] # None
Tombstones == {id \in Id : tombSeq[id] # 0}
Bump(n) == IF n < MaxClock THEN n + 1 ELSE n
MaxOf(m, n) == IF m > n THEN m ELSE n

Init ==
  /\ setup \in Setups
  /\ seen = {} /\ meta = {}
  /\ clk = [id \in Id |-> 0] /\ st = [id \in Id |-> None]
  /\ clock = 0
  /\ wire = [id \in Id |-> 0] /\ bytes = 0 /\ prior = [id \in Id |-> None]
  /\ tombSeq = [id \in Id |-> 0] /\ tombQ = {} /\ nextSeq = 0
  /\ change = {} /\ update = {}

----------------------------------------------------------------------------
(* The local client. *)

(* SetLocalState(s), s = None to leave. *)
SetLocalState(s) ==
  LET c == Bump(IF Local \in seen THEN MaxOf(clock, clk[Local]) ELSE clock)
  IN  /\ clock' = c
      /\ seen' = seen \cup {Local}
      /\ clk' = [clk EXCEPT ![Local] = c]
      /\ st' = [st EXCEPT ![Local] = s]
      /\ meta' = IF s = None THEN meta \ {Local} ELSE meta \cup {Local}
      /\ change' = IF st[Local] = s THEN {} ELSE {Local}
      /\ update' = IF st[Local] = None /\ s = None THEN {} ELSE {Local}
      /\ UNCHANGED <<setup, account, tombs>>

Heartbeat ==
  /\ Live(Local)
  /\ clock' = Bump(MaxOf(clock, clk[Local]))
  /\ clk' = [clk EXCEPT ![Local] = clock']
  /\ meta' = meta \cup {Local}
  /\ change' = {} /\ update' = {Local}
  /\ UNCHANGED <<setup, seen, st, account, tombs>>

----------------------------------------------------------------------------
(* Tombstones. *)

Fresh(t) == tombSeq[t[1]] = t[2]

(* markTombstone: compact the queue when it is mostly stale, then append. *)
Mark(id) ==
  LET crowded == Cardinality(tombQ) >= 2 * Cardinality(Tombstones) + Slack
      kept    == IF crowded THEN {t \in tombQ : Fresh(t)} ELSE tombQ
  IN  /\ nextSeq < setup.tombs
      /\ nextSeq' = nextSeq + 1
      /\ tombSeq' = [tombSeq EXCEPT ![id] = nextSeq + 1]
      /\ tombQ' = kept \cup {<<id, nextSeq + 1>>}

(* reclaimOldestTombstone: t is the first fresh entry of the queue, which is  *)
(* popped together with the stale ones before it.                             *)
IsOldest(t) == t \in tombQ /\ Fresh(t) /\ \A u \in tombQ : Fresh(u) => t[2] <= u[2]
PopPast(t) == {u \in tombQ : u[2] > t[2] + 1}
PopTo(t) == {u \in tombQ : u[2] > t[2]}

Untomb(ids) == [i \in Id |-> IF i \in ids THEN 0 ELSE tombSeq[i]]

(* PurgeTombstones, for one tombstone past the grace: no event. *)
Purge(id) ==
  /\ id \in Tombstones \ {Local}
  /\ seen' = seen \ {id} /\ meta' = meta \ {id}
  /\ clk' = [clk EXCEPT ![id] = 0] /\ st' = [st EXCEPT ![id] = None]
  /\ wire' = [wire EXCEPT ![id] = 0]
  /\ tombSeq' = Untomb({id})
  /\ change' = {} /\ update' = {}
  /\ UNCHANGED <<setup, clock, bytes, prior, tombQ, nextSeq>>

(* RemoveExpired, for one client past the timeout. *)
Expire(id) ==
  /\ id \in meta \ {Local}
  /\ st' = [st EXCEPT ![id] = None]
  /\ meta' = meta \ {id}
  /\ bytes' = bytes - wire[id] /\ wire' = [wire EXCEPT ![id] = 0]
  /\ Mark(id)
  /\ change' = {id} /\ update' = {id}
  /\ UNCHANGED <<setup, seen, clk, clock, prior>>

----------------------------------------------------------------------------
(* applyUpdate, one entry: client id at clock c with payload p; foreign is   *)
(* ApplyOptions.Foreign and admit what ApplyOptions.Admit would answer.      *)

(* The clock gate: newer, or the removal of a live client at the same clock. *)
PassesEqual(id, c, p) == id \notin seen \/ c >= clk[id]
Passes(id, c, p) ==
  \/ id \notin seen
  \/ c > clk[id]
  \/ c = clk[id] /\ IsNullEntry(p) /\ Live(id)

(* A remote null for the local client is overruled. *)
SelfNull(id, c, p) ==
  /\ id = Local /\ IsNullEntry(p) /\ Passes(id, c, p)
  /\ clock' = IF c >= clock THEN c + 1 ELSE clock
  /\ clk' = IF Live(Local) THEN [clk EXCEPT ![Local] = clock'] ELSE clk
  /\ change' = {} /\ update' = IF Live(Local) THEN {Local} ELSE {}
  /\ UNCHANGED <<setup, seen, st, meta, account, tombs>>

AtCap(id) ==
  id \notin seen /\ setup.clients > 0 /\ Cardinality(seen \ {Local}) >= setup.clients
ForeignFull(id, foreign) ==
  /\ foreign /\ setup.foreign > 0 /\ id # Local /\ ~Live(id)
  /\ Cardinality(meta \ {Local}) >= setup.foreign

(* The state the entry ends up with: none if it is no state or over the cap. *)
Decoded(id, p) ==
  IF p \in Text /\ (setup.bytes = 0 \/ bytes + Size[p] - wire[id] <= setup.bytes)
    THEN Parse[p] ELSE None

Refused(id, p, foreign, admit) ==
  \/ AtCap(id) /\ (Tombstones = {} \/ Decoded(id, p) = None)
  \/ ForeignFull(id, foreign)
  \/ ~admit

(* The entry changes nothing: stale, or refused by a cap or by Admit. *)
Drop(id, c, p, foreign, admit) ==
  /\ \/ ~Passes(id, c, p)
     \/ ~(id = Local /\ IsNullEntry(p)) /\ Refused(id, p, foreign, admit)
  /\ change' = {} /\ update' = {}
  /\ UNCHANGED <<setup, table, clock, account, tombs>>

Accepted(id, c, p, foreign, admit) ==
  /\ Passes(id, c, p)
  /\ ~(id = Local /\ IsNullEntry(p))
  /\ ~Refused(id, p, foreign, admit)

(* The entry removes the client; only remote clients become tombstones. *)
Remove(id, c, p, foreign, admit) ==
  /\ Accepted(id, c, p, foreign, admit) /\ Decoded(id, p) = None
  /\ seen' = seen \cup {id}
  /\ clk' = [clk EXCEPT ![id] = c] /\ st' = [st EXCEPT ![id] = None]
  /\ meta' = meta \ {id}
  /\ IF id = Local THEN UNCHANGED tombs ELSE Mark(id)
  /\ bytes' = bytes - wire[id] /\ wire' = [wire EXCEPT ![id] = 0]
  /\ prior' = [prior EXCEPT ![id] = None]
  /\ change' = {id} \cap meta /\ update' = {id} \cap meta
  /\ UNCHANGED <<setup, clock>>

(* The comparison that keeps heartbeats out of the ChangeEvent: first the     *)
(* lengths of the texts, then the texts, then what they decode to.            *)
ChangedByPrior(id, p) == prior[id] # p
Changed(id, p) == ~(wire[id] = Size[p] /\ (prior[id] = p \/ st[id] = Parse[p]))

(* The entry sets the client's state, in the slot of the oldest tombstone if *)
(* the room is full.                                                         *)
Announce(id, c, p, foreign, admit) ==
  /\ Accepted(id, c, p, foreign, admit) /\ Decoded(id, p) # None
  /\ \E t \in tombQ \cup {<<id, 0>>} :
       LET freed == IF AtCap(id) THEN {t[1]} ELSE {}
       IN  /\ IF AtCap(id) THEN IsOldest(t) ELSE t = <<id, 0>>
           /\ seen' = (seen \ freed) \cup {id}
           /\ clk' = [i \in Id |-> IF i = id THEN c ELSE IF i \in freed THEN 0 ELSE clk[i]]
           /\ st' = [st EXCEPT ![id] = Parse[p]]
           /\ meta' = meta \cup {id}
           /\ tombSeq' = Untomb(freed \cup {id})
           /\ tombQ' = IF AtCap(id) THEN PopTo(t) ELSE tombQ
  /\ bytes' = bytes + Size[p] - wire[id] /\ wire' = [wire EXCEPT ![id] = Size[p]]
  /\ prior' = [prior EXCEPT ![id] = p]
  /\ change' = IF id \notin seen \/ Changed(id, p) THEN {id} ELSE {}
  /\ update' = {id}
  /\ UNCHANGED <<setup, clock, nextSeq>>

ApplyEntry(id, c, p, foreign, admit) ==
  \/ SelfNull(id, c, p)
  \/ Drop(id, c, p, foreign, admit)
  \/ Remove(id, c, p, foreign, admit)
  \/ Announce(id, c, p, foreign, admit)

Next ==
  \/ \E s \in States \cup {None} : SetLocalState(s)
  \/ Heartbeat
  \/ \E id \in Id : Purge(id) \/ Expire(id)
  \/ \E id \in Id, c \in 0 .. MaxWire, p \in Payload, how \in {"own", "foreign", "refused"} :
       ApplyEntry(id, c, p, how = "foreign", how # "refused")

Spec == Init /\ [][Next]_vars

----------------------------------------------------------------------------
(* Properties. *)

(* The tables have the shape the code gives them. *)
TypeOK ==
  /\ seen \subseteq Id /\ meta \subseteq Id
  /\ clk \in [Id -> 0 .. MaxClock] /\ st \in [Id -> State \cup {None}]
  /\ clock \in 0 .. MaxClock
  /\ wire \in [Id -> Nat] /\ bytes \in Int /\ prior \in [Id -> Text \cup {None}]
  /\ tombSeq \in [Id -> Nat] /\ tombQ \subseteq Id \X Nat /\ nextSeq \in Nat
  /\ change \subseteq Id /\ update \subseteq Id

(* The side tables agree with states: meta has exactly the live clients, and  *)
(* a tombstone is recorded for exactly the removed remote clients.            *)
Bookkeeping ==
  /\ meta = {id \in Id : Live(id)} /\ meta \subseteq seen
  /\ Tombstones = {id \in seen \ {Local} : ~Live(id)}

(* Every tombstone is reachable from the queue, so the cap can always reclaim *)
(* one when there is one, however many stale entries came and went.           *)
QueueCovers ==
  \A id \in Tombstones : <<id, tombSeq[id]>> \in tombQ /\ tombSeq[id] <= nextSeq

(* The tracked remote clients, tombstones included, never exceed the cap. *)
CapHolds == setup.clients > 0 => Cardinality(seen \ {Local}) <= setup.clients

(* The bytes of the states on the wire, one by one: <<client, position>>. *)
WireBytes == UNION {{id} \X (1 .. wire[id]) : id \in Id}

(* activeBytes is what the texts of the live states weigh, priorJSON has the  *)
(* text of each live remote state, and the cap holds.                         *)
BytesExact ==
  /\ bytes = Cardinality(WireBytes)
  /\ \A id \in Id \ {Local} :
       IF Live(id) THEN wire[id] = Size[prior[id]] /\ st[id] = Parse[prior[id]] ELSE wire[id] = 0
  /\ setup.bytes > 0 => bytes <= setup.bytes

(* While a remote client is remembered its clock never goes back, and a new   *)
(* state always comes at a new clock: a delayed entry cannot bring back a     *)
(* state that was replaced or removed.                                        *)
NoResurrection ==
  [][\A id \in (seen \cap seen') \ {Local} :
       /\ clk'[id] >= clk[id]
       /\ st'[id] \notin {st[id], None} => clk'[id] > clk[id]]_vars

(* The local clock never goes back, nor does the clock peers see for us. *)
LocalClockMonotone == [][clock' >= clock /\ clk'[Local] >= clk[Local]]_vars

(* OnChange names a remote client exactly when what GetStates shows for it    *)
(* has changed or came as a text of another length: no change is missed, and  *)
(* the only call without one is for an equal state that is written otherwise. *)
RemoteChangesAnnounced ==
  [][\A id \in Id \ {Local} :
       id \in change' <=> st'[id] # st[id] \/ wire'[id] # wire[id]]_vars

(* OnUpdate, from which providers relay presence, names every client whose    *)
(* state changed or whose live state was renewed at a new clock.              *)
UpdatesRelayed ==
  [][\A id \in Id : (st'[id] # st[id] \/ (st'[id] # None /\ clk'[id] # clk[id]))
       => id \in update']_vars

(* A slot is taken from the tombstone that has been one for longest. *)
ReclaimsOldest ==
  [][\A id \in seen \ seen' : change' # {} =>
       \A j \in Tombstones : tombSeq[id] <= tombSeq[j]]_vars

(* All side tables agree with the states at all times: liveness, tombstones   *)
(* and their queue, the client cap and the byte account.                      *)
AccountsExact == TypeOK /\ Bookkeeping /\ QueueCovers /\ CapHolds /\ BytesExact

(* Nothing that is remembered goes back, and what is forgotten to make room   *)
(* is the oldest tombstone.                                                   *)
NoGoingBack == NoResurrection /\ LocalClockMonotone /\ ReclaimsOldest

(* The two notifications miss no change, and OnChange is called without one   *)
(* only for an equal state whose text has another length.                     *)
ChangesAnnounced == RemoteChangesAnnounced /\ UpdatesRelayed
============================================================================
