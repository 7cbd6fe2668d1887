--------------------------- MODULE RoomLifecycle ---------------------------
(***************************************************************************)
(* The life of one room name on the websocket server: the placeholder      *)
(* published before the off-lock load, the join of a connection between    *)
(* lookup and registration, server-side writers (Apply, and Inject, which  *)
(* has the same frame), the last peer's flush-then-evict, the idle         *)
(* sweeper, the reaping of a room whose creator was refused, and           *)
(* CloseRoom.  An instance is one *room value; cur is s.rooms[name].       *)
(* Critical sections (s.rmu, rm.mu) are single actions and everything the  *)
(* code does between two of them is a point where others may step.  The    *)
(* persistence worker is reduced to what PersistWorker establishes: an     *)
(* update is unsaved until a flush, the worker's own write or its exit     *)
(* stores it, and one committed after the exit is stored by its committer. *)
(***************************************************************************)
EXTENDS Naturals, FiniteSets

CONSTANTS
    Conn,       \* websocket requests (ServeHTTP), each for this room
    Caller,     \* server-side writers (Apply / Inject)
    Sweeper,    \* the idle sweeper
    Admin,      \* callers of CloseRoom
    Inst,       \* names for *room values, reused once nobody refers to them
    Update,     \* document updates; each is committed at most once
    MaxPeers,   \* MaxPeersPerRoom
    MaxConns,   \* MaxConnections
    None,       \* no instance
    Setups      \* the servers considered, records of
                \*   conns     how many requests there are at once
                \*   others    who else is at work: "caller", "sweeper", "admin"
                \*   lazy      RoomIdleTimeout > 0
                \*   refusals  may an upgrade fail?
                \*   fails     bound on failing store calls and loads

ASSUME LifeAssumption ==
    /\ MaxPeers \in Nat \ {0} /\ MaxConns \in Nat \ {0} /\ None \notin Inst
    /\ IsFiniteSet(Conn \cup Caller \cup Sweeper \cup Admin) /\ IsFiniteSet(Inst)
    /\ Conn \cap Caller = {} /\ (Conn \cup Caller) \cap (Sweeper \cup Admin) = {}
    /\ Sweeper \cap Admin = {}
    /\ Setups \subseteq [conns : Nat, others : SUBSET {"caller", "sweeper", "admin"},
                         lazy : BOOLEAN, refusals : BOOLEAN, fails : Nat]

VARIABLES
    setup,    \* the one of Setups this behaviour is about
    cur,      \* s.rooms[name], or None
    room,     \* the state of every instance
    act,      \* where every actor stands
    stored,   \* updates the store holds
    sent,     \* updates committed so far
    conns,    \* permits taken from connSem
    fails     \* failures so far

vars == <<setup, cur, room, act, stored, sent, conns, fails>>

Actor == Conn \cup Caller \cup Sweeper \cup Admin

\* A room value as createRoomPlaceholder allocates it.  idle is idleSince (0
\* for the zero time), slots the permits taken from peerSem, stop and done
\* persistStop and persistDone, unloads how often OnUnloadDocument has fired.
Placeholder ==
    [phase |-> "loading", peers |-> {}, idle |-> 0, inflight |-> 1,
     slots |-> 0, unsaved |-> {}, stop |-> FALSE, done |-> FALSE, unloads |-> 0]

Unused == [Placeholder EXCEPT !.phase = "none", !.inflight = 0]

Resting == [pc |-> "rest", rm |-> None, created |-> FALSE, stamp |-> 0,
            ok |-> FALSE, wait |-> {}]

Init ==
    /\ setup \in Setups
    /\ cur = None
    /\ room = [i \in Inst |-> Unused]
    /\ act = [a \in Actor |-> Resting]
    /\ stored = {} /\ sent = {} /\ conns = 0 /\ fails = 0

At(a, pc) == act[a].pc = pc
Goto(a, pc) == act' = [act EXCEPT ![a].pc = pc]
Rest(a) == act' = [act EXCEPT ![a] = Resting]
Rm(a) == room[act[a].rm]

\* An instance nobody can reach any more: the garbage collector may take it.
Unreachable(i) ==
    /\ i # cur
    /\ \A a \in Actor : act[a].rm # i
    /\ room[i].phase = "ready" => room[i].done

Stamps == {room[i].idle : i \in Inst} \cup {act[a].stamp : a \in Actor}

\* time.Now(): a stamp different from every one that can still be compared.
Now == CHOOSE n \in 1 .. Cardinality(Stamps) + 1 : n \notin Stamps

(***************************************************************************)
(* getOrCreateRoom                                                         *)
(***************************************************************************)
Coming(a) ==
    \/ a \in Conn /\ Cardinality({c \in Conn : ~At(c, "rest")}) < setup.conns
    \/ a \in Caller /\ "caller" \in setup.others

\* createRoomPlaceholder: find the room or publish a placeholder, and count
\* this caller in flight, in one critical section of s.rmu.
Lookup(a) ==
    /\ At(a, "rest") /\ Coming(a)
    /\ \/ /\ cur # None
          /\ room' = [room EXCEPT ![cur].inflight = @ + 1]
          /\ act' = [act EXCEPT ![a].pc = "wait", ![a].rm = cur]
          /\ cur' = cur
       \/ /\ cur = None
          /\ \E i \in Inst :
                /\ Unreachable(i)
                /\ room' = [room EXCEPT ![i] = Placeholder]
                /\ act' = [act EXCEPT ![a].pc = "load", ![a].rm = i,
                                      ![a].created = TRUE]
                /\ cur' = i
    /\ UNCHANGED <<setup, stored, sent, conns, fails>>

\* What the caller does with the room it was given.
Enter(a) == IF a \in Conn THEN "slot" ELSE "clear"

\* loadRoom: LoadDoc off the lock, then the worker and the ready barrier; a
\* failure removes the placeholder and wakes the waiters with the error.
Load(a) ==
    /\ At(a, "load")
    /\ \/ /\ room' = [room EXCEPT ![act[a].rm].phase = "ready"]
          /\ Goto(a, Enter(a))
          /\ UNCHANGED <<cur, fails>>
       \/ /\ fails < setup.fails
          /\ fails' = fails + 1
          /\ room' = [room EXCEPT ![act[a].rm].phase = "failed"]
          /\ cur' = IF cur = act[a].rm THEN None ELSE cur
          /\ Rest(a)
    /\ UNCHANGED <<setup, stored, sent, conns>>

\* <-r.ready, for a caller that did not create the room.
Ready(a) ==
    /\ At(a, "wait")
    /\ \/ Rm(a).phase = "ready" /\ Goto(a, Enter(a))
       \/ Rm(a).phase = "failed" /\ Rest(a)
    /\ UNCHANGED <<setup, cur, room, stored, sent, conns, fails>>

(***************************************************************************)
(* ServeHTTP, from the semaphores to the registration of the peer          *)
(***************************************************************************)
\* A request leaves before it registered a peer: it gives back the permits it
\* took ...
Refuse(c, slotsBack) ==
    /\ room' = [room EXCEPT ![act[c].rm].slots = @ - slotsBack]
    /\ Goto(c, "refused")

\* ... then its in-flight count, and goes on to reap the room it created.
Reap(c) ==
    /\ At(c, "refused")
    /\ room' = [room EXCEPT ![act[c].rm].inflight = @ - 1]
    /\ IF act[c].created THEN Goto(c, "evictflush") ELSE Rest(c)
    /\ UNCHANGED <<setup, cur, stored, sent, conns, fails>>

TakeSlot(c) ==
    /\ At(c, "slot")
    /\ \/ /\ Rm(c).slots < MaxPeers
          /\ room' = [room EXCEPT ![act[c].rm].slots = @ + 1]
          /\ Goto(c, "conn")
       \/ Rm(c).slots = MaxPeers /\ Refuse(c, 0)
    /\ UNCHANGED <<setup, cur, stored, sent, conns, fails>>

TakeConn(c) ==
    /\ At(c, "conn")
    /\ \/ conns < MaxConns /\ conns' = conns + 1 /\ Goto(c, "upgrade") /\ room' = room
       \/ conns = MaxConns /\ conns' = conns /\ Refuse(c, 1)
    /\ UNCHANGED <<setup, cur, stored, sent, fails>>

\* The upgrade fails; Register is what follows when it does not.
Upgrade(c) ==
    /\ At(c, "upgrade") /\ setup.refusals
    /\ conns' = conns - 1 /\ Refuse(c, 1)
    /\ UNCHANGED <<setup, cur, stored, sent, fails>>

RegisterBlind(c) ==
    /\ At(c, "upgrade")
    /\ room' = [room EXCEPT ![act[c].rm].peers = @ \cup {c},
                            ![act[c].rm].idle = 0,
                            ![act[c].rm].inflight = @ - 1]
    /\ Goto(c, "joined")
    /\ UNCHANGED <<setup, cur, stored, sent, conns, fails>>

RegisterLeaks(c) ==
    /\ At(c, "upgrade")
    /\ \/ /\ cur = act[c].rm
          /\ room' = [room EXCEPT ![cur].peers = @ \cup {c}, ![cur].idle = 0,
                                  ![cur].inflight = @ - 1]
          /\ Goto(c, "joined") /\ conns' = conns
       \/ /\ cur # act[c].rm
          /\ room' = room /\ conns' = conns - 1
          /\ act' = [act EXCEPT ![c].pc = "refused", ![c].created = FALSE]
    /\ UNCHANGED <<setup, cur, stored, sent, fails>>

\* Under s.rmu.RLock: the room must still be the one in the map; the peer is
\* added, the idle stamp cleared and the in-flight count dropped together.  A
\* request that finds another room there is turned away and reaps nothing.
Register(c) ==
    /\ At(c, "upgrade")
    /\ \/ /\ cur = act[c].rm
          /\ room' = [room EXCEPT ![cur].peers = @ \cup {c},
                                  ![cur].idle = 0,
                                  ![cur].inflight = @ - 1]
          /\ Goto(c, "joined")
          /\ conns' = conns
       \/ /\ cur # act[c].rm
          /\ room' = [room EXCEPT ![act[c].rm].slots = @ - 1]
          /\ conns' = conns - 1
          /\ act' = [act EXCEPT ![c].pc = "refused", ![c].created = FALSE]
    /\ UNCHANGED <<setup, cur, stored, sent, fails>>

(***************************************************************************)
(* Document writes                                                         *)
(***************************************************************************)
\* A transaction on the room's document, and its hand-over for persistence.
Commit(a, u) ==
    /\ u \notin sent /\ sent' = sent \cup {u}
    /\ IF Rm(a).done
         THEN stored' = stored \cup {u} /\ room' = room
         ELSE stored' = stored /\ room' = [room EXCEPT ![act[a].rm].unsaved = @ \cup {u}]

PeerWrites(c, u) ==
    /\ At(c, "joined") /\ Commit(c, u)
    /\ UNCHANGED <<setup, cur, act, conns, fails>>

\* Apply, after getOrCreateRoom: clearIdle ...
ClearIdle(a) ==
    /\ At(a, "clear")
    /\ room' = [room EXCEPT ![act[a].rm].idle = 0]
    /\ Goto(a, "write")
    /\ UNCHANGED <<setup, cur, stored, sent, conns, fails>>

\* ... the transaction, which may also change nothing ...
Apply(a) ==
    /\ At(a, "write")
    /\ \/ \E u \in Update : Commit(a, u)
       \/ UNCHANGED <<room, stored, sent>>
    /\ Goto(a, "mark")
    /\ UNCHANGED <<setup, cur, conns, fails>>

MarkNothing(a) ==
    /\ At(a, "mark") /\ Goto(a, "release")
    /\ UNCHANGED <<setup, cur, room, stored, sent, conns, fails>>

\* ... then, deferred, markIdleIfEmpty and releaseInflight, in that order.
MarkIdleIfEmpty(a) ==
    /\ At(a, "mark")
    /\ room' = IF setup.lazy /\ Rm(a).peers = {}
                 THEN [room EXCEPT ![act[a].rm].idle = Now] ELSE room
    /\ Goto(a, "release")
    /\ UNCHANGED <<setup, cur, stored, sent, conns, fails>>

ReleaseInflight(a) ==
    /\ At(a, "release")
    /\ room' = [room EXCEPT ![act[a].rm].inflight = @ - 1]
    /\ Rest(a)
    /\ UNCHANGED <<setup, cur, stored, sent, conns, fails>>

(***************************************************************************)
(* The worker, as PersistWorker promises it                                *)
(***************************************************************************)
Saved(i) == [room EXCEPT ![i].unsaved = {}]

WorkerWrites(i) ==
    /\ room[i].phase = "ready" /\ ~room[i].done /\ room[i].unsaved # {}
    /\ stored' = stored \cup room[i].unsaved
    /\ room' = Saved(i)
    /\ UNCHANGED <<setup, cur, act, sent, conns, fails>>

\* The worker stores what is left as it goes; a failing store loses it.
WorkerExits(i) ==
    /\ room[i].stop /\ ~room[i].done
    /\ \/ stored' = stored \cup room[i].unsaved /\ fails' = fails
       \/ /\ room[i].unsaved # {} /\ fails < setup.fails
          /\ fails' = fails + 1 /\ stored' = stored
    /\ room' = [Saved(i) EXCEPT ![i].done = TRUE]
    /\ UNCHANGED <<setup, cur, act, sent, conns>>

\* flushReq and its acknowledgement (or persistDone): the batch is durable, or
\* the store call failed and the batch is kept.
Flush(a, next) ==
    /\ \/ /\ stored' = stored \cup Rm(a).unsaved
          /\ room' = Saved(act[a].rm)
          /\ act' = [act EXCEPT ![a].pc = next, ![a].ok = TRUE]
          /\ fails' = fails
       \/ /\ ~Rm(a).done /\ Rm(a).unsaved # {} /\ fails < setup.fails
          /\ fails' = fails + 1
          /\ act' = [act EXCEPT ![a].pc = next, ![a].ok = FALSE]
          /\ UNCHANGED <<room, stored>>
    /\ UNCHANGED <<setup, cur, sent, conns>>

(***************************************************************************)
(* handleDisconnect                                                        *)
(***************************************************************************)
\* The read loop ends: p.done is closed before handleDisconnect runs.
Leave(c) ==
    /\ At(c, "joined")
    /\ act' = [a \in Actor |->
                 IF a = c THEN [act[c] EXCEPT !.pc = "leaving"]
                 ELSE [act[a] EXCEPT !.wait = @ \ {c}]]
    /\ UNCHANGED <<setup, cur, room, stored, sent, conns, fails>>

\* The peer leaves the room, under both locks, ...
Remove(c) ==
    /\ At(c, "leaving")
    /\ room' = [room EXCEPT ![act[c].rm].peers = @ \ {c}]
    /\ Goto(c, IF Rm(c).peers = {c} THEN "last" ELSE "gone")
    /\ UNCHANGED <<setup, cur, stored, sent, conns, fails>>

\* ... then its permits are released; the last one goes on to flush.
Free(c) ==
    /\ act[c].pc \in {"last", "gone"}
    /\ room' = [room EXCEPT ![act[c].rm].slots = @ - 1]
    /\ conns' = conns - 1
    /\ IF At(c, "last") THEN Goto(c, "flush") ELSE Rest(c)
    /\ UNCHANGED <<setup, cur, stored, sent, fails>>

LeaveFlush(c) == At(c, "flush") /\ Flush(c, "decide")

\* Removal from the map if this instance is the one there, and persistStop.
\* The actor remembers in ok whether it was the one to remove it.
Detach(a) ==
    /\ cur' = IF cur = act[a].rm THEN None ELSE cur
    /\ room' = [room EXCEPT ![act[a].rm].stop = TRUE]
    /\ act' = [act EXCEPT ![a].pc = "await", ![a].ok = (cur = act[a].rm)]

\* The second critical section: an empty, flushed room is stamped idle (lazy
\* mode) or evicted (eager mode); otherwise it is left as it is.
Decide(c) ==
    /\ At(c, "decide")
    /\ \/ /\ Rm(c).peers = {} /\ act[c].ok /\ setup.lazy
          /\ room' = [room EXCEPT ![act[c].rm].idle = Now]
          /\ Rest(c) /\ cur' = cur
       \/ Rm(c).peers = {} /\ act[c].ok /\ ~setup.lazy /\ Detach(c)
       \/ /\ Rm(c).peers # {} \/ ~act[c].ok
          /\ Rest(c) /\ UNCHANGED <<cur, room>>
    /\ UNCHANGED <<setup, stored, sent, conns, fails>>

\* <-persistDone, then the teardown and OnUnloadDocument if this actor was the
\* one that took the room out of the map.
Unload(a) ==
    /\ At(a, "await") /\ Rm(a).done
    /\ room' = IF act[a].ok THEN [room EXCEPT ![act[a].rm].unloads = @ + 1] ELSE room
    /\ Rest(a)
    /\ UNCHANGED <<setup, cur, stored, sent, conns, fails>>

(***************************************************************************)
(* evictIdleRoom, called by the sweeper and by a refused creator           *)
(***************************************************************************)
\* sweepIdleRooms: an empty room with an idle stamp, expired or over the
\* resident bound (time is not modelled, so any stamped room qualifies).
Sweep(s) ==
    /\ "sweeper" \in setup.others /\ At(s, "rest") /\ cur # None
    /\ room[cur].phase = "ready" /\ room[cur].peers = {} /\ room[cur].idle # 0
    /\ act' = [act EXCEPT ![s].pc = "evictflush", ![s].rm = cur,
                          ![s].stamp = room[cur].idle]
    /\ UNCHANGED <<setup, cur, room, stored, sent, conns, fails>>

EvictFlush(a) == At(a, "evictflush") /\ Flush(a, "evict")

\* A room already out of the map is stopped but not waited for.
EvictDetach(a) ==
    \/ cur = act[a].rm /\ Detach(a)
    \/ /\ cur # act[a].rm
       /\ room' = [room EXCEPT ![act[a].rm].stop = TRUE]
       /\ Rest(a) /\ cur' = cur

EvictNoStamp(a) ==
    /\ At(a, "evict")
    /\ \/ act[a].ok /\ Rm(a).peers = {} /\ Rm(a).inflight = 0 /\ EvictDetach(a)
       \/ /\ ~act[a].ok \/ Rm(a).peers # {} \/ Rm(a).inflight # 0
          /\ Rest(a) /\ UNCHANGED <<cur, room>>
    /\ UNCHANGED <<setup, stored, sent, conns, fails>>

\* evictIdleRoom commits only if the flush succeeded and the room is still
\* empty, still carries the stamp the caller saw, and nobody is in flight.
Evict(a) ==
    /\ At(a, "evict")
    /\ \/ /\ act[a].ok /\ Rm(a).peers = {} /\ Rm(a).idle = act[a].stamp
          /\ Rm(a).inflight = 0
          /\ EvictDetach(a)
       \/ /\ \/ ~act[a].ok \/ Rm(a).peers # {} \/ Rm(a).idle # act[a].stamp
             \/ Rm(a).inflight # 0
          /\ Rest(a) /\ UNCHANGED <<cur, room>>
    /\ UNCHANGED <<setup, stored, sent, conns, fails>>

(***************************************************************************)
(* CloseRoom                                                               *)
(***************************************************************************)
\* A loaded room is found; with peers and without force the call is refused
\* (and changes nothing), with force their connections are closed and waited
\* for.  The actor remembers force in created.
CloseFind(a) ==
    /\ "admin" \in setup.others /\ At(a, "rest") /\ cur # None /\ room[cur].phase = "ready"
    /\ \E force \in BOOLEAN :
          /\ force \/ room[cur].peers = {}
          /\ act' = [act EXCEPT ![a].pc = "closewait", ![a].rm = cur, ![a].created = force,
                                ![a].wait = {c \in room[cur].peers : At(c, "joined")}]
    /\ UNCHANGED <<setup, cur, room, stored, sent, conns, fails>>

CloseFlush(a) ==
    /\ At(a, "closewait") /\ act[a].wait = {}
    /\ Flush(a, "delete")

\* The room is deleted whatever the flush said, unless it has been replaced;
\* then the worker that someone else stopped is waited for.
Delete(a) ==
    /\ At(a, "delete")
    /\ \/ cur = act[a].rm /\ Detach(a)
       \/ /\ cur # act[a].rm
          /\ act' = [act EXCEPT ![a].pc = "await", ![a].ok = FALSE]
          /\ UNCHANGED <<cur, room>>
    /\ UNCHANGED <<setup, stored, sent, conns, fails>>

(***************************************************************************)
(* Specification                                                           *)
(***************************************************************************)
\* Everything an actor does once it has begun, except leaving by choice.
Proceed(a) ==
    \/ Load(a) \/ Ready(a) \/ TakeSlot(a) \/ TakeConn(a) \/ Upgrade(a) \/ Register(a)
    \/ Reap(a)
    \/ ClearIdle(a) \/ Apply(a) \/ MarkIdleIfEmpty(a) \/ ReleaseInflight(a)
    \/ Remove(a) \/ Free(a) \/ LeaveFlush(a) \/ Decide(a)
    \/ EvictFlush(a) \/ Evict(a) \/ CloseFlush(a) \/ Delete(a) \/ Unload(a)

Next ==
    \/ \E a \in Conn \cup Caller : Lookup(a)
    \/ \E c \in Conn, u \in Update : PeerWrites(c, u)
    \/ \E c \in Conn : Leave(c)
    \/ \E s \in Sweeper : Sweep(s)
    \/ \E a \in Admin : CloseFind(a)
    \/ \E a \in Actor : Proceed(a)
    \/ \E i \in Inst : WorkerWrites(i) \/ WorkerExits(i)

Spec == Init /\ [][Next]_vars

(***************************************************************************)
(* Properties                                                              *)
(***************************************************************************)
Holding == {"load", "wait", "slot", "conn", "upgrade", "refused",
            "clear", "write", "mark", "release"}
Writing == {"clear", "write", "mark", "release"}
Seated == {"conn", "upgrade", "joined", "leaving", "last", "gone"}

\* The state of rooms and actors has the shape the code gives it.
TypeOK ==
    /\ cur \in Inst \cup {None}
    /\ room \in [Inst -> [phase : {"none", "loading", "ready", "failed"},
                          peers : SUBSET Conn, idle : Nat, inflight : Nat,
                          slots : 0 .. MaxPeers, unsaved : SUBSET Update,
                          stop : BOOLEAN, done : BOOLEAN, unloads : Nat]]
    /\ act \in [Actor -> [pc : Holding \cup Seated \cup
                               {"rest", "flush", "decide", "await", "evictflush",
                                "evict", "closewait", "delete"},
                          rm : Inst \cup {None}, created : BOOLEAN, stamp : Nat,
                          ok : BOOLEAN, wait : SUBSET Conn]]
    /\ stored \subseteq Update /\ sent \subseteq Update
    /\ conns \in 0 .. MaxConns /\ fails \in 0 .. setup.fails

\* The document is never forked into two rooms: a registered peer is in the
\* room that the map holds, so two peers of the name always share a document.
\* CloseRoom may take the room from under a peer that joins while it flushes.
PeersAtHome == "admin" \notin setup.others => \A i \in Inst : room[i].peers # {} => cur = i

\* With idle residency a room is not evicted under a server-side writer that is
\* using it, unless CloseRoom is told to.
WritersAtHome ==
    setup.lazy /\ "admin" \notin setup.others =>
        \A a \in Caller : act[a].pc \in Writing => cur = act[a].rm

\* An occupied room never keeps an idle stamp, so the sweeper cannot see it.
OccupiedNotIdle == \A i \in Inst : room[i].peers # {} => room[i].idle = 0

\* Whatever path a request takes out of ServeHTTP, the in-flight count and the
\* two semaphores count exactly the requests that are inside.
CountsExact ==
    /\ \A i \in Inst : room[i].phase \in {"loading", "ready"} =>
          /\ room[i].inflight =
                Cardinality({a \in Conn \cup Caller : act[a].rm = i /\ act[a].pc \in Holding})
          /\ room[i].slots =
                Cardinality({c \in Conn : act[c].rm = i /\ act[c].pc \in Seated})
    /\ conns = Cardinality({c \in Conn : act[c].pc \in Seated \ {"conn"}})

\* OnUnloadDocument fires once for a room that was loaded: never twice, never
\* while the room is in the map, and not zero times once everyone is done.
UnloadOnce ==
    \A i \in Inst : room[i].phase = "ready" =>
        /\ room[i].unloads = (IF Unreachable(i) THEN 1 ELSE room[i].unloads)
        /\ room[i].unloads <= (IF cur = i THEN 0 ELSE 1)

\* May a request be refused after getOrCreateRoom: by a failing upgrade, or
\* because there are more requests than seats?
MayRefuse == setup.refusals \/ setup.conns > MaxPeers \/ setup.conns > MaxConns

\* Idle residency takes a stamped room off the map only when everything that
\* was committed to it is stored.  So a room that is loaded reads an up-to-date
\* store: no update of an earlier room of the name is waiting to be written,
\* unless a refused creator reaped the unstamped room between the last peer's
\* removal and its stamp.  An eager eviction and CloseRoom do not promise it.
FreshLoad ==
    [][setup.lazy /\ "admin" \notin setup.others =>
       /\ \A i \in Inst : cur = i /\ cur' # i /\ room[i].idle # 0 => room[i].unsaved = {}
       /\ \A j \in Inst : (~MayRefuse /\ room[j].phase = "loading" /\ room'[j].phase = "ready") =>
             \A i \in Inst \ {j} : room[i].unsaved = {}]_vars

\* Resident, loaded, and nobody is in it or on the way in.
Abandoned(i) ==
    /\ cur = i /\ room[i].phase = "ready"
    /\ \A a \in Conn \cup Caller : act[a].rm # i

\* With idle residency a room that no peer and no caller uses carries a stamp,
\* so that the sweeper will find it.  A failed flush leaves a room unstamped,
\* and so do two refused requests of which the second holds the first one's
\* reap off.
Reclaimable ==
    setup.lazy /\ ~MayRefuse /\ fails = 0
        => \A i \in Inst : Abandoned(i) => room[i].idle # 0

\* Peers and server-side writers are in the room that the map holds: the name
\* has one document (for the setups that PeersAtHome and WritersAtHome cover).
AtHome == PeersAtHome /\ WritersAtHome

\* What the server counts is what is there: requests inside, seats, idle stamps
\* and unload notifications, on every path out of ServeHTTP.
Accounting == TypeOK /\ CountsExact /\ OccupiedNotIdle /\ UnloadOnce
=============================================================================
