----------------------------- MODULE SyncClient -----------------------------
(***************************************************************************)
(* provider/client: the offline-first client, from an application's edit   *)
(* to the server.  Application goroutines run the Doc observer (store,     *)
(* then queue) outside the document's lock; Connect's loop goroutine       *)
(* hydrates, dials, handshakes, applies frames and drains the lane; Close  *)
(* runs beside both.  Documents, stores, state vectors and update blobs    *)
(* are sets of updates; merging them is covered by YDoc and Lane.  Awareness*)
(* payloads and the token exchange are not part of this module.            *)
(***************************************************************************)
EXTENDS Naturals, Sequences

CONSTANTS
    Edit,    \* the application's edits, each made once
    Remote   \* updates of other peers

Updates == Edit \cup Remote

VARIABLES
    setup,               \* setup.edits: the edits that are made; setup.store: is
                         \* Options.Store or StorePath set?  setup.owned: StorePath,
                         \* Close closes the store; setup.close, setup.late: is Close
                         \* called, and Connect once Close has begun?  setup.faults:
                         \* bound on broken links, failed dials, store errors, crashes
    doc, store,          \* Options.Doc and what Options.Store holds
    flight,              \* each edit's way through Transact and onDocUpdate
    lane, signal,        \* the outbound lane and its wake-up channel
    pc, synced, giveUp,  \* the loop goroutine, session.synced, flushLane's giveUp
    pend,                \* remote updates applied but not yet stored
    started, closed,     \* connectStarted and the closed channel
    closer, subscribed,  \* Close's progress and the Doc observer's registration
    storeOpen,           \* has an owned store not been closed yet?
    link, up, down,      \* the connection and the frames in flight on it
    server,              \* the server's document
    written, counted,    \* edits put on a wire, and updates behind Stats().Dropped
    faults

appVars == <<doc, store, flight>>
netVars == <<link, up, down, server>>
closeVars == <<closed, closer, subscribed, storeOpen>>
loopVars == <<pc, synced, giveUp, pend, started>>
accounts == <<written, counted>>
vars == <<appVars, lane, signal, loopVars, closeVars, netVars, accounts, faults>>

Step1(sv) == [kind |-> "step1", set |-> sv]
Step2(us) == [kind |-> "step2", set |-> us]
Update(us) == [kind |-> "update", set |-> us]

Fault == faults < setup.faults /\ faults' = faults + 1
NoFault == UNCHANGED faults

Init ==
    /\ doc = {} /\ store = {} /\ flight = [e \in Edit |-> "idle"]
    /\ lane = {} /\ signal = FALSE
    /\ pc = "none" /\ synced = FALSE /\ giveUp = FALSE /\ pend = {} /\ started = FALSE
    /\ closed = FALSE /\ closer = "none" /\ subscribed = TRUE /\ storeOpen = TRUE
    /\ link = "none" /\ up = <<>> /\ down = <<>> /\ server = {}
    /\ written = {} /\ counted = {} /\ faults = 0

(***************************************************************************)
(* The application's goroutines: Transact commits under the document's     *)
(* lock and snapshots the observers; the observer runs after the unlock.   *)
(***************************************************************************)
Transact(e) ==
    /\ e \in setup.edits /\ flight[e] = "idle"
    /\ doc' = doc \cup {e}
    /\ flight' = [flight EXCEPT ![e] =
                    IF ~subscribed THEN "unseen" ELSE IF setup.store THEN "store" ELSE "push"]
    /\ UNCHANGED <<store, lane, signal, accounts, faults>>
    /\ UNCHANGED loopVars /\ UNCHANGED closeVars /\ UNCHANGED netVars

\* StoreUpdate on the application's goroutine; an error is counted.
StoreEdit(e) ==
    /\ flight[e] = "store"
    /\ flight' = [flight EXCEPT ![e] = "push"]
    /\ \/ storeOpen /\ store' = store \cup {e} /\ UNCHANGED counted /\ NoFault
       \/ /\ IF storeOpen THEN Fault ELSE NoFault
          /\ counted' = counted \cup {e} /\ UNCHANGED store
    /\ UNCHANGED <<doc, lane, signal, written>>
    /\ UNCHANGED loopVars /\ UNCHANGED closeVars /\ UNCHANGED netVars

PushEditSynced(e) ==
    /\ flight[e] = "push" /\ flight' = [flight EXCEPT ![e] = "done"]
    /\ IF synced THEN lane' = lane \cup {e} /\ signal' = TRUE ELSE UNCHANGED <<lane, signal>>
    /\ UNCHANGED <<doc, store, accounts, faults>>
    /\ UNCHANGED loopVars /\ UNCHANGED closeVars /\ UNCHANGED netVars

\* lane.Push(KindSync): whatever the state of the connection.
PushEdit(e) ==
    /\ flight[e] = "push"
    /\ flight' = [flight EXCEPT ![e] = "done"]
    /\ lane' = lane \cup {e} /\ signal' = TRUE
    /\ UNCHANGED <<doc, store, accounts, faults>>
    /\ UNCHANGED loopVars /\ UNCHANGED closeVars /\ UNCHANGED netVars

Observe(e) == StoreEdit(e) \/ PushEdit(e)

(***************************************************************************)
(* Connect and its loop goroutine                                          *)
(***************************************************************************)
Connect ==
    /\ ~started /\ (setup.late \/ ~closed)
    /\ started' = TRUE /\ pc' = "hydrate"
    /\ UNCHANGED <<synced, giveUp, pend, lane, signal, accounts, faults>>
    /\ UNCHANGED appVars /\ UNCHANGED closeVars /\ UNCHANGED netVars

\* hydrate: the stored document is applied under hydrateOrigin, so it is
\* neither stored nor sent again; an error is reported while still latched.
Hydrate ==
    /\ pc = "hydrate"
    /\ \/ /\ storeOpen \/ ~setup.store
          /\ doc' = doc \cup store /\ pc' = "dial" /\ NoFault
       \/ /\ setup.store /\ IF storeOpen THEN Fault ELSE NoFault
          /\ pc' = "failed" /\ UNCHANGED doc
    /\ UNCHANGED <<store, flight, synced, giveUp, pend, started, lane, signal, accounts>>
    /\ UNCHANGED closeVars /\ UNCHANGED netVars

\* The status of a failed hydration has been delivered: Connect unlatches.
ReleaseLatch ==
    /\ pc = "failed"
    /\ pc' = "none" /\ started' = FALSE
    /\ UNCHANGED <<synced, giveUp, pend, lane, signal, accounts, faults>>
    /\ UNCHANGED appVars /\ UNCHANGED closeVars /\ UNCHANGED netVars

\* runLoop dials and opens with its state vector; ygo's server pushes its own
\* SyncStep1 and a full SyncStep2 without waiting.
Dial ==
    /\ pc = "dial"
    /\ \/ /\ pc' = "live" /\ synced' = FALSE /\ link' = "up" /\ NoFault
          /\ up' = <<Step1(doc)>> /\ down' = <<Step1(server), Step2(server)>>
       \/ /\ pc' = "ended" /\ IF closed THEN NoFault ELSE Fault
          /\ UNCHANGED <<synced, link, up, down>>
    /\ UNCHANGED <<server, giveUp, pend, started, lane, signal, accounts>>
    /\ UNCHANGED appVars /\ UNCHANGED closeVars

FrameUnstored ==
    /\ pc = "live" /\ link = "up" /\ down # <<>>
    /\ down' = Tail(down)
    /\ LET f == Head(down)
       IN  \/ /\ f.kind = "step1" /\ up' = Append(up, Step2(doc \ f.set))
              /\ UNCHANGED <<doc, pend, pc, synced>>
           \/ /\ f.kind # "step1" /\ doc' = doc \cup f.set
              /\ synced' = (synced \/ f.kind = "step2") /\ UNCHANGED <<up, pend, pc>>
    /\ UNCHANGED <<store, flight, giveUp, started, link, server, lane, signal, accounts, faults>>
    /\ UNCHANGED closeVars

\* handleFrame: a SyncStep1 is answered from the document as it is now; any
\* other sync frame is applied under remoteOrigin, whose observer stores it.
Frame ==
    /\ pc = "live" /\ link = "up" /\ down # <<>>
    /\ down' = Tail(down)
    /\ LET f == Head(down)
       IN  \/ /\ f.kind = "step1"
              /\ up' = Append(up, Step2(doc \ f.set))
              /\ UNCHANGED <<doc, pend, pc, synced>>
           \/ /\ f.kind # "step1"
              /\ doc' = doc \cup f.set
              /\ pend' = IF setup.store /\ subscribed THEN f.set \ doc ELSE {}
              /\ pc' = IF pend' # {} THEN "storing" ELSE pc
              /\ synced' = (synced \/ f.kind = "step2")
              /\ UNCHANGED up
    /\ UNCHANGED <<store, flight, giveUp, started, link, server, lane, signal, accounts, faults>>
    /\ UNCHANGED closeVars

\* The observer's StoreUpdate for a remote update, on the loop goroutine.
StoreRemote ==
    /\ pc = "storing"
    /\ pc' = "live" /\ pend' = {}
    /\ \/ storeOpen /\ store' = store \cup pend /\ UNCHANGED counted /\ NoFault
       \/ /\ IF storeOpen THEN Fault ELSE NoFault
          /\ counted' = counted \cup pend /\ UNCHANGED store
    /\ UNCHANGED <<doc, flight, synced, giveUp, started, lane, signal, written>>
    /\ UNCHANGED closeVars /\ UNCHANGED netVars

\* The select's other branches: the lane's signal, ctx.Done and readErr.
\* (maybeCompact, after each message, keeps the set of stored updates.)
Wake ==
    /\ pc = "live"
    /\ \/ signal /\ signal' = FALSE /\ pc' = "flush"
       \/ closed /\ pc' = "closing" /\ UNCHANGED signal
       \/ link = "broken" /\ pc' = "ended" /\ UNCHANGED signal
    /\ UNCHANGED <<synced, giveUp, pend, started, lane, accounts, faults>>
    /\ UNCHANGED appVars /\ UNCHANGED closeVars /\ UNCHANGED netVars

\* countUndeliverable: with a store a sync payload is never counted.
Undeliverable(us) == IF setup.store THEN {} ELSE us

FlushSendRequeues ==
    /\ pc \in {"flush", "closing"} /\ lane # {}
    /\ \/ ~giveUp /\ link = "up" /\ up' = Append(up, Update(lane)) /\ lane' = {}
          /\ written' = written \cup lane /\ UNCHANGED <<counted, giveUp, pc>>
       \/ /\ giveUp \/ link = "broken"
          /\ giveUp' = closed /\ pc' = IF closed THEN pc ELSE "ended"
          /\ UNCHANGED <<written, counted, up, lane>>
    /\ UNCHANGED <<synced, pend, started, link, down, server, signal, faults>>
    /\ UNCHANGED appVars /\ UNCHANGED closeVars

\* flushLane: take, then write.  A broken socket may still swallow a write;
\* a failed write is counted, ends the session while the context is live, and
\* otherwise drains the rest without trying.
FlushSend ==
    /\ pc \in {"flush", "closing"} /\ lane # {}
    /\ lane' = {}
    /\ \/ /\ ~giveUp
          /\ up' = IF link = "up" THEN Append(up, Update(lane)) ELSE up
          /\ written' = written \cup lane
          /\ UNCHANGED <<counted, giveUp, pc>>
       \/ /\ giveUp \/ link = "broken"
          /\ counted' = counted \cup Undeliverable(lane)
          /\ giveUp' = closed
          /\ pc' = IF closed THEN pc ELSE "ended"
          /\ UNCHANGED <<written, up>>
    /\ UNCHANGED <<synced, pend, started, link, down, server, signal, faults>>
    /\ UNCHANGED appVars /\ UNCHANGED closeVars

FlushDone ==
    /\ pc \in {"flush", "closing"} /\ lane = {}
    /\ pc' = IF pc = "flush" THEN "live" ELSE "ended"
    /\ giveUp' = FALSE
    /\ UNCHANGED <<synced, pend, started, lane, signal, accounts, faults>>
    /\ UNCHANGED appVars /\ UNCHANGED closeVars /\ UNCHANGED netVars

\* dropLaneRemainder.
DropLaneRemainder == lane' = {} /\ counted' = counted \cup Undeliverable(lane)

\* runLoop's deferred teardown and runReconnectLoop's decision: frames already
\* in the socket may or may not reach the server.
End ==
    /\ pc = "ended"
    /\ \E n \in 0 .. Len(up) :
          server' = server \cup UNION {up[k].set : k \in {j \in 1 .. n : up[j].kind # "step1"}}
    /\ link' = "none" /\ up' = <<>> /\ down' = <<>> /\ giveUp' = FALSE
    /\ IF closed
         THEN DropLaneRemainder /\ pc' = "returned"
         ELSE pc' = "backoff" /\ UNCHANGED <<lane, counted>>
    /\ UNCHANGED <<synced, pend, started, signal, written, faults>>
    /\ UNCHANGED appVars /\ UNCHANGED closeVars

Backoff ==
    /\ pc = "backoff"
    /\ \/ closed /\ DropLaneRemainder /\ pc' = "returned"
       \/ pc' = "dial" /\ UNCHANGED <<lane, counted>>
    /\ UNCHANGED <<synced, giveUp, pend, started, signal, written, faults>>
    /\ UNCHANGED appVars /\ UNCHANGED closeVars /\ UNCHANGED netVars

Loop ==
    \/ Hydrate \/ ReleaseLatch \/ Dial \/ Frame \/ StoreRemote
    \/ Wake \/ FlushSend \/ FlushDone \/ End \/ Backoff

(***************************************************************************)
(* Close                                                                   *)
(***************************************************************************)
CloseSignal ==
    /\ closer = "none" /\ setup.close
    /\ closer' = "signalled" /\ closed' = TRUE
    /\ UNCHANGED <<subscribed, storeOpen, lane, counted>>

\* Close reads connectStarted under connectMu and waits only if it was set.
CloseDecide ==
    /\ closer = "signalled"
    /\ closer' = IF started THEN "join" ELSE "unsub"
    /\ UNCHANGED <<closed, subscribed, storeOpen, lane, counted>>

CloseJoin ==
    /\ closer = "join" /\ pc \in {"none", "returned"}
    /\ closer' = "unsub"
    /\ UNCHANGED <<closed, subscribed, storeOpen, lane, counted>>

CloseUnsubscribe ==
    /\ closer = "unsub"
    /\ closer' = "drain" /\ subscribed' = FALSE
    /\ UNCHANGED <<closed, storeOpen, lane, counted>>

CloseDrain ==
    /\ closer = "drain"
    /\ closer' = "returned" /\ storeOpen' = ~setup.owned
    /\ DropLaneRemainder
    /\ UNCHANGED <<closed, subscribed>>

Close ==
    /\ CloseSignal \/ CloseDecide \/ CloseJoin \/ CloseUnsubscribe \/ CloseDrain
    /\ UNCHANGED <<signal, written, faults>>
    /\ UNCHANGED appVars /\ UNCHANGED loopVars /\ UNCHANGED netVars

(***************************************************************************)
(* The server and other peers, the network, and the process                *)
(***************************************************************************)
Serve ==
    /\ link = "up" /\ up # <<>>
    /\ up' = Tail(up)
    /\ LET f == Head(up)
       IN  IF f.kind = "step1"
             THEN down' = Append(down, Step2(server \ f.set)) /\ UNCHANGED server
             ELSE server' = server \cup f.set /\ UNCHANGED down
    /\ UNCHANGED <<link, lane, signal, accounts, faults>>
    /\ UNCHANGED appVars /\ UNCHANGED loopVars /\ UNCHANGED closeVars

News(r) ==
    /\ r \notin server
    /\ server' = server \cup {r}
    /\ down' = IF link = "up" THEN Append(down, Update({r})) ELSE down
    /\ UNCHANGED <<link, up, lane, signal, accounts, faults>>
    /\ UNCHANGED appVars /\ UNCHANGED loopVars /\ UNCHANGED closeVars

Break ==
    /\ link = "up" /\ Fault
    /\ link' = "broken" /\ up' = <<>> /\ down' = <<>>
    /\ UNCHANGED <<server, lane, signal, accounts>>
    /\ UNCHANGED appVars /\ UNCHANGED loopVars /\ UNCHANGED closeVars

\* The process stops, cleanly after Close or not, and a new one constructs a
\* new Client over an empty document; edits still in their observer are gone.
Restart ==
    /\ Fault
    /\ doc' = {} /\ lane' = {} /\ signal' = FALSE
    /\ flight' = [e \in Edit |-> CASE flight[e] = "done" -> "old"
                                   [] flight[e] \in {"store", "push", "unseen"} -> "gone"
                                   [] OTHER -> flight[e]]
    /\ pc' = "none" /\ synced' = FALSE /\ giveUp' = FALSE /\ pend' = {} /\ started' = FALSE
    /\ closed' = FALSE /\ closer' = "none" /\ subscribed' = TRUE /\ storeOpen' = TRUE
    /\ link' = "none" /\ up' = <<>> /\ down' = <<>>
    /\ UNCHANGED <<store, server, accounts>>

Next ==
    \/ \E e \in Edit : Transact(e) \/ Observe(e)
    \/ Connect \/ Loop \/ Close
    \/ Serve \/ (\E r \in Remote : News(r)) \/ Break \/ Restart

(***************************************************************************)
(* Properties                                                              *)
(***************************************************************************)
\* Types; in particular the lane holds only the application's own edits, so
\* nothing received from the server is echoed back to it.
TypeOK ==
    /\ doc \subseteq Updates /\ store \subseteq Updates /\ server \subseteq Updates
    /\ flight \in [Edit -> {"idle", "store", "push", "done", "unseen", "old", "gone"}]
    /\ lane \subseteq Edit /\ written \subseteq Edit /\ counted \subseteq Updates
    /\ pend \subseteq Updates /\ faults \in 0 .. setup.faults
    /\ pc \in {"none", "hydrate", "failed", "dial", "live", "storing", "flush", "closing",
               "ended", "backoff", "returned"}
    /\ {signal, synced, giveUp, started, closed, subscribed, storeOpen} \subseteq BOOLEAN
    /\ closer \in {"none", "signalled", "join", "unsub", "drain", "returned"}
    /\ link \in {"none", "up", "broken"}

\* With a store, nothing the document learned is lost by a restart: local and
\* remote updates alike are stored, still in their observer, or counted as
\* dropped; an edit whose Transact returned stays stored across restarts; and
\* once hydration is over the document holds all the store has.  A Connect
\* called after Close has begun, when nothing stores, is not covered.
Saved ==
    setup.store /\ ~setup.late =>
      /\ doc \subseteq store \cup counted \cup pend
                      \cup {e \in Edit : flight[e] \in {"store", "unseen"}}
      /\ \A e \in Edit : flight[e] \in {"done", "old"} => e \in store \cup counted
      /\ pc \notin {"none", "hydrate", "failed"} => store \subseteq doc

\* No edit vanishes silently: one the observer has queued is on the lane, was
\* written to a connection, is in the store, or is counted in Stats().Dropped.
Accounted ==
    \A e \in Edit : flight[e] = "done" => e \in lane \cup written \cup store \cup counted

\* Close joins the loop: once it has gone past the join no Connect is running,
\* so no status and no send can follow its return.  A Connect that is called
\* after Close has begun is not covered.
Joined == ~setup.late /\ closer \in {"unsub", "drain", "returned"} => pc \in {"none", "returned"}

\* Whatever was edited offline, in mid-handshake or across restarts and broken
\* links, the document and the server end up equal unless Close intervenes.
Converges == <>[](setup.close \/ doc = server)

\* Close returns, whatever the loop was doing (or the process was restarted).
CloseReturns == closer = "signalled" ~> closer \in {"returned", "none"}
=============================================================================
