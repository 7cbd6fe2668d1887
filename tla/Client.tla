------------------------------- MODULE Client -------------------------------
(***************************************************************************)
(* provider/client: a behaviour is about the path of updates (SyncClient,   *)
(* whose connections carry no token) or about the token (ClientAuth, whose  *)
(* connections carry no updates).                                           *)
(***************************************************************************)
EXTENDS Naturals

CONSTANTS
    Edit,    \* the application's edits
    Remote,  \* updates of other peers
    Setups   \* the clients considered, records of
             \*   part    "sync", "token"
             \*   edits   the edits that are made
             \*   store   is Options.Store or StorePath set?
             \*   owned   StorePath: Close closes the store
             \*   close   does the application call Close?
             \*   late    may Connect be called once Close has begun?
             \*   bad     does the server reject the token?
             \*   pings   may the keepalive's ping be sent?
             \*   faults  bound on what goes wrong

ASSUME ClientAssumption ==
    /\ Edit \cap Remote = {}
    /\ Setups \subseteq [part : {"sync", "token"}, edits : SUBSET Edit, store : BOOLEAN,
                         owned : BOOLEAN, close : BOOLEAN, late : BOOLEAN,
                         bad : BOOLEAN, pings : BOOLEAN, faults : Nat]

VARIABLES
    setup,  \* the one of Setups this behaviour is about
    doc, store, flight, lane, signal, pc, synced, giveUp, pend, started,
    closed, closer, subscribed, storeOpen, link, up, down, server, written, counted, faults,
    at, accepted, srv, token, answers, mishaps

Sync == INSTANCE SyncClient
Token == INSTANCE ClientAuth
           WITH pc <- at, synced <- accepted, down <- answers, faults <- mishaps

syncVars == <<doc, store, flight, lane, signal, pc, synced, giveUp, pend, started, closed, closer,
              subscribed, storeOpen, link, up, down, server, written, counted, faults>>
tokenVars == <<at, accepted, srv, token, answers, mishaps>>
vars == <<setup, syncVars, tokenVars>>

Init == setup \in Setups /\ Sync!Init /\ Token!Init

Syncing == setup.part = "sync"
SyncStep == Syncing /\ Sync!Next /\ UNCHANGED <<setup, tokenVars>>
TokenStep == ~Syncing /\ Token!Next /\ UNCHANGED <<setup, syncVars>>

Next == SyncStep \/ TokenStep

Spec == Init /\ [][Next]_vars

\* Goroutines keep running, the server answers, and the application calls
\* Connect; what goes wrong is bounded by setup.faults.
FairSpec ==
    /\ Spec
    /\ WF_vars(Syncing /\ Sync!Connect /\ UNCHANGED <<setup, tokenVars>>)
    /\ WF_vars(Syncing /\ Sync!Loop /\ UNCHANGED <<setup, tokenVars>>)
    /\ WF_vars(Syncing /\ Sync!Serve /\ UNCHANGED <<setup, tokenVars>>)
    /\ WF_vars(Syncing /\ closer # "none" /\ Sync!Close /\ UNCHANGED <<setup, tokenVars>>)
    /\ \A e \in Edit : WF_vars(Syncing /\ Sync!Observe(e) /\ UNCHANGED <<setup, tokenVars>>)
    /\ WF_vars(~Syncing /\ Token!Session /\ UNCHANGED <<setup, syncVars>>)
    /\ WF_vars(~Syncing /\ Token!Judge /\ UNCHANGED <<setup, syncVars>>)

(***************************************************************************)
(* Properties: those of the parts.                                         *)
(***************************************************************************)

\* No update is lost silently: with a store, nothing the document learned is
\* lost by a restart; and an edit is on the lane, was written to a connection,
\* is in the store, or is counted in Stats().Dropped.
NothingLost == Sync!TypeOK /\ Token!TypeOK /\ Sync!Saved /\ Sync!Accounted

\* The server's rejection of a token is neither hidden from the retry decision
\* by a failing write, before the handshake has completed, nor made up.
RejectionsTrue == Token!UnsyncedNotRetried /\ (~Syncing => Token!NoFalseRejection)

\* Whatever was edited offline, in mid-handshake or across restarts and broken
\* links, document and server end up equal unless Close intervenes; and the
\* client of a good token is always back in a synced session.
Converges == Sync!Converges /\ []<>(Syncing \/ setup.bad \/ (at = "live" /\ accepted))

\* Close returns, whatever the loop was doing, and by then it has joined it.
CloseCompletes == Sync!CloseReturns /\ []Sync!Joined
=============================================================================
