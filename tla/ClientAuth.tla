----------------------------- MODULE ClientAuth -----------------------------
(***************************************************************************)
(* provider/client: a connection that sends Options.Token.  The server     *)
(* pushes its state before it has read the token, then answers a bad one   *)
(* with PermissionDenied and closes with 4401.  The answer is read by the  *)
(* loop's select, by classifyWriteErr after a failed write, or not at all; *)
(* ErrAuthRejected is terminal, every other error is retried.              *)
(***************************************************************************)
EXTENDS Naturals, Sequences

VARIABLES
    setup,   \* setup.bad: does the server reject the token?  setup.pings: may the
             \* keepalive's ping be sent?  setup.faults: bound on queries, unrelated
             \* closes and answers lost to a reset
    pc,      \* the loop goroutine
    synced,  \* session.synced
    srv,     \* the server's end: "none", "open" or "closed"
    token,   \* has the token been written and not yet been judged?
    down,    \* frames, and last a read error, not yet taken from the read pump
    faults

vars == <<pc, synced, srv, token, down, faults>>

Rejections == {"denied", "close4401"}
Frames == {"step1", "step2", "authed", "query"}
ReadErrors == {"close1001", "reset"}

Init ==
    /\ pc = "dial" /\ synced = FALSE /\ srv = "none" /\ token = FALSE
    /\ down = <<>> /\ faults = 0

Fault == faults < setup.faults /\ faults' = faults + 1

Dial ==
    /\ pc = "dial"
    /\ pc' = "token" /\ synced' = FALSE /\ srv' = "open" /\ token' = FALSE
    /\ down' = <<"step1", "step2">>
    /\ UNCHANGED faults

Upgrade == IF synced THEN "retry" ELSE "classify"

\* A data write: it may fail, or seem to succeed, once the server has closed;
\* a failure goes to classifyWriteErr, which returns at once when synced.
Write(next) ==
    \/ pc' = next
    \/ srv = "closed" /\ pc' = Upgrade

SendToken ==
    /\ pc = "token" /\ Write("hello")
    /\ token' = (pc' = "hello" /\ srv = "open")
    /\ UNCHANGED <<synced, srv, down, faults>>

SendHello ==
    /\ pc = "hello" /\ Write("live")
    /\ UNCHANGED <<synced, srv, token, down, faults>>

\* handleFrame and the select's readErr case.
Frame ==
    /\ pc = "live" /\ down # <<>>
    /\ down' = Tail(down)
    /\ LET f == Head(down)
       IN  \/ f \in {"step1", "query"} /\ Write("live") /\ UNCHANGED synced
           \/ f = "step2" /\ synced' = TRUE /\ UNCHANGED pc
           \/ f = "authed" /\ UNCHANGED <<pc, synced>>
           \/ f \in Rejections /\ pc' = "terminal" /\ UNCHANGED synced
           \/ f \in ReadErrors /\ pc' = "retry" /\ UNCHANGED synced
    /\ UNCHANGED <<srv, token, faults>>

\* flushLane: an application's edit or presence, at any time.
Flush ==
    /\ pc = "live" /\ Write("live")
    /\ UNCHANGED <<synced, srv, token, down, faults>>

\* The ping ticker: WriteControl, whose error is returned as it is.
Ping ==
    /\ setup.pings /\ pc = "live"
    /\ \/ pc' = "live"
       \/ srv = "closed" /\ pc' = "retry"
    /\ UNCHANGED <<synced, srv, token, down, faults>>

ClassifyFirst ==
    /\ pc = "classify" /\ down # <<>>
    /\ down' = Tail(down)
    /\ pc' = IF Head(down) \in Rejections THEN "terminal" ELSE "retry"
    /\ UNCHANGED <<synced, srv, token, faults>>

\* classifyWriteErr drains the read pump until a rejection or another read
\* error.  (A connection whose write failed has a read error to find, so the
\* deadline of the drain, which bounds how long that takes, is left out.)
Classify ==
    /\ pc = "classify" /\ down # <<>>
    /\ down' = Tail(down)
    /\ LET f == Head(down)
       IN  pc' = CASE f \in Rejections -> "terminal"
                   [] f \in ReadErrors -> "retry"
                   [] OTHER -> "classify"
    /\ UNCHANGED <<synced, srv, token, faults>>

\* runReconnectLoop: status, backoff, and a new attempt with the same token.
Retry ==
    /\ pc = "retry"
    /\ pc' = "dial" /\ srv' = "none" /\ token' = FALSE /\ down' = <<>>
    /\ UNCHANGED <<synced, faults>>

\* The server reads the token.
Judge ==
    /\ srv = "open" /\ token
    /\ token' = FALSE
    /\ IF setup.bad
         THEN srv' = "closed" /\ down' = down \o <<"denied", "close4401">>
         ELSE srv' = "open" /\ down' = Append(down, "authed")
    /\ UNCHANGED <<pc, synced, faults>>

\* The server asks for presence, as any y-websocket peer may.
Query ==
    /\ srv = "open" /\ Fault
    /\ down' = Append(down, "query")
    /\ UNCHANGED <<pc, synced, srv, token>>

\* The server goes away for a reason of its own.
Quit ==
    /\ srv = "open" /\ Fault
    /\ srv' = "closed" /\ down' = Append(down, "close1001")
    /\ UNCHANGED <<pc, synced, token>>

\* A reset discards the unread end of what the server sent.
Reset ==
    /\ srv = "closed" /\ down # <<>> /\ Fault
    /\ \E n \in 0 .. Len(down) - 1 : down' = Append(SubSeq(down, 1, n), "reset")
    /\ UNCHANGED <<pc, synced, srv, token>>

Session == SendToken \/ SendHello \/ Frame \/ Classify \/ Retry \/ Dial

Next == Session \/ Flush \/ Ping \/ Judge \/ Query \/ Quit \/ Reset

(***************************************************************************)
(* Properties                                                              *)
(***************************************************************************)
TypeOK ==
    /\ pc \in {"dial", "token", "hello", "live", "classify", "retry", "terminal"}
    /\ synced \in BOOLEAN /\ srv \in {"none", "open", "closed"} /\ token \in BOOLEAN
    /\ down \in Seq(Frames \cup Rejections \cup ReadErrors) /\ faults \in 0 .. setup.faults

Rejected == \E k \in 1 .. Len(down) : down[k] \in Rejections

\* "Reported once, never retried": an attempt is not followed by another while
\* the rejection of its token has reached the client's side of the connection.
\* Only before this connection's handshake has completed, which is when
\* classifyWriteErr looks, and with no ping, whose error it does not see.
UnsyncedNotRetried == pc = "retry" /\ ~synced /\ ~setup.pings => ~Rejected

\* A good token is never reported as rejected, whatever else goes wrong.
NoFalseRejection == pc = "terminal" => setup.bad
=============================================================================
