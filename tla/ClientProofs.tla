---------------------------- MODULE ClientProofs ----------------------------
(***************************************************************************)
(* The safety of provider/client for any edits, any updates of other peers *)
(* and any number of faults.  Saved and Accounted are not inductive: what  *)
(* is safe to drop depends on where the loop and Close stand, which Places *)
(* states, and on what an observer has already done with its edit, which   *)
(* Kept states.  For the token, Answers says in which order the frames of  *)
(* a connection can come.                                                  *)
(***************************************************************************)
EXTENDS Client, Sequences, TLAPS

USE SMTT(30), ZenonT(30)
USE DEF Sync!appVars, Sync!netVars, Sync!closeVars, Sync!loopVars, Sync!accounts

Wire == [kind : {"step1", "step2", "update"}, set : SUBSET Sync!Updates]
Steps == {"none", "hydrate", "failed", "dial", "live", "storing", "flush", "closing",
          "ended", "backoff", "returned"}
Closers == {"none", "signalled", "join", "unsub", "drain", "returned"}
Flights == {"idle", "store", "push", "done", "unseen", "old", "gone"}

Setup ==
    setup \in [part : {"sync", "token"}, edits : SUBSET Edit, store : BOOLEAN, owned : BOOLEAN,
               close : BOOLEAN, late : BOOLEAN, bad : BOOLEAN, pings : BOOLEAN, faults : Nat]

\* The documents, the lane and the wire hold updates.
Contents ==
    /\ doc \subseteq Sync!Updates /\ store \subseteq Sync!Updates /\ server \subseteq Sync!Updates
    /\ lane \subseteq Edit /\ written \subseteq Edit /\ counted \subseteq Sync!Updates
    /\ pend \subseteq Sync!Updates /\ faults \in 0 .. setup.faults
    /\ up \in Seq(Wire) /\ down \in Seq(Wire) /\ link \in {"none", "up", "broken"}

Flags ==
    /\ signal \in BOOLEAN /\ synced \in BOOLEAN /\ giveUp \in BOOLEAN /\ started \in BOOLEAN
    /\ closed \in BOOLEAN /\ subscribed \in BOOLEAN /\ storeOpen \in BOOLEAN

\* Where the loop and Close can stand together.
Places ==
    /\ pc \in Steps /\ closer \in Closers
    /\ closed <=> closer # "none"
    /\ started <=> pc # "none"
    /\ subscribed <=> closer \notin {"drain", "returned"}
    /\ ~setup.late /\ closer \in {"unsub", "drain", "returned"} => pc \in {"none", "returned"}

\* What an observer has done with its edit, and the loop with what it received.
Kept ==
    /\ flight \in [Edit -> Flights]
    /\ \A e \in Edit : flight[e] \in {"store", "push", "done", "unseen"} => e \in doc
    /\ setup.store => \A e \in Edit : flight[e] \in {"push", "done", "old"} => e \in store \cup counted
    /\ pend \subseteq doc /\ (pc # "storing" => pend = {})
    /\ pc \notin {"none", "hydrate", "failed"} => store \subseteq doc

\* Everything in the document is on its way to the store.
Covered ==
    setup.store /\ ~setup.late =>
        doc \subseteq store \cup counted \cup pend
                      \cup {e \in Edit : flight[e] \in {"store", "unseen"}}

SyncInv == Contents /\ Flags /\ Places /\ Kept /\ Covered /\ Sync!Accounted

TokenTypes ==
    /\ at \in {"dial", "token", "hello", "live", "classify", "retry", "terminal"}
    /\ accepted \in BOOLEAN /\ token \in BOOLEAN /\ srv \in {"none", "open", "closed"}
    /\ answers \in Seq(Token!Frames \cup Token!Rejections \cup Token!ReadErrors)
    /\ mishaps \in 0 .. setup.faults

\* A read error is the last thing a connection gives, and rejections and read
\* errors come only from a server that has closed its end.
Answers ==
    /\ at \in {"retry", "classify"} => srv = "closed"
    /\ srv # "closed" => \A k \in 1 .. Len(answers) : answers[k] \in Token!Frames
    /\ \A k \in 1 .. Len(answers) : answers[k] \in Token!ReadErrors => k = Len(answers)
    /\ ~setup.bad => \A k \in 1 .. Len(answers) : answers[k] \notin Token!Rejections
    /\ at = "terminal" => setup.bad

TokenInv == TokenTypes /\ Answers /\ Token!UnsyncedNotRetried

IInv == Setup /\ SyncInv /\ TokenInv

----------------------------------------------------------------------------
LEMMA InitInv == Init => IInv
<1> SUFFICES ASSUME Init PROVE IInv
  OBVIOUS
<1>1. Setup
  BY ClientAssumption DEF Init, Setup
<1>2. Contents
  <2>1. <<>> \in Seq(Wire)
    OBVIOUS
  <2> QED BY <1>1, <2>1 DEF Init, Sync!Init, Contents, Setup
<1>3. Flags
  BY Zenon DEF Init, Sync!Init, Flags
<1>4. Places
  BY DEF Init, Sync!Init, Places, Steps, Closers
<1>5. Kept
  BY DEF Init, Sync!Init, Kept, Flights
<1>6. Covered /\ Sync!Accounted
  BY DEF Init, Sync!Init, Covered, Sync!Accounted
<1>7. TokenTypes
  <2>1. <<>> \in Seq(Token!Frames \cup Token!Rejections \cup Token!ReadErrors)
    OBVIOUS
  <2>2. accepted \in BOOLEAN /\ token \in BOOLEAN
    BY Zenon DEF Init, Token!Init
  <2> QED BY <1>1, <2>1, <2>2 DEF Init, Token!Init, TokenTypes, Setup
<1>8. Answers /\ Token!UnsyncedNotRetried
  BY DEF Init, Token!Init, Answers, Token!UnsyncedNotRetried
<1> QED BY <1>1, <1>2, <1>3, <1>4, <1>5, <1>6, <1>7, <1>8 DEF IInv, SyncInv, TokenInv

\* The frames on the wire.
LEMMA WireOps ==
    ASSUME NEW s \in Seq(Wire)
    PROVE  /\ <<>> \in Seq(Wire) /\ Len(s) \in Nat
           /\ s # <<>> => Head(s) \in Wire /\ Tail(s) \in Seq(Wire)
           /\ \A f \in Wire : Append(s, f) \in Seq(Wire)
           /\ \A k \in 1 .. Len(s) : s[k] \in Wire
  OBVIOUS

LEMMA WireFrames ==
    ASSUME NEW us \in SUBSET Sync!Updates
    PROVE  {Sync!Step1(us), Sync!Step2(us), Sync!Update(us)} \subseteq Wire
  BY DEF Wire, Sync!Step1, Sync!Step2, Sync!Update

LEMMA WireSets == \A f \in Wire : f.set \subseteq Sync!Updates
  BY DEF Wire

\* An edit.
LEMMA TransactInv ==
    ASSUME Setup, SyncInv, UNCHANGED setup, NEW e \in Edit, Sync!Transact(e)
    PROVE  SyncInv'
<1>0. Contents /\ Flags /\ Places /\ Kept /\ Covered /\ Sync!Accounted
  BY DEF SyncInv
<1>1. Contents'
  BY <1>0 DEF Contents, Setup, Sync!Updates, Sync!Transact
<1>2. Flags'
  BY <1>0, Zenon DEF Flags, Setup, Sync!Transact
<1>3. Places'
  BY <1>0 DEF Places, Setup, Flags, Steps, Closers, Sync!Transact
<1>4. Kept'
  BY <1>0 DEF Kept, Flights, Setup, Contents, Places, Sync!Transact
<1>5. Covered'
  BY <1>0 DEF Covered, Kept, Places, Setup, Contents, Sync!Transact
<1>6. Sync!Accounted'
  BY <1>0 DEF Sync!Accounted, Kept, Sync!Transact
<1> QED BY <1>1, <1>2, <1>3, <1>4, <1>5, <1>6 DEF SyncInv

LEMMA StoreEditInv ==
    ASSUME Setup, SyncInv, UNCHANGED setup, NEW e \in Edit, Sync!StoreEdit(e)
    PROVE  SyncInv'
<1>0. Contents /\ Flags /\ Places /\ Kept /\ Covered /\ Sync!Accounted
  BY DEF SyncInv
<1>1. Contents'
  BY <1>0 DEF Contents, Setup, Sync!Updates, Sync!StoreEdit, Sync!Fault, Sync!NoFault
<1>2. Flags'
  BY <1>0, Zenon DEF Flags, Setup, Sync!StoreEdit, Sync!Fault, Sync!NoFault
<1>3. Places'
  BY <1>0 DEF Places, Setup, Flags, Steps, Closers, Sync!StoreEdit, Sync!Fault, Sync!NoFault
<1>4. Kept'
  BY <1>0 DEF Kept, Flights, Setup, Contents, Places, Sync!StoreEdit, Sync!Fault, Sync!NoFault
<1>5. Covered'
  BY <1>0 DEF Covered, Kept, Places, Setup, Contents, Sync!StoreEdit, Sync!Fault, Sync!NoFault
<1>6. Sync!Accounted'
  BY <1>0 DEF Sync!Accounted, Kept, Sync!StoreEdit, Sync!Fault, Sync!NoFault
<1> QED BY <1>1, <1>2, <1>3, <1>4, <1>5, <1>6 DEF SyncInv

LEMMA PushEditInv ==
    ASSUME Setup, SyncInv, UNCHANGED setup, NEW e \in Edit, Sync!PushEdit(e)
    PROVE  SyncInv'
<1>0. Contents /\ Flags /\ Places /\ Kept /\ Covered /\ Sync!Accounted
  BY DEF SyncInv
<1>1. Contents'
  BY <1>0 DEF Contents, Setup, Sync!Updates, Sync!PushEdit
<1>2. Flags'
  BY <1>0, Zenon DEF Flags, Setup, Sync!PushEdit
<1>3. Places'
  BY <1>0 DEF Places, Setup, Flags, Steps, Closers, Sync!PushEdit
<1>4. Kept'
  BY <1>0 DEF Kept, Flights, Setup, Contents, Places, Sync!PushEdit
<1>5. Covered'
  BY <1>0 DEF Covered, Kept, Places, Setup, Contents, Sync!PushEdit
<1>6. Sync!Accounted'
  BY <1>0 DEF Sync!Accounted, Kept, Sync!PushEdit
<1> QED BY <1>1, <1>2, <1>3, <1>4, <1>5, <1>6 DEF SyncInv

\* Connect and its loop.
LEMMA ConnectInv ==
    ASSUME Setup, SyncInv, UNCHANGED setup, Sync!Connect
    PROVE  SyncInv'
<1>0. Contents /\ Flags /\ Places /\ Kept /\ Covered /\ Sync!Accounted
  BY DEF SyncInv
<1>1. Contents'
  BY <1>0 DEF Contents, Setup, Sync!Updates, Sync!Connect
<1>2. Flags'
  BY <1>0, Zenon DEF Flags, Setup, Sync!Connect
<1>3. Places'
  BY <1>0 DEF Places, Setup, Flags, Steps, Closers, Sync!Connect
<1>4. Kept'
  BY <1>0 DEF Kept, Flights, Setup, Contents, Places, Sync!Connect
<1>5. Covered'
  BY <1>0 DEF Covered, Kept, Places, Setup, Contents, Sync!Connect
<1>6. Sync!Accounted'
  BY <1>0 DEF Sync!Accounted, Kept, Sync!Connect
<1> QED BY <1>1, <1>2, <1>3, <1>4, <1>5, <1>6 DEF SyncInv

LEMMA HydrateInv ==
    ASSUME Setup, SyncInv, UNCHANGED setup, Sync!Hydrate
    PROVE  SyncInv'
<1>0. Contents /\ Flags /\ Places /\ Kept /\ Covered /\ Sync!Accounted
  BY DEF SyncInv
<1>1. Contents'
  BY <1>0 DEF Contents, Setup, Sync!Updates, Sync!Hydrate, Sync!Fault, Sync!NoFault
<1>2. Flags'
  BY <1>0, Zenon DEF Flags, Setup, Sync!Hydrate, Sync!Fault, Sync!NoFault
<1>3. Places'
  BY <1>0 DEF Places, Setup, Flags, Steps, Closers, Sync!Hydrate, Sync!Fault, Sync!NoFault
<1>4. Kept'
  BY <1>0 DEF Kept, Flights, Setup, Contents, Places, Sync!Hydrate, Sync!Fault, Sync!NoFault
<1>5. Covered'
  BY <1>0 DEF Covered, Kept, Places, Setup, Contents, Sync!Hydrate, Sync!Fault, Sync!NoFault
<1>6. Sync!Accounted'
  BY <1>0 DEF Sync!Accounted, Kept, Sync!Hydrate, Sync!Fault, Sync!NoFault
<1> QED BY <1>1, <1>2, <1>3, <1>4, <1>5, <1>6 DEF SyncInv

LEMMA ReleaseLatchInv ==
    ASSUME Setup, SyncInv, UNCHANGED setup, Sync!ReleaseLatch
    PROVE  SyncInv'
<1>0. Contents /\ Flags /\ Places /\ Kept /\ Covered /\ Sync!Accounted
  BY DEF SyncInv
<1>1. Contents'
  BY <1>0 DEF Contents, Setup, Sync!Updates, Sync!ReleaseLatch
<1>2. Flags'
  BY <1>0, Zenon DEF Flags, Setup, Sync!ReleaseLatch
<1>3. Places'
  BY <1>0 DEF Places, Setup, Flags, Steps, Closers, Sync!ReleaseLatch
<1>4. Kept'
  BY <1>0 DEF Kept, Flights, Setup, Contents, Places, Sync!ReleaseLatch
<1>5. Covered'
  BY <1>0 DEF Covered, Kept, Places, Setup, Contents, Sync!ReleaseLatch
<1>6. Sync!Accounted'
  BY <1>0 DEF Sync!Accounted, Kept, Sync!ReleaseLatch
<1> QED BY <1>1, <1>2, <1>3, <1>4, <1>5, <1>6 DEF SyncInv

LEMMA DialInv ==
    ASSUME Setup, SyncInv, UNCHANGED setup, Sync!Dial
    PROVE  SyncInv'
<1>0. Contents /\ Flags /\ Places /\ Kept /\ Covered /\ Sync!Accounted
  BY DEF SyncInv
<1>1. Contents'
  <2>1. {Sync!Step1(doc), Sync!Step1(server), Sync!Step2(server)} \subseteq Wire
    BY <1>0, WireFrames DEF Contents
  <2>2. <<Sync!Step1(doc)>> \in Seq(Wire) /\ <<Sync!Step1(server), Sync!Step2(server)>> \in Seq(Wire)
    BY <2>1
  <2>3. up' \in Seq(Wire) /\ down' \in Seq(Wire) /\ link' \in {"none", "up", "broken"}
    BY <1>0, <2>2, ZenonT(60) DEF Contents, Sync!Dial
  <2> QED BY <1>0, <2>3 DEF Contents, Setup, Sync!Dial, Sync!Fault, Sync!NoFault
<1>2. Flags'
  BY <1>0, Zenon DEF Flags, Setup, Sync!Dial, Sync!Fault, Sync!NoFault
<1>3. Places'
  BY <1>0 DEF Places, Setup, Flags, Steps, Closers, Sync!Dial, Sync!Fault, Sync!NoFault
<1>4. Kept'
  BY <1>0 DEF Kept, Flights, Setup, Contents, Places, Sync!Dial, Sync!Fault, Sync!NoFault
<1>5. Covered'
  BY <1>0 DEF Covered, Kept, Places, Setup, Contents, Sync!Dial, Sync!Fault, Sync!NoFault
<1>6. Sync!Accounted'
  BY <1>0 DEF Sync!Accounted, Kept, Sync!Dial, Sync!Fault, Sync!NoFault
<1> QED BY <1>1, <1>2, <1>3, <1>4, <1>5, <1>6 DEF SyncInv

LEMMA FrameInv ==
    ASSUME Setup, SyncInv, UNCHANGED setup, Sync!Frame
    PROVE  SyncInv'
<1>0. Contents /\ Flags /\ Places /\ Kept /\ Covered /\ Sync!Accounted
  BY DEF SyncInv
<1>1. Contents'
  <2>1. Head(down) \in Wire /\ Tail(down) \in Seq(Wire) /\ Head(down).set \subseteq Sync!Updates
    BY <1>0, WireOps, WireSets DEF Contents, Sync!Frame
  <2>2. Sync!Step2(doc \ Head(down).set) \in Wire
    BY <1>0, WireFrames DEF Contents
  <2>3. down' \in Seq(Wire) /\ up' \in Seq(Wire)
    BY <1>0, <2>1, <2>2, WireOps DEF Contents, Sync!Frame
  <2> QED BY <1>0, <2>1, <2>3 DEF Contents, Sync!Frame
<1>2. Flags'
  BY <1>0, Zenon DEF Flags, Setup, Sync!Frame
<1>3. Places'
  BY <1>0 DEF Places, Setup, Flags, Steps, Closers, Sync!Frame
<1>4. Kept'
  BY <1>0 DEF Kept, Flights, Setup, Contents, Places, Sync!Frame
<1>5. Covered'
  BY <1>0 DEF Covered, Kept, Places, Setup, Contents, Sync!Frame
<1>6. Sync!Accounted'
  BY <1>0 DEF Sync!Accounted, Kept, Sync!Frame
<1> QED BY <1>1, <1>2, <1>3, <1>4, <1>5, <1>6 DEF SyncInv

LEMMA StoreRemoteInv ==
    ASSUME Setup, SyncInv, UNCHANGED setup, Sync!StoreRemote
    PROVE  SyncInv'
<1>0. Contents /\ Flags /\ Places /\ Kept /\ Covered /\ Sync!Accounted
  BY DEF SyncInv
<1>1. Contents'
  BY <1>0 DEF Contents, Setup, Sync!Updates, Sync!StoreRemote, Sync!Fault, Sync!NoFault
<1>2. Flags'
  BY <1>0, Zenon DEF Flags, Setup, Sync!StoreRemote, Sync!Fault, Sync!NoFault
<1>3. Places'
  BY <1>0 DEF Places, Setup, Flags, Steps, Closers, Sync!StoreRemote, Sync!Fault, Sync!NoFault
<1>4. Kept'
  BY <1>0 DEF Kept, Flights, Setup, Contents, Places, Sync!StoreRemote, Sync!Fault, Sync!NoFault
<1>5. Covered'
  BY <1>0 DEF Covered, Kept, Places, Setup, Contents, Sync!StoreRemote, Sync!Fault, Sync!NoFault
<1>6. Sync!Accounted'
  BY <1>0 DEF Sync!Accounted, Kept, Sync!StoreRemote, Sync!Fault, Sync!NoFault
<1> QED BY <1>1, <1>2, <1>3, <1>4, <1>5, <1>6 DEF SyncInv

LEMMA WakeInv ==
    ASSUME Setup, SyncInv, UNCHANGED setup, Sync!Wake
    PROVE  SyncInv'
<1>0. Contents /\ Flags /\ Places /\ Kept /\ Covered /\ Sync!Accounted
  BY DEF SyncInv
<1>1. Contents'
  BY <1>0 DEF Contents, Setup, Sync!Updates, Sync!Wake
<1>2. Flags'
  BY <1>0, Zenon DEF Flags, Setup, Sync!Wake
<1>3. Places'
  BY <1>0 DEF Places, Setup, Flags, Steps, Closers, Sync!Wake
<1>4. Kept'
  BY <1>0 DEF Kept, Flights, Setup, Contents, Places, Sync!Wake
<1>5. Covered'
  BY <1>0 DEF Covered, Kept, Places, Setup, Contents, Sync!Wake
<1>6. Sync!Accounted'
  BY <1>0 DEF Sync!Accounted, Kept, Sync!Wake
<1> QED BY <1>1, <1>2, <1>3, <1>4, <1>5, <1>6 DEF SyncInv

LEMMA FlushSendInv ==
    ASSUME Setup, SyncInv, UNCHANGED setup, Sync!FlushSend
    PROVE  SyncInv'
<1>0. Contents /\ Flags /\ Places /\ Kept /\ Covered /\ Sync!Accounted
  BY DEF SyncInv
<1>1. Contents'
  <2>1. Sync!Update(lane) \in Wire
    BY <1>0, WireFrames DEF Contents, Sync!Updates
  <2>2. up' \in Seq(Wire)
    BY <1>0, <2>1, WireOps DEF Contents, Sync!FlushSend
  <2> QED BY <1>0, <2>2 DEF Contents, Sync!Updates, Sync!FlushSend, Sync!Undeliverable
<1>2. Flags'
  BY <1>0, Zenon DEF Flags, Setup, Sync!FlushSend, Sync!Undeliverable
<1>3. Places'
  BY <1>0 DEF Places, Setup, Flags, Steps, Closers, Sync!FlushSend, Sync!Undeliverable
<1>4. Kept'
  BY <1>0 DEF Kept, Flights, Setup, Contents, Places, Sync!FlushSend, Sync!Undeliverable
<1>5. Covered'
  BY <1>0 DEF Covered, Kept, Places, Setup, Contents, Sync!FlushSend, Sync!Undeliverable
<1>6. Sync!Accounted'
  BY <1>0 DEF Sync!Accounted, Kept, Sync!FlushSend, Sync!Undeliverable
<1> QED BY <1>1, <1>2, <1>3, <1>4, <1>5, <1>6 DEF SyncInv

LEMMA FlushDoneInv ==
    ASSUME Setup, SyncInv, UNCHANGED setup, Sync!FlushDone
    PROVE  SyncInv'
<1>0. Contents /\ Flags /\ Places /\ Kept /\ Covered /\ Sync!Accounted
  BY DEF SyncInv
<1>1. Contents'
  BY <1>0 DEF Contents, Setup, Sync!Updates, Sync!FlushDone
<1>2. Flags'
  BY <1>0, Zenon DEF Flags, Setup, Sync!FlushDone
<1>3. Places'
  BY <1>0 DEF Places, Setup, Flags, Steps, Closers, Sync!FlushDone
<1>4. Kept'
  BY <1>0 DEF Kept, Flights, Setup, Contents, Places, Sync!FlushDone
<1>5. Covered'
  BY <1>0 DEF Covered, Kept, Places, Setup, Contents, Sync!FlushDone
<1>6. Sync!Accounted'
  BY <1>0 DEF Sync!Accounted, Kept, Sync!FlushDone
<1> QED BY <1>1, <1>2, <1>3, <1>4, <1>5, <1>6 DEF SyncInv

LEMMA EndInv ==
    ASSUME Setup, SyncInv, UNCHANGED setup, Sync!End
    PROVE  SyncInv'
<1>0. Contents /\ Flags /\ Places /\ Kept /\ Covered /\ Sync!Accounted
  BY DEF SyncInv
<1>1. Contents'
  <2>1. server' \subseteq Sync!Updates
    <3>1. \A k \in 1 .. Len(up) : up[k].set \subseteq Sync!Updates
      BY <1>0, WireOps, WireSets DEF Contents
    <3>2. PICK n \in 0 .. Len(up) :
            server' = server \cup UNION {up[k].set : k \in {j \in 1 .. n : up[j].kind # "step1"}}
      BY DEF Sync!End
    <3>3. 1 .. n \subseteq 1 .. Len(up)
      BY <1>0, WireOps DEF Contents
    <3> QED BY <1>0, <3>1, <3>2, <3>3 DEF Contents
  <2>2. up' \in Seq(Wire) /\ down' \in Seq(Wire)
    BY DEF Sync!End
  <2> QED BY <1>0, <2>1, <2>2
          DEF Contents, Sync!Updates, Sync!End, Sync!DropLaneRemainder, Sync!Undeliverable
<1>2. Flags'
  BY <1>0, Zenon DEF Flags, Setup, Sync!End, Sync!DropLaneRemainder, Sync!Undeliverable
<1>3. Places'
  BY <1>0 DEF Places, Setup, Flags, Steps, Closers, Sync!End, Sync!DropLaneRemainder, Sync!Undeliverable
<1>4. Kept'
  BY <1>0 DEF Kept, Flights, Setup, Contents, Places, Sync!End, Sync!DropLaneRemainder, Sync!Undeliverable
<1>5. Covered'
  BY <1>0 DEF Covered, Kept, Places, Setup, Contents, Sync!End, Sync!DropLaneRemainder, Sync!Undeliverable
<1>6. Sync!Accounted'
  BY <1>0 DEF Sync!Accounted, Kept, Sync!End, Sync!DropLaneRemainder, Sync!Undeliverable
<1> QED BY <1>1, <1>2, <1>3, <1>4, <1>5, <1>6 DEF SyncInv

LEMMA BackoffInv ==
    ASSUME Setup, SyncInv, UNCHANGED setup, Sync!Backoff
    PROVE  SyncInv'
<1>0. Contents /\ Flags /\ Places /\ Kept /\ Covered /\ Sync!Accounted
  BY DEF SyncInv
<1>1. Contents'
  BY <1>0 DEF Contents, Setup, Sync!Updates, Sync!Backoff, Sync!DropLaneRemainder, Sync!Undeliverable
<1>2. Flags'
  BY <1>0, Zenon DEF Flags, Setup, Sync!Backoff, Sync!DropLaneRemainder, Sync!Undeliverable
<1>3. Places'
  BY <1>0 DEF Places, Setup, Flags, Steps, Closers, Sync!Backoff, Sync!DropLaneRemainder, Sync!Undeliverable
<1>4. Kept'
  BY <1>0 DEF Kept, Flights, Setup, Contents, Places, Sync!Backoff, Sync!DropLaneRemainder, Sync!Undeliverable
<1>5. Covered'
  BY <1>0 DEF Covered, Kept, Places, Setup, Contents, Sync!Backoff, Sync!DropLaneRemainder, Sync!Undeliverable
<1>6. Sync!Accounted'
  BY <1>0 DEF Sync!Accounted, Kept, Sync!Backoff, Sync!DropLaneRemainder, Sync!Undeliverable
<1> QED BY <1>1, <1>2, <1>3, <1>4, <1>5, <1>6 DEF SyncInv

\* Close.
LEMMA CloseInv ==
    ASSUME Setup, SyncInv, UNCHANGED setup, Sync!Close
    PROVE  SyncInv'
<1>0. Contents /\ Flags /\ Places /\ Kept /\ Covered /\ Sync!Accounted
  BY DEF SyncInv
<1>1. Contents'
  BY <1>0 DEF Contents, Setup, Sync!Updates, Sync!Close, Sync!CloseSignal, Sync!CloseDecide, Sync!CloseJoin, Sync!CloseUnsubscribe, Sync!CloseDrain, Sync!DropLaneRemainder, Sync!Undeliverable
<1>2. Flags'
  BY <1>0, Zenon DEF Flags, Setup, Sync!Close, Sync!CloseSignal, Sync!CloseDecide, Sync!CloseJoin, Sync!CloseUnsubscribe, Sync!CloseDrain, Sync!DropLaneRemainder, Sync!Undeliverable
<1>3. Places'
  BY <1>0 DEF Places, Setup, Flags, Steps, Closers, Sync!Close, Sync!CloseSignal, Sync!CloseDecide, Sync!CloseJoin, Sync!CloseUnsubscribe, Sync!CloseDrain, Sync!DropLaneRemainder, Sync!Undeliverable
<1>4. Kept'
  BY <1>0 DEF Kept, Flights, Setup, Contents, Places, Sync!Close, Sync!CloseSignal, Sync!CloseDecide, Sync!CloseJoin, Sync!CloseUnsubscribe, Sync!CloseDrain, Sync!DropLaneRemainder, Sync!Undeliverable
<1>5. Covered'
  BY <1>0 DEF Covered, Kept, Places, Setup, Contents, Sync!Close, Sync!CloseSignal, Sync!CloseDecide, Sync!CloseJoin, Sync!CloseUnsubscribe, Sync!CloseDrain, Sync!DropLaneRemainder, Sync!Undeliverable
<1>6. Sync!Accounted'
  BY <1>0 DEF Sync!Accounted, Kept, Sync!Close, Sync!CloseSignal, Sync!CloseDecide, Sync!CloseJoin, Sync!CloseUnsubscribe, Sync!CloseDrain, Sync!DropLaneRemainder, Sync!Undeliverable
<1> QED BY <1>1, <1>2, <1>3, <1>4, <1>5, <1>6 DEF SyncInv

\* The server, the network and the process.
LEMMA ServeInv ==
    ASSUME Setup, SyncInv, UNCHANGED setup, Sync!Serve
    PROVE  SyncInv'
<1>0. Contents /\ Flags /\ Places /\ Kept /\ Covered /\ Sync!Accounted
  BY DEF SyncInv
<1>1. Contents'
  <2>1. Head(up) \in Wire /\ Tail(up) \in Seq(Wire) /\ Head(up).set \subseteq Sync!Updates
    BY <1>0, WireOps, WireSets DEF Contents, Sync!Serve
  <2>2. Sync!Step2(server \ Head(up).set) \in Wire
    BY <1>0, WireFrames DEF Contents
  <2>3. down' \in Seq(Wire) /\ up' \in Seq(Wire)
    BY <1>0, <2>1, <2>2, WireOps DEF Contents, Sync!Serve
  <2> QED BY <1>0, <2>1, <2>3 DEF Contents, Sync!Serve
<1>2. Flags'
  BY <1>0, Zenon DEF Flags, Setup, Sync!Serve
<1>3. Places'
  BY <1>0 DEF Places, Setup, Flags, Steps, Closers, Sync!Serve
<1>4. Kept'
  BY <1>0 DEF Kept, Flights, Setup, Contents, Places, Sync!Serve
<1>5. Covered'
  BY <1>0 DEF Covered, Kept, Places, Setup, Contents, Sync!Serve
<1>6. Sync!Accounted'
  BY <1>0 DEF Sync!Accounted, Kept, Sync!Serve
<1> QED BY <1>1, <1>2, <1>3, <1>4, <1>5, <1>6 DEF SyncInv

LEMMA NewsInv ==
    ASSUME Setup, SyncInv, UNCHANGED setup, NEW r \in Remote, Sync!News(r)
    PROVE  SyncInv'
<1>0. Contents /\ Flags /\ Places /\ Kept /\ Covered /\ Sync!Accounted
  BY DEF SyncInv
<1>1. Contents'
  <2>1. {r} \subseteq Sync!Updates
    BY DEF Sync!Updates
  <2>2. down' \in Seq(Wire)
    BY <1>0, <2>1, WireOps, WireFrames DEF Contents, Sync!News
  <2> QED BY <1>0, <2>1, <2>2 DEF Contents, Sync!News
<1>2. Flags'
  BY <1>0, Zenon DEF Flags, Setup, Sync!News
<1>3. Places'
  BY <1>0 DEF Places, Setup, Flags, Steps, Closers, Sync!News
<1>4. Kept'
  BY <1>0 DEF Kept, Flights, Setup, Contents, Places, Sync!News
<1>5. Covered'
  BY <1>0 DEF Covered, Kept, Places, Setup, Contents, Sync!News
<1>6. Sync!Accounted'
  BY <1>0 DEF Sync!Accounted, Kept, Sync!News
<1> QED BY <1>1, <1>2, <1>3, <1>4, <1>5, <1>6 DEF SyncInv

LEMMA BreakInv ==
    ASSUME Setup, SyncInv, UNCHANGED setup, Sync!Break
    PROVE  SyncInv'
<1>0. Contents /\ Flags /\ Places /\ Kept /\ Covered /\ Sync!Accounted
  BY DEF SyncInv
<1>1. Contents'
  BY <1>0 DEF Contents, Setup, Sync!Updates, Sync!Break, Sync!Fault
<1>2. Flags'
  BY <1>0, Zenon DEF Flags, Setup, Sync!Break, Sync!Fault
<1>3. Places'
  BY <1>0 DEF Places, Setup, Flags, Steps, Closers, Sync!Break, Sync!Fault
<1>4. Kept'
  BY <1>0 DEF Kept, Flights, Setup, Contents, Places, Sync!Break, Sync!Fault
<1>5. Covered'
  BY <1>0 DEF Covered, Kept, Places, Setup, Contents, Sync!Break, Sync!Fault
<1>6. Sync!Accounted'
  BY <1>0 DEF Sync!Accounted, Kept, Sync!Break, Sync!Fault
<1> QED BY <1>1, <1>2, <1>3, <1>4, <1>5, <1>6 DEF SyncInv

LEMMA RestartInv ==
    ASSUME Setup, SyncInv, UNCHANGED setup, Sync!Restart
    PROVE  SyncInv'
<1>0. Contents /\ Flags /\ Places /\ Kept /\ Covered /\ Sync!Accounted
  BY DEF SyncInv
<1>1. Contents'
  BY <1>0 DEF Contents, Setup, Sync!Updates, Sync!Restart, Sync!Fault
<1>2. Flags'
  BY <1>0, Zenon DEF Flags, Setup, Sync!Restart, Sync!Fault
<1>3. Places'
  BY <1>0 DEF Places, Setup, Flags, Steps, Closers, Sync!Restart, Sync!Fault
<1>4. Kept'
  BY <1>0 DEF Kept, Flights, Setup, Contents, Places, Sync!Restart, Sync!Fault
<1>5. Covered'
  BY <1>0 DEF Covered, Kept, Places, Setup, Contents, Sync!Restart, Sync!Fault
<1>6. Sync!Accounted'
  BY <1>0 DEF Sync!Accounted, Kept, Sync!Restart, Sync!Fault
<1> QED BY <1>1, <1>2, <1>3, <1>4, <1>5, <1>6 DEF SyncInv

LEMMA SyncNextInv ==
    ASSUME Setup, SyncInv, UNCHANGED setup, Sync!Next
    PROVE  SyncInv'
  BY TransactInv, StoreEditInv, PushEditInv, ConnectInv, HydrateInv, ReleaseLatchInv, DialInv,
     FrameInv, StoreRemoteInv, WakeInv, FlushSendInv, FlushDoneInv, EndInv, BackoffInv, CloseInv,
     ServeInv, NewsInv, BreakInv, RestartInv
  DEF Sync!Next, Sync!Observe, Sync!Loop

----------------------------------------------------------------------------
\* The token.  What a connection has still to give, after one frame is taken
\* from it, one added to it, or its end lost.
Answer == Token!Frames \cup Token!Rejections \cup Token!ReadErrors

LEMMA AnswerKinds ==
    /\ \A x \in Token!Frames : x \notin Token!Rejections /\ x \notin Token!ReadErrors
    /\ \A x \in Token!Rejections : x \notin Token!ReadErrors
  BY DEF Token!Frames, Token!Rejections, Token!ReadErrors

LEMMA AnswerOps ==
    ASSUME NEW s \in Seq(Answer)
    PROVE  /\ Len(s) \in Nat /\ \A k \in 1 .. Len(s) : s[k] \in Answer
           /\ s # <<>> => /\ Head(s) = s[1] /\ Len(s) >= 1 /\ Tail(s) \in Seq(Answer)
                          /\ Len(Tail(s)) = Len(s) - 1
                          /\ \A k \in 1 .. Len(s) - 1 : Tail(s)[k] = s[k + 1]
           /\ \A x \in Answer : /\ Append(s, x) \in Seq(Answer) /\ Len(Append(s, x)) = Len(s) + 1
                                /\ Append(s, x)[Len(s) + 1] = x
                                /\ \A k \in 1 .. Len(s) : Append(s, x)[k] = s[k]
  OBVIOUS

LEMMA TailLast ==
    ASSUME NEW s \in Seq(Answer), s # <<>>,
           \A k \in 1 .. Len(s) : s[k] \in Token!ReadErrors => k = Len(s)
    PROVE  /\ \A k \in 1 .. Len(Tail(s)) : Tail(s)[k] \in Token!ReadErrors => k = Len(Tail(s))
           /\ Head(s) \in Token!ReadErrors => Len(Tail(s)) = 0
<1>1. PICK n \in Nat : n = Len(s) - 1 /\ n = Len(Tail(s))
  BY AnswerOps
<1>2. Head(s) = s[1] /\ 1 \in 1 .. Len(s) /\ \A k \in 1 .. n : Tail(s)[k] = s[k + 1] /\ k + 1 \in 1 .. Len(s)
  BY <1>1, AnswerOps
<1>3. ASSUME NEW k \in 1 .. n, Tail(s)[k] \in Token!ReadErrors PROVE k = n
  <2>1. k + 1 = Len(s)
    BY <1>2, <1>3
  <2>2. k + 1 = n + 1
    BY <1>1, <2>1
  <2> QED BY <2>2
<1>4. ASSUME Head(s) \in Token!ReadErrors PROVE n = 0
  <2>1. 1 = Len(s)
    BY <1>2, <1>4, Zenon
  <2>2. n = 1 - 1
    BY <1>1, <2>1, Zenon
  <2> QED BY <2>2
<1> QED BY <1>1, <1>3, <1>4

LEMMA TakenInv ==
    ASSUME TokenInv, answers # <<>>, answers' = Tail(answers), UNCHANGED <<setup, srv>>,
           at \notin {"retry", "terminal"}, at' \in {"live", "classify", "retry", "terminal"},
           at' \in {"classify", "retry"} => srv = "closed",
           at' = "terminal" => Head(answers) \in Token!Rejections,
           at' = "retry" => accepted' \/ Head(answers) \in Token!ReadErrors
    PROVE  Answers' /\ Token!UnsyncedNotRetried'
<1>0. TokenTypes /\ Answers /\ answers \in Seq(Answer)
  BY DEF TokenInv, TokenTypes, Answer
<1>1. /\ Head(answers) = answers[1] /\ Len(answers) >= 1 /\ Len(answers) \in Nat
      /\ Len(answers') = Len(answers) - 1 /\ \A k \in 1 .. Len(answers) - 1 : answers'[k] = answers[k + 1]
  BY <1>0, AnswerOps
<1>2. 1 \in 1 .. Len(answers) /\ \A k \in 1 .. Len(answers') : k + 1 \in 1 .. Len(answers) /\ answers'[k] = answers[k + 1]
  BY <1>1
<1>3. /\ srv # "closed" => \A k \in 1 .. Len(answers) : answers[k] \in Token!Frames
      /\ \A k \in 1 .. Len(answers) : answers[k] \in Token!ReadErrors => k = Len(answers)
      /\ ~setup.bad => \A k \in 1 .. Len(answers) : answers[k] \notin Token!Rejections
  BY <1>0 DEF Answers
<1>4. \A k \in 1 .. Len(answers') : answers'[k] \in Token!ReadErrors => k = Len(answers')
  BY <1>0, <1>3, TailLast
<1>5. at' = "terminal" => setup.bad
  BY <1>1, <1>2, <1>3, ZenonT(60)
<1>6. Answers'
  BY <1>2, <1>3, <1>4, <1>5, Zenon DEF Answers
<1>7. Head(answers) \in Token!ReadErrors => Len(answers') = 0
  BY <1>0, <1>3, TailLast
<1>8. Token!UnsyncedNotRetried'
  BY <1>1, <1>7 DEF Token!UnsyncedNotRetried, Token!Rejected
<1> QED BY <1>6, <1>8

\* The server, or the network, adds to what a connection has to give.
LEMMA JudgeInv == ASSUME Setup, TokenInv, UNCHANGED setup, Token!Judge PROVE TokenInv'
<1>0. TokenTypes /\ Answers /\ answers \in Seq(Answer)
  BY DEF TokenInv, TokenTypes, Answer
<1>1. /\ {"denied", "close4401", "authed"} \subseteq Answer /\ "authed" \in Token!Frames
      /\ {"denied", "close4401"} \cap Token!ReadErrors = {}
  BY DEF Answer, Token!Frames, Token!Rejections, Token!ReadErrors
<1>2. at \notin {"retry", "classify"} /\ srv = "open" /\ UNCHANGED <<at, accepted, mishaps>>
  BY <1>0 DEF Answers, Token!Judge
<1>3. \A k \in 1 .. Len(answers) : answers[k] \in Token!Frames
  BY <1>0, <1>2 DEF Answers
<1>4. token' \in BOOLEAN
  BY Zenon DEF Token!Judge
<1>5. CASE setup.bad
  <2>1. srv' = "closed" /\ answers' = answers \o <<"denied", "close4401">>
    BY <1>5 DEF Token!Judge
  <2>2. /\ answers' \in Seq(Answer) /\ Len(answers') = Len(answers) + 2 /\ Len(answers) \in Nat
        /\ \A k \in 1 .. Len(answers) : answers'[k] = answers[k]
        /\ answers'[Len(answers) + 1] = "denied" /\ answers'[Len(answers) + 2] = "close4401"
    BY <1>0, <1>1, <2>1
  <2>3. \A k \in 1 .. Len(answers') : answers'[k] \notin Token!ReadErrors
    BY <1>1, <1>3, <2>2, AnswerKinds
  <2>4. Answers' /\ Token!UnsyncedNotRetried'
    BY <1>0, <1>2, <1>5, <2>1, <2>3 DEF Answers, Token!UnsyncedNotRetried
  <2> QED BY <1>0, <1>2, <1>4, <2>1, <2>2, <2>4 DEF TokenInv, TokenTypes, Answer
<1>6. CASE ~setup.bad
  <2>1. srv' = "open" /\ answers' = Append(answers, "authed")
    BY <1>6 DEF Token!Judge
  <2>2. /\ answers' \in Seq(Answer)
        /\ \A k \in 1 .. Len(answers') : answers'[k] \in Token!Frames
    BY <1>0, <1>1, <1>3, <2>1, AnswerOps
  <2>3. Answers' /\ Token!UnsyncedNotRetried'
    BY <1>0, <1>2, <1>6, <2>1, <2>2, AnswerKinds DEF Answers, Token!UnsyncedNotRetried
  <2> QED BY <1>0, <1>2, <1>4, <2>1, <2>2, <2>3 DEF TokenInv, TokenTypes, Answer
<1> QED BY <1>5, <1>6

LEMMA ServerInv == ASSUME Setup, TokenInv, UNCHANGED setup, Token!Query \/ Token!Quit PROVE TokenInv'
<1>0. TokenTypes /\ Answers /\ answers \in Seq(Answer)
  BY DEF TokenInv, TokenTypes, Answer
<1>1. {"query", "close1001"} \subseteq Answer /\ "query" \in Token!Frames /\ "close1001" \notin Token!Rejections
  BY DEF Answer, Token!Frames, Token!Rejections, Token!ReadErrors
<1>2. PICK x \in {"query", "close1001"} :
        answers' = Append(answers, x) /\ srv' = IF x = "query" THEN "open" ELSE "closed"
  BY DEF Token!Query, Token!Quit
<1>3. /\ at \notin {"retry", "classify"} /\ srv = "open" /\ UNCHANGED <<at, accepted, token>>
      /\ mishaps' \in 0 .. setup.faults
  BY <1>0 DEF Answers, Token!Query, Token!Quit, Token!Fault, TokenTypes, Setup
<1>4. \A k \in 1 .. Len(answers) : answers[k] \in Token!Frames
  BY <1>0, <1>3 DEF Answers
<1>5. /\ answers' \in Seq(Answer) /\ Len(answers') = Len(answers) + 1 /\ Len(answers) \in Nat
      /\ \A k \in 1 .. Len(answers) : answers'[k] \in Token!Frames
      /\ answers'[Len(answers) + 1] = x
  BY <1>0, <1>1, <1>2, <1>4, AnswerOps
<1>6. /\ \A k \in 1 .. Len(answers') : answers'[k] \notin Token!Rejections
      /\ \A k \in 1 .. Len(answers') : answers'[k] \in Token!ReadErrors => k = Len(answers')
      /\ x = "query" => \A k \in 1 .. Len(answers') : answers'[k] \in Token!Frames
  BY <1>1, <1>5, AnswerKinds
<1>7. Answers' /\ Token!UnsyncedNotRetried'
  BY <1>0, <1>2, <1>3, <1>6 DEF Answers, Token!UnsyncedNotRetried
<1> QED BY <1>0, <1>2, <1>3, <1>5, <1>7 DEF TokenInv, TokenTypes, Answer

LEMMA ResetInv == ASSUME Setup, TokenInv, UNCHANGED setup, Token!Reset PROVE TokenInv'
<1>0. TokenTypes /\ Answers /\ Token!UnsyncedNotRetried /\ answers \in Seq(Answer)
  BY DEF TokenInv, TokenTypes, Answer
<1>1. "reset" \in Answer /\ "reset" \notin Token!Rejections
  BY DEF Answer, Token!Rejections, Token!ReadErrors
<1>2. PICK n \in 0 .. Len(answers) - 1 : answers' = Append(SubSeq(answers, 1, n), "reset")
  BY DEF Token!Reset
<1>3. /\ answers' \in Seq(Answer) /\ Len(answers') = n + 1 /\ n \in Nat /\ n < Len(answers)
      /\ \A k \in 1 .. n : answers'[k] = answers[k]
      /\ answers'[n + 1] = "reset"
  <2>1. /\ SubSeq(answers, 1, n) \in Seq(Answer) /\ Len(SubSeq(answers, 1, n)) = n
        /\ \A k \in 1 .. n : SubSeq(answers, 1, n)[k] = answers[k]
    BY <1>0
  <2> QED BY <1>0, <1>1, <1>2, <2>1, AnswerOps
<1>4. srv = "closed" /\ UNCHANGED <<at, accepted, srv, token>> /\ mishaps' \in 0 .. setup.faults
  BY <1>0 DEF Token!Reset, Token!Fault, TokenTypes, Setup
<1>5. \A k \in 1 .. Len(answers') : answers'[k] \in Token!ReadErrors => k = Len(answers')
  BY <1>0, <1>3 DEF Answers
<1>6. \A k \in 1 .. Len(answers') : answers'[k] \in Token!Rejections =>
        k \in 1 .. Len(answers) /\ answers[k] \in Token!Rejections
  BY <1>0, <1>1, <1>3
<1>7. Answers'
  BY <1>0, <1>4, <1>5, <1>6 DEF Answers
<1>8. Token!UnsyncedNotRetried'
  BY <1>0, <1>4, <1>6 DEF Token!UnsyncedNotRetried, Token!Rejected
<1> QED BY <1>0, <1>3, <1>4, <1>7, <1>8 DEF TokenInv, TokenTypes, Answer

\* The client takes an answer, or leaves them as they are.
LEMMA TakeInv == ASSUME TokenInv, UNCHANGED setup, Token!Frame \/ Token!Classify PROVE TokenInv'
<1>0. TokenTypes /\ Answers /\ answers \in Seq(Answer)
  BY DEF TokenInv, TokenTypes, Answer
<1>1. answers # <<>> /\ answers' = Tail(answers) /\ UNCHANGED <<srv, token, mishaps>>
  BY DEF Token!Frame, Token!Classify
<1>2. Tail(answers) \in Seq(Answer)
  BY <1>0, <1>1, AnswerOps
<1>3. accepted' \in BOOLEAN
  BY <1>0, Zenon DEF TokenTypes, Token!Frame, Token!Classify
<1>4. /\ at \in {"live", "classify"} /\ at' \in {"live", "classify", "retry", "terminal"}
      /\ at' \in {"classify", "retry"} => srv = "closed"
      /\ at' = "terminal" => Head(answers) \in Token!Rejections
      /\ at' = "retry" => accepted' \/ Head(answers) \in Token!ReadErrors
  <2>1. CASE Token!Classify
    BY <1>0, <2>1 DEF Token!Classify, Answers
  <2>2. CASE Token!Frame
    <3>1. Head(answers) \in Token!ReadErrors => srv = "closed"
      BY <1>0, <1>1, AnswerOps, AnswerKinds DEF Answers
    <3> QED BY <1>0, <2>2, <3>1 DEF Token!Frame, Token!Write, Token!Upgrade
  <2> QED BY <2>1, <2>2
<1>5. Answers' /\ Token!UnsyncedNotRetried'
  BY <1>1, <1>4, TakenInv
<1> QED BY <1>0, <1>1, <1>2, <1>3, <1>4, <1>5 DEF TokenInv, TokenTypes, Answer

LEMMA SendInv ==
    ASSUME Setup, TokenInv, UNCHANGED setup,
           Token!Dial \/ Token!SendToken \/ Token!SendHello \/ Token!Flush \/ Token!Ping \/ Token!Retry
    PROVE  TokenInv'
<1>0. TokenTypes /\ Answers /\ Token!UnsyncedNotRetried
  BY DEF TokenInv
<1>1. CASE Token!Dial \/ Token!Retry
  <2>1. answers' \in {<<>>, <<"step1", "step2">>} /\ mishaps' = mishaps
    BY <1>1 DEF Token!Dial, Token!Retry
  <2>2. <<>> \in Seq(Answer) /\ <<"step1", "step2">> \in Seq(Answer)
    BY DEF Answer, Token!Frames
  <2>3. \A k \in 1 .. Len(answers') : answers'[k] \in Token!Frames
    BY <2>1 DEF Token!Frames
  <2>4. srv' \in {"none", "open"} /\ at' \in {"dial", "token"}
    BY <1>1 DEF Token!Dial, Token!Retry
  <2>5. accepted' \in BOOLEAN /\ token' \in BOOLEAN
    BY <1>0, <1>1, Zenon DEF TokenTypes, Token!Dial, Token!Retry
  <2>6. Answers' /\ Token!UnsyncedNotRetried'
    BY <2>3, <2>4, AnswerKinds DEF Answers, Token!UnsyncedNotRetried
  <2> QED BY <1>0, <2>1, <2>2, <2>4, <2>5, <2>6, ZenonT(60) DEF TokenInv, TokenTypes, Answer
<1>2. CASE Token!SendToken \/ Token!SendHello \/ Token!Flush \/ Token!Ping
  <2>1. UNCHANGED <<accepted, srv, answers, mishaps>>
    BY <1>2 DEF Token!SendToken, Token!SendHello, Token!Flush, Token!Ping
  <2>2. /\ at' \in {"hello", "live", "classify", "retry"}
        /\ at' \in {"classify", "retry"} => srv = "closed"
        /\ at' = "retry" => accepted \/ setup.pings
    BY <1>0, <1>2 DEF Token!SendToken, Token!SendHello, Token!Flush, Token!Ping, Token!Write, Token!Upgrade, TokenTypes
  <2>3. token' \in BOOLEAN
    BY <1>0, <1>2, Zenon DEF TokenTypes, Token!SendToken, Token!SendHello, Token!Flush, Token!Ping
  <2>4. Answers' /\ Token!UnsyncedNotRetried'
    BY <1>0, <2>1, <2>2 DEF Answers, Token!UnsyncedNotRetried
  <2> QED BY <1>0, <2>1, <2>2, <2>3, <2>4 DEF TokenInv, TokenTypes
<1> QED BY <1>1, <1>2

LEMMA TokenNextInv == ASSUME Setup, TokenInv, UNCHANGED setup, Token!Next PROVE TokenInv'
  BY JudgeInv, ServerInv, ResetInv, TakeInv, SendInv DEF Token!Next, Token!Session

----------------------------------------------------------------------------
\* Every step keeps the invariant.
LEMMA NextInv == IInv /\ [Next]_vars => IInv'
<1> SUFFICES ASSUME IInv, [Next]_vars PROVE IInv'
  OBVIOUS
<1>0. Setup /\ SyncInv /\ TokenInv
  BY DEF IInv
<1>1. UNCHANGED <<setup, tokenVars>> => TokenInv'
  BY <1>0 DEF tokenVars, TokenInv, TokenTypes, Answers, Token!UnsyncedNotRetried, Token!Rejected
<1>2. UNCHANGED <<setup, syncVars>> => SyncInv'
  BY <1>0 DEF syncVars, SyncInv, Contents, Flags, Places, Kept, Covered, Sync!Accounted
<1>3. UNCHANGED setup => Setup'
  BY <1>0 DEF Setup
<1>4. CASE SyncStep
  BY <1>0, <1>1, <1>3, <1>4, SyncNextInv DEF SyncStep, IInv
<1>5. CASE TokenStep
  BY <1>0, <1>2, <1>3, <1>5, TokenNextInv DEF TokenStep, IInv
<1>6. CASE UNCHANGED vars
  BY <1>1, <1>2, <1>3, <1>6 DEF vars, IInv
<1> QED BY <1>4, <1>5, <1>6 DEF Next

\* NothingLost, for every client: with a store nothing the document learned is
\* lost by a restart, and an edit handed to the lane is written, stored or
\* counted, whatever Close, the links and the store do.
THEOREM NothingIsLost == Spec => []NothingLost
<1>1. IInv => NothingLost
  <2> SUFFICES ASSUME IInv PROVE NothingLost
    OBVIOUS
  <2>0. SyncInv /\ TokenInv
    BY DEF IInv
  <2>1. Contents /\ Flags /\ Places /\ Kept /\ Covered /\ Sync!Accounted /\ TokenTypes
    BY <2>0 DEF SyncInv, TokenInv
  <2>2. Sync!TypeOK
    <3>1. {signal, synced, giveUp, started, closed, subscribed, storeOpen} \subseteq BOOLEAN
      BY <2>1, Zenon DEF Flags
    <3> QED BY <2>1, <3>1 DEF Contents, Places, Kept, Steps, Closers, Flights, Sync!TypeOK
  <2>3. Token!TypeOK
    BY <2>1 DEF TokenTypes, Token!TypeOK
  <2>4. Sync!Saved
    BY <2>1 DEF Covered, Kept, Sync!Saved
  <2> QED BY <2>1, <2>2, <2>3, <2>4 DEF NothingLost
<1> QED BY InitInv, NextInv, <1>1, PTL DEF Spec

\* RejectionsTrue, for every number of faults: before the handshake completes
\* no failing write hides the rejection of a token from the retry decision, and
\* a good token is never reported as rejected.
THEOREM RejectionsAreTrue == Spec => []RejectionsTrue
<1>1. IInv => RejectionsTrue
  BY DEF IInv, TokenInv, Answers, RejectionsTrue, Token!NoFalseRejection
<1> QED BY InitInv, NextInv, <1>1, PTL DEF Spec

\* The safety part of CloseCompletes: once Close has gone past its join no
\* Connect of before is running, so no status and no send follows its return.
THEOREM CloseJoins == Spec => []Sync!Joined
<1>1. IInv => Sync!Joined
  BY DEF IInv, SyncInv, Places, Sync!Joined
<1> QED BY InitInv, NextInv, <1>1, PTL DEF Spec
=============================================================================
