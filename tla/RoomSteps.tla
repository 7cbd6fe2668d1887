----------------------------- MODULE RoomSteps ------------------------------
(***************************************************************************)
(* The life of a room for any number of requests, writers, sweepers,       *)
(* CloseRoom callers, room values, updates, seats and failures: every step *)
(* keeps the invariant IInv.  RoomProofs draws the conclusions.            *)
(***************************************************************************)
EXTENDS RoomLifecycle, TLAPS

USE ZenonT(30)

Guest == Conn \cup Caller

RoomRec == [phase : {"none", "loading", "ready", "failed"}, peers : SUBSET Conn, idle : Nat,
            inflight : Nat, slots : Nat, unsaved : SUBSET Update,
            stop : BOOLEAN, done : BOOLEAN, unloads : Nat]
Pc == Holding \cup Seated \cup
      {"rest", "flush", "decide", "await", "evictflush", "evict", "closewait", "delete"}
ActRec == [pc : Pc, rm : Inst \cup {None}, created : BOOLEAN, stamp : Nat,
           ok : BOOLEAN, wait : SUBSET Conn]

Shape ==
    /\ setup \in Setups /\ cur \in Inst \cup {None}
    /\ room \in [Inst -> RoomRec] /\ act \in [Actor -> ActRec]
    /\ stored \subseteq Update /\ sent \subseteq Update
    /\ conns \in Nat /\ fails \in 0 .. setup.fails

\* Where an actor can stand, and what that says of its room.
ConnPc == {"rest", "load", "wait", "slot", "conn", "upgrade", "refused", "joined", "leaving",
           "last", "gone", "flush", "decide", "await", "evictflush", "evict"}
CallerPc == {"rest", "load", "wait", "clear", "write", "mark", "release"}
Role(a) ==
    /\ a \in Conn => act[a].pc \in ConnPc
    /\ a \in Caller => act[a].pc \in CallerPc
    /\ a \in Sweeper => act[a].pc \in {"rest", "evictflush", "evict", "await"}
    /\ a \in Admin => act[a].pc \in {"rest", "closewait", "delete", "await"}
    /\ act[a].pc = "rest" <=> act[a].rm = None
    /\ act[a].pc = "load" => room[act[a].rm].phase = "loading"
    /\ act[a].pc = "wait" => room[act[a].rm].phase # "none"
    /\ act[a].pc \notin {"rest", "load", "wait"} => room[act[a].rm].phase = "ready"
Roles == \A a \in Actor : Role(a)
OneLoader ==
    \A a, b \in Actor : act[a].pc = "load" /\ act[b].pc = "load" /\ act[a].rm = act[b].rm => a = b

\* A room is loading or loaded while it is in the map, and leaves it stopped.
Life(i) ==
    /\ cur = i => room[i].phase \in {"loading", "ready"}
    /\ room[i].phase = "loading" => cur = i
    /\ room[i].phase # "ready" => room[i].unsaved = {} /\ ~room[i].stop
    /\ room[i].phase = "ready" => (room[i].stop <=> cur # i)
    /\ room[i].done => room[i].stop
Lives == \A i \in Inst : Life(i)

Table == Shape /\ Roles /\ OneLoader /\ Lives

\* The peers of a room are the requests that registered and have not left.
Peers ==
    \A i \in Inst :
        /\ room[i].peers = {c \in Conn : act[c].rm = i /\ act[c].pc \in {"joined", "leaving"}}
        /\ room[i].peers # {} => room[i].idle = 0

Holders(i) == {a \in Guest : act[a].rm = i /\ act[a].pc \in Holding}
Seats(i) == {c \in Conn : act[c].rm = i /\ act[c].pc \in Seated}
Permits == {c \in Conn : act[c].pc \in Seated \ {"conn"}}
Present == {c \in Conn : act[c].pc # "rest"}
Counts ==
    /\ \A i \in Inst : room[i].phase \in {"loading", "ready"} =>
          room[i].inflight = Cardinality(Holders(i)) /\ room[i].slots = Cardinality(Seats(i))
    /\ conns = Cardinality(Permits) /\ Cardinality(Present) <= setup.conns
Limits == conns <= MaxConns /\ \A i \in Inst : room[i].slots <= MaxPeers

\* The one actor that took a room out of the map still has to notify, or has.
Unloader(a, i) == act[a].rm = i /\ act[a].pc = "await" /\ act[a].ok
Unloaded(i) ==
    IF room[i].phase = "ready" /\ cur # i
      THEN \/ room[i].unloads = 1 /\ \A a \in Actor : ~Unloader(a, i)
           \/ room[i].unloads = 0 /\ \E a \in Actor : \A b \in Actor : Unloader(b, i) <=> b = a
      ELSE room[i].unloads = 0 /\ \A a \in Actor : ~Unloader(a, i)
Unloads == \A i \in Inst : Unloaded(i)

\* Without CloseRoom nobody is in a room that is off the map; with idle
\* residency nobody is on the way into one either.
Closed == "admin" \notin setup.others
Home ==
    Closed =>
        /\ \A a \in Admin : act[a].pc = "rest"
        /\ \A i \in Inst : room[i].peers # {} => cur = i
        /\ setup.lazy => \A a \in Guest : act[a].pc \in Holding =>
              cur = act[a].rm \/ (act[a].pc = "wait" /\ room[act[a].rm].phase = "failed")

\* What was committed since a sweeper's flush shows in the stamp, or will.
Reaping(a) == act[a].pc \in {"evictflush", "evict"} \/ (act[a].pc = "refused" /\ act[a].created)
Refused == \A c \in Conn : Reaping(c) => MayRefuse
Fresh ==
    setup.lazy /\ Closed =>
        /\ ~MayRefuse => \A i \in Inst : i # cur => room[i].unsaved = {}
        /\ \A a \in Sweeper : act[a].pc \in {"evictflush", "evict"} => act[a].stamp # 0
        /\ \A a \in Conn \cup Sweeper :
              act[a].pc = "evict" /\ act[a].ok /\ act[a].stamp # 0
              /\ room[act[a].rm].idle = act[a].stamp =>
                 \/ room[act[a].rm].unsaved = {}
                 \/ \E b \in Caller : act[b].rm = act[a].rm /\ act[b].pc = "mark"

\* Somebody in an unstamped room will leave a stamp.
Bound == {"wait", "slot", "conn", "upgrade", "joined", "leaving", "last", "flush",
          "decide", "clear", "write", "mark"}
Stamped ==
    setup.lazy /\ ~MayRefuse /\ fails = 0 =>
        /\ \A c \in Conn : act[c].pc = "decide" => act[c].ok
        /\ \A i \in Inst : cur = i /\ room[i].phase = "ready" /\ room[i].idle = 0 =>
              \E a \in Guest : act[a].rm = i /\ act[a].pc \in Bound

IInv == Table /\ Peers /\ Counts /\ Limits /\ Unloads /\ Home /\ Refused /\ Fresh /\ Stamped

----------------------------------------------------------------------------
\* Counting.  What the steps use of finite sets: sets of actors have sizes, and
\* there are fewer stamps in use than numbers.
Sizes ==
    /\ \A S \in SUBSET Actor :
          /\ Cardinality(S) \in Nat /\ (Cardinality(S) = 0 <=> S = {})
          /\ \A x \in Actor \ S : Cardinality(S \cup {x}) = Cardinality(S) + 1
          /\ \A T \in SUBSET S : Cardinality(T) <= Cardinality(S)
    /\ \A f \in [Inst -> Nat], g \in [Actor -> Nat] :
          \E n \in Nat, k \in Nat \ {0} :
             /\ n = Cardinality({f[i] : i \in Inst} \cup {g[a] : a \in Actor}) /\ k <= n + 1
             /\ k \notin {f[i] : i \in Inst} \cup {g[a] : a \in Actor}

LEMMA Finite ==
    ASSUME Sizes
    PROVE  \A S \in SUBSET Actor : Cardinality(S) \in Nat /\ (Cardinality(S) = 0 <=> S = {})
  BY DEF Sizes

LEMMA Plus ==
    ASSUME Sizes, NEW S \in SUBSET Actor, NEW x \in Actor \ S
    PROVE  Cardinality(S \cup {x}) = Cardinality(S) + 1 /\ Cardinality(S) \in Nat
  BY DEF Sizes

LEMMA Minus ==
    ASSUME Sizes, NEW S \in SUBSET Actor, NEW x \in S
    PROVE  Cardinality(S \ {x}) = Cardinality(S) - 1 /\ Cardinality(S) \in Nat /\ Cardinality(S) # 0
<1>1. S \ {x} \in SUBSET Actor /\ x \in Actor \ (S \ {x}) /\ (S \ {x}) \cup {x} = S
  OBVIOUS
<1>2. Cardinality(S) = Cardinality(S \ {x}) + 1 /\ Cardinality(S \ {x}) \in Nat
  BY <1>1, Plus
<1> QED BY <1>2, SMTT(30)

\* time.Now() is not the zero time and not a stamp anyone still has.
LEMMA NowFresh ==
    ASSUME Sizes, Shape
    PROVE  /\ Now \in Nat /\ Now # 0
           /\ \A i \in Inst : room[i].idle # Now
           /\ \A a \in Actor : act[a].stamp # Now
<1> DEFINE f == [i \in Inst |-> room[i].idle]
           g == [a \in Actor |-> act[a].stamp]
<1>1. f \in [Inst -> Nat] /\ g \in [Actor -> Nat]
  BY SMTT(30) DEF Shape, RoomRec, ActRec
<1>2. {f[i] : i \in Inst} \cup {g[a] : a \in Actor} = Stamps
  BY SMTT(30) DEF Stamps
<1> HIDE DEF f, g
<1>3. PICK n \in Nat, k \in Nat \ {0} : n = Cardinality(Stamps) /\ k <= n + 1 /\ k \notin Stamps
  BY <1>1, <1>2 DEF Sizes
<1>4. k \in 1 .. n + 1
  BY <1>3, SMTT(30)
<1>5. Now \in 1 .. n + 1 /\ Now \notin Stamps
  BY <1>3, <1>4 DEF Now
<1> QED BY <1>5, SMTT(30) DEF Stamps

----------------------------------------------------------------------------
\* A step of actor a on room i leaves the others alone ...
Only(a, i) ==
    /\ UNCHANGED setup /\ Shape'
    /\ \A b \in Actor : b # a => act'[b] = act[b]
    /\ \A j \in Inst : j # i => room'[j] = room[j]

\* ... and a plain one neither loads, registers, removes nor unloads.
Plain(a, i) ==
    /\ Only(a, i) /\ cur' = cur
    /\ room'[i].phase = room[i].phase /\ room'[i].peers = room[i].peers
    /\ room'[i].unloads = room[i].unloads /\ room'[i].stop = room[i].stop
    /\ room'[i].done => room'[i].stop
    /\ room[i].phase # "ready" => room'[i].unsaved = {}
    /\ room[i].peers # {} => room'[i].idle = 0
    /\ \/ act' = act
       \/ /\ act[a].pc \notin {"load", "joined", "leaving", "await"}
          /\ act'[a].pc \notin {"load", "joined", "leaving"}
          /\ act'[a].pc = "await" => ~act'[a].ok
          /\ Role(a)'
          /\ act'[a].pc \in Holding =>
               \/ act'[a].rm = cur
               \/ act[a].pc \in Holding /\ act'[a].rm = act[a].rm /\ act'[a].pc # "wait"
          /\ a \in Admin /\ Closed => act'[a].pc = "rest"
          /\ a \in Conn /\ act'[a].pc \in {"evictflush", "evict"} => MayRefuse
          /\ act'[a].pc = "refused" /\ act'[a].created => MayRefuse

LEMMA PlainStep ==
    ASSUME Table, Peers, Unloads, Home, Refused, NEW a, NEW i \in Inst, Plain(a, i)
    PROVE  Table' /\ Peers' /\ Unloads' /\ Home' /\ Refused'
<1>0. /\ Shape /\ Roles /\ OneLoader /\ Lives
      /\ Only(a, i) /\ cur' = cur /\ setup' = setup
      /\ \A b \in Actor : b # a => act'[b] = act[b]
      /\ \A j \in Inst : j # i => room'[j] = room[j]
  BY DEF Table, Plain, Only
<1>1. /\ \A j \in Inst : /\ room'[j].phase = room[j].phase /\ room'[j].peers = room[j].peers
                         /\ room'[j].unloads = room[j].unloads /\ room'[j].stop = room[j].stop
  BY <1>0 DEF Plain
<1>2. \A b \in Actor : act[b].rm \in Inst \cup {None} /\ (act[b].rm = None => act[b].pc = "rest")
  BY <1>0 DEF Shape, ActRec, Roles, Role
<1>3. Roles'
  <2>1. ASSUME NEW b \in Actor, act'[b] = act[b] PROVE Role(b)'
    BY <1>0, <1>1, <1>2, <2>1, LifeAssumption, SMTT(30) DEF Roles, Role
  <2> QED BY <1>0, <2>1 DEF Plain, Roles
<1>4. OneLoader'
  BY <1>0, SMTT(30) DEF OneLoader, Plain
<1>5. Lives'
  BY <1>0, <1>1, SMTT(30) DEF Lives, Life, Plain
<1>6. Table'
  BY <1>0, <1>3, <1>4, <1>5 DEF Table, Only
<1>7. Peers'
  <2>1. \A c \in Conn, j \in Inst :
          act'[c].rm = j /\ act'[c].pc \in {"joined", "leaving"} <=> act[c].rm = j /\ act[c].pc \in {"joined", "leaving"}
    BY <1>0 DEF Plain, Actor
  <2> QED BY <1>0, <1>1, <2>1, SMTT(30) DEF Peers, Plain
<1>8. Unloads'
  <2>1. \A b \in Actor, j \in Inst : Unloader(b, j)' <=> Unloader(b, j)
    BY <1>0 DEF Plain, Unloader
  <2> QED BY <1>0, <1>1, <2>1 DEF Unloads, Unloaded
<1>9. Home'
  <2>1. ASSUME Closed PROVE \A b \in Admin : act'[b].pc = "rest"
    BY <1>0, <2>1 DEF Plain, Home, Actor
  <2>2. ASSUME Closed, setup.lazy, NEW b \in Guest, act'[b].pc \in Holding
        PROVE  cur = act'[b].rm \/ (act'[b].pc = "wait" /\ room'[act'[b].rm].phase = "failed")
    <3>1. CASE act'[b] = act[b]
      BY <1>0, <1>1, <1>2, <2>2, <3>1, SMTT(30) DEF Home, Actor, Guest, Holding
    <3>2. CASE act'[b] # act[b]
      <4>1. b = a /\ b \in Actor /\ Role(b)'
        BY <1>0, <3>2 DEF Plain, Actor, Guest
      <4>2. CASE act'[a].rm = cur
        BY <4>1, <4>2
      <4>3. CASE act[a].pc \in Holding /\ act'[a].rm = act[a].rm /\ act'[a].pc # "wait"
        BY <1>0, <1>1, <1>2, <2>2, <3>2, <4>1, <4>3, SMTT(30) DEF Home, Role, Holding, Plain
      <4> QED BY <2>2, <3>2, <4>1, <4>2, <4>3 DEF Plain
    <3> QED BY <3>1, <3>2
  <2> QED BY <1>0, <1>1, <2>1, <2>2 DEF Home, Closed
<1>10. Refused'
  BY <1>0 DEF Refused, Reaping, Plain, Actor, MayRefuse
<1> QED BY <1>6, <1>7, <1>8, <1>9, <1>10

\* How a set and its size follow when one actor's place changes.
Bit(x) == IF x THEN 1 ELSE 0

LEMMA Resize ==
    ASSUME Sizes, NEW S \in SUBSET Actor, NEW T \in SUBSET Actor, NEW a, S \ {a} = T \ {a}
    PROVE  /\ Cardinality(T) = Cardinality(S) + Bit(a \in T) - Bit(a \in S)
           /\ Cardinality(S) \in Nat /\ Cardinality(T) \in Nat
<1>1. Cardinality(S) \in Nat /\ Cardinality(T) \in Nat
  BY Finite
<1>2. CASE a \in S /\ a \in T
  <2>1. S = T
    BY <1>2, SMTT(30)
  <2> QED BY <1>1, <1>2, <2>1, SMTT(30) DEF Bit
<1>3. CASE a \notin S /\ a \notin T
  <2>1. S = T
    BY <1>3, SMTT(30)
  <2> QED BY <1>1, <1>3, <2>1, SMTT(30) DEF Bit
<1>4. CASE a \notin S /\ a \in T
  <2>1. T = S \cup {a} /\ a \in Actor \ S
    BY <1>4
  <2> QED BY <1>1, <1>4, <2>1, Plus, SMTT(30) DEF Bit
<1>5. CASE a \in S /\ a \notin T
  <2>1. T = S \ {a}
    BY <1>5
  <2> QED BY <1>1, <1>5, <2>1, Minus, SMTT(30) DEF Bit
<1> QED BY <1>2, <1>3, <1>4, <1>5

\* The in-flight count, the seats and the permits follow their actor.
Tallies(a, i) ==
    /\ act[a].rm \in {i, None} /\ act'[a].rm \in {i, None} /\ Role(a)'
    /\ room'[i].phase \in {"loading", "ready"} =>
         /\ room[i].phase \in {"loading", "ready"}
         /\ room'[i].inflight = room[i].inflight + Bit(a \in Guest /\ act'[a].pc \in Holding)
                                                 - Bit(a \in Guest /\ act[a].pc \in Holding)
         /\ room'[i].slots = room[i].slots + Bit(a \in Conn /\ act'[a].pc \in Seated)
                                           - Bit(a \in Conn /\ act[a].pc \in Seated)
    /\ conns' = conns + Bit(a \in Conn /\ act'[a].pc \in Seated \ {"conn"})
                      - Bit(a \in Conn /\ act[a].pc \in Seated \ {"conn"})
    /\ a \in Conn /\ act[a].pc = "rest" /\ act'[a].pc # "rest" => Cardinality(Present) < setup.conns

\* A step that moves its actor between places that count alike.
Alike(a, i) ==
    /\ act[a].rm \in {i, None} /\ act'[a].rm \in {i, None} /\ Role(a)' /\ act[a].pc # "rest"
    /\ room[i].phase \in {"loading", "ready"} /\ room[i].inflight \in Nat /\ room[i].slots \in Nat /\ conns \in Nat
    /\ room'[i].inflight = room[i].inflight /\ room'[i].slots = room[i].slots /\ conns' = conns
    /\ act'[a].pc \in Holding <=> act[a].pc \in Holding
    /\ act'[a].pc \in Seated <=> act[a].pc \in Seated
    /\ act[a].pc # "conn" /\ act'[a].pc # "conn"

LEMMA SameTallies ==
    ASSUME NEW a, NEW i, Alike(a, i)
    PROVE  Tallies(a, i)
<1>1. \A n \in Nat : n + 0 - 0 = n /\ n + 1 - 1 = n
  BY SMTT(30)
<1>2. \A x : Bit(x) = 0 \/ Bit(x) = 1
  BY DEF Bit
<1>3. /\ Bit(a \in Guest /\ act'[a].pc \in Holding) = Bit(a \in Guest /\ act[a].pc \in Holding)
      /\ Bit(a \in Conn /\ act'[a].pc \in Seated) = Bit(a \in Conn /\ act[a].pc \in Seated)
      /\ Bit(a \in Conn /\ act'[a].pc \in Seated \ {"conn"}) = Bit(a \in Conn /\ act[a].pc \in Seated \ {"conn"})
  BY DEF Alike, Bit
<1>4. ASSUME NEW n \in Nat, NEW x PROVE n + Bit(x) - Bit(x) = n
  BY <1>1, <1>2
<1> QED BY <1>3, <1>4 DEF Alike, Tallies

LEMMA CountsStep ==
    ASSUME Sizes, Shape, Roles, Counts, NEW a \in Actor, NEW i \in Inst, Only(a, i), Tallies(a, i)
    PROVE  Counts'
<1>0. /\ \A b \in Actor : b # a => act'[b] = act[b]
      /\ \A j \in Inst : j # i => room'[j] = room[j]
      /\ setup' = setup /\ Conn \subseteq Actor /\ Guest \subseteq Actor
      /\ "rest" \notin Holding /\ "rest" \notin Seated
  BY DEF Only, Actor, Guest, Holding, Seated
<1>r. (act[a].pc = "rest" <=> act[a].rm = None) /\ (act'[a].pc = "rest" <=> act'[a].rm = None)
  BY DEF Roles, Role, Tallies
<1>1. ASSUME NEW j \in Inst, j # i PROVE Holders(j)' = Holders(j) /\ Seats(j)' = Seats(j)
  BY <1>0, <1>1, LifeAssumption, SMTT(30) DEF Holders, Seats, Tallies
<1>2. /\ Holders(i) \in SUBSET Actor /\ Holders(i)' \in SUBSET Actor
      /\ Holders(i) \ {a} = Holders(i)' \ {a}
      /\ a \in Holders(i)' <=> a \in Guest /\ act'[a].pc \in Holding
      /\ a \in Holders(i) <=> a \in Guest /\ act[a].pc \in Holding
  BY <1>0, <1>r DEF Holders, Tallies
<1>3. /\ Seats(i) \in SUBSET Actor /\ Seats(i)' \in SUBSET Actor
      /\ Seats(i) \ {a} = Seats(i)' \ {a}
      /\ a \in Seats(i)' <=> a \in Conn /\ act'[a].pc \in Seated
      /\ a \in Seats(i) <=> a \in Conn /\ act[a].pc \in Seated
  BY <1>0, <1>r DEF Seats, Tallies
<1>4. /\ Permits \in SUBSET Actor /\ Permits' \in SUBSET Actor /\ Permits \ {a} = Permits' \ {a}
      /\ a \in Permits' <=> a \in Conn /\ act'[a].pc \in Seated \ {"conn"}
      /\ a \in Permits <=> a \in Conn /\ act[a].pc \in Seated \ {"conn"}
  BY <1>0 DEF Permits
<1>5. /\ Present \in SUBSET Actor /\ Present' \in SUBSET Actor /\ Present \ {a} = Present' \ {a}
      /\ a \in Present' <=> a \in Conn /\ act'[a].pc # "rest"
      /\ a \in Present <=> a \in Conn /\ act[a].pc # "rest"
  BY <1>0 DEF Present
<1>6. conns' = Cardinality(Permits')
  <2>1. Cardinality(Permits') = Cardinality(Permits) + Bit(a \in Permits') - Bit(a \in Permits)
    BY <1>4, Resize, SMTT(30)
  <2> QED BY <1>4, <2>1 DEF Counts, Bit, Tallies
<1>7. Cardinality(Present') <= setup.conns
  <2>1. /\ Cardinality(Present') = Cardinality(Present) + Bit(a \in Present') - Bit(a \in Present)
        /\ Cardinality(Present) \in Nat /\ Cardinality(Present) <= setup.conns /\ setup.conns \in Nat
    BY <1>5, Resize, LifeAssumption, SMTT(30) DEF Counts, Shape
  <2> QED BY <1>5, <2>1, SMTT(30) DEF Bit, Tallies
<1>8. ASSUME room'[i].phase \in {"loading", "ready"}
      PROVE  room'[i].inflight = Cardinality(Holders(i)') /\ room'[i].slots = Cardinality(Seats(i)')
  <2>1. /\ Cardinality(Holders(i)') = Cardinality(Holders(i)) + Bit(a \in Holders(i)') - Bit(a \in Holders(i))
        /\ Cardinality(Seats(i)') = Cardinality(Seats(i)) + Bit(a \in Seats(i)') - Bit(a \in Seats(i))
    BY <1>2, <1>3, Resize, SMTT(30)
  <2>2. room[i].inflight = Cardinality(Holders(i)) /\ room[i].slots = Cardinality(Seats(i))
    BY <1>8 DEF Counts, Tallies
  <2> QED BY <1>2, <1>3, <1>8, <2>1, <2>2 DEF Bit, Tallies
<1> QED BY <1>0, <1>1, <1>6, <1>7, <1>8 DEF Counts

\* A guest in a live room is counted, so an in-flight count of 0 says nobody is.
LEMMA NobodyHolds ==
    ASSUME Sizes, Shape, Roles, Counts, NEW i \in Inst, room[i].phase = "ready", room[i].inflight = 0
    PROVE  \A a \in Guest : act[a].rm = i => act[a].pc \notin Holding
<1>1. Holders(i) \in SUBSET Actor /\ Cardinality(Holders(i)) = 0
  BY DEF Holders, Guest, Actor, Counts
<1>2. Holders(i) = {}
  BY <1>1, Finite
<1> QED BY <1>2 DEF Holders

\* A request that is not refused for want of seats finds one.
LEMMA SeatFree ==
    ASSUME Sizes, Shape, Roles, Counts, ~MayRefuse, NEW c \in Conn
    PROVE  /\ act[c].pc = "slot" => room[act[c].rm].slots < MaxPeers
           /\ act[c].pc = "conn" => conns < MaxConns
<1>0. /\ act[c].rm \in Inst \cup {None} /\ (act[c].pc # "rest" => act[c].rm \in Inst) /\ c \in Actor
      /\ setup.conns \in Nat /\ MaxPeers \in Nat /\ MaxConns \in Nat
      /\ setup.conns <= MaxPeers /\ setup.conns <= MaxConns
  BY LifeAssumption, SMTT(30) DEF Shape, ActRec, Roles, Role, Actor, MayRefuse
<1>1. ASSUME act[c].pc # "rest", NEW S \in SUBSET Conn, c \notin S, S \subseteq Present
      PROVE  Cardinality(S) < setup.conns
  <2>1. S \cup {c} \subseteq Present /\ Present \in SUBSET Actor /\ S \in SUBSET Actor
    BY <1>1 DEF Present, Actor
  <2>2. c \in Actor \ S /\ Cardinality(Present) \in Nat /\ Cardinality(S) \in Nat
    BY <1>0, <1>1, <2>1, Finite
  <2>3. Cardinality(S \cup {c}) <= Cardinality(Present)
    BY <2>1 DEF Sizes
  <2>4. Cardinality(S \cup {c}) = Cardinality(S) + 1
    BY <2>1, <2>2, Plus
  <2>5. Cardinality(Present) <= setup.conns
    BY DEF Counts
  <2> QED BY <1>0, <2>2, <2>3, <2>4, <2>5, SMTT(30)
<1>2. ASSUME act[c].pc = "slot" PROVE room[act[c].rm].slots < MaxPeers
  <2>1. room[act[c].rm].phase = "ready" /\ act[c].rm \in Inst
    BY <1>0, <1>2 DEF Roles, Role
  <2>2. room[act[c].rm].slots = Cardinality(Seats(act[c].rm))
    BY <2>1 DEF Counts
  <2>3. Seats(act[c].rm) \in SUBSET Conn /\ c \notin Seats(act[c].rm) /\ Seats(act[c].rm) \subseteq Present
    BY <1>2 DEF Seats, Present, Seated
  <2>4. Cardinality(Seats(act[c].rm)) < setup.conns /\ Cardinality(Seats(act[c].rm)) \in Nat
    BY <1>1, <1>2, <2>3, Finite DEF Actor
  <2> QED BY <1>0, <2>2, <2>4, SMTT(30)
<1>3. ASSUME act[c].pc = "conn" PROVE conns < MaxConns
  <2>1. Permits \in SUBSET Conn /\ c \notin Permits /\ Permits \subseteq Present
    BY <1>3 DEF Permits, Present, Seated
  <2>2. Cardinality(Permits) < setup.conns /\ Cardinality(Permits) \in Nat
    BY <1>1, <1>3, <2>1, Finite DEF Actor
  <2> QED BY <1>0, <2>2, SMTT(30) DEF Counts
<1> QED BY <1>2, <1>3

\* What a plain step does to the store's debt: it only pays it, or commits in
\* the open (a peer, whose room has no stamp, or a writer about to stamp).
Debts(a, i) ==
    /\ \/ room'[i].unsaved \subseteq room[i].unsaved
       \/ i = cur /\ room'[i].idle = 0
       \/ i = cur /\ a \in Caller /\ act'[a].rm = i /\ act'[a].pc = "mark"
    /\ \/ room'[i].idle = 0
       \/ room'[i].idle = room[i].idle /\ act[a].pc # "mark"
       \/ \A b \in Actor : act'[b].stamp # room'[i].idle
    /\ act[a].pc = "mark" => act[a].rm = i
    /\ act'[a].pc = "evict" => act'[a].rm = i /\ (act'[a].ok => room'[i].unsaved = {})
    /\ a \in Sweeper /\ act'[a].pc \in {"evictflush", "evict"} => act'[a].stamp # 0

LEMMA FreshStep ==
    ASSUME Table, Fresh, NEW a, NEW i \in Inst, Plain(a, i),
           setup.lazy /\ Closed => Debts(a, i) \/ (act' = act /\ room'[i].unsaved \subseteq room[i].unsaved
                                                    /\ room'[i].idle = room[i].idle)
    PROVE  Fresh'
<1> SUFFICES ASSUME setup.lazy, Closed PROVE Fresh'
  BY DEF Fresh, Closed, Plain, Only
<1>0. /\ cur' = cur /\ setup' = setup /\ Roles /\ Shape
      /\ \A b \in Actor : b # a => act'[b] = act[b]
      /\ \A j \in Inst : j # i => room'[j] = room[j]
      /\ Conn \cup Sweeper \subseteq Actor /\ Caller \subseteq Actor
  BY DEF Table, Plain, Only, Actor
<1>1. \A b \in Actor : act[b].pc = "evict" => act[b].rm \in Inst
  BY <1>0 DEF Roles, Role, Shape, ActRec
<1>2. CASE act' = act /\ room'[i].unsaved \subseteq room[i].unsaved /\ room'[i].idle = room[i].idle
  BY <1>0, <1>1, <1>2, SMTT(30) DEF Fresh, MayRefuse
<1>3. CASE Debts(a, i)
  <2>1. ~MayRefuse => \A j \in Inst : j # cur => room'[j].unsaved = {}
    BY <1>0, <1>3 DEF Fresh, Debts
  <2>2. \A b \in Sweeper : act'[b].pc \in {"evictflush", "evict"} => act'[b].stamp # 0
    BY <1>0, <1>3 DEF Fresh, Debts
  <2>3. ASSUME NEW b \in Conn \cup Sweeper, act'[b].pc = "evict", act'[b].ok, act'[b].stamp # 0,
               room'[act'[b].rm].idle = act'[b].stamp
        PROVE  \/ room'[act'[b].rm].unsaved = {}
               \/ \E d \in Caller : act'[d].rm = act'[b].rm /\ act'[d].pc = "mark"
    <3>1. CASE b = a
      BY <1>3, <2>3, <3>1 DEF Debts
    <3>2. CASE b # a /\ act[b].rm # i
      BY <1>0, <1>1, <1>3, <2>3, <3>2, SMTT(30) DEF Fresh, Debts
    <3>3. CASE b # a /\ act[b].rm = i
      <4>1. act'[b] = act[b] /\ room'[i].idle = act[b].stamp /\ b \in Actor /\ act[b].stamp # 0
        BY <1>0, <2>3, <3>3
      <4>2. room'[i].idle = room[i].idle /\ act[a].pc # "mark"
        BY <1>3, <4>1 DEF Debts
      <4>3. room[i].unsaved = {} \/ \E d \in Caller : act[d].rm = i /\ act[d].pc = "mark"
        BY <2>3, <3>3, <4>1, <4>2 DEF Fresh
      <4>4. ASSUME NEW d \in Caller, act[d].rm = i, act[d].pc = "mark" PROVE act'[d] = act[d]
        BY <1>0, <4>2, <4>4
      <4> QED BY <1>3, <3>3, <4>1, <4>3, <4>4 DEF Debts
    <3> QED BY <3>1, <3>2, <3>3
  <2> QED BY <1>0, <2>1, <2>2, <2>3 DEF Fresh, MayRefuse
<1> QED BY <1>2, <1>3

\* What a plain step leaves in an unstamped room: somebody bound to stamp it.
Duties(a, i) ==
    /\ fails' = 0 => fails = 0
    /\ act[a].rm \in {i, None}
    /\ fails' = 0 /\ a \in Conn /\ act'[a].pc = "decide" => act'[a].ok
    /\ fails' = 0 /\ cur = i /\ room[i].phase = "ready" /\ room'[i].idle = 0
       /\ setup.lazy /\ ~MayRefuse =>
         \/ a \in Guest /\ act'[a].rm = i /\ act'[a].pc \in Bound
         \/ room[i].idle = 0 /\ (act[a].pc \notin Bound \/ act[a].rm # i)
         \/ room[i].peers # {}

LEMMA StampedStep ==
    ASSUME Table, Peers, Stamped, NEW a, NEW i \in Inst, Plain(a, i),
           Duties(a, i) \/ (act' = act /\ room'[i].idle = room[i].idle /\ (fails' = 0 => fails = 0))
    PROVE  Stamped'
<1>0. /\ cur' = cur /\ setup' = setup /\ room'[i].phase = room[i].phase
      /\ \A b \in Actor : b # a => act'[b] = act[b]
      /\ \A j \in Inst : j # i => room'[j] = room[j]
      /\ Conn \subseteq Actor /\ Guest \subseteq Actor /\ Conn \subseteq Guest
      /\ (MayRefuse' <=> MayRefuse)
  BY DEF Table, Plain, Only, Actor, Guest, MayRefuse
<1>1. CASE act' = act /\ room'[i].idle = room[i].idle /\ (fails' = 0 => fails = 0)
  BY <1>0, <1>1, SMTT(30) DEF Stamped
<1>2. CASE Duties(a, i)
  <2> SUFFICES ASSUME setup.lazy, ~MayRefuse, fails' = 0 PROVE Stamped'
    BY <1>0 DEF Stamped
  <2>0. fails = 0 /\ \A c \in Conn : act'[c].pc = "decide" => act'[c].ok
    BY <1>0, <1>2 DEF Stamped, Duties
  <2>1. ASSUME NEW j \in Inst, cur = j, room'[j].phase = "ready", room'[j].idle = 0
        PROVE  \E b \in Guest : act'[b].rm = j /\ act'[b].pc \in Bound
    <3>1. CASE a \in Guest /\ act'[a].rm = j /\ act'[a].pc \in Bound
      BY <3>1
    <3>2. CASE room[j].peers # {}
      <4>1. PICK c \in Conn : act[c].rm = j /\ act[c].pc \in {"joined", "leaving"}
        BY <3>2 DEF Peers
      <4>2. act'[c] = act[c]
        BY <1>0, <4>1 DEF Plain
      <4> QED BY <1>0, <4>1, <4>2 DEF Bound
    <3>3. CASE room[j].idle = 0 /\ (j # i \/ act[a].pc \notin Bound \/ act[a].rm # j)
      <4>1. PICK b \in Guest : act[b].rm = j /\ act[b].pc \in Bound
        BY <1>0, <2>0, <2>1, <3>3, SMTT(30) DEF Stamped
      <4>2. CASE b # a
        BY <1>0, <4>1, <4>2
      <4>3. CASE b = a
        BY <1>0, <1>2, <2>1, <3>3, <4>1, <4>3, LifeAssumption DEF Duties
      <4> QED BY <4>2, <4>3
    <3> QED BY <1>0, <1>2, <2>1, <3>1, <3>2, <3>3 DEF Duties
  <2> QED BY <1>0, <2>0, <2>1 DEF Stamped
<1> QED BY <1>1, <1>2

\* Everything the invariant says, for a plain step.
Calm(i) ==
    /\ act' = act /\ conns' = conns
    /\ room'[i].inflight = room[i].inflight /\ room'[i].slots = room[i].slots

LEMMA PlainInv ==
    ASSUME Sizes, IInv, NEW a, NEW i \in Inst, Plain(a, i),
           Calm(i) \/ (a \in Actor /\ Tallies(a, i)),
           room'[i].slots <= MaxPeers /\ conns' <= MaxConns,
           setup.lazy /\ Closed => Debts(a, i) \/ (act' = act /\ room'[i].unsaved \subseteq room[i].unsaved
                                                    /\ room'[i].idle = room[i].idle),
           Duties(a, i) \/ (act' = act /\ room'[i].idle = room[i].idle /\ (fails' = 0 => fails = 0))
    PROVE  IInv'
<1>0. Table /\ Peers /\ Counts /\ Limits /\ Unloads /\ Home /\ Refused /\ Fresh /\ Stamped
      /\ Shape /\ Roles /\ Only(a, i)
  BY DEF IInv, Table, Plain
<1>1. Table' /\ Peers' /\ Unloads' /\ Home' /\ Refused'
  BY <1>0, PlainStep
<1>2. Counts'
  <2>1. CASE Calm(i)
    <3>1. /\ \A j \in Inst : Holders(j)' = Holders(j) /\ Seats(j)' = Seats(j)
          /\ Permits' = Permits /\ Present' = Present
      BY <2>1 DEF Calm, Holders, Seats, Permits, Present
    <3>2. \A j \in Inst : /\ room'[j].phase = room[j].phase /\ room'[j].inflight = room[j].inflight
                          /\ room'[j].slots = room[j].slots
      BY <2>1, <1>0 DEF Calm, Plain, Only
    <3> QED BY <1>0, <2>1, <3>1, <3>2 DEF Calm, Counts, Only
  <2>2. CASE a \in Actor /\ Tallies(a, i)
    BY <1>0, <2>2, CountsStep
  <2> QED BY <2>1, <2>2
<1>3. Limits'
  BY <1>0 DEF Limits, Only
<1>4. Fresh'
  BY <1>0, FreshStep
<1>5. Stamped'
  BY <1>0, StampedStep
<1> QED BY <1>1, <1>2, <1>3, <1>4, <1>5 DEF IInv

\* An actor that counts somewhere is counted there.
LEMMA Counted ==
    ASSUME Sizes, Shape, Roles, Counts, NEW a \in Actor
    PROVE  /\ act[a].pc \in Holding /\ room[act[a].rm].phase \in {"loading", "ready"} =>
                room[act[a].rm].inflight # 0
           /\ act[a].pc \in Seated => room[act[a].rm].slots # 0
           /\ act[a].pc \in Seated \ {"conn"} => conns # 0
<1>0. /\ act[a].pc # "rest" => act[a].rm \in Inst
      /\ act[a].pc \in Holding => a \in Guest
      /\ act[a].pc \in Seated => a \in Conn /\ room[act[a].rm].phase = "ready" /\ act[a].rm \in Inst
  BY LifeAssumption DEF Shape, ActRec, Roles, Role, Actor, Guest, Holding, Seated, ConnPc, CallerPc
<1>1. ASSUME act[a].pc \in Holding, room[act[a].rm].phase \in {"loading", "ready"}
      PROVE  room[act[a].rm].inflight # 0
  <2>1. a \in Holders(act[a].rm) /\ Holders(act[a].rm) \in SUBSET Actor /\ act[a].rm \in Inst
    BY <1>0, <1>1 DEF Holders, Guest, Actor, Holding
  <2> QED BY <1>1, <2>1, Finite, Minus DEF Counts
<1>2. ASSUME act[a].pc \in Seated PROVE room[act[a].rm].slots # 0
  <2>1. a \in Seats(act[a].rm) /\ Seats(act[a].rm) \in SUBSET Actor
    BY <1>0, <1>2 DEF Seats, Actor
  <2> QED BY <1>0, <1>2, <2>1, Finite, Minus DEF Counts
<1>3. ASSUME act[a].pc \in Seated \ {"conn"} PROVE conns # 0
  <2>1. a \in Permits /\ Permits \in SUBSET Actor
    BY <1>0, <1>3 DEF Permits, Actor
  <2> QED BY <2>1, Finite, Minus DEF Counts
<1> QED BY <1>1, <1>2, <1>3

\* Where an actor stands tells who it is and which room it is in.
LEMMA Standing ==
    ASSUME Sizes, IInv, NEW a \in Actor
    PROVE  /\ Shape /\ Roles /\ Lives /\ Counts /\ Limits /\ room \in [Inst -> RoomRec] /\ act \in [Actor -> ActRec]
           /\ act[a] \in ActRec /\ Role(a)
           /\ act[a].pc # "rest" => /\ act[a].rm \in Inst /\ room[act[a].rm] \in RoomRec
                                    /\ Life(act[a].rm)
           /\ act[a].pc \in {"slot", "conn", "upgrade", "refused", "joined", "leaving",
                             "last", "gone", "flush", "decide"} => a \in Conn
           /\ act[a].pc \in Writing => a \in Caller
           /\ act[a].pc \in {"evictflush", "evict"} => a \in Conn \cup Sweeper
           /\ act[a].pc \in {"load", "wait"} => a \in Guest
           /\ act[a].pc \in {"closewait", "delete"} => a \in Admin
  BY LifeAssumption DEF IInv, Table, Shape, ActRec, Roles, Role, Lives, Actor, Guest, ConnPc, CallerPc, Writing

\* What one actor and one room become, as records.
LEMMA Effect ==
    ASSUME Shape, NEW a \in Actor, NEW i \in Inst, NEW r \in RoomRec, NEW p \in ActRec,
           room' = [room EXCEPT ![i] = r], act' = [act EXCEPT ![a] = p], setup' = setup,
           cur' \in Inst \cup {None}, stored' \subseteq Update, sent' \subseteq Update,
           conns' \in Nat, fails' \in 0 .. setup.fails
    PROVE  Only(a, i) /\ room'[i] = r /\ act'[a] = p
  BY DEF Shape, Only

----------------------------------------------------------------------------
\* The plain steps, one by one.
LEMMA ReadyInv ==
    ASSUME Sizes, IInv, NEW a \in Actor, Ready(a)
    PROVE  IInv'
<1> DEFINE i == act[a].rm
<1>0. /\ act[a].pc = "wait" /\ i \in Inst /\ room' = room /\ a \in Guest /\ cur' = cur
      /\ UNCHANGED <<setup, stored, sent, conns, fails>>
      /\ Shape /\ Lives /\ Role(a) /\ Peers /\ Limits /\ act \in [Actor -> ActRec] /\ None \notin Inst
      /\ room[i].inflight \in Nat /\ room[i].slots \in Nat /\ conns \in Nat
  BY Standing, LifeAssumption DEF Ready, At, IInv, Shape, RoomRec
<1>1. CASE room[i].phase = "ready" /\ act' = [act EXCEPT ![a].pc = Enter(a)]
  <2>1. Shape' /\ Only(a, i)
    BY <1>0, <1>1, SMTT(30) DEF Shape, ActRec, Only, Enter, Pc, Holding
  <2>2. Plain(a, i)
    BY <1>0, <1>1, <2>1, LifeAssumption, SMTT(30) DEF Plain, Role, Enter, ConnPc, CallerPc, Holding, Lives, Life, Guest, Shape, Peers
  <2>a. /\ act'[a].pc = Enter(a) /\ act'[a].rm = i /\ Role(a)'
        /\ act'[a].pc \in Holding /\ act'[a].pc \notin Seated /\ act'[a].pc # "rest"
        /\ act[a].pc \in Holding /\ act[a].pc \notin Seated
    BY <1>0, <1>1, LifeAssumption, SMTT(30) DEF Role, Enter, ConnPc, CallerPc, Holding, Seated, Guest
  <2>3. Tallies(a, i)
    BY <1>0, <1>1, <2>a, SMTT(30) DEF Tallies, Bit
  <2>4. Debts(a, i) /\ Duties(a, i)
    BY <1>0, <1>1, LifeAssumption, SMTT(30) DEF Debts, Duties, Enter, Bound, Guest
  <2>5. room'[i].slots <= MaxPeers /\ conns' <= MaxConns
    BY <1>0 DEF Limits
  <2> QED BY <1>0, <2>2, <2>3, <2>4, <2>5, PlainInv
<1>2. CASE room[i].phase = "failed" /\ act' = [act EXCEPT ![a] = Resting]
  <2>1. Shape' /\ Only(a, i)
    BY <1>0, <1>2 DEF Shape, ActRec, Only, Resting, Pc
  <2>2. Plain(a, i)
    BY <1>0, <1>2, <2>1, LifeAssumption DEF Plain, Role, Resting, ConnPc, CallerPc, Holding, Lives, Life, Guest, Shape, Peers
  <2>a. /\ act'[a].pc = "rest" /\ act'[a].rm = None /\ Role(a)'
        /\ act'[a].pc \notin Seated /\ act[a].pc \notin Seated
    BY <1>0, <1>2, LifeAssumption DEF Role, Resting, ConnPc, CallerPc, Seated, Guest
  <2>3. Tallies(a, i)
    BY <1>0, <1>2, <2>a, SMTT(30) DEF Tallies, Bit
  <2>4. Debts(a, i) /\ Duties(a, i)
    BY <1>0, <1>2, LifeAssumption DEF Debts, Duties, Resting
  <2>5. room'[i].slots <= MaxPeers /\ conns' <= MaxConns
    BY <1>0 DEF Limits
  <2> QED BY <1>0, <2>2, <2>3, <2>4, <2>5, PlainInv
<1> QED BY <1>1, <1>2 DEF Ready, Goto, Rest, Rm

\* A request leaves before it registered: it gives its permits back ...
LEMMA RefuseInv ==
    ASSUME Sizes, IInv, NEW c \in Conn, NEW n \in {0, 1}, NEW m \in {0, 1}, Refuse(c, n),
           UNCHANGED <<setup, cur, stored, sent, fails>>, conns' = conns - m,
           \/ act[c].pc = "slot" /\ n = 0 /\ m = 0
           \/ act[c].pc = "conn" /\ n = 1 /\ m = 0
           \/ act[c].pc = "upgrade" /\ n = 1 /\ m = 1,
           MayRefuse
    PROVE  IInv'
<1> DEFINE i == act[c].rm
           r == [room[i] EXCEPT !.slots = @ - n]
           p == [act[c] EXCEPT !.pc = "refused"]
<1>0. /\ i \in Inst /\ c \in Actor /\ room[i] \in RoomRec /\ act[c] \in ActRec
      /\ Shape /\ Lives /\ Role(c) /\ Peers /\ Limits /\ None \notin Inst
      /\ room[i].phase = "ready" /\ (n = 1 => room[i].slots # 0) /\ (m = 1 => conns # 0)
      /\ c \notin Caller \cup Sweeper \cup Admin /\ c \in Guest
  <2>1. c \in Actor
    BY DEF Actor
  <2> QED BY <2>1, Standing, Counted, LifeAssumption, SMTT(30) DEF IInv, Role, Holding, Seated, Guest
<1>c. room[i].inflight \in Nat /\ room[i].slots \in Nat /\ conns \in Nat
  BY <1>0 DEF RoomRec, Shape
<1>1. r \in RoomRec /\ p \in ActRec /\ conns' \in Nat
  <2>1. room[i].slots - n \in Nat /\ conns' \in Nat
    BY <1>0, <1>c, SMTT(30)
  <2>2. r \in RoomRec
    BY <1>0, <2>1 DEF RoomRec
  <2>3. p \in ActRec
    BY <1>0 DEF ActRec, Pc, Holding
  <2> QED BY <2>1, <2>2, <2>3
<1>2. room' = [room EXCEPT ![i] = r] /\ act' = [act EXCEPT ![c] = p]
  <2>1. room' = [room EXCEPT ![i].slots = @ - n] /\ act' = [act EXCEPT ![c].pc = "refused"]
    BY DEF Refuse, Goto
  <2> QED BY <1>0, <2>1 DEF Shape
<1>3. Only(c, i) /\ room'[i] = r /\ act'[c] = p
  <2> HIDE DEF r, p
  <2> QED BY <1>0, <1>1, <1>2, Effect, ZenonT(60) DEF Shape
<1>4. act'[c].pc = "refused" /\ act'[c].rm = i /\ act[c].pc \in Holding /\ act[c].pc \in {"slot", "conn", "upgrade"}
  BY <1>0, <1>3 DEF ActRec, Holding
<1>5. /\ room'[i].slots = room[i].slots - n /\ room'[i].inflight = room[i].inflight
      /\ room'[i].phase = "ready" /\ room'[i].peers = room[i].peers
      /\ room'[i].idle = room[i].idle /\ room'[i].unsaved = room[i].unsaved
      /\ room'[i].stop = room[i].stop /\ room'[i].done = room[i].done
      /\ room'[i].unloads = room[i].unloads
  BY <1>0, <1>3 DEF RoomRec
<1>6. Role(c)'
  BY <1>0, <1>4, <1>5 DEF Role, ConnPc
<1>7. Plain(c, i)
  BY <1>0, <1>3, <1>4, <1>5, <1>6 DEF Plain, Lives, Life, Peers
<1>8. Tallies(c, i)
  <2>1. /\ Bit(c \in Guest /\ act'[c].pc \in Holding) = 1 /\ Bit(c \in Guest /\ act[c].pc \in Holding) = 1
        /\ Bit(c \in Conn /\ act'[c].pc \in Seated) = 0 /\ Bit(c \in Conn /\ act[c].pc \in Seated) = n
        /\ Bit(c \in Conn /\ act'[c].pc \in Seated \ {"conn"}) = 0
        /\ Bit(c \in Conn /\ act[c].pc \in Seated \ {"conn"}) = m
    BY <1>0, <1>4 DEF Bit, Holding, Seated
  <2>2. /\ room[i].inflight + 1 - 1 = room[i].inflight /\ room[i].slots + 0 - n = room[i].slots - n
        /\ conns + 0 - m = conns - m
    BY <1>c, SMTT(30)
  <2> QED BY <1>0, <1>4, <1>5, <1>6, <2>1, <2>2 DEF Tallies
<1>9. Debts(c, i) /\ Duties(c, i)
  BY <1>0, <1>4, <1>5 DEF Debts, Duties
<1>10. room'[i].slots <= MaxPeers /\ conns' <= MaxConns
  BY <1>0, <1>c, <1>5, LifeAssumption, SMTT(30) DEF Limits
<1> QED BY <1>0, <1>7, <1>8, <1>9, <1>10, PlainInv

\* ... and its in-flight count, and turns to the room it created.
LEMMA ReapInv ==
    ASSUME Sizes, IInv, NEW c \in Actor, Reap(c)
    PROVE  IInv'
<1> DEFINE i == act[c].rm
           r == [room[i] EXCEPT !.inflight = @ - 1]
           p == IF act[c].created THEN [act[c] EXCEPT !.pc = "evictflush"] ELSE Resting
<1>0. /\ act[c].pc = "refused" /\ UNCHANGED <<setup, cur, stored, sent, conns, fails>>
      /\ i \in Inst /\ c \in Conn /\ room[i] \in RoomRec /\ act[c] \in ActRec
      /\ Shape /\ Roles /\ Lives /\ Counts /\ Limits /\ Peers /\ Refused /\ None \notin Inst
      /\ room[i].phase = "ready" /\ c \notin Caller \cup Sweeper \cup Admin /\ c \in Guest
  <2>1. act[c].pc = "refused" /\ UNCHANGED <<setup, cur, stored, sent, conns, fails>>
    BY DEF Reap, At
  <2> QED BY <2>1, Standing, LifeAssumption DEF Role, IInv, Guest
<1>c. room[i].inflight \in Nat \ {0} /\ room[i].slots \in Nat /\ conns \in Nat
  BY <1>0, Counted DEF Holding, RoomRec, Shape
<1>1. r \in RoomRec /\ p \in ActRec
  <2>1. room[i].inflight - 1 \in Nat
    BY <1>c, SMTT(30)
  <2>2. r \in RoomRec
    BY <1>0, <2>1 DEF RoomRec
  <2>3. [act[c] EXCEPT !.pc = "evictflush"] \in ActRec /\ Resting \in ActRec
    BY <1>0 DEF ActRec, Pc, Resting
  <2> QED BY <2>2, <2>3
<1>2. room' = [room EXCEPT ![i] = r] /\ act' = [act EXCEPT ![c] = p]
  <2>1. room' = [room EXCEPT ![i].inflight = @ - 1]
    BY DEF Reap
  <2>2. act' = [act EXCEPT ![c] = p]
    <3>1. CASE act[c].created
      <4>1. act' = [act EXCEPT ![c].pc = "evictflush"]
        BY <3>1 DEF Reap, Goto
      <4> QED BY <1>0, <3>1, <4>1 DEF Shape
    <3>2. CASE ~act[c].created
      BY <3>2 DEF Reap, Rest
    <3> QED BY <3>1, <3>2
  <2> QED BY <1>0, <2>1, <2>2 DEF Shape
<1>3. Only(c, i) /\ room'[i] = r /\ act'[c] = p
  <2> HIDE DEF r, p
  <2> QED BY <1>0, <1>1, <1>2, Effect, ZenonT(60) DEF Shape
<1>4. \/ act'[c].pc = "evictflush" /\ act'[c].rm = i /\ act[c].created
      \/ act'[c].pc = "rest" /\ act'[c].rm = None
  BY <1>0, <1>3, SMTT(30) DEF ActRec, Resting
<1>5. /\ room'[i].slots = room[i].slots /\ room'[i].inflight = room[i].inflight - 1
      /\ room'[i].phase = "ready" /\ room'[i].peers = room[i].peers
      /\ room'[i].idle = room[i].idle /\ room'[i].unsaved = room[i].unsaved
      /\ room'[i].stop = room[i].stop /\ room'[i].done = room[i].done
      /\ room'[i].unloads = room[i].unloads
  BY <1>0, <1>3 DEF RoomRec
<1>6. Role(c)'
  BY <1>0, <1>4, <1>5 DEF Role, ConnPc
<1>7. Plain(c, i)
  <2>1. act[c].created => MayRefuse
    BY <1>0 DEF Refused, Reaping
  <2> QED BY <1>0, <1>3, <1>4, <1>5, <1>6, <2>1 DEF Plain, Lives, Life, Peers, Holding
<1>8. Tallies(c, i)
  <2>1. /\ Bit(c \in Guest /\ act'[c].pc \in Holding) = 0 /\ Bit(c \in Guest /\ act[c].pc \in Holding) = 1
        /\ Bit(c \in Conn /\ act'[c].pc \in Seated) = 0 /\ Bit(c \in Conn /\ act[c].pc \in Seated) = 0
        /\ Bit(c \in Conn /\ act'[c].pc \in Seated \ {"conn"}) = 0
        /\ Bit(c \in Conn /\ act[c].pc \in Seated \ {"conn"}) = 0
    BY <1>0, <1>4 DEF Bit, Holding, Seated
  <2>2. /\ room[i].inflight + 0 - 1 = room[i].inflight - 1 /\ room[i].slots + 0 - 0 = room[i].slots
        /\ conns + 0 - 0 = conns
    BY <1>c, SMTT(30)
  <2> QED BY <1>0, <1>4, <1>5, <1>6, <2>1, <2>2 DEF Tallies
<1>9. Debts(c, i) /\ Duties(c, i)
  BY <1>0, <1>4, <1>5 DEF Debts, Duties, Bound
<1>10. room'[i].slots <= MaxPeers /\ conns' <= MaxConns
  BY <1>0, <1>5 DEF Limits
<1> QED BY <1>0, <1>7, <1>8, <1>9, <1>10, PlainInv

LEMMA TakeSlotInv ==
    ASSUME Sizes, IInv, NEW c \in Actor, TakeSlot(c)
    PROVE  IInv'
<1> DEFINE i == act[c].rm
<1>0. /\ act[c].pc = "slot" /\ i \in Inst /\ c \in Conn /\ cur' = cur /\ room[i] \in RoomRec
      /\ UNCHANGED <<setup, stored, sent, conns, fails>>
      /\ Shape /\ Roles /\ Lives /\ Role(c) /\ Peers /\ Limits /\ Counts /\ act \in [Actor -> ActRec]
      /\ None \notin Inst /\ room[i].phase = "ready"
  BY Standing, LifeAssumption DEF TakeSlot, At, IInv, Role
<1>1. CASE room[i].slots < MaxPeers /\ room' = [room EXCEPT ![i].slots = @ + 1]
           /\ act' = [act EXCEPT ![c].pc = "conn"]
  <2>1. Shape' /\ Only(c, i)
    <3>1. room' \in [Inst -> RoomRec]
      <4>1. [room[i] EXCEPT !.slots = @ + 1] \in RoomRec
        <5>1. room[i].slots + 1 \in Nat
          BY <1>0, SMTT(30) DEF RoomRec
        <5> QED BY <1>0, <5>1 DEF RoomRec
      <4> QED BY <1>0, <1>1, <4>1 DEF Shape
    <3> QED BY <1>0, <1>1, <3>1, SMTT(30) DEF Shape, ActRec, Only, Pc, Holding
  <2>2. Plain(c, i)
    BY <1>0, <1>1, <2>1, LifeAssumption, SMTT(30) DEF Plain, Role, ConnPc, Holding, Lives, Life, Peers, Shape, RoomRec
  <2>a. /\ act'[c].pc = "conn" /\ act'[c].rm = i /\ room'[i].slots = room[i].slots + 1
        /\ room'[i].inflight = room[i].inflight /\ room'[i].phase = "ready"
        /\ room[i].inflight \in Nat /\ room[i].slots \in Nat /\ conns \in Nat
    BY <1>0, <1>1, SMTT(30) DEF Shape, RoomRec
  <2>r. Role(c)'
    BY <1>0, <2>a, LifeAssumption DEF Role, ConnPc
  <2>3. Tallies(c, i)
    BY <1>0, <2>a, <2>r, SMTT(30) DEF Tallies, Bit, Holding, Seated, Guest
  <2>4. Debts(c, i) /\ Duties(c, i)
    BY <1>0, <1>1, LifeAssumption, SMTT(30) DEF Debts, Duties, Bound, Guest
  <2>5. room'[i].slots <= MaxPeers /\ conns' <= MaxConns
    BY <1>0, <1>1, LifeAssumption, SMTT(30) DEF Limits, RoomRec, Shape
  <2> QED BY <1>0, <2>2, <2>3, <2>4, <2>5, PlainInv
<1>2. CASE room[i].slots = MaxPeers /\ Refuse(c, 0)
  <2>1. MayRefuse
    BY <1>0, <1>2, SeatFree, LifeAssumption, SMTT(30)
  <2>2. conns' = conns - 0
    BY <1>0, SMTT(30) DEF Shape
  <2> QED BY <1>0, <1>2, <2>1, <2>2, RefuseInv
<1> QED BY <1>1, <1>2 DEF TakeSlot, Goto, Rm

LEMMA TakeConnInv ==
    ASSUME Sizes, IInv, NEW c \in Actor, TakeConn(c)
    PROVE  IInv'
<1> DEFINE i == act[c].rm
<1>0. /\ act[c].pc = "conn" /\ i \in Inst /\ c \in Conn /\ cur' = cur /\ room[i] \in RoomRec
      /\ UNCHANGED <<setup, stored, sent, fails>>
      /\ Shape /\ Roles /\ Lives /\ Role(c) /\ Peers /\ Limits /\ Counts /\ act \in [Actor -> ActRec]
      /\ None \notin Inst /\ room[i].phase = "ready"
  BY Standing, LifeAssumption DEF TakeConn, At, IInv, Role
<1>1. CASE conns < MaxConns /\ conns' = conns + 1 /\ act' = [act EXCEPT ![c].pc = "upgrade"] /\ room' = room
  <2>1. Shape' /\ Only(c, i)
    BY <1>0, <1>1, SMTT(30) DEF Shape, ActRec, Only, Pc, Holding
  <2>2. Plain(c, i)
    BY <1>0, <1>1, <2>1, LifeAssumption, SMTT(30) DEF Plain, Role, ConnPc, Holding, Lives, Life, Peers, Shape
  <2>a. /\ act'[c].pc = "upgrade" /\ act'[c].rm = i
        /\ room[i].inflight \in Nat /\ room[i].slots \in Nat /\ conns \in Nat
    BY <1>0, <1>1, SMTT(30) DEF Shape, RoomRec
  <2>r. Role(c)'
    BY <1>0, <1>1, <2>a, LifeAssumption DEF Role, ConnPc
  <2>3. Tallies(c, i)
    BY <1>0, <1>1, <2>a, <2>r, SMTT(30) DEF Tallies, Bit, Holding, Seated, Guest
  <2>4. Debts(c, i) /\ Duties(c, i)
    BY <1>0, <1>1, LifeAssumption, SMTT(30) DEF Debts, Duties, Bound, Guest
  <2>5. room'[i].slots <= MaxPeers /\ conns' <= MaxConns
    BY <1>0, <1>1, LifeAssumption, SMTT(30) DEF Limits, Shape
  <2> QED BY <1>0, <2>2, <2>3, <2>4, <2>5, PlainInv
<1>2. CASE conns = MaxConns /\ conns' = conns /\ Refuse(c, 1)
  <2>1. MayRefuse
    BY <1>0, <1>2, SeatFree, LifeAssumption, SMTT(30)
  <2>2. conns' = conns - 0
    BY <1>2, <1>0, SMTT(30) DEF Shape
  <2> QED BY <1>0, <1>2, <2>1, <2>2, RefuseInv
<1> QED BY <1>1, <1>2 DEF TakeConn, Goto, Rm

LEMMA UpgradeInv ==
    ASSUME Sizes, IInv, NEW c \in Actor, Upgrade(c)
    PROVE  IInv'
<1>0. act[c].pc = "upgrade" /\ c \in Conn /\ MayRefuse
  BY Standing DEF Upgrade, At, MayRefuse
<1> QED BY <1>0, RefuseInv DEF Upgrade

\* A plain step that changes no count.
Still(a, i) ==
    /\ act[a].rm \in {i, None} /\ act'[a].rm \in {i, None} /\ Role(a)'
    /\ room'[i].inflight = room[i].inflight /\ room'[i].slots = room[i].slots /\ conns' = conns
    /\ a \in Guest => (act[a].pc \in Holding <=> act'[a].pc \in Holding)
    /\ a \in Conn => act[a].pc \notin Seated /\ act'[a].pc \notin Seated /\ act[a].pc # "rest"

LEMMA StillInv ==
    ASSUME Sizes, IInv, NEW a \in Actor, NEW i \in Inst, Plain(a, i), Still(a, i),
           setup.lazy /\ Closed => Debts(a, i), Duties(a, i)
    PROVE  IInv'
<1>1. room[i] \in RoomRec /\ conns \in Nat /\ Limits
  BY DEF IInv, Table, Shape
<1>2. room[i].inflight \in Nat /\ room[i].slots \in Nat
  BY <1>1 DEF RoomRec
<1>3. Tallies(a, i)
  <2>1. /\ Bit(a \in Guest /\ act'[a].pc \in Holding) = Bit(a \in Guest /\ act[a].pc \in Holding)
        /\ Bit(a \in Guest /\ act[a].pc \in Holding) \in Nat
        /\ Bit(a \in Conn /\ act'[a].pc \in Seated) = 0 /\ Bit(a \in Conn /\ act[a].pc \in Seated) = 0
        /\ Bit(a \in Conn /\ act'[a].pc \in Seated \ {"conn"}) = 0
        /\ Bit(a \in Conn /\ act[a].pc \in Seated \ {"conn"}) = 0
    BY DEF Still, Bit
  <2> QED BY <1>1, <1>2, <2>1, SMTT(30) DEF Tallies, Still, Plain
<1>4. room'[i].slots <= MaxPeers /\ conns' <= MaxConns
  BY <1>1 DEF Limits, Still
<1> QED BY <1>3, <1>4, PlainInv

LEMMA ClearIdleInv ==
    ASSUME Sizes, IInv, NEW a \in Actor, ClearIdle(a)
    PROVE  IInv'
<1> DEFINE i == act[a].rm
           r == [room[i] EXCEPT !.idle = 0]
           p == [act[a] EXCEPT !.pc = "write"]
<1>0. /\ act[a].pc = "clear" /\ i \in Inst /\ a \in Caller /\ room[i] \in RoomRec /\ act[a] \in ActRec
      /\ Shape /\ Lives /\ None \notin Inst /\ a \notin Conn \cup Sweeper \cup Admin
      /\ room[i].phase = "ready"
  BY Standing, LifeAssumption DEF ClearIdle, At, Writing, Role
<1>1. r \in RoomRec /\ p \in ActRec
  BY <1>0 DEF RoomRec, ActRec, Pc, Holding
<1>2. /\ room' = [room EXCEPT ![i] = r] /\ act' = [act EXCEPT ![a] = p]
      /\ UNCHANGED <<setup, cur, stored, sent, conns, fails>>
  BY DEF ClearIdle, Goto
<1>3. Only(a, i) /\ room'[i] = r /\ act'[a] = p
  <2> HIDE DEF r, p
  <2> QED BY <1>0, <1>1, <1>2, Effect DEF Shape
<1>4. Role(a)'
  BY <1>0, <1>3 DEF Role, CallerPc, RoomRec, ActRec
<1>5. Plain(a, i)
  BY <1>0, <1>2, <1>3, <1>4, SMTT(30) DEF Plain, Lives, Life, Holding, RoomRec, ActRec
<1>6. Still(a, i)
  BY <1>0, <1>2, <1>3, <1>4, SMTT(30) DEF Still, Holding, RoomRec, ActRec
<1>7. Debts(a, i) /\ Duties(a, i)
  BY <1>0, <1>2, <1>3, SMTT(30) DEF Debts, Duties, Bound, Guest, RoomRec, ActRec
<1> QED BY <1>0, <1>5, <1>6, <1>7, StillInv

\* A commit on a room whose worker runs becomes its debt; on one whose worker
\* is gone it is stored at once.
LEMMA CommitIs ==
    ASSUME Shape, NEW a \in Actor, act[a].rm \in Inst, NEW u \in Update, Commit(a, u)
    PROVE  /\ stored' \subseteq Update /\ sent' \subseteq Update
           /\ \E s \in SUBSET Update :
                 /\ room' = [room EXCEPT ![act[a].rm] = [room[act[a].rm] EXCEPT !.unsaved = s]]
                 /\ room[act[a].rm].done => s = room[act[a].rm].unsaved
<1> DEFINE i == act[a].rm
<1>1. room[i] \in RoomRec /\ room \in [Inst -> RoomRec] /\ stored \subseteq Update /\ sent \subseteq Update
  BY DEF Shape
<1>2. CASE room[i].done
  <2>1. room' = [room EXCEPT ![i] = [room[i] EXCEPT !.unsaved = room[i].unsaved]]
    BY <1>1, <1>2 DEF Commit, Rm, RoomRec
  <2> QED BY <1>1, <1>2, <2>1 DEF Commit, Rm, RoomRec
<1>3. CASE ~room[i].done
  <2> DEFINE s == room[i].unsaved \cup {u}
  <2>1. s \in SUBSET Update
    BY <1>1 DEF RoomRec
  <2>2. room' = [room EXCEPT ![i] = [room[i] EXCEPT !.unsaved = s]]
    BY <1>1, <1>3 DEF Commit, Rm
  <2>3. stored' \subseteq Update /\ sent' \subseteq Update
    BY <1>1, <1>3 DEF Commit, Rm
  <2> HIDE DEF s
  <2> QED BY <1>3, <2>1, <2>2, <2>3
<1> QED BY <1>2, <1>3

LEMMA ApplyInv ==
    ASSUME Sizes, IInv, NEW a \in Actor, Apply(a)
    PROVE  IInv'
<1> DEFINE i == act[a].rm
           p == [act[a] EXCEPT !.pc = "mark"]
<1>0. /\ act[a].pc = "write" /\ i \in Inst /\ a \in Caller /\ room[i] \in RoomRec /\ act[a] \in ActRec
      /\ Shape /\ Lives /\ Home /\ None \notin Inst /\ a \notin Conn \cup Sweeper \cup Admin
      /\ room[i].phase = "ready" /\ Peers
  BY Standing, LifeAssumption DEF Apply, At, Writing, Role, IInv
<1>1. /\ act' = [act EXCEPT ![a] = p] /\ UNCHANGED <<setup, cur, conns, fails>>
  BY DEF Apply, Goto
<1>2. PICK s \in SUBSET Update : room' = [room EXCEPT ![i] = [room[i] EXCEPT !.unsaved = s]]
  <2>1. CASE \E u \in Update : Commit(a, u)
    BY <1>0, <2>1, CommitIs
  <2>2. CASE room' = room
    <3>1. room' = [room EXCEPT ![i] = [room[i] EXCEPT !.unsaved = room[i].unsaved]]
      BY <1>0, <2>2 DEF Shape, RoomRec
    <3>2. room[i].unsaved \in SUBSET Update
      BY <1>0 DEF RoomRec
    <3> QED BY <3>1, <3>2
  <2> QED BY <2>1, <2>2 DEF Apply
<1>s. stored' \subseteq Update /\ sent' \subseteq Update
  <2>1. CASE \E u \in Update : Commit(a, u)
    BY <1>0, <2>1, CommitIs
  <2>2. CASE UNCHANGED <<room, stored, sent>>
    BY <1>0, <2>2 DEF Shape
  <2> QED BY <2>1, <2>2 DEF Apply
<1> DEFINE r == [room[i] EXCEPT !.unsaved = s]
<1>3. r \in RoomRec /\ p \in ActRec
  BY <1>0 DEF RoomRec, ActRec, Pc, Holding
<1>4. Only(a, i) /\ room'[i] = r /\ act'[a] = p
  <2>1. room' = [room EXCEPT ![i] = r]
    BY <1>2
  <2> HIDE DEF r, p
  <2> QED BY <1>0, <1>1, <1>s, <1>3, <2>1, Effect, ZenonT(60) DEF Shape
<1>5. Role(a)'
  BY <1>0, <1>4, SMTT(30) DEF Role, CallerPc, RoomRec, ActRec
<1>6. Plain(a, i)
  BY <1>0, <1>1, <1>4, <1>5, SMTT(30) DEF Plain, Lives, Life, Holding, RoomRec, ActRec, Peers
<1>7. Still(a, i)
  BY <1>0, <1>1, <1>4, <1>5, SMTT(30) DEF Still, Holding, RoomRec, ActRec
<1>8. setup.lazy /\ Closed => Debts(a, i)
  <2>1. setup.lazy /\ Closed => cur = i
    BY <1>0 DEF Home, Guest, Holding
  <2> QED BY <1>0, <1>1, <1>4, <2>1, SMTT(30) DEF Debts, RoomRec, ActRec
<1>9. Duties(a, i)
  BY <1>0, <1>1, <1>4, SMTT(30) DEF Duties, Bound, Guest, RoomRec, ActRec
<1> QED BY <1>0, <1>6, <1>7, <1>8, <1>9, StillInv

LEMMA MarkIdleInv ==
    ASSUME Sizes, IInv, NEW a \in Actor, MarkIdleIfEmpty(a)
    PROVE  IInv'
<1> DEFINE i == act[a].rm
           d == IF setup.lazy /\ room[i].peers = {} THEN Now ELSE room[i].idle
           r == [room[i] EXCEPT !.idle = d]
           p == [act[a] EXCEPT !.pc = "release"]
<1>0. /\ act[a].pc = "mark" /\ i \in Inst /\ a \in Caller /\ room[i] \in RoomRec /\ act[a] \in ActRec
      /\ Shape /\ Lives /\ Peers /\ None \notin Inst /\ a \notin Conn \cup Sweeper \cup Admin
      /\ room[i].phase = "ready"
  BY Standing, LifeAssumption DEF MarkIdleIfEmpty, At, Writing, Role, IInv
<1>n. /\ Now \in Nat /\ Now # 0 /\ \A b \in Actor : act[b].stamp # Now
  BY <1>0, NowFresh
<1>1. r \in RoomRec /\ p \in ActRec /\ d \in Nat
  BY <1>0, <1>n DEF RoomRec, ActRec, Pc, Holding
<1>2. /\ room' = [room EXCEPT ![i] = r] /\ act' = [act EXCEPT ![a] = p]
      /\ UNCHANGED <<setup, cur, stored, sent, conns, fails>>
  <2>1. CASE setup.lazy /\ room[i].peers = {}
    BY <2>1 DEF MarkIdleIfEmpty, Goto, Rm
  <2>2. CASE ~(setup.lazy /\ room[i].peers = {})
    <3>1. r = room[i]
      BY <1>0, <2>2 DEF RoomRec
    <3>2. room = [room EXCEPT ![i] = room[i]]
      BY <1>0 DEF Shape
    <3> QED BY <2>2, <3>1, <3>2 DEF MarkIdleIfEmpty, Goto, Rm
  <2> QED BY <2>1, <2>2
<1>3. Only(a, i) /\ room'[i] = r /\ act'[a] = p
  <2> HIDE DEF r, p, d
  <2> QED BY <1>0, <1>1, <1>2, Effect, ZenonT(60) DEF Shape
<1>d. room[i].peers # {} => d = 0
  BY <1>0 DEF Peers
<1>e. setup.lazy => (d = 0 /\ room[i].peers # {}) \/ d = Now
  BY <1>d
<1> HIDE DEF d
<1>4. Role(a)'
  BY <1>0, <1>3, SMTT(30) DEF Role, CallerPc, RoomRec, ActRec
<1>5. Plain(a, i)
  BY <1>0, <1>1, <1>2, <1>3, <1>4, <1>d, SMTT(30) DEF Plain, Lives, Life, Holding, RoomRec, ActRec
<1>6. Still(a, i)
  BY <1>0, <1>2, <1>3, <1>4, SMTT(30) DEF Still, Holding, RoomRec, ActRec
<1>7. setup.lazy /\ Closed => Debts(a, i)
  <2>1. \A b \in Actor : act'[b].stamp = act[b].stamp
    BY <1>0, <1>2 DEF Shape, ActRec
  <2>2. room'[i].idle = d /\ room'[i].unsaved = room[i].unsaved /\ act'[a].pc = "release"
    BY <1>0, <1>1, <1>3 DEF RoomRec, ActRec
  <2> QED BY <1>0, <1>n, <1>e, <2>1, <2>2 DEF Debts
<1>8. Duties(a, i)
  <2>1. room'[i].idle = d
    BY <1>0, <1>1, <1>3 DEF RoomRec
  <2> QED BY <1>0, <1>n, <1>2, <1>e, <2>1 DEF Duties
<1> QED BY <1>0, <1>5, <1>6, <1>7, <1>8, StillInv

LEMMA ReleaseInv ==
    ASSUME Sizes, IInv, NEW a \in Actor, ReleaseInflight(a)
    PROVE  IInv'
<1> DEFINE i == act[a].rm
           r == [room[i] EXCEPT !.inflight = @ - 1]
<1>0. /\ act[a].pc = "release" /\ i \in Inst /\ a \in Caller /\ room[i] \in RoomRec
      /\ Shape /\ Roles /\ Lives /\ Counts /\ Limits /\ Peers /\ None \notin Inst
      /\ a \notin Conn \cup Sweeper \cup Admin /\ room[i].phase = "ready" /\ a \in Guest
  BY Standing, LifeAssumption DEF ReleaseInflight, At, Writing, Role, IInv, Guest
<1>c. room[i].inflight # 0 /\ room[i].inflight \in Nat /\ room[i].slots \in Nat /\ conns \in Nat
  BY <1>0, Counted DEF Holding, RoomRec, Shape
<1>1. r \in RoomRec /\ Resting \in ActRec
  BY <1>0, <1>c, SMTT(30) DEF RoomRec, ActRec, Resting, Pc
<1>2. /\ room' = [room EXCEPT ![i] = r] /\ act' = [act EXCEPT ![a] = Resting]
      /\ UNCHANGED <<setup, cur, stored, sent, conns, fails>>
  BY DEF ReleaseInflight, Rest
<1>3. Only(a, i) /\ room'[i] = r /\ act'[a] = Resting
  <2> HIDE DEF r
  <2> QED BY <1>0, <1>1, <1>2, Effect, ZenonT(60) DEF Shape
<1>4. Role(a)'
  BY <1>0, <1>3, SMTT(30) DEF Role, CallerPc, Resting
<1>5. Plain(a, i)
  BY <1>0, <1>2, <1>3, <1>4, SMTT(30) DEF Plain, Lives, Life, Peers, Holding, RoomRec, Resting
<1>6. Tallies(a, i)
  <2>1. /\ room'[i].inflight = room[i].inflight - 1 /\ room'[i].slots = room[i].slots
        /\ act'[a].pc = "rest" /\ act'[a].rm = None
    BY <1>0, <1>3, SMTT(30) DEF RoomRec, Resting
  <2> QED BY <1>0, <1>c, <1>2, <1>4, <2>1, SMTT(30) DEF Tallies, Bit, Holding, Seated
<1>7. Debts(a, i) /\ Duties(a, i)
  BY <1>0, <1>2, <1>3, SMTT(30) DEF Debts, Duties, Bound, Resting, RoomRec
<1>8. room'[i].slots <= MaxPeers /\ conns' <= MaxConns
  BY <1>0, <1>2, <1>3, SMTT(30) DEF Limits, RoomRec
<1> QED BY <1>0, <1>5, <1>6, <1>7, <1>8, PlainInv

\* A flush: the debt is paid, or a failure is counted; the actor notes which.
LEMMA FlushIs ==
    ASSUME Shape, NEW a \in Actor, act[a].rm \in Inst, NEW q \in Pc, Flush(a, q)
    PROVE  /\ UNCHANGED <<setup, cur, sent, conns>> /\ stored' \subseteq Update
           /\ \E s \in SUBSET Update, ok \in BOOLEAN :
                 /\ room' = [room EXCEPT ![act[a].rm] = [room[act[a].rm] EXCEPT !.unsaved = s]]
                 /\ act' = [act EXCEPT ![a] = [act[a] EXCEPT !.pc = q, !.ok = ok]]
                 /\ fails' \in 0 .. setup.fails /\ (fails' = 0 => fails = 0 /\ ok)
                 /\ s \subseteq room[act[a].rm].unsaved /\ (ok => s = {})
<1> DEFINE i == act[a].rm
<1>1. /\ room[i] \in RoomRec /\ room \in [Inst -> RoomRec] /\ stored \subseteq Update
      /\ fails \in 0 .. setup.fails /\ setup.fails \in Nat /\ act[a] \in ActRec
  BY LifeAssumption DEF Shape
<1>u. room[i].unsaved \in SUBSET Update
  BY <1>1 DEF RoomRec
<1>s. UNCHANGED <<setup, cur, sent, conns>> /\ stored' \subseteq Update
  BY <1>1, <1>u DEF Flush, Rm
<1> SUFFICES \E s \in SUBSET Update, ok \in BOOLEAN :
                 /\ room' = [room EXCEPT ![i] = [room[i] EXCEPT !.unsaved = s]]
                 /\ act' = [act EXCEPT ![a] = [act[a] EXCEPT !.pc = q, !.ok = ok]]
                 /\ fails' \in 0 .. setup.fails /\ (fails' = 0 => fails = 0 /\ ok)
                 /\ s \subseteq room[i].unsaved /\ (ok => s = {})
  BY <1>s
<1>2. CASE stored' = stored \cup room[i].unsaved /\ room' = Saved(i)
           /\ act' = [act EXCEPT ![a].pc = q, ![a].ok = TRUE] /\ fails' = fails
  <2>1. room' = [room EXCEPT ![i] = [room[i] EXCEPT !.unsaved = {}]]
    BY <1>2 DEF Saved
  <2>2. act' = [act EXCEPT ![a] = [act[a] EXCEPT !.pc = q, !.ok = TRUE]]
    BY <1>1, <1>2 DEF Shape
  <2> WITNESS {} \in SUBSET Update, TRUE \in BOOLEAN
  <2> QED BY <1>1, <1>2, <2>1, <2>2
<1>3. CASE fails < setup.fails /\ fails' = fails + 1
           /\ act' = [act EXCEPT ![a].pc = q, ![a].ok = FALSE] /\ UNCHANGED <<room, stored>>
  <2>1. room' = [room EXCEPT ![i] = [room[i] EXCEPT !.unsaved = room[i].unsaved]]
    BY <1>1, <1>3 DEF RoomRec
  <2>2. act' = [act EXCEPT ![a] = [act[a] EXCEPT !.pc = q, !.ok = FALSE]]
    BY <1>1, <1>3 DEF Shape
  <2>w. room[i].unsaved \in SUBSET Update
    BY <1>u
  <2>3. fails' \in 0 .. setup.fails /\ fails' # 0
    BY <1>1, <1>3, SMTT(30)
  <2> WITNESS room[i].unsaved \in SUBSET Update, FALSE \in BOOLEAN
  <2> QED BY <2>1, <2>2, <2>3
<1> QED BY <1>2, <1>3 DEF Flush, Rm

LEMMA FlushInv ==
    ASSUME Sizes, IInv, NEW a \in Actor, NEW q \in Pc, Flush(a, q),
           \/ act[a].pc = "flush" /\ q = "decide"
           \/ act[a].pc = "evictflush" /\ q = "evict"
           \/ act[a].pc = "closewait" /\ q = "delete"
    PROVE  IInv'
<1> DEFINE i == act[a].rm
<1>0. /\ i \in Inst /\ room[i] \in RoomRec /\ act[a] \in ActRec /\ Shape /\ Lives /\ Peers /\ Home /\ Fresh
      /\ None \notin Inst /\ room[i].phase = "ready" /\ Role(a) /\ Refused /\ sent \subseteq Update
      /\ (act[a].pc = "flush" => a \in Conn) /\ (act[a].pc = "evictflush" => a \in Conn \cup Sweeper)
      /\ (act[a].pc = "closewait" => a \in Admin)
  BY Standing, LifeAssumption DEF Role, IInv, Shape
<1>1. PICK s \in SUBSET Update, ok \in BOOLEAN :
         /\ room' = [room EXCEPT ![i] = [room[i] EXCEPT !.unsaved = s]]
         /\ act' = [act EXCEPT ![a] = [act[a] EXCEPT !.pc = q, !.ok = ok]]
         /\ fails' \in 0 .. setup.fails /\ (fails' = 0 => fails = 0 /\ ok)
         /\ s \subseteq room[i].unsaved /\ (ok => s = {})
  BY <1>0, FlushIs
<1>2. UNCHANGED <<setup, cur, sent, conns>> /\ stored' \subseteq Update
  BY <1>0, FlushIs
<1> DEFINE r == [room[i] EXCEPT !.unsaved = s]
           p == [act[a] EXCEPT !.pc = q, !.ok = ok]
<1>3. r \in RoomRec /\ p \in ActRec
  BY <1>0 DEF RoomRec, ActRec
<1>4. Only(a, i) /\ room'[i] = r /\ act'[a] = p
  <2>1. room' = [room EXCEPT ![i] = r] /\ act' = [act EXCEPT ![a] = p]
    BY <1>1
  <2>2. /\ fails' \in 0 .. setup.fails /\ cur' \in Inst \cup {None} /\ setup' = setup
        /\ stored' \subseteq Update /\ sent' \subseteq Update /\ conns' \in Nat
    BY <1>0, <1>1, <1>2 DEF Shape
  <2> HIDE DEF r, p
  <2>3. room' \in [Inst -> RoomRec] /\ act' \in [Actor -> ActRec] /\ room'[i] = r /\ act'[a] = p
    BY <1>0, <1>3, <2>1 DEF Shape
  <2>4. Shape'
    BY <1>0, <2>2, <2>3 DEF Shape
  <2> QED BY <1>0, <2>1, <2>2, <2>3, <2>4 DEF Shape, Only
<1>5. /\ act'[a].pc = q /\ act'[a].rm = i /\ act'[a].ok = ok /\ act'[a].stamp = act[a].stamp
  BY <1>0, <1>4 DEF ActRec
<1>6. /\ room'[i].unsaved = s /\ room'[i].idle = room[i].idle /\ room'[i].phase = "ready"
      /\ room'[i].peers = room[i].peers /\ room'[i].stop = room[i].stop /\ room'[i].done = room[i].done
      /\ room'[i].unloads = room[i].unloads /\ room'[i].inflight = room[i].inflight
      /\ room'[i].slots = room[i].slots
  BY <1>0, <1>4 DEF RoomRec
<1>7. Role(a)'
  BY <1>0, <1>5, <1>6, LifeAssumption DEF Role, ConnPc
<1>8. Plain(a, i)
  <2>1. a \in Admin /\ Closed => act[a].pc = "rest"
    BY <1>0 DEF Home
  <2>2. a \in Conn /\ act[a].pc = "evictflush" => MayRefuse
    BY <1>0 DEF Refused, Reaping
  <2> QED BY <1>0, <1>2, <1>4, <1>5, <1>6, <1>7, <2>1, <2>2, LifeAssumption DEF Plain, Lives, Life, Holding, Peers
<1>9. Still(a, i)
  BY <1>0, <1>2, <1>5, <1>6, <1>7 DEF Still, Holding, Seated
<1>10. setup.lazy /\ Closed => Debts(a, i)
  BY <1>0, <1>1, <1>5, <1>6, SMTT(30) DEF Debts, Fresh
<1>11. Duties(a, i)
  BY <1>0, <1>1, <1>5, <1>6, LifeAssumption DEF Duties, Bound, Guest
<1> QED BY <1>0, <1>8, <1>9, <1>10, <1>11, StillInv

\* An eviction or a stamp that is called off changes nothing.
LEMMA GiveUpInv ==
    ASSUME Sizes, IInv, NEW a \in Actor, Rest(a), room' = room, UNCHANGED <<setup, cur, stored, sent, conns, fails>>,
           \/ act[a].pc = "decide" /\ (room[act[a].rm].peers # {} \/ ~act[a].ok)
           \/ act[a].pc = "evict"
    PROVE  IInv'
<1> DEFINE i == act[a].rm
<1>0. /\ i \in Inst /\ room[i] \in RoomRec /\ Shape /\ Lives /\ Peers /\ Stamped
      /\ None \notin Inst /\ room[i].phase = "ready" /\ Role(a) /\ a \in Conn \cup Sweeper
      /\ (act[a].pc = "decide" => a \in Conn)
  BY Standing, LifeAssumption DEF Role, IInv
<1>1. act' = [act EXCEPT ![a] = Resting] /\ Resting \in ActRec
  BY DEF Rest, Resting, ActRec, Pc
<1>2. Only(a, i) /\ act'[a] = Resting
  BY <1>0, <1>1 DEF Shape, Only
<1>3. act'[a].pc = "rest" /\ act'[a].rm = None
  BY <1>2, SMTT(30) DEF Resting
<1>4. Role(a)'
  BY <1>0, <1>3, LifeAssumption DEF Role, ConnPc
<1>5. Plain(a, i)
  BY <1>0, <1>2, <1>3, <1>4, LifeAssumption DEF Plain, Lives, Life, Holding, Peers
<1>6. Still(a, i)
  BY <1>0, <1>3, <1>4 DEF Still, Holding, Seated
<1>7. Debts(a, i)
  BY <1>0, <1>3 DEF Debts
<1>8. Duties(a, i)
  BY <1>0, <1>3 DEF Duties, Bound, Stamped
<1> QED BY <1>0, <1>5, <1>6, <1>7, <1>8, StillInv

LEMMA EvictInvOff ==
    ASSUME Sizes, IInv, NEW a \in Actor, Evict(a), ~(cur = act[a].rm /\ Detach(a))
    PROVE  IInv'
<1> DEFINE i == act[a].rm
<1>0. /\ act[a].pc = "evict" /\ i \in Inst /\ room[i] \in RoomRec /\ Shape /\ Life(i)
      /\ room[i].phase = "ready" /\ UNCHANGED <<setup, stored, sent, conns, fails>>
  BY Standing DEF Evict, At, Role
<1>1. Rest(a) /\ cur' = cur /\ room' = room
  <2>1. CASE Rest(a) /\ UNCHANGED <<cur, room>>
    BY <2>1
  <2>2. CASE cur # i /\ room' = [room EXCEPT ![i].stop = TRUE] /\ Rest(a) /\ cur' = cur
    <3>1. [room[i] EXCEPT !.stop = TRUE] = room[i]
      BY <1>0, <2>2 DEF Life, RoomRec
    <3>2. room' = [room EXCEPT ![i] = [room[i] EXCEPT !.stop = TRUE]]
      BY <2>2
    <3> QED BY <1>0, <2>2, <3>1, <3>2 DEF Shape
  <2> QED BY <2>1, <2>2 DEF Evict, EvictDetach
<1> QED BY <1>0, <1>1, GiveUpInv

\* The last peer's stamp.
LEMMA StampInv ==
    ASSUME Sizes, IInv, NEW c \in Actor, act[c].pc = "decide", room[act[c].rm].peers = {}, setup.lazy,
           room' = [room EXCEPT ![act[c].rm].idle = Now], Rest(c),
           UNCHANGED <<setup, cur, stored, sent, conns, fails>>
    PROVE  IInv'
<1> DEFINE i == act[c].rm
           r == [room[i] EXCEPT !.idle = Now]
<1>0. /\ i \in Inst /\ room[i] \in RoomRec /\ Shape /\ Lives /\ c \in Conn
      /\ None \notin Inst /\ room[i].phase = "ready" /\ c \notin Caller \cup Sweeper \cup Admin
  BY Standing, LifeAssumption DEF Role
<1>n. /\ Now \in Nat /\ Now # 0 /\ \A b \in Actor : act[b].stamp # Now
  BY <1>0, NowFresh
<1>1. r \in RoomRec /\ Resting \in ActRec
  BY <1>0, <1>n DEF RoomRec, Resting, ActRec, Pc
<1>2. room' = [room EXCEPT ![i] = r] /\ act' = [act EXCEPT ![c] = Resting]
  BY DEF Rest
<1>3. Only(c, i) /\ room'[i] = r /\ act'[c] = Resting
  <2> HIDE DEF r
  <2> QED BY <1>0, <1>1, <1>2, Effect, ZenonT(60) DEF Shape
<1>4. /\ act'[c].pc = "rest" /\ act'[c].rm = None /\ act'[c].stamp = 0
      /\ \A b \in Actor : act'[b].stamp # Now
  BY <1>n, <1>3, SMTT(30) DEF Resting, Only
<1>5. /\ room'[i].idle = Now /\ room'[i].unsaved = room[i].unsaved /\ room'[i].phase = "ready"
      /\ room'[i].peers = {} /\ room'[i].stop = room[i].stop /\ room'[i].done = room[i].done
      /\ room'[i].unloads = room[i].unloads /\ room'[i].inflight = room[i].inflight
      /\ room'[i].slots = room[i].slots
  BY <1>0, <1>n, <1>3, SMTT(30) DEF RoomRec
<1>6. Role(c)'
  BY <1>0, <1>4, LifeAssumption DEF Role, ConnPc
<1>7. Plain(c, i) /\ Still(c, i)
  BY <1>0, <1>3, <1>4, <1>5, <1>6 DEF Plain, Still, Lives, Life, Holding, Seated
<1>8. Debts(c, i) /\ Duties(c, i)
  BY <1>0, <1>n, <1>4, <1>5 DEF Debts, Duties
<1> QED BY <1>0, <1>7, <1>8, StillInv

\* An actor at rest turns to the current room: the sweeper, CloseRoom.
LEMMA SweepInv ==
    ASSUME Sizes, IInv, NEW s \in Sweeper, Sweep(s)
    PROVE  IInv'
<1> DEFINE p == [act[s] EXCEPT !.pc = "evictflush", !.rm = cur, !.stamp = room[cur].idle]
<1>0. /\ s \in Actor /\ s \notin Guest /\ s \notin Admin /\ act[s].pc = "rest" /\ act[s].rm = None
      /\ act[s] \in ActRec /\ room \in [Inst -> RoomRec] /\ Shape /\ Lives /\ cur \in Inst /\ Peers
      /\ room[cur] \in RoomRec /\ room[cur].phase = "ready" /\ room[cur].idle # 0
  <2>1. s \in Actor
    BY DEF Actor
  <2> QED BY <2>1, Standing, LifeAssumption DEF Sweep, At, Role, Shape, Guest, IInv
<1>1. p \in ActRec
  BY <1>0 DEF ActRec, RoomRec, Pc
<1>2. act' = [act EXCEPT ![s] = p] /\ UNCHANGED <<setup, cur, room, stored, sent, conns, fails>>
  BY <1>0 DEF Sweep, Shape
<1>3. Only(s, cur) /\ act'[s] = p
  <2> HIDE DEF p
  <2> QED BY <1>0, <1>1, <1>2 DEF Shape, Only
<1>4. act'[s].pc = "evictflush" /\ act'[s].rm = cur /\ act'[s].stamp = room[cur].idle
  BY <1>0, <1>3 DEF ActRec
<1>5. Role(s)'
  BY <1>0, <1>2, <1>4, LifeAssumption DEF Role, Guest
<1>6. Plain(s, cur) /\ Still(s, cur)
  BY <1>0, <1>2, <1>3, <1>4, <1>5 DEF Plain, Still, Lives, Life, Holding, Seated, Guest, Peers
<1>7. Debts(s, cur) /\ Duties(s, cur)
  BY <1>0, <1>2, <1>4, LifeAssumption DEF Debts, Duties, Guest, Bound
<1> QED BY <1>0, <1>6, <1>7, StillInv

LEMMA CloseFindInv ==
    ASSUME Sizes, IInv, NEW a \in Admin, CloseFind(a)
    PROVE  IInv'
<1>0. /\ a \in Actor /\ a \notin Guest /\ a \notin Sweeper /\ act[a].pc = "rest" /\ act[a].rm = None
      /\ act[a] \in ActRec /\ room \in [Inst -> RoomRec] /\ Shape /\ Lives /\ cur \in Inst /\ Peers
      /\ room[cur] \in RoomRec /\ room[cur].phase = "ready" /\ ~Closed
  <2>1. a \in Actor
    BY DEF Actor
  <2> QED BY <2>1, Standing, LifeAssumption DEF CloseFind, At, Role, Shape, Guest, IInv, Closed
<1>1. PICK force \in BOOLEAN :
         act' = [act EXCEPT ![a].pc = "closewait", ![a].rm = cur, ![a].created = force,
                            ![a].wait = {c \in room[cur].peers : At(c, "joined")}]
  BY DEF CloseFind
<1> DEFINE w == {c \in room[cur].peers : At(c, "joined")}
           p == [act[a] EXCEPT !.pc = "closewait", !.rm = cur, !.created = force, !.wait = w]
<1>w. w \in SUBSET Conn
  BY <1>0 DEF RoomRec
<1>2. p \in ActRec
  <2> HIDE DEF w
  <2> QED BY <1>0, <1>w DEF ActRec, Pc
<1>3. act' = [act EXCEPT ![a] = p] /\ UNCHANGED <<setup, cur, room, stored, sent, conns, fails>>
  <2>1. act' = [act EXCEPT ![a] = p]
    BY <1>0, <1>1 DEF Shape
  <2> QED BY <2>1 DEF CloseFind
<1>4. act'[a].pc = "closewait" /\ act'[a].rm = cur
  <2> HIDE DEF w
  <2> QED BY <1>0, <1>3 DEF ActRec, Shape
<1>5. Only(a, cur)
  <2> HIDE DEF p
  <2> QED BY <1>0, <1>2, <1>3 DEF Shape, Only
<1>6. Role(a)'
  BY <1>0, <1>3, <1>4, LifeAssumption DEF Role, Guest
<1>7. Plain(a, cur) /\ Still(a, cur)
  BY <1>0, <1>3, <1>4, <1>5, <1>6 DEF Plain, Still, Lives, Life, Holding, Seated, Guest, Peers
<1>8. Debts(a, cur) /\ Duties(a, cur)
  BY <1>0, <1>3, <1>4, LifeAssumption DEF Debts, Duties, Guest, Bound
<1> QED BY <1>0, <1>7, <1>8, StillInv

\* A room that is off the map is not unloaded again: CloseRoom, eager leave.
LEMMA AwaitInv ==
    ASSUME Sizes, IInv, NEW a \in Actor, act[a].pc \in {"delete", "decide"}, cur # act[a].rm,
           act' = [act EXCEPT ![a].pc = "await", ![a].ok = FALSE],
           UNCHANGED <<setup, cur, room, stored, sent, conns, fails>>
    PROVE  IInv'
<1> DEFINE i == act[a].rm
           p == [act[a] EXCEPT !.pc = "await", !.ok = FALSE]
<1>0. /\ i \in Inst /\ room[i] \in RoomRec /\ act[a] \in ActRec /\ Shape /\ Lives /\ Peers /\ Home
      /\ None \notin Inst /\ room[i].phase = "ready" /\ a \in Conn \cup Admin /\ a \notin Sweeper \cup Caller
      /\ (act[a].pc = "decide" => a \in Conn) /\ (act[a].pc = "delete" => a \in Admin) /\ Role(a)
  BY Standing, LifeAssumption DEF Role, IInv
<1>1. p \in ActRec
  BY <1>0 DEF ActRec, Pc
<1>2. act' = [act EXCEPT ![a] = p]
  BY <1>0 DEF Shape
<1>3. Only(a, i) /\ act'[a] = p
  <2> HIDE DEF p
  <2> QED BY <1>0, <1>1, <1>2 DEF Shape, Only
<1>4. act'[a].pc = "await" /\ act'[a].rm = i /\ ~act'[a].ok
  BY <1>0, <1>3, ZenonT(60) DEF ActRec
<1>5. Role(a)'
  BY <1>0, <1>4, LifeAssumption DEF Role, ConnPc
<1>6. a \in Admin => ~Closed
  BY <1>0, LifeAssumption DEF Home
<1>7. Plain(a, i) /\ Still(a, i)
  BY <1>0, <1>3, <1>4, <1>5, <1>6 DEF Plain, Still, Lives, Life, Holding, Seated, Guest, Peers
<1>8. Debts(a, i) /\ Duties(a, i)
  BY <1>0, <1>4 DEF Debts, Duties
<1> QED BY <1>0, <1>7, <1>8, StillInv

LEMMA PeerWritesInv ==
    ASSUME Sizes, IInv, NEW c \in Conn, NEW u \in Update, PeerWrites(c, u)
    PROVE  IInv'
<1> DEFINE i == act[c].rm
<1>0. /\ c \in Actor /\ act[c].pc = "joined" /\ i \in Inst /\ room[i] \in RoomRec /\ Shape /\ Lives /\ Peers
      /\ Home /\ room[i].phase = "ready" /\ None \notin Inst /\ c \in room[i].peers /\ room[i].idle = 0
      /\ Limits
  <2>1. c \in Actor
    BY DEF Actor
  <2>2. act[c].pc = "joined"
    BY DEF PeerWrites, At
  <2>3. i \in Inst /\ room[i] \in RoomRec /\ Role(c) /\ Shape /\ Lives /\ Limits
    BY <2>1, <2>2, Standing
  <2>4. c \in room[i].peers /\ room[i].idle = 0
    BY <2>2, <2>3 DEF IInv, Peers
  <2> QED BY <2>1, <2>2, <2>3, <2>4, LifeAssumption DEF IInv, Role
<1>1. UNCHANGED <<setup, cur, act, conns, fails>>
  BY DEF PeerWrites
<1>2. stored' \subseteq Update /\ sent' \subseteq Update
  BY <1>0, CommitIs DEF PeerWrites
<1>3. PICK s \in SUBSET Update : room' = [room EXCEPT ![i] = [room[i] EXCEPT !.unsaved = s]]
  BY <1>0, CommitIs DEF PeerWrites
<1> DEFINE r == [room[i] EXCEPT !.unsaved = s]
<1>4. r \in RoomRec
  BY <1>0 DEF RoomRec
<1>5. Only(c, i) /\ room'[i] = r
  <2>1. room' = [room EXCEPT ![i] = r]
    BY <1>3
  <2> HIDE DEF r
  <2> QED BY <1>0, <1>1, <1>2, <1>4, <2>1 DEF Shape, Only
<1>6. /\ room'[i].unsaved = s /\ room'[i].idle = 0 /\ room'[i].phase = "ready"
      /\ room'[i].peers = room[i].peers /\ room'[i].stop = room[i].stop /\ room'[i].done = room[i].done
      /\ room'[i].unloads = room[i].unloads /\ room'[i].inflight = room[i].inflight
      /\ room'[i].slots = room[i].slots
  BY <1>0, <1>5 DEF RoomRec
<1>7. Plain(c, i) /\ Calm(i)
  BY <1>0, <1>1, <1>5, <1>6 DEF Plain, Calm, Lives, Life
<1>8. setup.lazy /\ Closed => Debts(c, i)
  <2>1. Closed => cur = i
    BY <1>0 DEF Home
  <2> QED BY <1>0, <1>1, <1>6, <2>1 DEF Debts
<1>9. act' = act /\ room'[i].idle = room[i].idle /\ fails' = fails
  BY <1>0, <1>1, <1>6
<1>10. room'[i].slots <= MaxPeers /\ conns' <= MaxConns
  BY <1>0, <1>1, <1>6 DEF Limits
<1> QED BY <1>0, <1>7, <1>8, <1>9, <1>10, PlainInv

\* The worker pays the debt, and goes once it is told to stop.
LEMMA WorkerInv ==
    ASSUME Sizes, IInv, NEW i \in Inst, WorkerWrites(i) \/ WorkerExits(i)
    PROVE  IInv'
<1>0. /\ room[i] \in RoomRec /\ Shape /\ Lives /\ Peers /\ Limits
  BY DEF IInv, Table, Shape
<1>1. UNCHANGED <<setup, cur, act, sent, conns>> /\ stored' \subseteq Update
  BY <1>0 DEF WorkerWrites, WorkerExits, Shape, RoomRec
<1>f. fails' \in 0 .. setup.fails /\ (fails' = 0 => fails = 0)
  <2>1. fails' = fails \/ (fails < setup.fails /\ fails' = fails + 1)
    BY DEF WorkerWrites, WorkerExits
  <2>2. fails \in 0 .. setup.fails /\ setup.fails \in Nat
    BY <1>0, LifeAssumption, SMTT(30) DEF Shape
  <2> QED BY <2>1, <2>2, SMTT(30)
<1>2. PICK d \in BOOLEAN :
         /\ room' = [room EXCEPT ![i] = [room[i] EXCEPT !.unsaved = {}, !.done = d]]
         /\ d => room[i].stop
  <2>1. CASE WorkerWrites(i)
    <3>1. [room[i] EXCEPT !.unsaved = {}, !.done = FALSE] = [room[i] EXCEPT !.unsaved = {}]
      BY <1>0, <2>1 DEF WorkerWrites, RoomRec
    <3>2. room' = [room EXCEPT ![i] = [room[i] EXCEPT !.unsaved = {}]]
      BY <2>1 DEF WorkerWrites, Saved
    <3> QED BY <3>1, <3>2
  <2>2. CASE WorkerExits(i)
    <3>1. room' = [room EXCEPT ![i] = [room[i] EXCEPT !.unsaved = {}, !.done = TRUE]]
      BY <1>0, <2>2 DEF WorkerExits, Saved, Shape
    <3> QED BY <2>2, <3>1 DEF WorkerExits
  <2> QED BY <2>1, <2>2
<1> DEFINE r == [room[i] EXCEPT !.unsaved = {}, !.done = d]
<1>3. r \in RoomRec
  BY <1>0 DEF RoomRec
<1>4. Only(None, i) /\ room'[i] = r
  <2>1. room' = [room EXCEPT ![i] = r]
    BY <1>2
  <2> HIDE DEF r
  <2> QED BY <1>0, <1>1, <1>f, <1>3, <2>1 DEF Shape, Only
<1>5. /\ room'[i].unsaved = {} /\ room'[i].idle = room[i].idle /\ room'[i].phase = room[i].phase
      /\ room'[i].peers = room[i].peers /\ room'[i].stop = room[i].stop /\ room'[i].done = d
      /\ room'[i].unloads = room[i].unloads /\ room'[i].inflight = room[i].inflight
      /\ room'[i].slots = room[i].slots
  BY <1>0, <1>4 DEF RoomRec
<1>6. Plain(None, i) /\ Calm(i)
  BY <1>0, <1>1, <1>2, <1>4, <1>5 DEF Plain, Calm, Peers
<1>7. act' = act /\ room'[i].unsaved \subseteq room[i].unsaved /\ room'[i].idle = room[i].idle
  BY <1>1, <1>5
<1>8. room'[i].slots <= MaxPeers /\ conns' <= MaxConns
  BY <1>0, <1>1, <1>5 DEF Limits
<1> QED BY <1>6, <1>f, <1>7, <1>8, PlainInv

\* A request finds the room in the map.
LEMMA JoinInv ==
    ASSUME Sizes, IInv, NEW a \in Guest, Lookup(a), cur # None
    PROVE  IInv'
<1> DEFINE i == cur
           r == [room[i] EXCEPT !.inflight = @ + 1]
           p == [act[a] EXCEPT !.pc = "wait", !.rm = cur]
<1>0. /\ a \in Actor /\ i \in Inst /\ room[i] \in RoomRec /\ act[a] \in ActRec /\ Shape /\ Lives /\ Peers
      /\ Limits /\ None \notin Inst /\ act[a].rm = None /\ room[i].phase \in {"loading", "ready"}
      /\ a \notin Sweeper \cup Admin /\ act[a].pc = "rest" /\ Coming(a) /\ conns \in Nat
      /\ UNCHANGED <<setup, cur, stored, sent, conns, fails>>
  <2>1. a \in Actor
    BY DEF Actor, Guest
  <2>2. act[a].pc = "rest" /\ Coming(a) /\ UNCHANGED <<setup, cur, stored, sent, conns, fails>>
    BY DEF Lookup, At
  <2> QED BY <2>1, <2>2, Standing, LifeAssumption DEF Role, IInv, Guest, Shape, Lives, Life
<1>1. r \in RoomRec /\ p \in ActRec
  <2>1. room[i] \in RoomRec /\ cur \in Inst /\ act[a] \in ActRec
    BY <1>0
  <2>2. r \in RoomRec
    BY <2>1, SMTT(30) DEF RoomRec
  <2>3. p \in ActRec
    BY <2>1 DEF ActRec, Pc, Holding
  <2> QED BY <2>2, <2>3
<1>2. room' = [room EXCEPT ![i] = r] /\ act' = [act EXCEPT ![a] = p]
  <2>1. room' = [room EXCEPT ![cur].inflight = @ + 1] /\ act' = [act EXCEPT ![a].pc = "wait", ![a].rm = cur]
    BY DEF Lookup
  <2> QED BY <1>0, <2>1 DEF Shape
<1>3. Only(a, i) /\ room'[i] = r /\ act'[a] = p
  <2> HIDE DEF r, p
  <2> QED BY <1>0, <1>1, <1>2, Effect DEF Shape
<1>4. act'[a].pc = "wait" /\ act'[a].rm = i
  BY <1>0, <1>3 DEF ActRec
<1>5. /\ room'[i].unsaved = room[i].unsaved /\ room'[i].idle = room[i].idle
      /\ room'[i].phase = room[i].phase /\ room'[i].peers = room[i].peers
      /\ room'[i].stop = room[i].stop /\ room'[i].done = room[i].done
      /\ room'[i].unloads = room[i].unloads /\ room'[i].inflight = room[i].inflight + 1
      /\ room'[i].slots = room[i].slots /\ room[i].inflight \in Nat /\ room[i].slots \in Nat
  BY <1>0, <1>3 DEF RoomRec
<1>6. Role(a)'
  BY <1>0, <1>4, <1>5 DEF Role, ConnPc, CallerPc, Guest
<1>7. Plain(a, i)
  BY <1>0, <1>3, <1>4, <1>5, <1>6 DEF Plain, Lives, Life, Peers
<1>8. Tallies(a, i)
  <2>1. a \in Conn => Cardinality(Present) < setup.conns
    BY <1>0, LifeAssumption DEF Coming, Present, At
  <2> QED BY <1>0, <1>4, <1>5, <1>6, <2>1, SMTT(30) DEF Tallies, Bit, Holding, Seated
<1>9. Debts(a, i) /\ Duties(a, i)
  BY <1>0, <1>4, <1>5 DEF Debts, Duties, Bound
<1>10. room'[i].slots <= MaxPeers /\ conns' <= MaxConns
  BY <1>0, <1>5 DEF Limits
<1> QED BY <1>0, <1>7, <1>8, <1>9, <1>10, PlainInv

\* The room went from the map before the request could register.
LEMMA GoneInv ==
    ASSUME Sizes, IInv, NEW c \in Actor, Register(c), cur # act[c].rm
    PROVE  IInv'
<1> DEFINE i == act[c].rm
           r == [room[i] EXCEPT !.slots = @ - 1]
           p == [act[c] EXCEPT !.pc = "refused", !.created = FALSE]
<1>0. /\ i \in Inst /\ room[i] \in RoomRec /\ act[c] \in ActRec /\ Shape /\ Lives /\ Peers /\ Limits /\ Roles /\ Counts
      /\ None \notin Inst /\ c \in Conn /\ room[i].phase = "ready" /\ c \notin Caller \cup Sweeper \cup Admin
      /\ act[c].pc = "upgrade" /\ conns' = conns - 1 /\ UNCHANGED <<setup, cur, stored, sent, fails>>
  <2>1. act[c].pc = "upgrade" /\ conns' = conns - 1 /\ UNCHANGED <<setup, cur, stored, sent, fails>>
    BY DEF Register, At
  <2> QED BY <2>1, Standing, LifeAssumption DEF Role, IInv
<1>c. /\ room[i].inflight \in Nat \ {0} /\ room[i].slots \in Nat \ {0} /\ conns \in Nat \ {0}
  BY <1>0, Counted DEF Holding, Seated, RoomRec, Shape
<1>1. r \in RoomRec /\ p \in ActRec
  <2>1. room[i] \in RoomRec /\ room[i].slots - 1 \in Nat
    BY <1>0, <1>c, SMTT(30)
  <2>2. r \in RoomRec
    BY <2>1 DEF RoomRec
  <2>3. p \in ActRec
    BY <1>0 DEF ActRec, Pc, Holding
  <2> QED BY <2>2, <2>3
<1>2. room' = [room EXCEPT ![i] = r] /\ act' = [act EXCEPT ![c] = p]
  <2>1. /\ room' = [room EXCEPT ![i].slots = @ - 1]
        /\ act' = [act EXCEPT ![c].pc = "refused", ![c].created = FALSE]
    BY DEF Register
  <2> QED BY <1>0, <2>1 DEF Shape
<1>3. Only(c, i) /\ room'[i] = r /\ act'[c] = p
  <2>1. conns' \in Nat
    BY <1>0, <1>c, SMTT(30)
  <2> HIDE DEF r, p
  <2> QED BY <1>0, <1>1, <1>2, <2>1, Effect, ZenonT(60) DEF Shape
<1>4. act'[c].pc = "refused" /\ act'[c].rm = i /\ act'[c].created = FALSE
  BY <1>0, <1>3 DEF ActRec
<1>5. /\ room'[i].unsaved = room[i].unsaved /\ room'[i].idle = room[i].idle
      /\ room'[i].phase = room[i].phase /\ room'[i].peers = room[i].peers
      /\ room'[i].stop = room[i].stop /\ room'[i].done = room[i].done
      /\ room'[i].unloads = room[i].unloads /\ room'[i].inflight = room[i].inflight
      /\ room'[i].slots = room[i].slots - 1
  BY <1>0, <1>3 DEF RoomRec
<1>6. Role(c)'
  BY <1>0, <1>4, <1>5 DEF Role, ConnPc
<1>7. Plain(c, i)
  BY <1>0, <1>3, <1>4, <1>5, <1>6 DEF Plain, Lives, Life, Peers, Holding
<1>8. Tallies(c, i)
  BY <1>0, <1>c, <1>4, <1>5, <1>6, SMTT(30) DEF Tallies, Bit, Holding, Seated, Guest
<1>9. Debts(c, i) /\ Duties(c, i)
  BY <1>0, <1>4, <1>5 DEF Debts, Duties
<1>10. room'[i].slots <= MaxPeers /\ conns' <= MaxConns
  BY <1>0, <1>c, <1>5, LifeAssumption, SMTT(30) DEF Limits
<1> QED BY <1>0, <1>7, <1>8, <1>9, <1>10, PlainInv

----------------------------------------------------------------------------
\* The steps that load a room, register or remove a peer, detach and unload.
LEMMA Placed ==
    ASSUME Shape, Roles
    PROVE  \A b \in Actor : act[b].pc # "rest" => act[b].rm \in Inst
  BY DEF Shape, ActRec, Roles, Role

LEMMA RolesStep ==
    ASSUME Shape, Roles, NEW a \in Actor, Role(a)',
           \A b \in Actor : b # a => act'[b] = act[b],
           \A j \in Inst : room'[j].phase = room[j].phase
    PROVE  Roles'
<1> SUFFICES ASSUME NEW b \in Actor, b # a PROVE Role(b)'
  BY DEF Roles
<1>1. CASE act[b].pc = "rest"
  BY <1>1 DEF Roles, Role, ConnPc, CallerPc
<1>2. CASE act[b].pc # "rest"
  <2>1. act[b].rm \in Inst /\ act'[b] = act[b]
    BY <1>2, Placed
  <2> QED BY <2>1 DEF Roles, Role
<1> QED BY <1>1, <1>2

\* Evictions under way are left alone, and so are the writers about to stamp.
LEMMA FreshKeep ==
    ASSUME Shape, Roles, Fresh, setup' = setup,
           \A b \in Conn \cup Sweeper : act'[b].pc \in {"evictflush", "evict"} =>
               /\ act'[b].pc = act[b].pc /\ act'[b].rm = act[b].rm
               /\ act'[b].ok = act[b].ok /\ act'[b].stamp = act[b].stamp,
           \A d \in Caller : act[d].pc = "mark" => act'[d].pc = "mark" /\ act'[d].rm = act[d].rm,
           \A j \in Inst : /\ room'[j].unsaved = room[j].unsaved \/ room'[j].unsaved = {}
                           /\ room'[j].idle = room[j].idle \/ room'[j].idle = 0,
           setup.lazy /\ Closed /\ ~MayRefuse => \A j \in Inst : j # cur' => room'[j].unsaved = {}
    PROVE  Fresh'
<1>1. ASSUME setup.lazy, Closed, NEW b \in Conn \cup Sweeper, act'[b].pc = "evict", act'[b].ok,
             act'[b].stamp # 0, room'[act'[b].rm].idle = act'[b].stamp
      PROVE  \/ room'[act'[b].rm].unsaved = {}
             \/ \E d \in Caller : act'[d].rm = act'[b].rm /\ act'[d].pc = "mark"
  <2>1. act[b].pc = "evict" /\ act[b].rm \in Inst /\ act'[b].rm = act[b].rm
    BY <1>1, Placed DEF Actor
  <2> QED BY <1>1, <2>1, SMTT(30) DEF Fresh
<1> QED BY <1>1 DEF Fresh, Closed, MayRefuse

\* What a step of one actor leaves alone, invariant by invariant.
LEMMA LoaderKeep ==
    ASSUME OneLoader, NEW a \in Actor, act'[a].pc # "load", \A b \in Actor : b # a => act'[b] = act[b]
    PROVE  OneLoader'
BY DEF OneLoader

LEMMA LivesKeep ==
    ASSUME Lives, cur' = cur,
           \A j \in Inst : /\ room'[j].phase = room[j].phase /\ room'[j].stop = room[j].stop
                           /\ room'[j].unsaved = room[j].unsaved /\ room'[j].done = room[j].done
    PROVE  Lives'
<1> SUFFICES ASSUME NEW j \in Inst PROVE Life(j)'
  BY DEF Lives
<1>1. Life(j)
  BY DEF Lives
<1> QED BY <1>1 DEF Life

LEMMA PeersKeep ==
    ASSUME Peers,
           \A j \in Inst : room'[j].peers = room[j].peers /\ room'[j].idle = room[j].idle,
           \A d \in Conn, j \in Inst :
              act'[d].rm = j /\ act'[d].pc \in {"joined", "leaving"} <=> act[d].rm = j /\ act[d].pc \in {"joined", "leaving"}
    PROVE  Peers'
BY SMTT(30) DEF Peers

LEMMA UnloadsKeep ==
    ASSUME Unloads, cur' = cur,
           \A j \in Inst : room'[j].phase = room[j].phase /\ room'[j].unloads = room[j].unloads,
           \A b \in Actor, j \in Inst : Unloader(b, j)' <=> Unloader(b, j)
    PROVE  Unloads'
<1> SUFFICES ASSUME NEW j \in Inst PROVE Unloaded(j)'
  BY DEF Unloads
<1>1. Unloaded(j)
  BY DEF Unloads
<1> QED BY <1>1 DEF Unloaded

LEMMA HomeKept ==
    ASSUME Home, Closed, setup.lazy, NEW b \in Guest, act[b].pc \in Holding
    PROVE  cur = act[b].rm \/ (act[b].pc = "wait" /\ room[act[b].rm].phase = "failed")
BY DEF Home

LEMMA RegisterInv ==
    ASSUME Sizes, IInv, NEW c \in Actor, Register(c)
    PROVE  IInv'
<1>g. CASE cur # act[c].rm
  BY <1>g, GoneInv
<1> SUFFICES ASSUME cur = act[c].rm PROVE IInv'
  BY <1>g
<1> DEFINE i == act[c].rm
           r == [room[i] EXCEPT !.peers = @ \cup {c}, !.idle = 0, !.inflight = @ - 1]
           p == [act[c] EXCEPT !.pc = "joined"]
<1>0. /\ act[c].pc = "upgrade" /\ UNCHANGED <<setup, cur, stored, sent, conns, fails>>
      /\ i \in Inst /\ room[i] \in RoomRec /\ act[c] \in ActRec /\ Shape /\ Roles /\ OneLoader /\ Lives
      /\ Peers /\ Counts /\ Limits /\ Unloads /\ Home /\ Refused /\ Fresh /\ Stamped
      /\ c \in Conn /\ c \notin Caller \cup Sweeper \cup Admin /\ None \notin Inst /\ room[i].phase = "ready"
  <2>1. act[c].pc = "upgrade" /\ UNCHANGED <<setup, cur, stored, sent, conns, fails>>
    BY DEF Register, At
  <2> QED BY <2>1, Standing, LifeAssumption DEF Role, IInv, Table
<1>c. room[i].inflight \in Nat \ {0} /\ room[i].slots \in Nat /\ conns \in Nat /\ room[i].peers \in SUBSET Conn
  BY <1>0, Counted DEF Holding, RoomRec, Shape
<1>1. r \in RoomRec /\ p \in ActRec
  <2>1. room[i].inflight - 1 \in Nat /\ room[i].peers \cup {c} \in SUBSET Conn
    BY <1>0, <1>c, SMTT(30)
  <2>2. r \in RoomRec
    BY <1>0, <2>1 DEF RoomRec
  <2>3. p \in ActRec
    BY <1>0 DEF ActRec, Pc, Seated
  <2> QED BY <2>2, <2>3
<1>2. room' = [room EXCEPT ![i] = r] /\ act' = [act EXCEPT ![c] = p]
  <2>1. /\ room' = [room EXCEPT ![i].peers = @ \cup {c}, ![i].idle = 0, ![i].inflight = @ - 1]
        /\ act' = [act EXCEPT ![c].pc = "joined"]
    BY DEF Register, Goto
  <2> QED BY <1>0, <2>1 DEF Shape
<1>3. Only(c, i) /\ room'[i] = r /\ act'[c] = p
  <2> HIDE DEF r, p
  <2> QED BY <1>0, <1>1, <1>2, Effect, ZenonT(60) DEF Shape
<1>4. act'[c].pc = "joined" /\ act'[c].rm = i
  BY <1>0, <1>3 DEF ActRec
<1>5. /\ room'[i].unsaved = room[i].unsaved /\ room'[i].idle = 0 /\ room'[i].phase = "ready"
      /\ room'[i].peers = room[i].peers \cup {c} /\ room'[i].stop = room[i].stop
      /\ room'[i].done = room[i].done /\ room'[i].unloads = room[i].unloads
      /\ room'[i].inflight = room[i].inflight - 1 /\ room'[i].slots = room[i].slots
  BY <1>0, <1>3 DEF RoomRec
<1>6. /\ \A b \in Actor : b # c => act'[b] = act[b]
      /\ \A j \in Inst : j # i => room'[j] = room[j]
      /\ \A j \in Inst : /\ room'[j].phase = room[j].phase /\ room'[j].stop = room[j].stop
                         /\ room'[j].unsaved = room[j].unsaved /\ room'[j].done = room[j].done
                         /\ room'[j].unloads = room[j].unloads
      /\ Shape'
  BY <1>0, <1>3, <1>5 DEF Only
<1>7. Role(c)'
  BY <1>0, <1>4, <1>5 DEF Role, ConnPc
<1>8. Table'
  <2>1. Roles'
    BY <1>0, <1>6, <1>7, RolesStep
  <2>2. OneLoader' /\ Lives'
    BY <1>0, <1>4, <1>6, LoaderKeep, LivesKeep
  <2> QED BY <1>6, <2>1, <2>2 DEF Table
<1>9. Peers'
  <2>1. ASSUME NEW j \in Inst
        PROVE  room'[j].peers = {d \in Conn : act'[d].rm = j /\ act'[d].pc \in {"joined", "leaving"}}
    <3>1. \A d \in Conn : d # c => act'[d] = act[d]
      BY <1>6 DEF Actor
    <3>2. CASE j = i
      <4>1. room[i].peers = {d \in Conn : act[d].rm = i /\ act[d].pc \in {"joined", "leaving"}}
        BY <1>0 DEF Peers
      <4>2. act'[c].rm = i /\ act'[c].pc \in {"joined", "leaving"}
        BY <1>0, <1>4
      <4> QED BY <1>0, <1>5, <3>1, <3>2, <4>1, <4>2
    <3>3. CASE j # i
      <4>1. room[j].peers = {d \in Conn : act[d].rm = j /\ act[d].pc \in {"joined", "leaving"}}
        BY <1>0 DEF Peers
      <4>2. act'[c].rm # j /\ act[c].rm # j
        BY <1>0, <1>4, <3>3
      <4>3. room'[j].peers = room[j].peers
        BY <1>6, <3>3
      <4> QED BY <3>1, <4>1, <4>2, <4>3
    <3> QED BY <3>2, <3>3
  <2>2. \A j \in Inst : room[j].peers # {} => room[j].idle = 0
    BY <1>0 DEF Peers
  <2>3. \A j \in Inst : room'[j].peers # {} => room'[j].idle = 0
    BY <1>0, <1>5, <1>6, <2>2
  <2> QED BY <2>1, <2>3 DEF Peers
<1>10. Counts'
  <2>1. Tallies(c, i)
    BY <1>0, <1>c, <1>4, <1>5, <1>7, SMTT(30) DEF Tallies, Bit, Holding, Seated, Guest
  <2> QED BY <1>0, <1>3, <2>1, CountsStep
<1>11. Limits'
  BY <1>0, <1>5, <1>6 DEF Limits
<1>12. Unloads'
  <2>1. \A b \in Actor, j \in Inst : Unloader(b, j)' <=> Unloader(b, j)
    BY <1>0, <1>4, <1>6 DEF Unloader
  <2> QED BY <1>0, <1>6, <2>1, UnloadsKeep
<1>13. Home'
  <2>1. \A b \in Actor : act'[b].pc \in Holding => act'[b] = act[b]
    BY <1>4, <1>6 DEF Holding
  <2>2. \A b \in Admin : act'[b] = act[b]
    BY <1>0, <1>6 DEF Actor
  <2>3. \A j \in Inst : room'[j].peers # {} /\ Closed => cur = j
    BY <1>0, <1>5, <1>6 DEF Home
  <2>4. ASSUME Closed, setup.lazy, NEW b \in Guest, act'[b].pc \in Holding
        PROVE  cur = act'[b].rm \/ (act'[b].pc = "wait" /\ room'[act'[b].rm].phase = "failed")
    <3>1. b \in Actor /\ act'[b] = act[b] /\ act[b].rm \in Inst
      BY <1>0, <2>1, <2>4, Placed DEF Actor, Guest, Holding
    <3>2. cur = act[b].rm \/ (act[b].pc = "wait" /\ room[act[b].rm].phase = "failed")
      BY <1>0, <2>4, <3>1, HomeKept
    <3> QED BY <1>0, <1>6, <2>4, <3>1, <3>2
  <2> QED BY <1>0, <2>2, <2>3, <2>4 DEF Home, Closed
<1>14. Refused'
  BY <1>0, <1>4, <1>6 DEF Refused, Reaping, MayRefuse, Actor
<1>15. Fresh'
  <2>1. \A b \in Conn \cup Sweeper : act'[b].pc \in {"evictflush", "evict"} => act'[b] = act[b]
    BY <1>4, <1>6 DEF Actor
  <2>2. \A b \in Caller : act'[b] = act[b]
    BY <1>0, <1>6 DEF Actor
  <2>3. setup.lazy /\ Closed /\ ~MayRefuse => \A j \in Inst : j # cur' => room'[j].unsaved = {}
    BY <1>0, <1>6 DEF Fresh
  <2> QED BY <1>0, <1>5, <1>6, <2>1, <2>2, <2>3, FreshKeep
<1>16. Stamped'
  BY <1>0, <1>4, <1>6, SMTT(30) DEF Stamped, MayRefuse, Actor, Guest, Bound
<1> QED BY <1>8, <1>9, <1>10, <1>11, <1>12, <1>13, <1>14, <1>15, <1>16 DEF IInv

LEMMA LeaveInv ==
    ASSUME Sizes, IInv, NEW c \in Conn, Leave(c)
    PROVE  IInv'
<1>0. /\ act[c].pc = "joined" /\ UNCHANGED <<setup, cur, room, stored, sent, conns, fails>>
      /\ Shape /\ Roles /\ OneLoader /\ Lives /\ c \in Actor
      /\ Peers /\ Counts /\ Limits /\ Unloads /\ Home /\ Refused /\ Fresh /\ Stamped
      /\ c \notin Caller \cup Sweeper \cup Admin
  BY LifeAssumption DEF Leave, At, IInv, Table, Actor
<1>1. act' = [b \in Actor |-> IF b = c THEN [act[c] EXCEPT !.pc = "leaving"]
                                ELSE [act[b] EXCEPT !.wait = @ \ {c}]]
  BY DEF Leave
<1>2. \A b \in Actor : act[b] \in ActRec
  BY <1>0 DEF Shape
<1>3. ASSUME NEW b \in Actor
      PROVE  /\ act'[b] \in ActRec /\ act'[b].rm = act[b].rm /\ act'[b].ok = act[b].ok
             /\ act'[b].stamp = act[b].stamp /\ act'[b].created = act[b].created
             /\ (b # c => act'[b].pc = act[b].pc)
  <2>1. CASE b = c
    <3>1. act'[b] = [act[b] EXCEPT !.pc = "leaving"]
      BY <1>1, <2>1
    <3> QED BY <1>2, <2>1, <3>1 DEF ActRec, Pc, Seated
  <2>2. CASE b # c
    <3>1. act'[b] = [act[b] EXCEPT !.wait = @ \ {c}]
      BY <1>1, <2>2
    <3> QED BY <1>2, <2>2, <3>1 DEF ActRec
  <2> QED BY <2>1, <2>2
<1>4. act'[c].pc = "leaving" /\ act'[c].rm = act[c].rm
  BY <1>0, <1>1, <1>2 DEF ActRec
<1>5. /\ Shape' /\ \A b \in Actor : act'[b].rm = act[b].rm /\ act'[b].ok = act[b].ok /\ act'[b].stamp = act[b].stamp
      /\ \A b \in Actor : act'[b].created = act[b].created /\ (b # c => act'[b].pc = act[b].pc)
  <2>1. act' \in [Actor -> ActRec]
    BY <1>1, <1>3
  <2> QED BY <1>0, <1>3, <2>1 DEF Shape
<1>6. Table'
  <2>1. ASSUME NEW b \in Actor PROVE Role(b)'
    <3>1. CASE b = c
      BY <1>0, <1>4, <3>1 DEF Roles, Role, ConnPc
    <3>2. CASE b # c
      BY <1>0, <1>5, <3>2 DEF Roles, Role
    <3> QED BY <3>1, <3>2
  <2>2. OneLoader' /\ Lives'
    BY <1>0, <1>4, <1>5, SMTT(30) DEF OneLoader, Lives, Life
  <2> QED BY <1>5, <2>1, <2>2 DEF Table, Roles
<1>p. /\ \A b \in Guest : act'[b].pc \in Holding <=> act[b].pc \in Holding
      /\ \A d \in Conn : (act'[d].pc \in Seated <=> act[d].pc \in Seated)
            /\ (act'[d].pc \in Seated \ {"conn"} <=> act[d].pc \in Seated \ {"conn"})
            /\ (act'[d].pc = "rest" <=> act[d].pc = "rest")
            /\ (act'[d].pc \in {"joined", "leaving"} <=> act[d].pc \in {"joined", "leaving"})
      /\ \A b \in Guest : act[b].pc \in Bound => act'[b].pc \in Bound
  BY <1>0, <1>4, <1>5 DEF Guest, Actor, Holding, Seated, Bound
<1>r. Conn \subseteq Actor /\ Guest \subseteq Actor /\ Sweeper \subseteq Actor /\ Caller \subseteq Actor /\ Admin \subseteq Actor
  BY DEF Actor, Guest
<1>7. Peers'
  BY <1>0, <1>5, <1>p, <1>r, SMTT(30) DEF Peers
<1>8. Counts'
  <2>1. /\ \A j \in Inst : Holders(j)' = Holders(j) /\ Seats(j)' = Seats(j)
        /\ Permits' = Permits /\ Present' = Present
    BY <1>0, <1>5, <1>p, <1>r, SMTT(30) DEF Holders, Seats, Permits, Present
  <2> QED BY <1>0, <2>1 DEF Counts
<1>9. Limits'
  BY <1>0 DEF Limits
<1>10. Unloads'
  <2>1. \A b \in Actor, j \in Inst : Unloader(b, j)' <=> Unloader(b, j)
    BY <1>0, <1>4, <1>5 DEF Unloader
  <2> QED BY <1>0, <2>1 DEF Unloads, Unloaded
<1>11. Home'
  <2>1. \A b \in Guest : act'[b].pc \in Holding => act'[b].pc = act[b].pc /\ act'[b].rm = act[b].rm
    BY <1>4, <1>5, <1>r DEF Holding
  <2>2. \A b \in Admin : act'[b].pc = act[b].pc
    BY <1>0, <1>5, <1>r
  <2> QED BY <1>0, <2>1, <2>2 DEF Home, Closed
<1>12. Refused'
  BY <1>0, <1>4, <1>5, <1>r DEF Refused, Reaping, MayRefuse
<1>13. Fresh'
  <2>1. setup.lazy /\ Closed /\ ~MayRefuse => \A j \in Inst : j # cur' => room'[j].unsaved = {}
    BY <1>0 DEF Fresh
  <2> QED BY <1>0, <1>4, <1>5, <1>r, <2>1, FreshKeep
<1>14. Stamped'
  BY <1>0, <1>4, <1>5, <1>p, <1>r, SMTT(30) DEF Stamped, MayRefuse
<1> QED BY <1>6, <1>7, <1>8, <1>9, <1>10, <1>11, <1>12, <1>13, <1>14 DEF IInv

LEMMA RemoveInv ==
    ASSUME Sizes, IInv, NEW c \in Actor, Remove(c)
    PROVE  IInv'
<1> DEFINE i == act[c].rm
           r == [room[i] EXCEPT !.peers = @ \ {c}]
           p == [act[c] EXCEPT !.pc = IF room[i].peers = {c} THEN "last" ELSE "gone"]
<1>0. /\ act[c].pc = "leaving" /\ UNCHANGED <<setup, cur, stored, sent, conns, fails>>
      /\ i \in Inst /\ room[i] \in RoomRec /\ act[c] \in ActRec /\ Shape /\ Roles /\ OneLoader /\ Lives
      /\ Peers /\ Counts /\ Limits /\ Unloads /\ Home /\ Refused /\ Fresh /\ Stamped
      /\ c \in Conn /\ c \notin Caller \cup Sweeper \cup Admin /\ None \notin Inst /\ room[i].phase = "ready"
  <2>1. act[c].pc = "leaving" /\ UNCHANGED <<setup, cur, stored, sent, conns, fails>>
    BY DEF Remove, At
  <2> QED BY <2>1, Standing, LifeAssumption DEF Role, IInv, Table
<1>c. room[i].inflight \in Nat /\ room[i].slots \in Nat /\ conns \in Nat /\ room[i].peers \in SUBSET Conn
  BY <1>0 DEF RoomRec, Shape
<1>1. r \in RoomRec /\ p \in ActRec
  <2>1. room[i].peers \ {c} \in SUBSET Conn
    BY <1>c
  <2>2. r \in RoomRec
    BY <1>0, <2>1 DEF RoomRec
  <2>3. p \in ActRec
    BY <1>0 DEF ActRec, Pc, Seated
  <2> QED BY <2>2, <2>3
<1>2. room' = [room EXCEPT ![i] = r] /\ act' = [act EXCEPT ![c] = p]
  <2>1. room' = [room EXCEPT ![i].peers = @ \ {c}]
    BY DEF Remove
  <2>2. act' = [act EXCEPT ![c].pc = IF room[i].peers = {c} THEN "last" ELSE "gone"]
    BY DEF Remove, Goto, Rm
  <2> QED BY <1>0, <2>1, <2>2 DEF Shape
<1>3. Only(c, i) /\ room'[i] = r /\ act'[c] = p
  <2> HIDE DEF r, p
  <2> QED BY <1>0, <1>1, <1>2, Effect, ZenonT(60) DEF Shape
<1>4. /\ act'[c].rm = i
      /\ \/ act'[c].pc = "last" /\ room[i].peers = {c}
         \/ act'[c].pc = "gone" /\ room[i].peers # {c}
  BY <1>0, <1>3, SMTT(30) DEF ActRec
<1>5. /\ room'[i].unsaved = room[i].unsaved /\ room'[i].idle = room[i].idle /\ room'[i].phase = "ready"
      /\ room'[i].peers = room[i].peers \ {c} /\ room'[i].stop = room[i].stop
      /\ room'[i].done = room[i].done /\ room'[i].unloads = room[i].unloads
      /\ room'[i].inflight = room[i].inflight /\ room'[i].slots = room[i].slots
  BY <1>0, <1>3 DEF RoomRec
<1>6. /\ \A b \in Actor : b # c => act'[b] = act[b]
      /\ \A j \in Inst : j # i => room'[j] = room[j]
      /\ \A j \in Inst : /\ room'[j].phase = room[j].phase /\ room'[j].stop = room[j].stop
                         /\ room'[j].unsaved = room[j].unsaved /\ room'[j].done = room[j].done
                         /\ room'[j].unloads = room[j].unloads /\ room'[j].idle = room[j].idle
      /\ Shape' /\ Conn \cup Caller \cup Sweeper \cup Admin \cup Guest \subseteq Actor
  BY <1>0, <1>3, <1>5 DEF Only, Actor, Guest
<1>7. Role(c)'
  BY <1>0, <1>4, <1>5 DEF Role, ConnPc
<1>8. Table'
  <2>1. Roles'
    BY <1>0, <1>6, <1>7, RolesStep
  <2>2. OneLoader' /\ Lives'
    BY <1>0, <1>4, <1>6, LoaderKeep, LivesKeep
  <2> QED BY <1>6, <2>1, <2>2 DEF Table
<1>9. Peers'
  <2>1. ASSUME NEW j \in Inst
        PROVE  room'[j].peers = {d \in Conn : act'[d].rm = j /\ act'[d].pc \in {"joined", "leaving"}}
    <3>1. \A d \in Conn : d # c => act'[d] = act[d]
      BY <1>6
    <3>2. CASE j = i
      <4>1. room[i].peers = {d \in Conn : act[d].rm = i /\ act[d].pc \in {"joined", "leaving"}}
        BY <1>0 DEF Peers
      <4>2. ~(act'[c].rm = i /\ act'[c].pc \in {"joined", "leaving"})
        BY <1>0, <1>4
      <4> QED BY <1>5, <3>1, <3>2, <4>1, <4>2
    <3>3. CASE j # i
      <4>1. room[j].peers = {d \in Conn : act[d].rm = j /\ act[d].pc \in {"joined", "leaving"}}
        BY <1>0 DEF Peers
      <4>2. act'[c].rm # j /\ act[c].rm # j
        BY <1>0, <1>4, <3>3
      <4>3. room'[j].peers = room[j].peers
        BY <1>6, <3>3
      <4> QED BY <3>1, <4>1, <4>2, <4>3
    <3> QED BY <3>2, <3>3
  <2>2. \A j \in Inst : room[j].peers # {} => room[j].idle = 0
    BY <1>0 DEF Peers
  <2>3. \A j \in Inst : room'[j].peers # {} => room'[j].idle = 0
    BY <1>0, <1>5, <1>6, <2>2
  <2> QED BY <2>1, <2>3 DEF Peers
<1>10. Counts'
  <2>1. Alike(c, i)
    BY <1>0, <1>c, <1>4, <1>5, <1>7 DEF Alike, Holding, Seated
  <2> QED BY <1>0, <1>3, <2>1, SameTallies, CountsStep
<1>11. Limits'
  BY <1>0, <1>5, <1>6 DEF Limits
<1>12. Unloads'
  <2>1. \A b \in Actor, j \in Inst : Unloader(b, j)' <=> Unloader(b, j)
    BY <1>0, <1>4, <1>6 DEF Unloader
  <2> QED BY <1>0, <1>6, <2>1, UnloadsKeep
<1>13. Home'
  <2>1. \A b \in Admin : act'[b] = act[b]
    BY <1>0, <1>6
  <2>2. \A j \in Inst : room'[j].peers # {} /\ Closed => cur = j
    BY <1>0, <1>5, <1>6 DEF Home
  <2>3. ASSUME Closed, setup.lazy, NEW b \in Guest, act'[b].pc \in Holding
        PROVE  cur = act'[b].rm \/ (act'[b].pc = "wait" /\ room'[act'[b].rm].phase = "failed")
    <3>1. b \in Actor /\ act'[b] = act[b] /\ act[b].rm \in Inst
      BY <1>0, <1>4, <1>6, <2>3, Placed DEF Holding
    <3>2. cur = act[b].rm \/ (act[b].pc = "wait" /\ room[act[b].rm].phase = "failed")
      BY <1>0, <2>3, <3>1, HomeKept
    <3> QED BY <1>0, <1>6, <2>3, <3>1, <3>2
  <2> QED BY <1>0, <2>1, <2>2, <2>3 DEF Home, Closed
<1>14. Refused'
  BY <1>0, <1>4, <1>6 DEF Refused, Reaping, MayRefuse
<1>15. Fresh'
  <2>1. setup.lazy /\ Closed /\ ~MayRefuse => \A j \in Inst : j # cur' => room'[j].unsaved = {}
    BY <1>0, <1>6 DEF Fresh
  <2>2. /\ \A b \in Conn \cup Sweeper : act'[b].pc \in {"evictflush", "evict"} => act'[b] = act[b]
        /\ \A b \in Caller : act'[b] = act[b]
    BY <1>0, <1>4, <1>6
  <2> QED BY <1>0, <1>6, <2>1, <2>2, FreshKeep
<1>16. Stamped'
  <2> SUFFICES ASSUME setup.lazy, ~MayRefuse, fails = 0 PROVE Stamped'
    BY <1>0 DEF Stamped, MayRefuse
  <2>1. \A d \in Conn : act'[d].pc = "decide" => act'[d].ok
    BY <1>0, <1>4, <1>6 DEF Stamped
  <2>2. ASSUME NEW j \in Inst, cur = j, room'[j].phase = "ready", room'[j].idle = 0
        PROVE  \E b \in Guest : act'[b].rm = j /\ act'[b].pc \in Bound
    <3>1. PICK b \in Guest : act[b].rm = j /\ act[b].pc \in Bound
      BY <1>0, <1>6, <2>2, SMTT(30) DEF Stamped
    <3>2. CASE b # c
      BY <1>6, <3>1, <3>2
    <3>3. CASE b = c /\ room[i].peers = {c}
      BY <1>0, <1>4, <3>1, <3>3 DEF Bound
    <3>4. CASE b = c /\ room[i].peers # {c}
      <4>1. c \in room[i].peers
        BY <1>0 DEF Peers
      <4>2. PICK d \in room[i].peers : d # c
        BY <3>4, <4>1
      <4>3. d \in Conn /\ act[d].rm = i /\ act[d].pc \in {"joined", "leaving"}
        BY <1>0, <4>2 DEF Peers
      <4> QED BY <1>6, <3>1, <3>4, <4>2, <4>3, SMTT(30) DEF Guest, Bound
    <3> QED BY <3>2, <3>3, <3>4
  <2> QED BY <1>0, <2>1, <2>2 DEF Stamped
<1> QED BY <1>8, <1>9, <1>10, <1>11, <1>12, <1>13, <1>14, <1>15, <1>16 DEF IInv

\* A peer that has left gives its permits back; the last one goes on to flush.
LEMMA FreeInv ==
    ASSUME Sizes, IInv, NEW c \in Actor, Free(c)
    PROVE  IInv'
<1> DEFINE i == act[c].rm
           r == [room[i] EXCEPT !.slots = @ - 1]
           p == IF act[c].pc = "last" THEN [act[c] EXCEPT !.pc = "flush"] ELSE Resting
<1>0. /\ act[c].pc \in {"last", "gone"} /\ UNCHANGED <<setup, cur, stored, sent, fails>> /\ conns' = conns - 1
      /\ i \in Inst /\ c \in Conn /\ room[i] \in RoomRec /\ act[c] \in ActRec
      /\ Shape /\ Roles /\ Lives /\ Counts /\ Limits /\ Peers /\ None \notin Inst
      /\ room[i].phase = "ready" /\ c \notin Caller \cup Sweeper \cup Admin /\ c \in Guest
  <2>1. act[c].pc \in {"last", "gone"} /\ UNCHANGED <<setup, cur, stored, sent, fails>> /\ conns' = conns - 1
    BY DEF Free
  <2> QED BY <2>1, Standing, LifeAssumption DEF Role, IInv, Guest
<1>c. room[i].inflight \in Nat /\ room[i].slots \in Nat \ {0} /\ conns \in Nat \ {0}
  BY <1>0, Counted DEF Seated, RoomRec, Shape
<1>1. r \in RoomRec /\ p \in ActRec /\ conns' \in Nat
  <2>1. room[i].slots - 1 \in Nat /\ conns' \in Nat
    BY <1>0, <1>c, SMTT(30)
  <2>2. r \in RoomRec
    BY <1>0, <2>1 DEF RoomRec
  <2>3. [act[c] EXCEPT !.pc = "flush"] \in ActRec /\ Resting \in ActRec
    BY <1>0 DEF ActRec, Pc, Resting
  <2> QED BY <2>1, <2>2, <2>3
<1>2. room' = [room EXCEPT ![i] = r] /\ act' = [act EXCEPT ![c] = p]
  <2>1. room' = [room EXCEPT ![i].slots = @ - 1]
    BY DEF Free
  <2>2. act' = [act EXCEPT ![c] = p]
    <3>1. CASE act[c].pc = "last"
      <4>1. act' = [act EXCEPT ![c].pc = "flush"]
        BY <3>1 DEF Free, At, Goto
      <4> QED BY <1>0, <3>1, <4>1 DEF Shape
    <3>2. CASE act[c].pc # "last"
      BY <3>2 DEF Free, At, Rest
    <3> QED BY <3>1, <3>2
  <2> QED BY <1>0, <2>1, <2>2 DEF Shape
<1>3. Only(c, i) /\ room'[i] = r /\ act'[c] = p
  <2> HIDE DEF r, p
  <2> QED BY <1>0, <1>1, <1>2, Effect, ZenonT(60) DEF Shape
<1>4. \/ act'[c].pc = "flush" /\ act'[c].rm = i /\ act[c].pc = "last"
      \/ act'[c].pc = "rest" /\ act'[c].rm = None /\ act[c].pc = "gone"
  BY <1>0, <1>3, SMTT(30) DEF ActRec, Resting
<1>5. /\ room'[i].slots = room[i].slots - 1 /\ room'[i].inflight = room[i].inflight
      /\ room'[i].phase = "ready" /\ room'[i].peers = room[i].peers
      /\ room'[i].idle = room[i].idle /\ room'[i].unsaved = room[i].unsaved
      /\ room'[i].stop = room[i].stop /\ room'[i].done = room[i].done
      /\ room'[i].unloads = room[i].unloads
  BY <1>0, <1>3 DEF RoomRec
<1>6. Role(c)'
  BY <1>0, <1>4, <1>5 DEF Role, ConnPc
<1>7. Plain(c, i)
  BY <1>0, <1>3, <1>4, <1>5, <1>6 DEF Plain, Lives, Life, Peers, Holding
<1>8. Tallies(c, i)
  <2>1. /\ Bit(c \in Guest /\ act'[c].pc \in Holding) = 0 /\ Bit(c \in Guest /\ act[c].pc \in Holding) = 0
        /\ Bit(c \in Conn /\ act'[c].pc \in Seated) = 0 /\ Bit(c \in Conn /\ act[c].pc \in Seated) = 1
        /\ Bit(c \in Conn /\ act'[c].pc \in Seated \ {"conn"}) = 0
        /\ Bit(c \in Conn /\ act[c].pc \in Seated \ {"conn"}) = 1
    BY <1>0, <1>4 DEF Bit, Holding, Seated
  <2>2. /\ room[i].inflight + 0 - 0 = room[i].inflight /\ room[i].slots + 0 - 1 = room[i].slots - 1
        /\ conns + 0 - 1 = conns - 1
    BY <1>c, SMTT(30)
  <2> QED BY <1>0, <1>4, <1>5, <1>6, <2>1, <2>2 DEF Tallies
<1>9. Debts(c, i) /\ Duties(c, i)
  BY <1>0, <1>4, <1>5 DEF Debts, Duties, Bound
<1>10. room'[i].slots <= MaxPeers /\ conns' <= MaxConns
  BY <1>0, <1>c, <1>5, LifeAssumption, SMTT(30) DEF Limits
<1> QED BY <1>0, <1>7, <1>8, <1>9, <1>10, PlainInv

LEMMA UnloadInv ==
    ASSUME Sizes, IInv, NEW a \in Actor, Unload(a)
    PROVE  IInv'
<1> DEFINE i == act[a].rm
           n == IF act[a].ok THEN room[i].unloads + 1 ELSE room[i].unloads
           r == [room[i] EXCEPT !.unloads = n]
<1>0. /\ act[a].pc = "await" /\ room[i].done /\ UNCHANGED <<setup, cur, stored, sent, conns, fails>>
      /\ i \in Inst /\ room[i] \in RoomRec /\ act[a] \in ActRec /\ Shape /\ Roles /\ OneLoader /\ Lives /\ Role(a)
      /\ Peers /\ Counts /\ Limits /\ Unloads /\ Home /\ Refused /\ Fresh /\ Stamped
      /\ None \notin Inst /\ room[i].phase = "ready" /\ a \notin Caller
  <2>1. act[a].pc = "await" /\ room[i].done /\ UNCHANGED <<setup, cur, stored, sent, conns, fails>>
    BY DEF Unload, At, Rm
  <2> QED BY <2>1, Standing, LifeAssumption DEF Role, IInv, Table, CallerPc
<1>c. room[i].inflight \in Nat /\ room[i].slots \in Nat /\ conns \in Nat /\ room[i].unloads \in Nat
  BY <1>0 DEF RoomRec, Shape
<1>k. PICK k \in Inst : k = i
  BY <1>0
<1>1. r \in RoomRec /\ Resting \in ActRec /\ n \in Nat
  BY <1>0, <1>c, SMTT(30) DEF RoomRec, Resting, ActRec, Pc
<1>2. room' = [room EXCEPT ![i] = r] /\ act' = [act EXCEPT ![a] = Resting]
  <2>1. CASE act[a].ok
    BY <1>0, <2>1 DEF Unload, Rest, Shape
  <2>2. CASE ~act[a].ok
    <3>1. r = room[i]
      BY <1>0, <2>2 DEF RoomRec
    <3>2. room = [room EXCEPT ![i] = room[i]]
      BY <1>0 DEF Shape
    <3> QED BY <2>2, <3>1, <3>2 DEF Unload, Rest
  <2> QED BY <2>1, <2>2
<1>3. Only(a, i) /\ room'[i] = r /\ act'[a] = Resting
  <2> HIDE DEF r
  <2> QED BY <1>0, <1>1, <1>2, Effect DEF Shape
<1>4. act'[a].pc = "rest" /\ act'[a].rm = None
  BY <1>3, SMTT(30) DEF Resting
<1>5. /\ room'[i].unsaved = room[i].unsaved /\ room'[i].idle = room[i].idle /\ room'[i].phase = "ready"
      /\ room'[i].peers = room[i].peers /\ room'[i].stop = room[i].stop
      /\ room'[i].done = room[i].done /\ room'[i].unloads = n
      /\ room'[i].inflight = room[i].inflight /\ room'[i].slots = room[i].slots
  <2> HIDE DEF n
  <2> QED BY <1>0, <1>1, <1>3 DEF RoomRec
<1>6. /\ \A b \in Actor : b # a => act'[b] = act[b]
      /\ \A j \in Inst : j # i => room'[j] = room[j]
      /\ \A j \in Inst : /\ room'[j].phase = room[j].phase /\ room'[j].stop = room[j].stop
                         /\ room'[j].unsaved = room[j].unsaved /\ room'[j].done = room[j].done
                         /\ room'[j].peers = room[j].peers /\ room'[j].idle = room[j].idle
                         /\ room'[j].slots = room[j].slots
      /\ Shape' /\ Conn \cup Caller \cup Sweeper \cup Admin \cup Guest \subseteq Actor
  BY <1>0, <1>3, <1>5 DEF Only, Actor, Guest
<1>7. Role(a)'
  BY <1>0, <1>4 DEF Role, ConnPc
<1>8. Table'
  <2>1. Roles'
    BY <1>0, <1>6, <1>7, RolesStep
  <2>2. OneLoader' /\ Lives'
    BY <1>0, <1>4, <1>6, LoaderKeep, LivesKeep
  <2> QED BY <1>6, <2>1, <2>2 DEF Table
<1>9. Peers'
  <2>1. \A d \in Conn, j \in Inst :
          act'[d].rm = j /\ act'[d].pc \in {"joined", "leaving"} <=> act[d].rm = j /\ act[d].pc \in {"joined", "leaving"}
    BY <1>0, <1>4, <1>6
  <2> QED BY <1>0, <1>6, <2>1, PeersKeep
<1>10. Counts'
  <2>1. Tallies(a, i)
    <3>1. /\ act[a].pc \notin Holding /\ act'[a].pc \notin Holding
          /\ act[a].pc \notin Seated /\ act'[a].pc \notin Seated
      BY <1>0, <1>4 DEF Holding, Seated
    <3>2. act[a].pc # "rest" /\ act[a].pc # "conn" /\ act'[a].pc # "conn"
      BY <1>0, <1>4
    <3>3. Alike(a, i)
      BY <1>0, <1>c, <1>4, <1>5, <1>7, <3>1, <3>2 DEF Alike
    <3> QED BY <3>3, SameTallies
  <2> QED BY <1>0, <1>3, <2>1, CountsStep
<1>11. Limits'
  BY <1>0, <1>6 DEF Limits
<1>12. Unloads'
  <2>1. cur # i
    BY <1>0 DEF Lives, Life
  <2>2. \A b \in Actor, j \in Inst : Unloader(b, j)' <=> Unloader(b, j) /\ b # a
    BY <1>0, <1>4, <1>6 DEF Unloader
  <2>3. Unloader(a, i) <=> act[a].ok
    BY <1>0 DEF Unloader
  <2>4. \A j \in Inst : j # i => ~Unloader(a, j)
    BY <1>0 DEF Unloader
  <2>5. ASSUME NEW j \in Inst, j # i PROVE Unloaded(j)'
    <3>1. \A b \in Actor : Unloader(b, j)' <=> Unloader(b, j)
      BY <2>2, <2>4, <2>5
    <3>2. Unloaded(j)
      BY <1>0, <2>5 DEF Unloads
    <3> QED BY <1>0, <1>6, <2>5, <3>1, <3>2 DEF Unloaded
  <2>6. ASSUME act[a].ok PROVE Unloaded(k)'
    <3>0. Unloaded(i) /\ Unloader(a, i)
      BY <1>0, <2>3, <2>6 DEF Unloads
    <3>1. room[i].unloads = 0 /\ \A b \in Actor : Unloader(b, i) <=> b = a
      BY <1>0, <2>1, <3>0 DEF Unloaded
    <3>2. \A b \in Actor : ~Unloader(b, k)'
      BY <1>0, <1>k, <2>2, <3>1
    <3>3. room'[i].unloads = 1
      BY <1>5, <2>6, <3>1, SMTT(30)
    <3> QED BY <1>0, <1>k, <1>5, <2>1, <3>2, <3>3 DEF Unloaded
  <2>7. ASSUME ~act[a].ok PROVE Unloaded(k)'
    <3>1. \A b \in Actor : Unloader(b, k)' <=> Unloader(b, i)
      <4>1. ~Unloader(a, i)
        BY <2>3, <2>7
      <4> QED BY <1>0, <1>k, <2>2, <4>1
    <3>2. room'[i].unloads = room[i].unloads
      BY <1>5, <2>7
    <3>3. Unloaded(i)
      BY <1>0 DEF Unloads
    <3> QED BY <1>0, <1>k, <1>5, <2>1, <3>1, <3>2, <3>3 DEF Unloaded
  <2>8. Unloaded(k)'
    BY <2>6, <2>7
  <2> QED BY <1>k, <2>5, <2>8 DEF Unloads
<1>13. Home'
  <2>1. \A b \in Admin : act'[b] = act[b] \/ act'[b].pc = "rest"
    BY <1>4, <1>6
  <2>3. ASSUME Closed, setup.lazy, NEW b \in Guest, act'[b].pc \in Holding
        PROVE  cur = act'[b].rm \/ (act'[b].pc = "wait" /\ room'[act'[b].rm].phase = "failed")
    <3>1. b \in Actor /\ act'[b] = act[b] /\ act[b].rm \in Inst
      BY <1>0, <1>4, <1>6, <2>3, Placed DEF Holding
    <3>2. cur = act[b].rm \/ (act[b].pc = "wait" /\ room[act[b].rm].phase = "failed")
      BY <1>0, <2>3, <3>1, HomeKept
    <3> QED BY <1>0, <1>6, <2>3, <3>1, <3>2
  <2>4. Closed => \A b \in Admin : act'[b].pc = "rest"
    BY <1>0, <2>1 DEF Home
  <2>5. Closed => \A j \in Inst : room'[j].peers # {} => cur = j
    BY <1>0, <1>6 DEF Home
  <2> QED BY <1>0, <2>3, <2>4, <2>5 DEF Home, Closed
<1>14. Refused'
  BY <1>0, <1>4, <1>6 DEF Refused, Reaping, MayRefuse
<1>15. Fresh'
  <2>1. setup.lazy /\ Closed /\ ~MayRefuse => \A j \in Inst : j # cur' => room'[j].unsaved = {}
    BY <1>0, <1>6 DEF Fresh
  <2>2. /\ \A b \in Conn \cup Sweeper : act'[b].pc \in {"evictflush", "evict"} => act'[b] = act[b]
        /\ \A b \in Caller : act'[b] = act[b]
    BY <1>0, <1>4, <1>6
  <2> QED BY <1>0, <1>6, <2>1, <2>2, FreshKeep
<1>16. Stamped'
  <2>1. \A b \in Guest : act[b].pc \in Bound => act'[b] = act[b]
    BY <1>0, <1>6 DEF Bound
  <2> QED BY <1>0, <1>4, <1>6, <2>1, SMTT(30) DEF Stamped, MayRefuse
<1> QED BY <1>8, <1>9, <1>10, <1>11, <1>12, <1>13, <1>14, <1>15, <1>16 DEF IInv

\* The room leaves the map: the last peer (eager), an eviction, CloseRoom.
LEMMA DetachInv ==
    ASSUME Sizes, IInv, NEW a \in Actor, Detach(a), cur = act[a].rm, UNCHANGED <<setup, stored, sent, conns, fails>>,
           \/ act[a].pc = "decide" /\ room[act[a].rm].peers = {} /\ ~setup.lazy
           \/ /\ act[a].pc = "evict" /\ act[a].ok /\ room[act[a].rm].peers = {}
              /\ room[act[a].rm].idle = act[a].stamp /\ room[act[a].rm].inflight = 0
           \/ act[a].pc = "delete"
    PROVE  IInv'
<1> DEFINE i == act[a].rm
           r == [room[i] EXCEPT !.stop = TRUE]
           p == [act[a] EXCEPT !.pc = "await", !.ok = TRUE]
<1>0. /\ i \in Inst /\ room[i] \in RoomRec /\ act[a] \in ActRec /\ Shape /\ Roles /\ OneLoader /\ Lives /\ Role(a)
      /\ Peers /\ Counts /\ Limits /\ Unloads /\ Home /\ Refused /\ Fresh /\ Stamped
      /\ None \notin Inst /\ room[i].phase = "ready" /\ a \notin Caller
      /\ (act[a].pc = "evict" => a \in Conn \cup Sweeper) /\ (act[a].pc = "delete" => a \in Admin)
  BY Standing, LifeAssumption DEF Role, IInv, Table, CallerPc
<1>c. room[i].inflight \in Nat /\ room[i].slots \in Nat /\ conns \in Nat
  BY <1>0 DEF RoomRec, Shape
<1>k. PICK k \in Inst : k = i
  BY <1>0
<1>1. r \in RoomRec /\ p \in ActRec
  <2>1. r \in RoomRec
    BY <1>0 DEF RoomRec
  <2>2. p \in ActRec
    BY <1>0 DEF ActRec, Pc
  <2> QED BY <2>1, <2>2
<1>2. room' = [room EXCEPT ![i] = r] /\ act' = [act EXCEPT ![a] = p] /\ cur' = None
  <2>1. room' = [room EXCEPT ![i] = r] /\ cur' = None
    BY DEF Detach
  <2>2. act' = [act EXCEPT ![a] = p]
    BY <1>0 DEF Detach, Shape
  <2> QED BY <2>1, <2>2
<1>3. Only(a, i) /\ room'[i] = r /\ act'[a] = p
  <2> HIDE DEF r, p
  <2> QED BY <1>0, <1>1, <1>2, Effect DEF Shape
<1>4. act'[a].pc = "await" /\ act'[a].rm = i /\ act'[a].ok
  BY <1>0, <1>3 DEF ActRec
<1>5. /\ room'[i].unsaved = room[i].unsaved /\ room'[i].idle = room[i].idle /\ room'[i].phase = "ready"
      /\ room'[i].peers = room[i].peers /\ room'[i].stop
      /\ room'[i].done = room[i].done /\ room'[i].unloads = room[i].unloads
      /\ room'[i].inflight = room[i].inflight /\ room'[i].slots = room[i].slots
  BY <1>0, <1>3 DEF RoomRec
<1>6. /\ \A b \in Actor : b # a => act'[b] = act[b]
      /\ \A j \in Inst : j # i => room'[j] = room[j]
      /\ \A j \in Inst : /\ room'[j].phase = room[j].phase /\ room'[j].unloads = room[j].unloads
                         /\ room'[j].unsaved = room[j].unsaved /\ room'[j].done = room[j].done
                         /\ room'[j].peers = room[j].peers /\ room'[j].idle = room[j].idle
                         /\ room'[j].slots = room[j].slots
      /\ Shape' /\ Conn \cup Caller \cup Sweeper \cup Admin \cup Guest \subseteq Actor
  BY <1>0, <1>3, <1>5, ZenonT(60) DEF Only, Actor, Guest
<1>7. Role(a)'
  BY <1>0, <1>4, <1>5 DEF Role, ConnPc
<1>8. Table'
  <2>1. Roles'
    BY <1>0, <1>6, <1>7, RolesStep
  <2>2. OneLoader'
    BY <1>0, <1>4, <1>6, LoaderKeep
  <2>3. Lives'
    <3>1. Life(k)'
      BY <1>0, <1>k, <1>2, <1>5 DEF Life, Lives
    <3>2. ASSUME NEW j \in Inst, j # i PROVE Life(j)'
      <4>1. room'[j] = room[j] /\ cur # j /\ cur' # j /\ Life(j)
        BY <1>0, <1>2, <1>6, <3>2 DEF Lives
      <4> QED BY <4>1 DEF Life
    <3> QED BY <1>k, <3>1, <3>2 DEF Lives
  <2> QED BY <1>6, <2>1, <2>2, <2>3 DEF Table
<1>9. Peers'
  <2>1. \A d \in Conn, j \in Inst :
          act'[d].rm = j /\ act'[d].pc \in {"joined", "leaving"} <=> act[d].rm = j /\ act[d].pc \in {"joined", "leaving"}
    <3>1. act[a].pc \notin {"joined", "leaving"} /\ act'[a].pc \notin {"joined", "leaving"}
      BY <1>4
    <3>2. \A d \in Conn : d # a => act'[d] = act[d]
      BY <1>6
    <3> QED BY <3>1, <3>2
  <2> QED BY <1>0, <1>6, <2>1, PeersKeep
<1>10. Counts'
  <2>1. Tallies(a, i)
    <3>1. /\ act[a].pc \notin Holding /\ act'[a].pc \notin Holding
          /\ act[a].pc \notin Seated /\ act'[a].pc \notin Seated /\ act[a].pc # "rest"
      BY <1>4 DEF Holding, Seated
    <3>2. act[a].pc # "conn" /\ act'[a].pc # "conn"
      BY <1>0, <1>4
    <3>3. Alike(a, i)
      BY <1>0, <1>c, <1>4, <1>5, <1>7, <3>1, <3>2 DEF Alike
    <3> QED BY <3>3, SameTallies
  <2> QED BY <1>0, <1>3, <2>1, CountsStep
<1>11. Limits'
  BY <1>0, <1>6 DEF Limits
<1>12. Unloads'
  <2>1. room[i].unloads = 0 /\ \A b \in Actor : ~Unloader(b, i)
    BY <1>0 DEF Unloads, Unloaded
  <2>2. \A b \in Actor : Unloader(b, k)' <=> b = a
    BY <1>k, <1>4, <1>6, <2>1 DEF Unloader
  <2>3. \A b \in Actor, j \in Inst : j # i => (Unloader(b, j)' <=> Unloader(b, j))
    BY <1>0, <1>4, <1>6 DEF Unloader
  <2>4. Unloaded(k)'
    BY <1>0, <1>k, <1>2, <1>5, <2>1, <2>2 DEF Unloaded
  <2>5. ASSUME NEW j \in Inst, j # i PROVE Unloaded(j)'
    <3>1. Unloaded(j) /\ cur # j /\ cur' # j /\ room'[j] = room[j]
      BY <1>0, <1>2, <1>6, <2>5 DEF Unloads
    <3> QED BY <2>3, <2>5, <3>1 DEF Unloaded
  <2> QED BY <1>k, <2>4, <2>5 DEF Unloads
<1>d. a \in Admin => ~Closed
  BY <1>0 DEF Home
<1>h. setup.lazy /\ Closed => act[a].pc = "evict" /\ \A b \in Guest : act[b].rm = i => act[b].pc \notin Holding
  BY <1>0, <1>d, NobodyHolds
<1>13. Home'
  <2>1. Closed => \A b \in Admin : act'[b].pc = "rest"
    BY <1>0, <1>6, <1>d DEF Home
  <2>2. Closed => \A j \in Inst : room'[j].peers = {}
    BY <1>0, <1>6, <1>d DEF Home
  <2>3. ASSUME Closed, setup.lazy, NEW b \in Guest, act'[b].pc \in Holding
        PROVE  act'[b].pc = "wait" /\ room'[act'[b].rm].phase = "failed"
    <3>1. b \in Actor /\ act'[b] = act[b] /\ act[b].rm \in Inst
      BY <1>0, <1>4, <1>6, <2>3, Placed DEF Holding
    <3>2. act[b].rm # i
      BY <1>h, <2>3, <3>1
    <3>3. cur = act[b].rm \/ (act[b].pc = "wait" /\ room[act[b].rm].phase = "failed")
      BY <1>0, <2>3, <3>1 DEF Home
    <3> QED BY <1>0, <1>6, <3>1, <3>2, <3>3
  <2> QED BY <1>0, <2>1, <2>2, <2>3 DEF Home, Closed
<1>14. Refused'
  BY <1>0, <1>4, <1>6 DEF Refused, Reaping, MayRefuse
<1>15. Fresh'
  <2>1. ASSUME setup.lazy, Closed, ~MayRefuse, NEW j \in Inst PROVE room'[j].unsaved = {}
    <3>1. CASE j # i
      BY <1>0, <1>6, <2>1, <3>1 DEF Fresh
    <3>2. CASE j = i
      <4>1. act[a].pc = "evict" /\ a \in Sweeper
        BY <1>0, <1>h, <2>1 DEF Refused, Reaping
      <4>2. act[a].ok /\ room[i].idle = act[a].stamp /\ act[a].stamp # 0
        BY <1>0, <2>1, <4>1 DEF Fresh
      <4>3. room[i].unsaved = {} \/ \E d \in Caller : act[d].rm = i /\ act[d].pc = "mark"
        BY <1>0, <2>1, <4>1, <4>2 DEF Fresh
      <4> QED BY <1>5, <1>h, <2>1, <3>2, <4>3 DEF Guest, Holding
    <3> QED BY <3>1, <3>2
  <2>2. /\ \A b \in Conn \cup Sweeper : act'[b].pc \in {"evictflush", "evict"} => act'[b] = act[b]
        /\ \A b \in Caller : act'[b] = act[b]
    BY <1>0, <1>4, <1>6
  <2> QED BY <1>0, <1>6, <2>1, <2>2, FreshKeep
<1>16. Stamped'
  <2>1. \A j \in Inst : cur' # j
    BY <1>0, <1>2
  <2> QED BY <1>0, <1>4, <1>6, <2>1 DEF Stamped, MayRefuse
<1> QED BY <1>8, <1>9, <1>10, <1>11, <1>12, <1>13, <1>14, <1>15, <1>16 DEF IInv

\* A room is published before it is loaded, under a name nobody refers to.
Creates(a, i) ==
    /\ cur = None /\ Unreachable(i) /\ cur' = i
    /\ room' = [room EXCEPT ![i] = Placeholder]
    /\ act' = [act EXCEPT ![a].pc = "load", ![a].rm = i, ![a].created = TRUE]

LEMMA CreateInv ==
    ASSUME Sizes, IInv, NEW a \in Guest, NEW i \in Inst, Lookup(a), Creates(a, i)
    PROVE  IInv'
<1> DEFINE p == [act[a] EXCEPT !.pc = "load", !.rm = i, !.created = TRUE]
<1>0. /\ act[a].pc = "rest" /\ UNCHANGED <<setup, stored, sent, conns, fails>> /\ Coming(a)
      /\ a \in Actor /\ act[a] \in ActRec /\ Shape /\ Roles /\ OneLoader /\ Lives
      /\ Peers /\ Counts /\ Limits /\ Unloads /\ Home /\ Refused /\ Fresh /\ Stamped
      /\ None \notin Inst /\ a \notin Sweeper \cup Admin /\ (a \in Caller => a \notin Conn)
      /\ \A b \in Actor : act[b].rm # i
      /\ cur = None /\ cur' = i
      /\ Conn \cup Caller \cup Sweeper \cup Admin \cup Guest \subseteq Actor
  BY LifeAssumption DEF Lookup, At, IInv, Table, Shape, Actor, Guest, Unreachable, Creates
<1>1. Placeholder \in RoomRec /\ p \in ActRec
  BY <1>0 DEF Placeholder, RoomRec, ActRec, Pc, Holding
<1>2. act' = [act EXCEPT ![a] = p] /\ room' = [room EXCEPT ![i] = Placeholder]
  BY <1>0 DEF Shape, Creates
<1>3. Only(a, i) /\ room'[i] = Placeholder /\ act'[a] = p
  <2> HIDE DEF p
  <2> QED BY <1>0, <1>1, <1>2, Effect DEF Shape
<1>4. act'[a].pc = "load" /\ act'[a].rm = i
  BY <1>0, <1>3 DEF ActRec
<1>5. /\ room'[i].unsaved = {} /\ room'[i].idle = 0 /\ room'[i].phase = "loading"
      /\ room'[i].peers = {} /\ ~room'[i].stop /\ ~room'[i].done /\ room'[i].unloads = 0
      /\ room'[i].inflight = 1 /\ room'[i].slots = 0
  BY <1>3, SMTT(30) DEF Placeholder
<1>6. /\ \A b \in Actor : b # a => act'[b] = act[b]
      /\ \A j \in Inst : j # i => room'[j] = room[j]
      /\ Shape'
  BY <1>3 DEF Only
<1>7. Table'
  <2>1. Role(a)'
    BY <1>0, <1>4, <1>5 DEF Role, ConnPc, CallerPc, Guest
  <2>2. ASSUME NEW b \in Actor, b # a PROVE Role(b)'
    <3>1. act'[b] = act[b] /\ Role(b)
      BY <1>0, <1>6, <2>2 DEF Roles
    <3>2. act[b].pc # "rest" => act[b].rm \in Inst /\ room'[act[b].rm] = room[act[b].rm]
      BY <1>0, <1>6, Placed
    <3> QED BY <3>1, <3>2 DEF Role
  <2>3. OneLoader'
    BY <1>0, <1>4, <1>6, SMTT(30) DEF OneLoader
  <2>4. ASSUME NEW j \in Inst PROVE Life(j)'
    <3>1. CASE j = i
      BY <1>0, <1>5, <3>1 DEF Life
    <3>2. CASE j # i
      BY <1>0, <1>6, <3>2 DEF Lives, Life
    <3> QED BY <3>1, <3>2
  <2> QED BY <1>6, <2>1, <2>2, <2>3, <2>4 DEF Table, Roles, Lives
<1>8. Peers'
  <2>1. \A d \in Conn : /\ act'[d].pc \in {"joined", "leaving"} => d # a /\ act'[d] = act[d] /\ act'[d].rm # i
                        /\ act[d].pc \in {"joined", "leaving"} => act'[d] = act[d]
    BY <1>0, <1>4, <1>6
  <2>2. ASSUME NEW j \in Inst
        PROVE  room'[j].peers = {d \in Conn : act'[d].rm = j /\ act'[d].pc \in {"joined", "leaving"}}
    <3>1. CASE j = i
      BY <1>5, <2>1, <3>1
    <3>2. CASE j # i
      BY <1>0, <1>6, <2>1, <3>2, SMTT(30) DEF Peers
    <3> QED BY <3>1, <3>2
  <2> QED BY <1>0, <1>5, <1>6, <2>2, SMTT(30) DEF Peers
<1>9. Counts'
  <2>1. Holders(i)' = {a} /\ Seats(i)' = {}
    BY <1>0, <1>4, <1>6 DEF Holders, Seats, Holding, Seated
  <2>2. Cardinality({a}) = 1 /\ Cardinality({}) = 0
    <3>1. {} \in SUBSET Actor /\ a \in Actor \ {} /\ {} \cup {a} = {a}
      BY DEF Guest, Actor
    <3>2. Cardinality({}) = 0 /\ Cardinality({a}) = Cardinality({}) + 1
      BY <3>1, Finite, Plus
    <3> QED BY <3>2, SMTT(30)
  <2>3. ASSUME NEW j \in Inst, j # i PROVE Holders(j)' = Holders(j) /\ Seats(j)' = Seats(j)
    BY <1>0, <1>4, <1>6, <2>3 DEF Holders, Seats, Holding, Seated
  <2>4. Permits' = Permits
    BY <1>0, <1>4, <1>6 DEF Permits, Seated
  <2>5. Cardinality(Present') <= setup.conns
    <3>1. CASE a \in Conn
      <4>1. Present' = Present \cup {a} /\ a \notin Present /\ Present \in SUBSET Actor
        BY <1>0, <1>4, <1>6, <3>1 DEF Present
      <4>2. Cardinality(Present') = Cardinality(Present) + 1 /\ Cardinality(Present) \in Nat
        BY <4>1, <3>1, Plus DEF Actor
      <4>3. Cardinality(Present) < setup.conns /\ setup.conns \in Nat
        BY <1>0, <3>1, LifeAssumption DEF Coming, Present, At, Shape
      <4> QED BY <4>2, <4>3, SMTT(30)
    <3>2. CASE a \notin Conn
      <4>1. Present' = Present
        BY <1>0, <1>6, <3>2 DEF Present
      <4> QED BY <1>0, <4>1 DEF Counts
    <3> QED BY <3>1, <3>2
  <2>6. \A j \in Inst : room'[j].phase \in {"loading", "ready"} =>
          room'[j].inflight = Cardinality(Holders(j)') /\ room'[j].slots = Cardinality(Seats(j)')
    <3>1. room'[i].inflight = Cardinality(Holders(i)') /\ room'[i].slots = Cardinality(Seats(i)')
      BY <1>5, <2>1, <2>2
    <3>2. ASSUME NEW j \in Inst, j # i, room'[j].phase \in {"loading", "ready"}
          PROVE  room'[j].inflight = Cardinality(Holders(j)') /\ room'[j].slots = Cardinality(Seats(j)')
      BY <1>0, <1>6, <2>3, <3>2 DEF Counts
    <3> QED BY <3>1, <3>2
  <2>7. conns' = Cardinality(Permits')
    BY <1>0, <2>4 DEF Counts
  <2> QED BY <1>0, <2>5, <2>6, <2>7 DEF Counts
<1>10. Limits'
  BY <1>0, <1>5, <1>6, LifeAssumption, SMTT(30) DEF Limits
<1>11. Unloads'
  <2>1. \A b \in Actor : ~Unloader(b, i)'
    BY <1>0, <1>4, <1>6 DEF Unloader
  <2>2. \A b \in Actor, j \in Inst : j # i => (Unloader(b, j)' <=> Unloader(b, j))
    BY <1>0, <1>4, <1>6 DEF Unloader
  <2>3. Unloaded(i)'
    BY <1>5, <2>1 DEF Unloaded
  <2>4. ASSUME NEW j \in Inst, j # i PROVE Unloaded(j)'
    <3>1. Unloaded(j) /\ cur # j /\ cur' # j /\ room'[j] = room[j]
      BY <1>0, <1>6, <2>4 DEF Unloads
    <3> QED BY <2>2, <2>4, <3>1 DEF Unloaded
  <2> QED BY <2>3, <2>4 DEF Unloads
<1>12. Home'
  <2>1. \A b \in Admin : act'[b] = act[b]
    BY <1>0, <1>6
  <2>2. Closed => \A j \in Inst : room'[j].peers = {}
    BY <1>0, <1>5, <1>6 DEF Home
  <2>3. ASSUME Closed, setup.lazy, NEW b \in Guest, b # a, act'[b].pc \in Holding
        PROVE  act'[b].pc = "wait" /\ room'[act'[b].rm].phase = "failed"
    <3>1. b \in Actor /\ act'[b] = act[b] /\ act[b].rm \in Inst /\ act[b].rm # i
      BY <1>0, <1>6, <2>3, Placed DEF Holding
    <3>2. cur = act[b].rm \/ (act[b].pc = "wait" /\ room[act[b].rm].phase = "failed")
      BY <1>0, <2>3, <3>1, HomeKept
    <3> QED BY <1>0, <1>6, <2>3, <3>1, <3>2
  <2> QED BY <1>0, <1>4, <2>1, <2>2, <2>3 DEF Home, Closed
<1>13. Refused'
  BY <1>0, <1>4, <1>6 DEF Refused, Reaping, MayRefuse
<1>14. Fresh'
  <2>1. setup.lazy /\ Closed /\ ~MayRefuse => \A j \in Inst : j # cur' => room'[j].unsaved = {}
    BY <1>0, <1>6 DEF Fresh
  <2>2. /\ \A b \in Conn \cup Sweeper : act'[b].pc \in {"evictflush", "evict"} => act'[b] = act[b]
        /\ \A b \in Caller : act[b].pc = "mark" => act'[b] = act[b]
    BY <1>0, <1>4, <1>6
  <2>3. \A j \in Inst : /\ room'[j].unsaved = room[j].unsaved \/ room'[j].unsaved = {}
                        /\ room'[j].idle = room[j].idle \/ room'[j].idle = 0
    BY <1>5, <1>6
  <2> QED BY <1>0, <2>1, <2>2, <2>3, FreshKeep
<1>15. Stamped'
  BY <1>0, <1>4, <1>5, <1>6 DEF Stamped, MayRefuse
<1> QED BY <1>7, <1>8, <1>9, <1>10, <1>11, <1>12, <1>13, <1>14, <1>15 DEF IInv

LEMMA LookupInv ==
    ASSUME Sizes, IInv, NEW a \in Guest, Lookup(a)
    PROVE  IInv'
<1>1. CASE cur # None
  BY <1>1, JoinInv
<1>2. CASE cur = None
  <2>1. PICK i \in Inst : Creates(a, i)
    BY <1>2 DEF Lookup, Creates
  <2> QED BY <2>1, CreateInv
<1> QED BY <1>1, <1>2

\* LoadDoc returned: the room is ready and its creator goes in.
Loaded(a) ==
    /\ room' = [room EXCEPT ![act[a].rm].phase = "ready"] /\ Goto(a, Enter(a))
    /\ UNCHANGED <<setup, cur, stored, sent, conns, fails>>

LEMMA LoadedInv ==
    ASSUME Sizes, IInv, NEW a \in Actor, act[a].pc = "load", Loaded(a)
    PROVE  IInv'
<1> DEFINE i == act[a].rm
           r == [room[i] EXCEPT !.phase = "ready"]
           p == [act[a] EXCEPT !.pc = Enter(a)]
<1>0. /\ i \in Inst /\ room[i] \in RoomRec /\ act[a] \in ActRec /\ Shape /\ Roles /\ OneLoader /\ Lives
      /\ Peers /\ Counts /\ Limits /\ Unloads /\ Home /\ Refused /\ Fresh /\ Stamped
      /\ None \notin Inst /\ room[i].phase = "loading" /\ cur = i /\ a \in Guest
      /\ a \notin Sweeper \cup Admin /\ (a \in Caller => a \notin Conn)
      /\ UNCHANGED <<setup, cur, stored, sent, conns, fails>>
      /\ Conn \cup Caller \cup Sweeper \cup Admin \cup Guest \subseteq Actor
  <2>1. i \in Inst /\ Role(a) /\ Lives /\ a \in Guest /\ room[i] \in RoomRec /\ act[a] \in ActRec
    BY Standing
  <2>2. room[i].phase = "loading" /\ cur = i
    BY <2>1 DEF Role, Lives, Life
  <2> QED BY <2>1, <2>2, LifeAssumption DEF IInv, Table, Actor, Guest, Loaded
<1>k. PICK k \in Inst : k = i
  BY <1>0
<1>e. Enter(a) = IF a \in Conn THEN "slot" ELSE "clear"
  BY DEF Enter
<1>c. room[i].inflight \in Nat /\ room[i].slots \in Nat /\ conns \in Nat
  BY <1>0 DEF RoomRec, Shape
<1>1. r \in RoomRec /\ p \in ActRec
  <2>1. r \in RoomRec
    BY <1>0 DEF RoomRec
  <2>2. Enter(a) \in Pc
    BY <1>e DEF Pc, Holding
  <2>3. p \in ActRec
    BY <1>0, <2>2 DEF ActRec
  <2> QED BY <2>1, <2>3
<1>2. room' = [room EXCEPT ![i] = r] /\ act' = [act EXCEPT ![a] = p]
  BY DEF Loaded, Goto
<1>3. Only(a, i) /\ room'[i] = r /\ act'[a] = p
  <2> HIDE DEF r, p
  <2> QED BY <1>0, <1>1, <1>2, Effect, ZenonT(60) DEF Shape
<1>4. act'[a].pc = Enter(a) /\ act'[a].rm = i /\ act'[a].pc \in {"slot", "clear"}
  BY <1>0, <1>e, <1>3 DEF ActRec
<1>5. /\ room'[i].unsaved = room[i].unsaved /\ room'[i].idle = room[i].idle /\ room'[i].phase = "ready"
      /\ room'[i].peers = room[i].peers /\ room'[i].stop = room[i].stop
      /\ room'[i].done = room[i].done /\ room'[i].unloads = room[i].unloads
      /\ room'[i].inflight = room[i].inflight /\ room'[i].slots = room[i].slots
  BY <1>0, <1>3 DEF RoomRec
<1>6. /\ \A b \in Actor : b # a => act'[b] = act[b]
      /\ \A j \in Inst : j # i => room'[j] = room[j]
      /\ \A j \in Inst : /\ room'[j].unsaved = room[j].unsaved /\ room'[j].idle = room[j].idle
                         /\ room'[j].peers = room[j].peers /\ room'[j].slots = room[j].slots
      /\ Shape'
  BY <1>0, <1>3, <1>5 DEF Only
<1>w. \A b \in Actor : b # a /\ act[b].rm = i => act[b].pc = "wait"
  BY <1>0 DEF Roles, Role, OneLoader
<1>7. Role(a)'
  BY <1>0, <1>e, <1>4, <1>5 DEF Role, ConnPc, CallerPc, Guest
<1>8. Table'
  <2>2. ASSUME NEW b \in Actor, b # a PROVE Role(b)'
    <3>1. act'[b] = act[b] /\ Role(b)
      BY <1>0, <1>6, <2>2 DEF Roles
    <3>2. CASE act[b].rm = i
      BY <1>0, <1>5, <1>w, <2>2, <3>1, <3>2 DEF Role
    <3>3. CASE act[b].rm # i
      <4>1. act[b].pc # "rest" => act[b].rm \in Inst /\ room'[act[b].rm] = room[act[b].rm]
        BY <1>0, <1>6, <3>3, Placed
      <4> QED BY <3>1, <4>1 DEF Role
    <3> QED BY <3>2, <3>3
  <2>3. OneLoader'
    BY <1>0, <1>4, <1>6, LoaderKeep
  <2>4. ASSUME NEW j \in Inst PROVE Life(j)'
    <3>1. CASE j = i
      BY <1>0, <1>5, <3>1 DEF Life, Lives
    <3>2. CASE j # i
      <4>1. room'[j] = room[j] /\ (cur = j <=> cur' = j) /\ Life(j)
        BY <1>0, <1>6, <3>2 DEF Lives
      <4> QED BY <4>1 DEF Life
    <3> QED BY <3>1, <3>2
  <2> QED BY <1>6, <1>7, <2>2, <2>3, <2>4 DEF Table, Roles, Lives
<1>9. Peers'
  <2>1. \A d \in Conn, j \in Inst :
          act'[d].rm = j /\ act'[d].pc \in {"joined", "leaving"} <=> act[d].rm = j /\ act[d].pc \in {"joined", "leaving"}
    BY <1>0, <1>4, <1>6
  <2> QED BY <1>0, <1>6, <2>1, PeersKeep
<1>10. Counts'
  <2>1. Tallies(a, i)
    <3>1. act[a].pc \in Holding /\ act'[a].pc \in Holding /\ act[a].pc \notin Seated /\ act'[a].pc \notin Seated
      BY <1>4 DEF Holding, Seated
    <3>2. act[a].pc # "rest" /\ act[a].pc # "conn" /\ act'[a].pc # "conn"
      BY <1>0, <1>4
    <3>3. Alike(a, i)
      BY <1>0, <1>c, <1>4, <1>5, <1>7, <3>1, <3>2 DEF Alike
    <3> QED BY <3>3, SameTallies
  <2> QED BY <1>0, <1>3, <2>1, CountsStep
<1>11. Limits'
  BY <1>0, <1>6 DEF Limits
<1>12. Unloads'
  <2>1. \A b \in Actor, j \in Inst : Unloader(b, j)' <=> Unloader(b, j)
    BY <1>0, <1>4, <1>6 DEF Unloader
  <2>2. Unloaded(k)'
    BY <1>0, <1>k, <1>5, <2>1 DEF Unloads, Unloaded
  <2>3. ASSUME NEW j \in Inst, j # i PROVE Unloaded(j)'
    <3>1. Unloaded(j) /\ room'[j] = room[j]
      BY <1>0, <1>6, <2>3 DEF Unloads
    <3> QED BY <1>0, <2>1, <2>3, <3>1 DEF Unloaded
  <2> QED BY <1>k, <2>2, <2>3 DEF Unloads
<1>13. Home'
  <2>1. \A b \in Admin : act'[b] = act[b]
    BY <1>0, <1>6
  <2>3. ASSUME Closed, setup.lazy, NEW b \in Guest, act'[b].pc \in Holding
        PROVE  cur = act'[b].rm \/ (act'[b].pc = "wait" /\ room'[act'[b].rm].phase = "failed")
    <3>1. CASE act'[b].rm = i
      BY <1>0, <3>1
    <3>2. CASE act'[b].rm # i
      <4>1. b \in Actor /\ b # a /\ act'[b] = act[b] /\ act[b].rm \in Inst
        BY <1>0, <1>4, <1>6, <2>3, <3>2, Placed DEF Holding
      <4>2. cur = act[b].rm \/ (act[b].pc = "wait" /\ room[act[b].rm].phase = "failed")
        BY <1>0, <2>3, <4>1, HomeKept
      <4> QED BY <1>0, <1>6, <3>2, <4>1, <4>2
    <3> QED BY <3>1, <3>2
  <2> QED BY <1>0, <1>6, <2>1, <2>3, ZenonT(60) DEF Home, Closed
<1>14. Refused'
  BY <1>0, <1>4, <1>6 DEF Refused, Reaping, MayRefuse
<1>15. Fresh'
  <2>1. setup.lazy /\ Closed /\ ~MayRefuse => \A j \in Inst : j # cur' => room'[j].unsaved = {}
    BY <1>0, <1>6 DEF Fresh
  <2>2. /\ \A b \in Conn \cup Sweeper : act'[b].pc \in {"evictflush", "evict"} => act'[b] = act[b]
        /\ \A b \in Caller : act[b].pc = "mark" => act'[b] = act[b]
    BY <1>0, <1>4, <1>6
  <2> QED BY <1>0, <1>6, <2>1, <2>2, FreshKeep
<1>16. Stamped'
  <2>1. \A j \in Inst : cur = j => \E b \in Guest : act'[b].rm = j /\ act'[b].pc \in Bound
    BY <1>0, <1>4 DEF Bound
  <2>2. \A d \in Conn : act'[d].pc = "decide" => act'[d] = act[d]
    BY <1>0, <1>4, <1>6
  <2> QED BY <1>0, <2>1, <2>2 DEF Stamped, MayRefuse
<1> QED BY <1>8, <1>9, <1>10, <1>11, <1>12, <1>13, <1>14, <1>15, <1>16 DEF IInv

\* LoadDoc failed: the placeholder goes, and those who wait for it will see.
LoadFailed(a) ==
    /\ fails < setup.fails /\ fails' = fails + 1
    /\ room' = [room EXCEPT ![act[a].rm].phase = "failed"]
    /\ cur' = (IF cur = act[a].rm THEN None ELSE cur)
    /\ Rest(a) /\ UNCHANGED <<setup, stored, sent, conns>>

LEMMA LoadFailedInv ==
    ASSUME Sizes, IInv, NEW a \in Actor, act[a].pc = "load", LoadFailed(a)
    PROVE  IInv'
<1> DEFINE i == act[a].rm
           r == [room[i] EXCEPT !.phase = "failed"]
<1>0. /\ i \in Inst /\ room[i] \in RoomRec /\ act[a] \in ActRec /\ Shape /\ Roles /\ OneLoader /\ Lives
      /\ Peers /\ Counts /\ Limits /\ Unloads /\ Home /\ Refused /\ Fresh /\ Stamped
      /\ None \notin Inst /\ room[i].phase = "loading" /\ cur = i /\ cur' = None /\ a \in Guest
      /\ a \notin Sweeper \cup Admin /\ UNCHANGED <<setup, stored, sent, conns>>
      /\ Conn \cup Caller \cup Sweeper \cup Admin \cup Guest \subseteq Actor
  <2>1. i \in Inst /\ Role(a) /\ Lives /\ a \in Guest /\ room[i] \in RoomRec /\ act[a] \in ActRec
    BY Standing
  <2>2. room[i].phase = "loading" /\ cur = i
    BY <2>1 DEF Role, Lives, Life
  <2> QED BY <2>1, <2>2, LifeAssumption DEF IInv, Table, Actor, Guest, LoadFailed
<1>k. PICK k \in Inst : k = i
  BY <1>0
<1>c. /\ room[i].inflight \in Nat /\ room[i].slots \in Nat /\ conns \in Nat
      /\ fails' \in 0 .. setup.fails /\ fails' # 0
  BY <1>0, LifeAssumption, SMTT(30) DEF RoomRec, Shape, LoadFailed
<1>1. r \in RoomRec /\ Resting \in ActRec
  BY <1>0 DEF RoomRec, Resting, ActRec, Pc
<1>2. room' = [room EXCEPT ![i] = r] /\ act' = [act EXCEPT ![a] = Resting]
  BY DEF LoadFailed, Rest
<1>3. Only(a, i) /\ room'[i] = r /\ act'[a] = Resting
  <2> HIDE DEF r
  <2> QED BY <1>0, <1>c, <1>1, <1>2, Effect, ZenonT(60) DEF Shape
<1>4. act'[a].pc = "rest" /\ act'[a].rm = None
  BY <1>3, SMTT(30) DEF Resting
<1>5. /\ room'[i].unsaved = room[i].unsaved /\ room'[i].idle = room[i].idle /\ room'[i].phase = "failed"
      /\ room'[i].peers = room[i].peers /\ room'[i].stop = room[i].stop
      /\ room'[i].done = room[i].done /\ room'[i].unloads = room[i].unloads
      /\ room'[i].inflight = room[i].inflight /\ room'[i].slots = room[i].slots
  BY <1>0, <1>3 DEF RoomRec
<1>6. /\ \A b \in Actor : b # a => act'[b] = act[b]
      /\ \A j \in Inst : j # i => room'[j] = room[j]
      /\ \A j \in Inst : /\ room'[j].unsaved = room[j].unsaved /\ room'[j].idle = room[j].idle
                         /\ room'[j].peers = room[j].peers /\ room'[j].slots = room[j].slots
      /\ Shape'
  BY <1>0, <1>3, <1>5 DEF Only
<1>w. \A b \in Actor : b # a /\ act[b].rm = i => act[b].pc = "wait"
  BY <1>0 DEF Roles, Role, OneLoader
<1>7. Role(a)'
  BY <1>0, <1>4 DEF Role, ConnPc, CallerPc, Guest
<1>8. Table'
  <2>2. ASSUME NEW b \in Actor, b # a PROVE Role(b)'
    <3>1. act'[b] = act[b] /\ Role(b)
      BY <1>0, <1>6, <2>2 DEF Roles
    <3>2. CASE act[b].rm = i
      BY <1>0, <1>5, <1>w, <2>2, <3>1, <3>2 DEF Role
    <3>3. CASE act[b].rm # i
      <4>1. act[b].pc # "rest" => act[b].rm \in Inst /\ room'[act[b].rm] = room[act[b].rm]
        BY <1>0, <1>6, <3>3, Placed
      <4> QED BY <3>1, <4>1 DEF Role
    <3> QED BY <3>2, <3>3
  <2>3. OneLoader'
    BY <1>0, <1>4, <1>6, LoaderKeep
  <2>4. ASSUME NEW j \in Inst PROVE Life(j)'
    <3>1. CASE j = i
      BY <1>0, <1>5, <3>1 DEF Life, Lives
    <3>2. CASE j # i
      <4>1. room'[j] = room[j] /\ (cur = j <=> cur' = j) /\ Life(j)
        BY <1>0, <1>6, <3>2 DEF Lives
      <4> QED BY <4>1 DEF Life
    <3> QED BY <3>1, <3>2
  <2> QED BY <1>6, <1>7, <2>2, <2>3, <2>4 DEF Table, Roles, Lives
<1>9. Peers'
  <2>1. \A d \in Conn, j \in Inst :
          act'[d].rm = j /\ act'[d].pc \in {"joined", "leaving"} <=> act[d].rm = j /\ act[d].pc \in {"joined", "leaving"}
    BY <1>0, <1>4, <1>6
  <2> QED BY <1>0, <1>6, <2>1, PeersKeep
<1>10. Counts'
  <2>1. Tallies(a, i)
    <3>1. act[a].pc \notin Seated /\ act'[a].pc \notin Seated /\ act'[a].pc \notin Holding
      BY <1>4 DEF Holding, Seated
    <3>2. /\ Bit(a \in Conn /\ act'[a].pc \in Seated \ {"conn"}) = 0
          /\ Bit(a \in Conn /\ act[a].pc \in Seated \ {"conn"}) = 0
      BY <3>1 DEF Bit
    <3>3. conns + 0 - 0 = conns
      BY <1>c, SMTT(30)
    <3> QED BY <1>0, <1>4, <1>5, <1>7, <3>2, <3>3 DEF Tallies
  <2> QED BY <1>0, <1>3, <2>1, CountsStep
<1>11. Limits'
  BY <1>0, <1>6 DEF Limits
<1>12. Unloads'
  <2>1. \A b \in Actor, j \in Inst : Unloader(b, j)' <=> Unloader(b, j)
    BY <1>0, <1>4, <1>6 DEF Unloader
  <2>2. Unloaded(k)'
    BY <1>0, <1>k, <1>5, <2>1 DEF Unloads, Unloaded
  <2>3. ASSUME NEW j \in Inst, j # i PROVE Unloaded(j)'
    <3>1. Unloaded(j) /\ room'[j] = room[j] /\ cur # j /\ cur' # j
      BY <1>0, <1>6, <2>3 DEF Unloads
    <3> QED BY <2>1, <2>3, <3>1 DEF Unloaded
  <2> QED BY <1>k, <2>2, <2>3 DEF Unloads
<1>13. Home'
  <2>1. \A b \in Admin : act'[b] = act[b]
    BY <1>0, <1>6
  <2>2. Closed => \A j \in Inst : room'[j].peers = {}
    <3>1. room[i].peers = {}
      BY <1>0, <1>4, <1>w DEF Peers
    <3> QED BY <1>0, <1>6, <3>1 DEF Home
  <2>3. ASSUME Closed, setup.lazy, NEW b \in Guest, act'[b].pc \in Holding
        PROVE  act'[b].pc = "wait" /\ room'[act'[b].rm].phase = "failed"
    <3>1. b \in Actor /\ b # a /\ act'[b] = act[b] /\ act[b].rm \in Inst
      BY <1>0, <1>4, <1>6, <2>3, Placed DEF Holding
    <3>2. CASE act[b].rm = i
      BY <1>5, <1>w, <3>1, <3>2
    <3>3. CASE act[b].rm # i
      <4>1. cur = act[b].rm \/ (act[b].pc = "wait" /\ room[act[b].rm].phase = "failed")
        BY <1>0, <2>3, <3>1, HomeKept
      <4> QED BY <1>0, <1>6, <3>1, <3>3, <4>1
    <3> QED BY <3>2, <3>3
  <2> QED BY <1>0, <2>1, <2>2, <2>3 DEF Home, Closed
<1>14. Refused'
  BY <1>0, <1>4, <1>6 DEF Refused, Reaping, MayRefuse
<1>15. Fresh'
  <2>1. setup.lazy /\ Closed /\ ~MayRefuse => \A j \in Inst : j # cur' => room'[j].unsaved = {}
    BY <1>0, <1>6 DEF Fresh, Lives, Life
  <2>2. /\ \A b \in Conn \cup Sweeper : act'[b].pc \in {"evictflush", "evict"} => act'[b] = act[b]
        /\ \A b \in Caller : act[b].pc = "mark" => act'[b] = act[b]
    BY <1>0, <1>4, <1>6
  <2> QED BY <1>0, <1>6, <2>1, <2>2, FreshKeep
<1>16. Stamped'
  BY <1>c DEF Stamped
<1> QED BY <1>8, <1>9, <1>10, <1>11, <1>12, <1>13, <1>14, <1>15, <1>16 DEF IInv

----------------------------------------------------------------------------
LEMMA DecideInv ==
    ASSUME Sizes, IInv, NEW c \in Actor, Decide(c)
    PROVE  IInv'
<1> DEFINE i == act[c].rm
<1>0. /\ act[c].pc = "decide" /\ UNCHANGED <<setup, stored, sent, conns, fails>>
      /\ i \in Inst /\ room[i] \in RoomRec /\ Shape /\ Life(i) /\ room[i].phase = "ready" /\ act[c] \in ActRec
  BY Standing DEF Decide, At, Role
<1>1. CASE room[i].peers = {} /\ setup.lazy /\ room' = [room EXCEPT ![i].idle = Now] /\ Rest(c) /\ cur' = cur
  BY <1>0, <1>1, StampInv
<1>2. CASE room[i].peers = {} /\ ~setup.lazy /\ Detach(c) /\ cur = i
  BY <1>0, <1>2, DetachInv
<1>3. CASE Detach(c) /\ cur # i
  <2>1. [room[i] EXCEPT !.stop = TRUE] = room[i]
    BY <1>0, <1>3 DEF Life, RoomRec
  <2>2. room' = [room EXCEPT ![i] = [room[i] EXCEPT !.stop = TRUE]] /\ cur' = cur
    BY <1>3 DEF Detach
  <2>3. room' = room
    BY <1>0, <2>1, <2>2 DEF Shape
  <2>4. act' = [act EXCEPT ![c].pc = "await", ![c].ok = FALSE]
    BY <1>3 DEF Detach
  <2> QED BY <1>0, <1>3, <2>2, <2>3, <2>4, AwaitInv
<1>4. CASE (room[i].peers # {} \/ ~act[c].ok) /\ Rest(c) /\ UNCHANGED <<cur, room>>
  BY <1>0, <1>4, GiveUpInv
<1> QED BY <1>1, <1>2, <1>3, <1>4 DEF Decide, Rm

LEMMA EvictInv ==
    ASSUME Sizes, IInv, NEW a \in Actor, Evict(a)
    PROVE  IInv'
<1>1. CASE cur = act[a].rm /\ Detach(a)
  <2>0. /\ act[a].pc = "evict" /\ UNCHANGED <<setup, stored, sent, conns, fails>> /\ act[a].rm \in Inst
        /\ Shape /\ cur' # cur
    <3>1. act[a].pc = "evict" /\ UNCHANGED <<setup, stored, sent, conns, fails>>
      BY DEF Evict, At
    <3> QED BY <1>1, <3>1, Standing, LifeAssumption DEF Detach
  <2>1. /\ act[a].ok /\ room[act[a].rm].peers = {} /\ room[act[a].rm].idle = act[a].stamp
        /\ room[act[a].rm].inflight = 0
    BY <2>0 DEF Evict, Rm
  <2> QED BY <1>1, <2>0, <2>1, DetachInv
<1>2. CASE ~(cur = act[a].rm /\ Detach(a))
  BY <1>2, EvictInvOff
<1> QED BY <1>1, <1>2

LEMMA DeleteInv ==
    ASSUME Sizes, IInv, NEW a \in Actor, Delete(a)
    PROVE  IInv'
<1>0. act[a].pc = "delete" /\ UNCHANGED <<setup, stored, sent, conns, fails>>
  BY DEF Delete, At
<1>1. CASE cur = act[a].rm /\ Detach(a)
  BY <1>0, <1>1, DetachInv
<1>2. CASE cur # act[a].rm /\ act' = [act EXCEPT ![a].pc = "await", ![a].ok = FALSE] /\ UNCHANGED <<cur, room>>
  BY <1>0, <1>2, AwaitInv
<1> QED BY <1>1, <1>2 DEF Delete

LEMMA LoadInv ==
    ASSUME Sizes, IInv, NEW a \in Actor, Load(a)
    PROVE  IInv'
<1>1. act[a].pc = "load" /\ (Loaded(a) \/ LoadFailed(a))
  BY DEF Load, At, Loaded, LoadFailed
<1> QED BY <1>1, LoadedInv, LoadFailedInv

LEMMA ProceedInv ==
    ASSUME Sizes, IInv, NEW a \in Actor, Proceed(a)
    PROVE  IInv'
<1>1. CASE LeaveFlush(a) \/ EvictFlush(a) \/ CloseFlush(a)
  <2>1. {"decide", "evict", "delete"} \subseteq Pc
    BY DEF Pc
  <2> QED BY <1>1, <2>1, FlushInv DEF LeaveFlush, EvictFlush, CloseFlush, At
<1>2. CASE Load(a) \/ Ready(a) \/ TakeSlot(a) \/ TakeConn(a) \/ Upgrade(a) \/ Register(a)
  BY <1>2, LoadInv, ReadyInv, TakeSlotInv, TakeConnInv, UpgradeInv, RegisterInv
<1>3. CASE Reap(a) \/ ClearIdle(a) \/ Apply(a) \/ MarkIdleIfEmpty(a) \/ ReleaseInflight(a)
  BY <1>3, ReapInv, ClearIdleInv, ApplyInv, MarkIdleInv, ReleaseInv
<1>4. CASE Remove(a) \/ Free(a) \/ Decide(a) \/ Evict(a) \/ Delete(a) \/ Unload(a)
  BY <1>4, RemoveInv, FreeInv, DecideInv, EvictInv, DeleteInv, UnloadInv
<1> QED BY <1>1, <1>2, <1>3, <1>4 DEF Proceed

LEMMA NextInv ==
    ASSUME Sizes, IInv, [Next]_vars
    PROVE  IInv'
<1>1. CASE \E a \in Conn \cup Caller : Lookup(a)
  BY <1>1, LookupInv DEF Guest
<1>2. CASE \E c \in Conn, u \in Update : PeerWrites(c, u)
  BY <1>2, PeerWritesInv
<1>3. CASE \E c \in Conn : Leave(c)
  BY <1>3, LeaveInv
<1>4. CASE \E s \in Sweeper : Sweep(s)
  BY <1>4, SweepInv
<1>5. CASE \E a \in Admin : CloseFind(a)
  BY <1>5, CloseFindInv
<1>6. CASE \E a \in Actor : Proceed(a)
  BY <1>6, ProceedInv
<1>7. CASE \E i \in Inst : WorkerWrites(i) \/ WorkerExits(i)
  BY <1>7, WorkerInv
<1>8. CASE UNCHANGED vars
  <2>1. Table'
    BY <1>8 DEF vars, IInv, Table, Shape, Roles, Role, OneLoader, Lives, Life
  <2>2. Peers' /\ Limits' /\ Refused'
    BY <1>8 DEF vars, IInv, Peers, Limits, Refused, Reaping, MayRefuse
  <2>3. Counts'
    BY <1>8 DEF vars, IInv, Counts, Holders, Seats, Permits, Present
  <2>4. Unloads' /\ Home'
    <3>1. ASSUME NEW j \in Inst PROVE Unloaded(j)'
      <4>1. Unloaded(j) /\ room' = room /\ cur' = cur
        BY <1>8 DEF vars, IInv, Unloads
      <4>2. \A b \in Actor : Unloader(b, j)' <=> Unloader(b, j)
        BY <1>8 DEF vars, Unloader
      <4> QED BY <4>1, <4>2 DEF Unloaded
    <3>2. Home'
      BY <1>8 DEF vars, IInv, Home, Closed
    <3> QED BY <3>1, <3>2 DEF Unloads
  <2>5. Fresh' /\ Stamped'
    BY <1>8 DEF vars, IInv, Fresh, Stamped, Closed, MayRefuse
  <2> QED BY <2>1, <2>2, <2>3, <2>4, <2>5 DEF IInv
<1> QED BY <1>1, <1>2, <1>3, <1>4, <1>5, <1>6, <1>7, <1>8 DEF Next

LEMMA InitInv ==
    ASSUME Sizes, Init
    PROVE  IInv
<1>0. /\ \A i \in Inst : room[i] = Unused
      /\ \A a \in Actor : act[a] = Resting
      /\ cur = None /\ conns = 0 /\ fails = 0 /\ None \notin Inst
      /\ Conn \cup Caller \cup Sweeper \cup Admin \cup Guest \subseteq Actor
  BY LifeAssumption DEF Init, Actor, Guest
<1>1. /\ \A i \in Inst : /\ room[i].phase = "none" /\ room[i].peers = {} /\ room[i].idle = 0 /\ room[i].slots = 0
                         /\ room[i].unsaved = {} /\ ~room[i].stop /\ ~room[i].done /\ room[i].unloads = 0
      /\ \A a \in Actor : act[a].pc = "rest" /\ act[a].rm = None
  <2>1. /\ Unused.phase = "none" /\ Unused.peers = {} /\ Unused.idle = 0 /\ Unused.slots = 0
        /\ Unused.unsaved = {} /\ ~Unused.stop /\ ~Unused.done /\ Unused.unloads = 0
    BY DEF Unused, Placeholder
  <2>2. Resting.pc = "rest" /\ Resting.rm = None
    BY DEF Resting
  <2>3. \A i \in Inst : room[i] = Unused
    BY <1>0
  <2>4. \A a \in Actor : act[a] = Resting
    BY <1>0
  <2> QED BY <2>1, <2>2, <2>3, <2>4
<1>2. Shape
  <2>1. Unused \in RoomRec /\ Resting \in ActRec
    BY DEF Unused, Placeholder, RoomRec, Resting, ActRec, Pc
  <2> QED BY <2>1, LifeAssumption, SMTT(30) DEF Init, Shape
<1>3. Table
  BY <1>0, <1>1, <1>2 DEF Table, Roles, Role, OneLoader, Lives, Life, ConnPc, CallerPc
<1>4. Peers /\ Limits /\ Refused
  BY <1>0, <1>1, LifeAssumption, SMTT(30) DEF Peers, Limits, Refused, Reaping
<1>5. Counts
  <2>1. Permits = {} /\ Present = {}
    BY <1>0, <1>1 DEF Permits, Present, Seated
  <2>2. Cardinality({}) = 0 /\ setup.conns \in Nat
    BY <1>2, Finite, LifeAssumption DEF Shape
  <2>3. Cardinality(Permits) = 0 /\ Cardinality(Present) = 0
    BY <2>1, <2>2
  <2> QED BY <1>0, <1>1, <2>2, <2>3, SMTT(30) DEF Counts
<1>6. Unloads /\ Home /\ Fresh /\ Stamped
  BY <1>0, <1>1 DEF Unloads, Unloaded, Unloader, Home, Fresh, Stamped, Holding
<1> QED BY <1>3, <1>4, <1>5, <1>6 DEF IInv

\* The steps that change the map: getOrCreateRoom puts a room into an empty one,
\* a failed load and the evictions take it out.
LEMMA MapSteps ==
    ASSUME Next, cur # None, cur' # cur
    PROVE  \E a \in Actor : Load(a) \/ Decide(a) \/ Evict(a) \/ Delete(a)
<1>1. \A a \in Conn \cup Caller : ~Lookup(a)
  BY DEF Lookup
<1>2. /\ \A c \in Conn, u \in Update : ~PeerWrites(c, u)
      /\ \A c \in Conn : ~Leave(c)
      /\ \A s \in Sweeper : ~Sweep(s)
      /\ \A a \in Admin : ~CloseFind(a)
  BY DEF PeerWrites, Leave, Sweep, CloseFind
<1>3. \A i \in Inst : ~WorkerWrites(i) /\ ~WorkerExits(i)
  BY DEF WorkerWrites, WorkerExits
<1>4. PICK a \in Actor : Proceed(a)
  BY <1>1, <1>2, <1>3 DEF Next
<1>5. ~Ready(a) /\ ~TakeSlot(a) /\ ~TakeConn(a) /\ ~Upgrade(a) /\ ~Register(a) /\ ~Reap(a)
  BY DEF Ready, TakeSlot, TakeConn, Upgrade, Register, Reap
<1>6. ~ClearIdle(a) /\ ~Apply(a) /\ ~MarkIdleIfEmpty(a) /\ ~ReleaseInflight(a) /\ ~Remove(a) /\ ~Free(a) /\ ~Unload(a)
  BY DEF ClearIdle, Apply, MarkIdleIfEmpty, ReleaseInflight, Remove, Free, Unload
<1>7. ~LeaveFlush(a) /\ ~EvictFlush(a) /\ ~CloseFlush(a)
  BY DEF LeaveFlush, EvictFlush, CloseFlush, Flush
<1> QED BY <1>4, <1>5, <1>6, <1>7 DEF Proceed
=============================================================================
