----------------------------- MODULE BridgeProofs -----------------------------
(***************************************************************************)
(* One client_peer per source, for any number of sources, connections and  *)
(* datagrams: a task that lives is the one the router's map names, so that *)
(* the router, which spawns only when that one is gone, never makes a      *)
(* second.  Then that the bridge is a Link, and keeps the order of each    *)
(* connection.                                                             *)
(***************************************************************************)
EXTENDS Bridge, TLAPS

\* What the invariant needs to know of the tasks; a sequence of datagrams is
\* left as a sequence of numbers.
TaskShapes ==
  [pc : {"unborn", "dial", "handshake", "open", "sending", "backoff", "gone"},
   src : Sources \cup {None}, rx : Seq(Nat), hand : Nat,
   conn : Conns \cup {None}, expired : BOOLEAN]

Shapes ==
  /\ sent \in [Sources -> Nat]
  /\ router \in [src : Sources \cup {None}, n : Nat, to : Peers \cup {None}]
  /\ peers \in [Sources -> Peers \cup {None}]
  /\ task \in [Peers -> TaskShapes]

\* A task that lives was spawned for a source.
Spawned == \A w \in Peers : Living(w) => task[w].src \in Sources

IInv == Shapes /\ Spawned /\ OnePeerPerSource

-----------------------------------------------------------------------------

\* A task that is not spawned yet.
LEMMA UnbornShape == Unborn \in TaskShapes
BY DEF Unborn, TaskShapes

\* The invariant holds at first.
LEMMA InitIInv == Init => IInv
<1> SUFFICES ASSUME Init PROVE IInv
  OBVIOUS
<1>1. Shapes
  BY UnbornShape DEF Init, Shapes, RouterIdle
<1>2. \A w \in Peers : ~Living(w)
  BY DEF Init, Living, Unborn
<1> QED BY <1>1, <1>2 DEF IInv, Spawned, OnePeerPerSource

\* A step of a living task, which may leave but serves the source it did.
LEMMA TaskStepKeeps ==
  ASSUME IInv, NEW w \in Peers, Living(w), NEW t \in TaskShapes, t.src = task[w].src,
         task' = [task EXCEPT ![w] = t], UNCHANGED <<sent, router, peers>>
  PROVE  IInv'
<1>1. Shapes'
  BY DEF IInv, Shapes
<1>2. \A v \in Peers : task'[v] = IF v = w THEN t ELSE task[v]
  BY DEF IInv, Shapes
<1>3. \A v \in Peers : Living(v)' => Living(v) /\ task'[v].src = task[v].src
  BY <1>2 DEF Living
<1>4. Spawned'
  BY <1>3 DEF IInv, Spawned
<1>5. OnePeerPerSource'
  BY <1>3 DEF IInv, OnePeerPerSource
<1> QED BY <1>1, <1>4, <1>5 DEF IInv

\* A step in which every task keeps its stage and its source.
LEMMA QuietKeeps ==
  ASSUME IInv, Shapes', UNCHANGED peers,
         \A v \in Peers : task'[v].pc = task[v].pc /\ task'[v].src = task[v].src
  PROVE  IInv'
<1>1. \A v \in Peers : Living(v)' = Living(v)
  BY DEF Living
<1> QED BY <1>1 DEF IInv, Spawned, OnePeerPerSource

\* What a failure leaves of a task.
LEMMA FailedShape ==
  ASSUME IInv, NEW w \in Peers
  PROVE  /\ Failed(w) \in TaskShapes /\ Failed(w).src = task[w].src
         /\ Gone(w) \in TaskShapes /\ Gone(w).src = task[w].src
<1>1. task[w] \in TaskShapes
  BY DEF IInv, Shapes
<1> QED BY <1>1, UnbornShape DEF Failed, Gone, TaskShapes, Unborn

\* The router: a spawn for a source none of whose tasks lives...
LEMMA RecvFromKeeps ==
  ASSUME IInv, NEW s \in Sources, RecvFrom(s)
  PROVE  IInv'
<1>0. sent' \in [Sources -> Nat] /\ sent[s] + 1 \in Nat
  BY DEF RecvFrom, IInv, Shapes
<1>1. CASE peers[s] # None /\ Living(peers[s])
  <2>1. Shapes'
    BY <1>0, <1>1 DEF RecvFrom, IInv, Shapes
  <2> QED BY <1>1, <2>1, QuietKeeps DEF RecvFrom
<1>2. CASE ~(peers[s] # None /\ Living(peers[s]))
  <2>1. PICK w \in Peers :
          /\ task[w].pc = "unborn"
          /\ task' = [task EXCEPT ![w] = [Unborn EXCEPT !.pc = "dial", !.src = s]]
          /\ peers' = [peers EXCEPT ![s] = w]
          /\ router' = [src |-> s, n |-> sent[s] + 1, to |-> w]
    BY <1>2 DEF RecvFrom
  <2>2. [Unborn EXCEPT !.pc = "dial", !.src = s] \in TaskShapes
    BY UnbornShape DEF TaskShapes
  <2>3. Shapes'
    BY <1>0, <2>1, <2>2 DEF IInv, Shapes
  <2>4. \A v \in Peers : Living(v) => task[v].src # s
    BY <1>2, BridgeAssumption DEF IInv, OnePeerPerSource
  <2>5. task'[w].src = s
    BY <2>1 DEF IInv, Shapes, Unborn
  <2>6. \A v \in Peers \ {w} : task'[v] = task[v]
    BY <2>1 DEF IInv, Shapes
  <2>7. Spawned'
    BY <2>5, <2>6 DEF IInv, Spawned, Living
  <2>8. OnePeerPerSource'
    <3> SUFFICES ASSUME NEW v \in Peers, Living(v)'
                 PROVE  peers'[task'[v].src] = v
      BY DEF OnePeerPerSource
    <3>1. CASE v = w
      BY <3>1, <2>1, <2>5 DEF IInv, Shapes
    <3>2. CASE v # w
      <4>1. Living(v) /\ task'[v].src = task[v].src
        BY <3>2, <2>6 DEF Living
      <4>2. task[v].src \in Sources \ {s}
        BY <4>1, <2>4 DEF IInv, Spawned
      <4> QED BY <4>1, <4>2, <2>1 DEF IInv, OnePeerPerSource, Shapes
    <3> QED BY <3>1, <3>2
  <2> QED BY <2>3, <2>7, <2>8 DEF IInv
<1> QED BY <1>1, <1>2

\* ...a datagram that goes into a channel or is lost...
LEMMA TrySendKeeps ==
  ASSUME IInv, TrySend
  PROVE  IInv'
<1>1. router' \in [src : Sources \cup {None}, n : Nat, to : Peers \cup {None}]
  BY DEF TrySend, RouterIdle
<1>2. CASE UNCHANGED task
  <2>1. Shapes'
    BY <1>1, <1>2 DEF TrySend, IInv, Shapes
  <2> QED BY <1>2, <2>1, QuietKeeps DEF TrySend
<1>3. CASE task' = [task EXCEPT ![router.to].rx = Append(@, router.n)]
  <2>1. \A v \in Peers : task[v] \in TaskShapes /\ Append(task[v].rx, router.n) \in Seq(Nat)
    BY DEF IInv, Shapes, TaskShapes
  <2>2. \A v \in Peers :
          task'[v] = IF v = router.to THEN [task[v] EXCEPT !.rx = Append(@, router.n)] ELSE task[v]
    BY <1>3 DEF IInv, Shapes
  <2>3. \A v \in Peers :
          task'[v] \in TaskShapes /\ task'[v].pc = task[v].pc /\ task'[v].src = task[v].src
    <3>1. \A v \in Peers : LET t == [task[v] EXCEPT !.rx = Append(@, router.n)]
                          IN  t \in TaskShapes /\ t.pc = task[v].pc /\ t.src = task[v].src
      BY <2>1 DEF TaskShapes
    <3> QED BY <2>1, <2>2, <3>1
  <2>4. task' \in [Peers -> TaskShapes]
    BY <1>3, <2>3 DEF IInv, Shapes
  <2>5. Shapes'
    BY <1>1, <2>4 DEF TrySend, IInv, Shapes
  <2> QED BY <2>3, <2>5, QuietKeeps DEF TrySend
<1> QED BY <1>2, <1>3 DEF TrySend

\* ...and the sweep, which forgets those that have left only.
LEMMA SweepKeeps ==
  ASSUME IInv, Sweep
  PROVE  IInv'
<1>1. Shapes' /\ Spawned'
  BY DEF Sweep, IInv, Shapes, Spawned, Living
<1>2. \A s \in Sources : peers'[s] = IF peers[s] # None /\ Living(peers[s]) THEN peers[s] ELSE None
  BY DEF Sweep
<1>3. \A w \in Peers : Living(w)' <=> Living(w)
  BY DEF Sweep, Living
<1>4. OnePeerPerSource'
  <2> SUFFICES ASSUME NEW w \in Peers, Living(w)
               PROVE  peers'[task[w].src] = w
    BY <1>3 DEF OnePeerPerSource, Sweep
  <2>1. task[w].src \in Sources /\ peers[task[w].src] = w /\ w # None
    BY BridgeAssumption DEF IInv, Spawned, OnePeerPerSource
  <2> QED BY <2>1, <1>2
<1> QED BY <1>1, <1>4 DEF IInv

\* The tasks.
LEMMA DialKeeps ==
  ASSUME IInv, NEW w \in Peers, Dial(w)
  PROVE  IInv'
<1>1. Living(w) /\ task[w] \in TaskShapes
  BY DEF Dial, DialFails, DialRefused, DialAccepted, Living, IInv, Shapes
<1>2. CASE DialFails(w)
  BY <1>1, <1>2, FailedShape, TaskStepKeeps DEF DialFails, Becomes
<1>3. CASE DialRefused(w)
  <2>1. [task[w] EXCEPT !.pc = "handshake"] \in TaskShapes /\ [task[w] EXCEPT !.pc = "handshake"].src = task[w].src
    BY <1>1 DEF TaskShapes
  <2> QED BY <1>1, <1>3, <2>1, TaskStepKeeps DEF DialRefused, Becomes
<1>4. ASSUME NEW c \in Conns, DialAccepted(w, c)
      PROVE  IInv'
  <2> DEFINE t == [task[w] EXCEPT !.pc = "handshake", !.conn = c]
  <2>1. t \in TaskShapes /\ t.src = task[w].src
    BY <1>1 DEF TaskShapes
  <2>2. task' = [task EXCEPT ![w] = t] /\ UNCHANGED <<sent, router, peers>>
    BY <1>4 DEF DialAccepted
  <2> QED BY <1>1, <2>1, <2>2, TaskStepKeeps
<1> QED BY <1>2, <1>3, <1>4 DEF Dial

\* The handshake of a task, over or failed.
LEMMA HandshakeKeeps ==
  ASSUME IInv, NEW w \in Peers, Handshake(w)
  PROVE  IInv'
<1>1. Living(w) /\ task[w] \in TaskShapes
  BY DEF Handshake, HandshakeDone, HandshakeFails, Living, IInv, Shapes
<1>2. CASE HandshakeFails(w)
  BY <1>1, <1>2, FailedShape, TaskStepKeeps DEF HandshakeFails, Becomes
<1>3. CASE HandshakeDone(w)
  <2> DEFINE t == [task[w] EXCEPT !.pc = "open"]
  <2>1. t \in TaskShapes /\ t.src = task[w].src
    BY <1>1 DEF TaskShapes
  <2>2. task' = [task EXCEPT ![w] = t] /\ UNCHANGED <<sent, router, peers>>
    BY <1>3 DEF HandshakeDone
  <2> QED BY <1>1, <2>1, <2>2, TaskStepKeeps
<1> QED BY <1>2, <1>3 DEF Handshake

\* The pump, which sends, receives, fails or leaves.
LEMMA PumpKeeps ==
  ASSUME IInv, NEW w \in Peers, Pump(w)
  PROVE  IInv'
<1>1. Living(w) /\ task[w] \in TaskShapes
  BY DEF Pump, PumpTakes, SendDone, SendFails, PumpReceives, PumpBreaks, PumpEnds, PumpIdle, Living, IInv, Shapes
<1>2. CASE PumpTakes(w)
  <2> DEFINE t == [task[w] EXCEPT !.pc = "sending", !.hand = Head(task[w].rx), !.rx = Tail(@), !.expired = FALSE]
  <2>1. task[w].rx \in Seq(Nat) /\ task[w].rx # <<>>
    BY <1>1, <1>2 DEF PumpTakes, TaskShapes
  <2>2. Head(task[w].rx) \in Nat /\ Tail(task[w].rx) \in Seq(Nat)
    BY <2>1
  <2>3. t \in TaskShapes /\ t.src = task[w].src
    BY <1>1, <2>2 DEF TaskShapes
  <2> QED BY <1>1, <1>2, <2>3, TaskStepKeeps DEF PumpTakes, Becomes
<1>3. CASE SendDone(w)
  <2> DEFINE t == [task[w] EXCEPT !.pc = "open", !.hand = 0]
  <2>1. t \in TaskShapes /\ t.src = task[w].src
    BY <1>1 DEF TaskShapes
  <2>2. task' = [task EXCEPT ![w] = t] /\ UNCHANGED <<sent, router, peers>>
    BY <1>3 DEF SendDone
  <2> QED BY <1>1, <2>1, <2>2, TaskStepKeeps
<1>4. CASE PumpReceives(w)
  <2> DEFINE t == [task[w] EXCEPT !.expired = FALSE]
  <2>1. t \in TaskShapes /\ t.src = task[w].src
    BY <1>1 DEF TaskShapes
  <2> QED BY <1>1, <1>4, <2>1, TaskStepKeeps DEF PumpReceives, Becomes
<1>5. CASE SendFails(w) \/ PumpBreaks(w)
  BY <1>1, <1>5, FailedShape, TaskStepKeeps DEF SendFails, PumpBreaks, Becomes
<1>6. CASE PumpEnds(w) \/ PumpIdle(w)
  BY <1>1, <1>6, FailedShape, TaskStepKeeps DEF PumpEnds, PumpIdle, Becomes
<1> QED BY <1>2, <1>3, <1>4, <1>5, <1>6 DEF Pump

\* A task that dials again.
LEMMA BackoffEndsKeeps ==
  ASSUME IInv, NEW w \in Peers, BackoffEnds(w)
  PROVE  IInv'
<1> DEFINE t == [task[w] EXCEPT !.pc = "dial"]
<1>1. Living(w) /\ task[w] \in TaskShapes
  BY DEF BackoffEnds, Living, IInv, Shapes
<1>2. t \in TaskShapes /\ t.src = task[w].src
  BY <1>1 DEF TaskShapes
<1> QED BY <1>1, <1>2, TaskStepKeeps DEF BackoffEnds, Becomes

\* The end of a connection, and time: the tasks stay what they are.
LEMMA MarksKeep ==
  ASSUME IInv, Idle \/ \E c \in Conns : RelayEnds(c)
  PROVE  IInv'
<1>1. \A v \in Peers : task[v] \in TaskShapes
  BY DEF IInv, Shapes
<1>2. \A v \in Peers : task'[v] \in TaskShapes /\ task'[v].pc = task[v].pc /\ task'[v].src = task[v].src
  <2>1. CASE Idle
    BY <1>1, <2>1 DEF Idle, TaskShapes
  <2>2. CASE \E c \in Conns : RelayEnds(c)
    <3>1. \A v \in Peers : task'[v] = task[v] \/ task'[v] = [task[v] EXCEPT !.conn = None]
      BY <2>2 DEF RelayEnds
    <3>2. \A v \in Peers : LET t == [task[v] EXCEPT !.conn = None]
                          IN  t \in TaskShapes /\ t.pc = task[v].pc /\ t.src = task[v].src
      BY <1>1 DEF TaskShapes
    <3> QED BY <1>1, <3>1, <3>2
  <2> QED BY <2>1, <2>2
<1>3. task' \in [Peers -> TaskShapes]
  BY <1>2 DEF Idle, RelayEnds
<1>4. Shapes' /\ UNCHANGED peers
  BY <1>3 DEF IInv, Shapes, Idle, RelayEnds
<1> QED BY <1>2, <1>4, QuietKeeps

\* Every step keeps the invariant.
LEMMA NextKeepsIInv == IInv /\ [Next]_vars => IInv'
<1> SUFFICES ASSUME IInv, [Next]_vars
             PROVE  IInv'
  OBVIOUS
<1>1. CASE (\E s \in Sources : RecvFrom(s)) \/ TrySend \/ Sweep
  BY <1>1, RecvFromKeeps, TrySendKeeps, SweepKeeps
<1>2. CASE \E w \in Peers : Dial(w) \/ Handshake(w) \/ Pump(w) \/ BackoffEnds(w)
  BY <1>2, DialKeeps, HandshakeKeeps, PumpKeeps, BackoffEndsKeeps
<1>3. CASE Idle \/ \E c \in Conns : RelayEnds(c)
  BY <1>3, MarksKeep
<1>4. CASE \/ Abort \/ UNCHANGED vars
           \/ \E c \in Conns : RelayReads(c) \/ RelaySends(c) \/ RelaySendDone(c)
  <2>1. UNCHANGED <<sent, router, peers, task>>
    BY <1>4 DEF Abort, RelayReads, RelaySends, RelaySendDone, vars
  <2>2. Shapes'
    BY <2>1 DEF IInv, Shapes
  <2> QED BY <2>1, <2>2, QuietKeeps
<1> QED BY <1>1, <1>2, <1>3, <1>4 DEF Next

\* Each local source address has one client_peer at most, whatever becomes of
\* the connections, and it is the one the router would send to (lib.rs:110).
THEOREM OneClientPeer == Spec => []OnePeerPerSource
<1>1. IInv => OnePeerPerSource
  BY DEF IInv
<1> QED BY <1>1, InitIInv, NextKeepsIInv, PTL DEF Spec

-----------------------------------------------------------------------------
(***************************************************************************)
(* The bridge and the relay are a datagram link: whatever breaks, nothing  *)
(* arrives twice, for any number of sources, connections and datagrams.    *)
(* What makes it so is order: from the target back to the router, the      *)
(* numbers of a source only grow, and each is at one place.                *)
(***************************************************************************)

(* Increasing sequences.                                                   *)

\* Strictly increasing.
Sorted(q) == \A i, j \in DOMAIN q : i < j => q[i] < q[j]

\* A greater number at the end...
LEMMA AppendSorted ==
  ASSUME NEW q \in Seq(Nat), NEW n \in Nat, Sorted(q), \A x \in Elements(q) : x < n
  PROVE  /\ Append(q, n) \in Seq(Nat) /\ Sorted(Append(q, n))
         /\ Elements(Append(q, n)) = Elements(q) \cup {n}
<1> DEFINE r == Append(q, n)
<1>1. r \in Seq(Nat) /\ Len(r) = Len(q) + 1 /\ \A i \in 1..Len(q) : r[i] = q[i]
  OBVIOUS
<1>2. r[Len(q) + 1] = n
  OBVIOUS
<1>3. DOMAIN q = 1..Len(q) /\ DOMAIN r = 1..(Len(q) + 1) /\ Len(q) \in Nat
  OBVIOUS
<1> HIDE DEF r
<1>4. \A i \in DOMAIN q : q[i] < n
  BY DEF Elements
<1>5. Sorted(r)
  <2> SUFFICES ASSUME NEW i \in 1..(Len(q) + 1), NEW j \in 1..(Len(q) + 1), i < j
               PROVE  r[i] < r[j]
    BY <1>3 DEF Sorted
  <2>1. i \in 1..Len(q) /\ r[i] = q[i]
    BY <1>1, <1>3
  <2>2. CASE j = Len(q) + 1
    BY <1>2, <1>3, <1>4, <2>1, <2>2
  <2>3. CASE j # Len(q) + 1
    <3>1. j \in 1..Len(q) /\ r[j] = q[j]
      BY <1>1, <1>3, <2>3
    <3> QED BY <1>3, <2>1, <3>1 DEF Sorted
  <2> QED BY <2>2, <2>3
<1>6. Elements(r) = Elements(q) \cup {n}
  <2>1. ASSUME NEW x \in Elements(r) PROVE x \in Elements(q) \cup {n}
    <3>1. PICK i \in 1..(Len(q) + 1) : x = r[i]
      BY <1>3 DEF Elements
    <3>2. CASE i = Len(q) + 1
      BY <1>2, <3>1, <3>2
    <3>3. CASE i # Len(q) + 1
      <4>1. i \in 1..Len(q)
        BY <1>3, <3>1, <3>3
      <4> QED BY <1>1, <1>3, <3>1, <4>1 DEF Elements
    <3> QED BY <3>2, <3>3
  <2>2. ASSUME NEW x \in Elements(q) \cup {n} PROVE x \in Elements(r)
    <3>1. CASE x = n
      <4>1. Len(q) + 1 \in DOMAIN r
        BY <1>3
      <4> QED BY <1>2, <3>1, <4>1 DEF Elements
    <3>2. CASE x \in Elements(q)
      <4>1. PICK i \in 1..Len(q) : x = q[i]
        BY <1>3, <3>2 DEF Elements
      <4>2. i \in DOMAIN r /\ x = r[i]
        BY <1>1, <1>3, <4>1
      <4> QED BY <4>2 DEF Elements
    <3> QED BY <3>1, <3>2
  <2> QED BY <2>1, <2>2
<1> QED BY <1>1, <1>5, <1>6 DEF r

\* ...the least gone from the front...
LEMMA TailSorted ==
  ASSUME NEW q \in Seq(Nat), q # <<>>, Sorted(q)
  PROVE  /\ Tail(q) \in Seq(Nat) /\ Sorted(Tail(q)) /\ Head(q) \in Nat
         /\ Elements(q) = Elements(Tail(q)) \cup {Head(q)}
         /\ \A x \in Elements(Tail(q)) : Head(q) < x
<1> DEFINE r == Tail(q)
<1>1. r \in Seq(Nat) /\ Len(r) = Len(q) - 1 /\ \A i \in 1..(Len(q) - 1) : r[i] = q[i + 1]
  OBVIOUS
<1>2. DOMAIN q = 1..Len(q) /\ DOMAIN r = 1..(Len(q) - 1) /\ Len(q) \in Nat \ {0}
  OBVIOUS
<1>3. Head(q) = q[1] /\ Head(q) \in Nat /\ 1 \in DOMAIN q
  OBVIOUS
<1> HIDE DEF r
<1>4. Sorted(r)
  <2> SUFFICES ASSUME NEW i \in 1..(Len(q) - 1), NEW j \in 1..(Len(q) - 1), i < j
               PROVE  r[i] < r[j]
    BY <1>2 DEF Sorted
  <2>1. i + 1 \in DOMAIN q /\ j + 1 \in DOMAIN q /\ i + 1 < j + 1
    BY <1>2
  <2> QED BY <1>1, <2>1 DEF Sorted
<1>5. \A i \in 1..(Len(q) - 1) : i + 1 \in DOMAIN q /\ q[1] < q[i + 1]
  BY <1>2, <1>3 DEF Sorted
<1>6. \A x \in Elements(r) : Head(q) < x /\ x \in Elements(q)
  <2> SUFFICES ASSUME NEW i \in DOMAIN r PROVE Head(q) < r[i] /\ r[i] \in Elements(q)
    BY DEF Elements
  <2> QED BY <1>1, <1>2, <1>3, <1>5 DEF Elements
<1>7. \A x \in Elements(q) : x = Head(q) \/ x \in Elements(r)
  <2> SUFFICES ASSUME NEW i \in 1..Len(q) PROVE q[i] = Head(q) \/ q[i] \in Elements(r)
    BY <1>2 DEF Elements
  <2>1. CASE i = 1
    BY <1>3, <2>1
  <2>2. CASE i # 1
    <3>1. i - 1 \in 1..(Len(q) - 1) /\ r[i - 1] = q[i]
      BY <1>1, <1>2, <2>2
    <3> QED BY <1>2, <3>1 DEF Elements
  <2> QED BY <2>1, <2>2
<1>8. Head(q) \in Elements(q)
  BY <1>3 DEF Elements
<1>9. Elements(q) = Elements(r) \cup {Head(q)}
  BY <1>6, <1>7, <1>8
<1> QED BY <1>1, <1>3, <1>4, <1>6, <1>9 DEF r

\* ...and a lesser one put before it.
LEMMA PipeSorted ==
  ASSUME NEW q \in Seq(Nat), NEW l \in Nat, Sorted(q), \A x \in Elements(q) : l < x
  PROVE  /\ Sorted(<<l>> \o q)
         /\ Elements(<<l>> \o q) = Elements(q) \cup {l}
<1> DEFINE r == <<l>> \o q
<1>1. /\ DOMAIN q = 1..Len(q) /\ DOMAIN r = 1..(Len(q) + 1) /\ Len(q) \in Nat
      /\ r[1] = l /\ \A i \in 2..(Len(q) + 1) : r[i] = q[i - 1]
  OBVIOUS
<1> HIDE DEF r
<1>2. \A i \in DOMAIN q : l < q[i]
  BY DEF Elements
<1>3. Sorted(r)
  <2> SUFFICES ASSUME NEW i \in 1..(Len(q) + 1), NEW j \in 1..(Len(q) + 1), i < j
               PROVE  r[i] < r[j]
    BY <1>1 DEF Sorted
  <2>1. j \in 2..(Len(q) + 1) /\ j - 1 \in DOMAIN q /\ r[j] = q[j - 1]
    BY <1>1
  <2>2. CASE i = 1
    BY <1>1, <1>2, <2>1, <2>2
  <2>3. CASE i # 1
    <3>1. i - 1 \in DOMAIN q /\ r[i] = q[i - 1] /\ i - 1 < j - 1
      BY <1>1, <2>3
    <3> QED BY <2>1, <3>1 DEF Sorted
  <2> QED BY <2>2, <2>3
<1>4. Elements(r) = Elements(q) \cup {l}
  <2>1. ASSUME NEW i \in 1..(Len(q) + 1) PROVE r[i] \in Elements(q) \cup {l}
    <3>1. CASE i = 1
      BY <1>1, <3>1
    <3>2. CASE i # 1
      <4>1. i - 1 \in DOMAIN q /\ r[i] = q[i - 1]
        BY <1>1, <3>2
      <4> QED BY <4>1 DEF Elements
    <3> QED BY <3>1, <3>2
  <2>2. ASSUME NEW i \in 1..Len(q) PROVE q[i] \in Elements(r)
    <3>1. i + 1 \in DOMAIN r /\ r[i + 1] = q[i]
      BY <1>1
    <3> QED BY <3>1 DEF Elements
  <2>3. l \in Elements(r)
    <3>1. 1 \in DOMAIN r
      BY <1>1
    <3> QED BY <1>1, <3>1 DEF Elements
  <2>4. Elements(r) \subseteq Elements(q) \cup {l}
    BY <1>1, <2>1 DEF Elements
  <2>5. Elements(q) \subseteq Elements(r)
    BY <1>1, <2>2 DEF Elements
  <2> QED BY <2>3, <2>4, <2>5
<1> QED BY <1>3, <1>4 DEF r

-----------------------------------------------------------------------------
(* The inductive invariant.                                                *)

\* The datagrams a task has.
HandSet(t) == ({t.hand} \ {0}) \cup Elements(t.rx)

ConnShapes ==
  [pc : {"free", "handshake", "open"}, src : Sources \cup {None}, up : Seq(Nat), last : Nat]

TaskInOrder(w) ==
  /\ Sorted(task[w].rx) /\ \A x \in Elements(task[w].rx) : task[w].hand < x
  /\ task[w].pc = "sending" => task[w].hand # 0
  /\ ~Living(w) => HandSet(task[w]) = {}
  /\ \A n \in HandSet(task[w]) : n <= sent[task[w].src]

\* The connection a task holds is one of its source.
Linked(w) ==
  LET c == task[w].conn
  IN  c # None => conn[c].pc # "free" /\ conn[c].src = task[w].src

ConnInOrder(c) ==
  /\ Sorted(conn[c].up) /\ \A x \in Elements(conn[c].up) : conn[c].last < x
  /\ conn[c].pc = "free" => conn[c] = Free
  /\ conn[c].pc # "free" =>
       /\ conn[c].src \in Sources /\ conn[c].last <= sent[conn[c].src]
       /\ \A x \in Elements(conn[c].up) : x <= sent[conn[c].src]

\* What a task has is younger than what is on a connection of its source...
Younger(c, w) ==
  conn[c].src = task[w].src =>
    \A n \in HandSet(task[w]) : conn[c].last < n /\ \A x \in Elements(conn[c].up) : x < n

\* ...no datagram is on two connections...
Apart(c, d) ==
  c # d /\ conn[c].src = conn[d].src => Elements(conn[c].up) \cap Elements(conn[d].up) = {}

\* ...and what the router holds is the youngest.
RouterYoungest ==
  router # RouterIdle =>
    /\ router.src \in Sources /\ router.to \in Peers /\ task[router.to].src = router.src
    /\ router.n # 0 /\ router.n = sent[router.src]
    /\ \A w \in Peers : task[w].src = router.src => \A n \in HandSet(task[w]) : n < router.n
    /\ \A c \in Conns : conn[c].src = router.src =>
         conn[c].last < router.n /\ \A x \in Elements(conn[c].up) : x < router.n

MapServes ==
  \A s \in Sources : peers[s] # None => task[peers[s]].src = s /\ task[peers[s]].pc # "unborn"

TasksInOrder == \A w \in Peers : TaskInOrder(w) /\ Linked(w)
ConnsInOrder == conn \in [Conns -> ConnShapes] /\ \A c \in Conns : ConnInOrder(c)
AllYounger == \A c \in Conns, w \in Peers : Younger(c, w)
AllApart == \A c, d \in Conns : Apart(c, d)

QInv ==
  /\ IInv /\ TasksInOrder /\ ConnsInOrder /\ AllYounger /\ AllApart
  /\ RouterYoungest /\ MapServes

-----------------------------------------------------------------------------
(* The mapping.                                                            *)

\* Where a datagram on its way can be.
LEMMA WaitingIs ==
  ASSUME NEW s \in Sources, NEW n
  PROVE  n \in Waiting(s) <=>
           \/ router.src = s /\ router.n = n /\ n \in 1..sent[s]
           \/ \E w \in Peers : task[w].src = s /\ n \in HandSet(task[w])
           \/ \E c \in Conns : conn[c].src = s /\ n \in Elements(conn[c].up)
BY DEF Waiting, Held, HandSet

\* The same in the next state.
LEMMA WaitingWillBe ==
  ASSUME NEW s \in Sources, NEW n
  PROVE  n \in Waiting(s)' <=>
           \/ router'.src = s /\ router'.n = n /\ n \in 1..sent'[s]
           \/ \E w \in Peers : task'[w].src = s /\ n \in HandSet(task'[w])
           \/ \E c \in Conns : conn'[c].src = s /\ n \in Elements(conn'[c].up)
BY DEF Waiting, Held, HandSet, Elements

\* A step in which datagrams of one source are lost, or none.
LEMMA Losing ==
  ASSUME NEW s \in Sources, UNCHANGED <<sent, arrived>>,
         Waiting(s)' \subseteq Waiting(s), \A r \in Sources \ {s} : Waiting(r)' = Waiting(r)
  PROVE  L!Next
<1> DEFINE lost == Waiting(s) \ Waiting(s)'
<1>1. lost \in SUBSET Waiting(s)
  OBVIOUS
<1>2. [r \in Sources |-> Waiting(r)]' =
        [[r \in Sources |-> Waiting(r)] EXCEPT ![s] = @ \ lost]
  OBVIOUS
<1>3. L!Lose(s)
  BY <1>1, <1>2 DEF L!Lose
<1> QED BY <1>3 DEF L!Next

\* A step in which nothing on its way moves.
LEMMA Nothing ==
  ASSUME UNCHANGED <<sent, arrived>>, \A r \in Sources : Waiting(r)' = Waiting(r)
  PROVE  UNCHANGED <<sent, [s \in Sources |-> Waiting(s)], arrived>>
OBVIOUS

-----------------------------------------------------------------------------
(* The steps.                                                              *)

\* The datagrams of a task are numbered from one.
LEMMA HandFacts ==
  ASSUME QInv, NEW w \in Peers
  PROVE  task[w] \in TaskShapes /\ \A n \in HandSet(task[w]) : n \in Nat /\ 0 < n
<1>1. task[w] \in TaskShapes
  BY DEF QInv, IInv, Shapes
<1>2. task[w].hand \in Nat /\ task[w].rx \in Seq(Nat)
  BY <1>1 DEF TaskShapes
<1>3. \A x \in Elements(task[w].rx) : x \in Nat /\ task[w].hand < x
  BY <1>2 DEF QInv, TasksInOrder, TaskInOrder, Elements
<1> QED BY <1>1, <1>2, <1>3 DEF HandSet

\* Of the tasks of a source, the one that lives has what there is.
LEMMA OneHolder ==
  ASSUME QInv, NEW v \in Peers, NEW w \in Peers, Living(w), v # w, task[v].src = task[w].src
  PROVE  HandSet(task[v]) = {}
<1>1. ~Living(v)
  BY DEF QInv, IInv, OnePeerPerSource
<1> QED BY <1>1 DEF QInv, TasksInOrder, TaskInOrder

\* A step of a living task that at most loses datagrams or its connection.
LEMMA TaskStep ==
  ASSUME QInv, NEW w \in Peers, Living(w), NEW t \in TaskShapes, t.src = task[w].src,
         task' = [task EXCEPT ![w] = t], UNCHANGED <<sent, router, peers, conn, arrived>>,
         Sorted(t.rx), \A x \in Elements(t.rx) : t.hand < x,
         t.pc = "sending" => t.hand # 0, t.pc = "gone" => HandSet(t) = {}, t.pc # "unborn",
         HandSet(t) \subseteq HandSet(task[w]), t.conn \in {None, task[w].conn}
  PROVE  QInv' /\ L!Next
<1>1. IInv'
  BY TaskStepKeeps DEF QInv
<1>2. \A v \in Peers : task'[v] = IF v = w THEN t ELSE task[v]
  BY DEF QInv, IInv, Shapes
<1>3. \A v \in Peers : task'[v].src = task[v].src /\ HandSet(task'[v]) \subseteq HandSet(task[v])
  BY <1>2
<1>4. TasksInOrder'
  <2> SUFFICES ASSUME NEW v \in Peers
               PROVE  TaskInOrder(v)' /\ Linked(v)'
    BY DEF TasksInOrder
  <2>1. TaskInOrder(v) /\ Linked(v)
    BY DEF QInv, TasksInOrder
  <2>2. CASE v = w
    <3>1. task'[v] = t
      BY <1>2, <2>2
    <3>2. TaskInOrder(v)'
      BY <2>1, <2>2, <3>1 DEF TaskInOrder, Living
    <3>3. Linked(v)'
      BY <2>1, <2>2, <3>1 DEF Linked
    <3> QED BY <3>2, <3>3
  <2>3. CASE v # w
    <3>1. task'[v] = task[v]
      BY <1>2, <2>3
    <3> QED BY <2>1, <3>1 DEF TaskInOrder, Linked, Living
  <2> QED BY <2>2, <2>3
<1>5. ConnsInOrder' /\ AllApart'
  BY DEF QInv, ConnsInOrder, ConnInOrder, AllApart, Apart
<1>6. AllYounger'
  BY <1>3 DEF QInv, AllYounger, Younger
<1>7. RouterYoungest'
  BY <1>3 DEF QInv, RouterYoungest
<1>8. MapServes'
  BY <1>2, <1>3 DEF QInv, MapServes, IInv, Shapes
<1>9. L!Next
  <2>1. t.src \in Sources
    BY DEF QInv, IInv, Spawned
  <2>2. \A r \in Sources : Waiting(r)' \subseteq Waiting(r)
    <3> SUFFICES ASSUME NEW r \in Sources, NEW n \in Waiting(r)'
                 PROVE  n \in Waiting(r)
      OBVIOUS
    <3> QED BY <1>3, WaitingIs, WaitingWillBe
  <2>3. \A r \in Sources \ {t.src} : Waiting(r) \subseteq Waiting(r)'
    <3> SUFFICES ASSUME NEW r \in Sources \ {t.src}, NEW n \in Waiting(r)
                 PROVE  n \in Waiting(r)'
      OBVIOUS
    <3>1. \A v \in Peers : task[v].src = r => task'[v] = task[v]
      BY <1>2
    <3> QED BY <3>1, WaitingIs, WaitingWillBe
  <2> QED BY <2>1, <2>2, <2>3, Losing
<1> QED BY <1>1, <1>4, <1>5, <1>6, <1>7, <1>8, <1>9 DEF QInv

\* The task sends: the frame is written, if there is a connection to write on.
LEMMA FrameStep ==
  ASSUME QInv, NEW w \in Peers, task[w].pc = "sending", NEW t \in TaskShapes, t.src = task[w].src,
         task' = [task EXCEPT ![w] = t], conn' = Framed(w),
         UNCHANGED <<sent, router, peers, arrived>>,
         Sorted(t.rx), t.hand = 0, \A x \in Elements(t.rx) : 0 < x,
         t.pc # "sending", t.pc = "gone" => HandSet(t) = {}, t.pc # "unborn",
         HandSet(t) \subseteq Elements(task[w].rx), t.conn \in {None, task[w].conn}
  PROVE  QInv' /\ L!Next
<1>1. Living(w) /\ TaskInOrder(w) /\ task[w] \in TaskShapes
  BY HandFacts DEF Living, QInv, TasksInOrder
<1>2. CASE task[w].conn = None
  <2>1. conn' = conn
    BY <1>2 DEF Framed
  <2>2. HandSet(t) \subseteq HandSet(task[w])
    <3>1. \A x \in Elements(task[w].rx) : x \in HandSet(task[w])
      BY DEF HandSet
    <3> QED BY <3>1
  <2>3. \A x \in Elements(t.rx) : t.hand < x
    OBVIOUS
  <2> QED BY <1>1, <2>1, <2>2, <2>3, TaskStep
<1>3. CASE task[w].conn # None
  <2>a. PICK c \in Conns : c = task[w].conn
    BY <1>1, <1>3 DEF TaskShapes
  <2>b. PICK h \in Nat : h = task[w].hand
    BY <1>1 DEF TaskShapes
  <2>c. PICK up : up = Append(conn[c].up, h)
    OBVIOUS
  <2>d. conn' = [conn EXCEPT ![c] = [conn[c] EXCEPT !.up = up]]
    <3>1. conn \in [Conns -> ConnShapes]
      BY DEF QInv, ConnsInOrder
    <3>2. conn' = [conn EXCEPT ![c].up = Append(@, h)]
      BY <1>3, <2>a, <2>b DEF Framed
    <3> QED BY <2>c, <3>1, <3>2 DEF ConnShapes
  <2>e. t.conn \in {None, c}
    BY <2>a
  <2>1. Living(w) /\ TaskInOrder(w) /\ Linked(w) /\ task[w] \in TaskShapes
    BY HandFacts DEF Living, QInv, TasksInOrder
  <2>2. h \in HandSet(task[w]) /\ Elements(task[w].rx) \subseteq HandSet(task[w])
    <3>1. h # 0
      BY <2>b, <2>1 DEF TaskInOrder
    <3>2. \A x \in Elements(task[w].rx) : x \in Nat /\ h < x
      BY <2>b, <2>1 DEF TaskInOrder, Elements, TaskShapes
    <3> QED BY <2>b, <3>1, <3>2 DEF HandSet
  <2>3. \A x \in Elements(task[w].rx) : h < x
    BY <2>b, <2>1 DEF TaskInOrder
  <2>4. PICK s \in Sources : s = t.src
    BY <2>1 DEF QInv, IInv, Spawned
  <2>5. None \notin Conns
    BY BridgeAssumption
  <2>6. conn[c].src = s /\ conn[c].pc # "free"
    BY <2>a, <1>3, <2>1, <2>4, <2>5 DEF Linked
  <2>7. conn[c] \in ConnShapes /\ ConnInOrder(c) /\ Younger(c, w) /\ conn \in [Conns -> ConnShapes]
    BY DEF QInv, ConnsInOrder, AllYounger
  <2>8. conn[c].up \in Seq(Nat) /\ conn[c].last \in Nat
    BY <2>7 DEF ConnShapes
  <2>9. conn[c].last < h /\ \A x \in Elements(conn[c].up) : x < h
    BY <2>2, <2>4, <2>6, <2>7 DEF Younger
  <2>10. up \in Seq(Nat) /\ Sorted(up) /\ Elements(up) = Elements(conn[c].up) \cup {h}
    BY <2>c, <2>7, <2>8, <2>9, AppendSorted DEF ConnInOrder
  <2>11. /\ conn'[c].up = up /\ conn'[c].pc = conn[c].pc
         /\ conn'[c].src = s /\ conn'[c].last = conn[c].last
         /\ conn' \in [Conns -> ConnShapes]
    <3>1. PICK k : k = [conn[c] EXCEPT !.up = up]
      OBVIOUS
    <3>2. k \in ConnShapes /\ k.up = up /\ k.pc = conn[c].pc /\ k.src = s /\ k.last = conn[c].last
      BY <2>6, <2>7, <2>10, <3>1 DEF ConnShapes
    <3>3. conn' \in [Conns -> ConnShapes] /\ conn'[c] = k
      BY <2>d, <2>7, <3>1, <3>2
    <3> QED BY <3>2, <3>3
  <2>12. \A d \in Conns : d # c => conn'[d] = conn[d]
    BY <2>7, <2>d
  <2>13. \A v \in Peers : task'[v] = IF v = w THEN t ELSE task[v]
    BY DEF QInv, IInv, Shapes
  <2>14. \A v \in Peers : task'[v].src = task[v].src /\ HandSet(task'[v]) \subseteq HandSet(task[v])
    BY <2>2, <2>13
  <2>15. \A d \in Conns : /\ conn'[d].pc = conn[d].pc /\ conn'[d].src = conn[d].src
                          /\ conn'[d].last = conn[d].last
    BY <2>6, <2>11, <2>12
  <2>16. \A d \in Conns : \A x :
            x \in Elements(conn'[d].up) <=> x \in Elements(conn[d].up) \/ (d = c /\ x = h)
    <3> SUFFICES ASSUME NEW d \in Conns, NEW x
                 PROVE  x \in Elements(conn'[d].up) <=> x \in Elements(conn[d].up) \/ (d = c /\ x = h)
      OBVIOUS
    <3>1. CASE d = c
      BY <2>10, <2>11, <3>1
    <3>2. CASE d # c
      BY <2>12, <3>2
    <3> QED BY <3>1, <3>2
  <2>17. h <= sent[s]
    BY <2>1, <2>2, <2>4 DEF TaskInOrder
  <2>20. IInv'
    BY <2>1, TaskStepKeeps DEF QInv
  <2>21. TasksInOrder'
    <3> SUFFICES ASSUME NEW v \in Peers
                 PROVE  TaskInOrder(v)' /\ Linked(v)'
      BY DEF TasksInOrder
    <3>1. TaskInOrder(v) /\ Linked(v) /\ task[v] \in TaskShapes
      BY HandFacts DEF QInv, TasksInOrder
    <3>2. CASE v = w
      <4>1. task'[v] = t
        BY <2>13, <3>2
      <4>2. \A n \in HandSet(t) : n <= sent[t.src]
        BY <2>1, <2>2 DEF TaskInOrder
      <4>3. TaskInOrder(v)'
        BY <3>1, <3>2, <4>1, <4>2 DEF TaskInOrder, Living
      <4>4. Linked(v)'
        BY <2>e, <2>4, <2>6, <2>11, <4>1 DEF Linked
      <4> QED BY <4>3, <4>4
    <3>3. CASE v # w
      <4>1. task'[v] = task[v]
        BY <2>13, <3>3
      <4>2. TaskInOrder(v)'
        BY <3>1, <4>1 DEF TaskInOrder, Living
      <4>3. task[v].conn # None => task[v].conn \in Conns
        BY <3>1 DEF TaskShapes
      <4>4. Linked(v)'
        BY <2>15, <3>1, <4>1, <4>3 DEF Linked
      <4> QED BY <4>2, <4>4
    <3> QED BY <3>2, <3>3
  <2>22. ConnsInOrder'
    <3> SUFFICES ASSUME NEW d \in Conns PROVE ConnInOrder(d)'
      BY <2>11 DEF ConnsInOrder
    <3>1. ConnInOrder(d)
      BY DEF QInv, ConnsInOrder
    <3>2. CASE d = c
      <4>1. conn[c].last <= sent[s] /\ \A x \in Elements(up) : x <= sent[s]
        BY <2>6, <2>7, <2>10, <2>17 DEF ConnInOrder
      <4>2. \A x \in Elements(up) : conn[c].last < x
        BY <2>7, <2>9, <2>10 DEF ConnInOrder
      <4> QED BY <2>6, <2>10, <2>11, <3>2, <4>1, <4>2 DEF ConnInOrder
    <3>3. CASE d # c
      <4>1. conn'[d] = conn[d]
        BY <2>12, <3>3
      <4> QED BY <3>1, <4>1 DEF ConnInOrder
    <3> QED BY <3>2, <3>3
  <2>23. AllYounger'
    <3> SUFFICES ASSUME NEW d \in Conns, NEW v \in Peers, conn'[d].src = task'[v].src,
                        NEW n \in HandSet(task'[v])
                 PROVE  conn'[d].last < n /\ \A x \in Elements(conn'[d].up) : x < n
      BY DEF AllYounger, Younger
    <3>1. conn[d].src = task[v].src /\ n \in HandSet(task[v]) /\ Younger(d, v)
      BY <2>14, <2>15 DEF QInv, AllYounger
    <3>2. conn[d].last < n /\ \A x \in Elements(conn[d].up) : x < n
      BY <3>1 DEF Younger
    <3>3. CASE d # c
      BY <2>15, <2>16, <3>2, <3>3
    <3>4. CASE d = c
      <4>1. v = w
        BY <2>1, <2>4, <2>6, <3>1, <3>4, OneHolder
      <4>2. h < n
        BY <2>3, <2>13, <4>1
      <4>3. conn'[d].last < n
        BY <2>15, <3>2
      <4>4. ASSUME NEW x \in Elements(conn'[d].up) PROVE x < n
        <5>1. x \in Elements(conn[d].up) \/ x = h
          BY <2>16
        <5> QED BY <3>2, <4>2, <5>1
      <4> QED BY <4>3, <4>4
    <3> QED BY <3>3, <3>4
  <2>24. AllApart'
    <3>1. \A d \in Conns : d # c /\ conn[d].src = s => h \notin Elements(conn[d].up)
      <4> SUFFICES ASSUME NEW d \in Conns, conn[d].src = s, h \in Elements(conn[d].up)
                   PROVE  FALSE
        OBVIOUS
      <4>1. Younger(d, w)
        BY DEF QInv, AllYounger
      <4>2. h < h
        BY <2>2, <2>4, <4>1 DEF Younger
      <4> QED BY <4>2
    <3> SUFFICES ASSUME NEW d \in Conns, NEW e \in Conns, d # e, conn'[d].src = conn'[e].src
                 PROVE  Elements(conn'[d].up) \cap Elements(conn'[e].up) = {}
      BY DEF AllApart, Apart
    <3>2. conn[d].src = conn[e].src
      BY <2>15
    <3>3. \A x : ~(x \in Elements(conn[d].up) /\ x \in Elements(conn[e].up))
      BY <3>2 DEF QInv, AllApart, Apart
    <3>4. \A x : ~(x \in Elements(conn'[d].up) /\ x \in Elements(conn'[e].up))
      <4> SUFFICES ASSUME NEW x, x \in Elements(conn'[d].up), x \in Elements(conn'[e].up)
                   PROVE  FALSE
        OBVIOUS
      <4>1. x \in Elements(conn[d].up) \/ (d = c /\ x = h)
        BY <2>16
      <4>2. x \in Elements(conn[e].up) \/ (e = c /\ x = h)
        BY <2>16
      <4> QED BY <2>6, <3>1, <3>2, <3>3, <4>1, <4>2
    <3> QED BY <3>4
  <2>25. RouterYoungest'
    <3>1. router # RouterIdle /\ router.src = s => h < router.n
      BY <2>2, <2>4 DEF QInv, RouterYoungest
    <3> SUFFICES ASSUME router # RouterIdle
                 PROVE  RouterYoungest'
      BY DEF RouterYoungest
    <3>2. \A v \in Peers : task'[v].src = router.src => \A n \in HandSet(task'[v]) : n < router.n
      BY <2>14 DEF QInv, RouterYoungest
    <3>3. \A d \in Conns : conn'[d].src = router.src =>
             conn'[d].last < router.n /\ \A x \in Elements(conn'[d].up) : x < router.n
      <4> SUFFICES ASSUME NEW d \in Conns, conn'[d].src = router.src
                   PROVE  conn'[d].last < router.n /\ \A x \in Elements(conn'[d].up) : x < router.n
        OBVIOUS
      <4>1. conn[d].src = router.src /\ conn'[d].last = conn[d].last
        BY <2>15
      <4>2. conn[d].last < router.n /\ \A x \in Elements(conn[d].up) : x < router.n
        BY <4>1 DEF QInv, RouterYoungest
      <4>3. d = c => h < router.n
        BY <2>6, <3>1, <4>1
      <4> QED BY <2>16, <4>1, <4>2, <4>3
    <3>4. /\ router.src \in Sources /\ router.to \in Peers /\ task'[router.to].src = router.src
          /\ router.n # 0 /\ router.n = sent[router.src]
      BY <2>14 DEF QInv, RouterYoungest
    <3> QED BY <3>2, <3>3, <3>4 DEF RouterYoungest
  <2>26. MapServes'
    BY <2>13, <2>14 DEF QInv, MapServes, IInv, Shapes
  <2>27. L!Next
    <3>1. \A r \in Sources : Waiting(r)' \subseteq Waiting(r)
      <4> SUFFICES ASSUME NEW r \in Sources, NEW n \in Waiting(r)'
                   PROVE  n \in Waiting(r)
        OBVIOUS
      <4>1. \A d \in Conns : conn'[d].src = r /\ n \in Elements(conn'[d].up) =>
               \/ conn[d].src = r /\ n \in Elements(conn[d].up)
               \/ task[w].src = r /\ n \in HandSet(task[w])
        <5> SUFFICES ASSUME NEW d \in Conns, conn'[d].src = r, n \in Elements(conn'[d].up)
                     PROVE  \/ conn[d].src = r /\ n \in Elements(conn[d].up)
                            \/ task[w].src = r /\ n \in HandSet(task[w])
          OBVIOUS
        <5>1. conn[d].src = r
          BY <2>15
        <5>2. n \in Elements(conn[d].up) \/ (d = c /\ n = h)
          BY <2>16
        <5> QED BY <2>2, <2>4, <2>6, <5>1, <5>2
      <4>2. \A v \in Peers : task'[v].src = r /\ n \in HandSet(task'[v]) =>
               task[v].src = r /\ n \in HandSet(task[v])
        BY <2>14
      <4> QED BY <4>1, <4>2, WaitingIs, WaitingWillBe
    <3>2. \A r \in Sources \ {s} : Waiting(r) \subseteq Waiting(r)'
      <4> SUFFICES ASSUME NEW r \in Sources \ {s}, NEW n \in Waiting(r)
                   PROVE  n \in Waiting(r)'
        OBVIOUS
      <4>1. \A v \in Peers : task[v].src = r => task'[v] = task[v]
        BY <2>4, <2>13
      <4>2. \A d \in Conns : conn[d].src = r => conn'[d] = conn[d]
        BY <2>6, <2>12
      <4>3. \/ router.src = r /\ router.n = n /\ n \in 1..sent[r]
            \/ \E v \in Peers : task[v].src = r /\ n \in HandSet(task[v])
            \/ \E d \in Conns : conn[d].src = r /\ n \in Elements(conn[d].up)
        BY WaitingIs
      <4>4. \/ router'.src = r /\ router'.n = n /\ n \in 1..sent'[r]
            \/ \E v \in Peers : task'[v].src = r /\ n \in HandSet(task'[v])
            \/ \E d \in Conns : conn'[d].src = r /\ n \in Elements(conn'[d].up)
        BY <4>1, <4>2, <4>3
      <4> QED BY <4>4, WaitingWillBe
    <3>3. \A r \in Sources \ {s} : Waiting(r)' = Waiting(r)
      BY <3>1, <3>2
    <3>4. Waiting(s)' \subseteq Waiting(s)
      BY <3>1
    <3>5. UNCHANGED <<sent, arrived>>
      OBVIOUS
    <3> QED BY <3>3, <3>4, <3>5, Losing
  <2> QED BY <2>20, <2>21, <2>22, <2>23, <2>24, <2>25, <2>26, <2>27 DEF QInv
<1> QED BY <1>2, <1>3

\* A step in which every connection stays or starts over, and every task keeps
\* or loses what it has.
LEMMA Calm ==
  ASSUME QInv, IInv', TasksInOrder', ConnsInOrder', UNCHANGED <<sent, router, peers>>,
         \A v \in Peers : /\ task'[v].src = task[v].src
                          /\ HandSet(task'[v]) \subseteq HandSet(task[v])
                          /\ task'[v].pc = "unborn" => task[v].pc = "unborn",
         \A d \in Conns : \/ /\ conn'[d].src = conn[d].src /\ conn'[d].last = conn[d].last
                             /\ conn'[d].up = conn[d].up
                          \/ conn'[d].last = 0 /\ conn'[d].up = <<>>
  PROVE  QInv' /\ \A r \in Sources : Waiting(r)' \subseteq Waiting(r)
<1>1. Elements(<<>>) = {}
  BY DEF Elements
<1>2. \A d \in Conns : \/ /\ conn'[d].src = conn[d].src /\ conn'[d].last = conn[d].last
                          /\ Elements(conn'[d].up) = Elements(conn[d].up)
                       \/ conn'[d].last = 0 /\ Elements(conn'[d].up) = {}
  BY <1>1
<1>3. AllYounger'
  <2> SUFFICES ASSUME NEW d \in Conns, NEW v \in Peers, conn'[d].src = task'[v].src,
                      NEW n \in HandSet(task'[v])
               PROVE  conn'[d].last < n /\ \A x \in Elements(conn'[d].up) : x < n
    BY DEF AllYounger, Younger
  <2>1. n \in HandSet(task[v]) /\ 0 < n /\ conn'[d].src = task[v].src
    BY HandFacts
  <2>2. CASE conn'[d].last = 0 /\ Elements(conn'[d].up) = {}
    BY <2>1, <2>2
  <2>3. CASE /\ conn'[d].src = conn[d].src /\ conn'[d].last = conn[d].last
             /\ Elements(conn'[d].up) = Elements(conn[d].up)
    BY <2>1, <2>3 DEF QInv, AllYounger, Younger
  <2> QED BY <1>2, <2>2, <2>3
<1>4. AllApart'
  <2> SUFFICES ASSUME NEW d \in Conns, NEW e \in Conns, d # e, conn'[d].src = conn'[e].src
               PROVE  Elements(conn'[d].up) \cap Elements(conn'[e].up) = {}
    BY DEF AllApart, Apart
  <2>1. CASE Elements(conn'[d].up) = {} \/ Elements(conn'[e].up) = {}
    BY <2>1
  <2>2. CASE /\ Elements(conn'[d].up) = Elements(conn[d].up) /\ conn'[d].src = conn[d].src
             /\ Elements(conn'[e].up) = Elements(conn[e].up) /\ conn'[e].src = conn[e].src
    BY <2>2 DEF QInv, AllApart, Apart
  <2> QED BY <1>2, <2>1, <2>2
<1>5. RouterYoungest'
  <2> SUFFICES ASSUME router # RouterIdle
               PROVE  RouterYoungest'
    BY DEF RouterYoungest
  <2>1. /\ router.src \in Sources /\ router.to \in Peers /\ task'[router.to].src = router.src
        /\ router.n # 0 /\ router.n = sent[router.src]
    BY DEF QInv, RouterYoungest
  <2>2. \A v \in Peers : task'[v].src = router.src => \A n \in HandSet(task'[v]) : n < router.n
    BY DEF QInv, RouterYoungest
  <2>3. 0 < router.n
    BY <2>1 DEF QInv, IInv, Shapes
  <2>4. ASSUME NEW d \in Conns, conn'[d].src = router.src
        PROVE  conn'[d].last < router.n /\ \A x \in Elements(conn'[d].up) : x < router.n
    <3>1. CASE conn'[d].last = 0 /\ Elements(conn'[d].up) = {}
      BY <2>3, <3>1
    <3>2. CASE /\ conn'[d].src = conn[d].src /\ conn'[d].last = conn[d].last
               /\ Elements(conn'[d].up) = Elements(conn[d].up)
      BY <2>4, <3>2 DEF QInv, RouterYoungest
    <3> QED BY <1>2, <3>1, <3>2
  <2> QED BY <2>1, <2>2, <2>4 DEF RouterYoungest
<1>6. MapServes'
  <2> SUFFICES ASSUME NEW s \in Sources, peers[s] # None
               PROVE  task'[peers[s]].src = s /\ task'[peers[s]].pc # "unborn"
    BY DEF MapServes
  <2>1. peers[s] \in Peers /\ task[peers[s]].src = s /\ task[peers[s]].pc # "unborn"
    BY DEF QInv, MapServes, IInv, Shapes
  <2> QED BY <2>1
<1>7. ASSUME NEW r \in Sources, NEW n \in Waiting(r)'
      PROVE  n \in Waiting(r)
  <2>1. \A d \in Conns : conn'[d].src = r /\ n \in Elements(conn'[d].up) =>
           conn[d].src = r /\ n \in Elements(conn[d].up)
    BY <1>2
  <2>2. \A v \in Peers : task'[v].src = r /\ n \in HandSet(task'[v]) =>
           task[v].src = r /\ n \in HandSet(task[v])
    OBVIOUS
  <2>3. \/ router'.src = r /\ router'.n = n /\ n \in 1..sent'[r]
        \/ \E v \in Peers : task'[v].src = r /\ n \in HandSet(task'[v])
        \/ \E d \in Conns : conn'[d].src = r /\ n \in Elements(conn'[d].up)
    BY <1>7, WaitingWillBe
  <2>4. \/ router.src = r /\ router.n = n /\ n \in 1..sent[r]
        \/ \E v \in Peers : task[v].src = r /\ n \in HandSet(task[v])
        \/ \E d \in Conns : conn[d].src = r /\ n \in Elements(conn[d].up)
    BY <2>1, <2>2, <2>3
  <2> QED BY <2>4, WaitingIs
<1> QED BY <1>3, <1>4, <1>5, <1>6, <1>7 DEF QInv

\* What stays of a source stays on its way.
LEMMA StillWaiting ==
  ASSUME NEW r \in Sources, UNCHANGED <<sent, router>>,
         \A v \in Peers : task[v].src = r =>
            task'[v].src = r /\ HandSet(task[v]) \subseteq HandSet(task'[v]),
         \A d \in Conns : conn[d].src = r =>
            conn'[d].src = r /\ Elements(conn[d].up) \subseteq Elements(conn'[d].up)
  PROVE  Waiting(r) \subseteq Waiting(r)'
<1> SUFFICES ASSUME NEW n \in Waiting(r)
             PROVE  n \in Waiting(r)'
  OBVIOUS
<1>1. \/ router.src = r /\ router.n = n /\ n \in 1..sent[r]
      \/ \E v \in Peers : task[v].src = r /\ n \in HandSet(task[v])
      \/ \E d \in Conns : conn[d].src = r /\ n \in Elements(conn[d].up)
  BY WaitingIs
<1>2. \/ router'.src = r /\ router'.n = n /\ n \in 1..sent'[r]
      \/ \E v \in Peers : task'[v].src = r /\ n \in HandSet(task'[v])
      \/ \E d \in Conns : conn'[d].src = r /\ n \in Elements(conn'[d].up)
  BY <1>1
<1> QED BY <1>2, WaitingWillBe

\* A step of Bridge is one of Link, or none.
LinkStep == [L!Next]_<<sent, [s \in Sources |-> Waiting(s)], arrived>>

\* The relay takes a connection: a free permit has no datagrams.
LEMMA DialAcceptedStep ==
  ASSUME QInv, IInv', NEW w \in Peers, NEW c \in Conns, DialAccepted(w, c)
  PROVE  QInv' /\ LinkStep
<1> DEFINE t == [task[w] EXCEPT !.pc = "handshake", !.conn = c]
           k == [Free EXCEPT !.pc = "handshake", !.src = task[w].src]
<1>1. task[w] \in TaskShapes /\ Living(w) /\ task[w].src \in Sources /\ TaskInOrder(w)
  <2>1. Living(w)
    BY DEF DialAccepted, Living
  <2> QED BY <2>1, HandFacts DEF QInv, IInv, Spawned, TasksInOrder
<1>2. conn[c] = Free /\ conn \in [Conns -> ConnShapes]
  BY DEF QInv, ConnsInOrder, ConnInOrder, DialAccepted
<1>3. /\ k \in ConnShapes /\ k.pc = "handshake" /\ k.src = task[w].src /\ k.up = <<>> /\ k.last = 0
      /\ Elements(<<>>) = {} /\ Sorted(<<>>)
  <2>1. Free \in ConnShapes /\ Free.up = <<>> /\ Free.last = 0
    BY DEF Free, ConnShapes
  <2>2. Elements(<<>>) = {} /\ Sorted(<<>>)
    BY DEF Elements, Sorted
  <2> QED BY <1>1, <2>1, <2>2 DEF ConnShapes
<1>4. conn' = [conn EXCEPT ![c] = k]
  BY DEF DialAccepted
<1> HIDE DEF k
<1>5. conn' \in [Conns -> ConnShapes] /\ conn'[c] = k /\ \A d \in Conns : d # c => conn'[d] = conn[d]
  BY <1>2, <1>3, <1>4
<1>6. t \in TaskShapes /\ t.src = task[w].src /\ t.rx = task[w].rx /\ t.hand = task[w].hand
      /\ t.pc = "handshake" /\ t.conn = c
  BY <1>1 DEF TaskShapes
<1>7. \A v \in Peers : task'[v] = IF v = w THEN t ELSE task[v]
  BY DEF QInv, IInv, Shapes, DialAccepted
<1> HIDE DEF t
<1>8. \A v \in Peers : /\ task'[v].src = task[v].src /\ HandSet(task'[v]) = HandSet(task[v])
                       /\ task'[v].pc = "unborn" => task[v].pc = "unborn"
  BY <1>6, <1>7 DEF HandSet
<1>9. TasksInOrder'
  <2> SUFFICES ASSUME NEW v \in Peers
               PROVE  TaskInOrder(v)' /\ Linked(v)'
    BY DEF TasksInOrder
  <2>0. UNCHANGED sent
    BY DEF DialAccepted
  <2>1. TaskInOrder(v) /\ Linked(v) /\ task[v] \in TaskShapes
    BY HandFacts DEF QInv, TasksInOrder
  <2>2. CASE v = w
    <3>1. task'[v] = t
      BY <1>7, <2>2
    <3>2. TaskInOrder(v)'
      <4>1. HandSet(t) = HandSet(task[w])
        BY <1>6 DEF HandSet
      <4>2. Living(v)'
        BY <1>6, <3>1 DEF Living
      <4> QED BY <1>1, <1>6, <2>0, <3>1, <4>1, <4>2 DEF TaskInOrder
    <3>3. Linked(v)'
      BY <1>3, <1>5, <1>6, <3>1 DEF Linked
    <3> QED BY <3>2, <3>3
  <2>3. CASE v # w
    <3>1. task'[v] = task[v]
      BY <1>7, <2>3
    <3>2. TaskInOrder(v)'
      BY <2>0, <2>1, <3>1 DEF TaskInOrder, Living
    <3>3. task[v].conn # c
      BY <1>2, <2>1, BridgeAssumption DEF Linked, Free
    <3>4. task[v].conn # None => task[v].conn \in Conns
      BY <2>1 DEF TaskShapes
    <3>5. Linked(v)'
      BY <1>5, <2>1, <3>1, <3>3, <3>4 DEF Linked
    <3> QED BY <3>2, <3>5
  <2> QED BY <2>2, <2>3
<1>10. ConnsInOrder'
  <2> SUFFICES ASSUME NEW d \in Conns PROVE ConnInOrder(d)'
    BY <1>5 DEF ConnsInOrder
  <2>0. UNCHANGED sent /\ \A s \in Sources : 0 <= sent[s]
    BY DEF DialAccepted, QInv, IInv, Shapes
  <2>1. CASE d = c
    BY <1>1, <1>3, <1>5, <2>0, <2>1 DEF ConnInOrder
  <2>2. CASE d # c
    BY <1>5, <2>0, <2>2 DEF QInv, ConnsInOrder, ConnInOrder
  <2> QED BY <2>1, <2>2
<1>11. UNCHANGED <<sent, router, peers, arrived>>
  BY DEF DialAccepted
<1>12. \A d \in Conns : \/ /\ conn'[d].src = conn[d].src /\ conn'[d].last = conn[d].last
                           /\ conn'[d].up = conn[d].up
                        \/ conn'[d].last = 0 /\ conn'[d].up = <<>>
  BY <1>3, <1>5
<1>13. QInv' /\ \A r \in Sources : Waiting(r)' \subseteq Waiting(r)
  BY <1>8, <1>9, <1>10, <1>11, <1>12, Calm
<1>14. ASSUME NEW r \in Sources PROVE Waiting(r) \subseteq Waiting(r)'
  <2>1. None # r
    BY BridgeAssumption
  <2>2. \A d \in Conns : conn[d].src = r => conn'[d] = conn[d]
    BY <1>2, <1>5, <2>1 DEF Free
  <2> QED BY <1>8, <1>11, <2>2, StillWaiting
<1> QED BY <1>11, <1>13, <1>14, Nothing DEF LinkStep

\* A handshake done opens both halves.
LEMMA HandshakeDoneStep ==
  ASSUME QInv, IInv', NEW w \in Peers, HandshakeDone(w)
  PROVE  QInv' /\ LinkStep
<1> DEFINE t == [task[w] EXCEPT !.pc = "open"]
<1>1. task[w] \in TaskShapes /\ Living(w) /\ TaskInOrder(w) /\ Linked(w)
  <2>1. Living(w)
    BY DEF HandshakeDone, Living
  <2> QED BY <2>1, HandFacts DEF QInv, TasksInOrder
<1>2. PICK c \in Conns : c = task[w].conn
  BY <1>1 DEF HandshakeDone, TaskShapes
<1>3. conn[c].pc # "free" /\ conn[c] \in ConnShapes /\ conn \in [Conns -> ConnShapes] /\ ConnInOrder(c)
  BY <1>1, <1>2 DEF Linked, HandshakeDone, QInv, ConnsInOrder
<1>4. conn' = [conn EXCEPT ![c] = [conn[c] EXCEPT !.pc = "open"]]
  BY <1>2 DEF HandshakeDone
<1>5. /\ conn' \in [Conns -> ConnShapes] /\ \A d \in Conns : d # c => conn'[d] = conn[d]
      /\ conn'[c].pc = "open" /\ conn'[c].src = conn[c].src
      /\ conn'[c].up = conn[c].up /\ conn'[c].last = conn[c].last
  BY <1>3, <1>4 DEF ConnShapes
<1>6. t \in TaskShapes /\ t.src = task[w].src /\ t.rx = task[w].rx /\ t.hand = task[w].hand
      /\ t.pc = "open" /\ t.conn = c
  BY <1>1, <1>2 DEF TaskShapes
<1>7. \A v \in Peers : task'[v] = IF v = w THEN t ELSE task[v]
  BY DEF QInv, IInv, Shapes, HandshakeDone
<1> HIDE DEF t
<1>8. \A v \in Peers : /\ task'[v].src = task[v].src /\ HandSet(task'[v]) = HandSet(task[v])
                       /\ task'[v].pc = "unborn" => task[v].pc = "unborn"
  BY <1>6, <1>7 DEF HandSet
<1>11. UNCHANGED <<sent, router, peers, arrived>>
  BY DEF HandshakeDone
<1>9. TasksInOrder'
  <2> SUFFICES ASSUME NEW v \in Peers
               PROVE  TaskInOrder(v)' /\ Linked(v)'
    BY DEF TasksInOrder
  <2>1. TaskInOrder(v) /\ Linked(v) /\ task[v] \in TaskShapes
    BY HandFacts DEF QInv, TasksInOrder
  <2>2. task'[v].conn = task[v].conn
    BY <1>2, <1>6, <1>7
  <2>3. Linked(v)'
    <3>1. task[v].conn # None => task[v].conn \in Conns
      BY <2>1 DEF TaskShapes
    <3> QED BY <1>5, <1>8, <2>1, <2>2, <3>1 DEF Linked
  <2>4. CASE v = w
    <3>1. task'[v] = t
      BY <1>7, <2>4
    <3>2. HandSet(t) = HandSet(task[w])
      BY <1>6 DEF HandSet
    <3>3. Living(v)'
      BY <1>6, <3>1 DEF Living
    <3>4. TaskInOrder(v)'
      BY <1>1, <1>6, <1>11, <3>1, <3>2, <3>3 DEF TaskInOrder
    <3> QED BY <2>3, <3>4
  <2>5. CASE v # w
    <3>1. task'[v] = task[v]
      BY <1>7, <2>5
    <3>2. TaskInOrder(v)'
      BY <1>11, <2>1, <3>1 DEF TaskInOrder, Living
    <3> QED BY <2>3, <3>2
  <2> QED BY <2>4, <2>5
<1>10. ConnsInOrder'
  <2> SUFFICES ASSUME NEW d \in Conns PROVE ConnInOrder(d)'
    BY <1>5 DEF ConnsInOrder
  <2>1. CASE d = c
    BY <1>3, <1>5, <1>11, <2>1 DEF ConnInOrder
  <2>2. CASE d # c
    BY <1>5, <1>11, <2>2 DEF QInv, ConnsInOrder, ConnInOrder
  <2> QED BY <2>1, <2>2
<1>12. \A d \in Conns : /\ conn'[d].src = conn[d].src /\ conn'[d].last = conn[d].last
                        /\ conn'[d].up = conn[d].up
  BY <1>5
<1>13. QInv' /\ \A r \in Sources : Waiting(r)' \subseteq Waiting(r)
  BY <1>8, <1>9, <1>10, <1>11, <1>12, Calm
<1>14. ASSUME NEW r \in Sources PROVE Waiting(r) \subseteq Waiting(r)'
  BY <1>8, <1>11, <1>12, StillWaiting
<1> QED BY <1>11, <1>13, <1>14, Nothing DEF LinkStep

\* A connection ends, and what is on it is lost.
LEMMA RelayEndsStep ==
  ASSUME QInv, IInv', NEW c \in Conns, RelayEnds(c)
  PROVE  QInv' /\ LinkStep
<1>1. PICK s \in Sources : s = conn[c].src
  BY DEF RelayEnds, QInv, ConnsInOrder, ConnInOrder
<1>2. conn \in [Conns -> ConnShapes] /\ Free \in ConnShapes /\ Free.up = <<>> /\ Free.last = 0
      /\ Free.src = None /\ Free.pc = "free"
  BY DEF QInv, ConnsInOrder, Free, ConnShapes
<1>3. conn' = [conn EXCEPT ![c] = Free]
  BY DEF RelayEnds
<1>4. conn' \in [Conns -> ConnShapes] /\ conn'[c] = Free /\ \A d \in Conns : d # c => conn'[d] = conn[d]
  BY <1>2, <1>3
<1>5. ASSUME NEW v \in Peers
      PROVE  /\ task'[v].src = task[v].src /\ task'[v].pc = task[v].pc /\ task'[v].rx = task[v].rx
             /\ task'[v].hand = task[v].hand
             /\ task'[v].conn = IF task[v].conn = c THEN None ELSE task[v].conn
  <2>1. task'[v] = IF task[v].conn = c THEN [task[v] EXCEPT !.conn = None] ELSE task[v]
    BY DEF RelayEnds
  <2>2. task[v] \in TaskShapes
    BY HandFacts
  <2> QED BY <2>1, <2>2 DEF TaskShapes
<1>6. \A v \in Peers : HandSet(task'[v]) = HandSet(task[v])
  BY <1>5 DEF HandSet
<1>7. UNCHANGED <<sent, router, peers, arrived>>
  BY DEF RelayEnds
<1>8. TasksInOrder'
  <2> SUFFICES ASSUME NEW v \in Peers
               PROVE  TaskInOrder(v)' /\ Linked(v)'
    BY DEF TasksInOrder
  <2>1. TaskInOrder(v) /\ Linked(v) /\ task[v] \in TaskShapes
    BY HandFacts DEF QInv, TasksInOrder
  <2>2. TaskInOrder(v)'
    <3>1. Living(v)' <=> Living(v)
      BY <1>5 DEF Living
    <3> QED BY <1>5, <1>6, <1>7, <2>1, <3>1 DEF TaskInOrder
  <2>3. task[v].conn # None => task[v].conn \in Conns
    BY <2>1 DEF TaskShapes
  <2>4. Linked(v)'
    BY <1>4, <1>5, <2>1, <2>3 DEF Linked
  <2> QED BY <2>2, <2>4
<1>9. ConnsInOrder'
  <2> SUFFICES ASSUME NEW d \in Conns PROVE ConnInOrder(d)'
    BY <1>4 DEF ConnsInOrder
  <2>1. CASE d = c
    <3>1. Elements(<<>>) = {} /\ Sorted(<<>>)
      BY DEF Elements, Sorted
    <3> QED BY <1>2, <1>4, <2>1, <3>1 DEF ConnInOrder
  <2>2. CASE d # c
    BY <1>4, <1>7, <2>2 DEF QInv, ConnsInOrder, ConnInOrder
  <2> QED BY <2>1, <2>2
<1>10. \A d \in Conns : \/ /\ conn'[d].src = conn[d].src /\ conn'[d].last = conn[d].last
                           /\ conn'[d].up = conn[d].up
                        \/ conn'[d].last = 0 /\ conn'[d].up = <<>>
  BY <1>2, <1>4
<1>11. QInv' /\ \A r \in Sources : Waiting(r)' \subseteq Waiting(r)
  BY <1>5, <1>6, <1>7, <1>8, <1>9, <1>10, Calm
<1>12. ASSUME NEW r \in Sources \ {s} PROVE Waiting(r) \subseteq Waiting(r)'
  <2>1. \A d \in Conns : conn[d].src = r => conn'[d] = conn[d]
    BY <1>1, <1>4
  <2> QED BY <1>5, <1>6, <1>7, <2>1, StillWaiting
<1>13. \A r \in Sources \ {s} : Waiting(r)' = Waiting(r)
  BY <1>11, <1>12
<1> QED BY <1>7, <1>11, <1>13, Losing DEF LinkStep

\* A deadline passes.
LEMMA IdleStep ==
  ASSUME QInv, IInv', Idle
  PROVE  QInv' /\ LinkStep
<1>1. UNCHANGED <<sent, router, peers, conn, arrived>>
  BY DEF Idle
<1>2. ASSUME NEW v \in Peers
      PROVE  /\ task'[v].src = task[v].src /\ task'[v].pc = task[v].pc /\ task'[v].rx = task[v].rx
             /\ task'[v].hand = task[v].hand /\ task'[v].conn = task[v].conn
  <2>1. task'[v] = IF Living(v) THEN [task[v] EXCEPT !.expired = TRUE] ELSE task[v]
    BY DEF Idle
  <2>2. task[v] \in TaskShapes
    BY HandFacts
  <2> QED BY <2>1, <2>2 DEF TaskShapes
<1>3. \A v \in Peers : HandSet(task'[v]) = HandSet(task[v])
  BY <1>2 DEF HandSet
<1>4. TasksInOrder'
  <2> SUFFICES ASSUME NEW v \in Peers
               PROVE  TaskInOrder(v)' /\ Linked(v)'
    BY DEF TasksInOrder
  <2>1. TaskInOrder(v) /\ Linked(v)
    BY DEF QInv, TasksInOrder
  <2>2. Living(v)' <=> Living(v)
    BY <1>2 DEF Living
  <2>3. TaskInOrder(v)'
    BY <1>1, <1>2, <1>3, <2>1, <2>2 DEF TaskInOrder
  <2>4. Linked(v)'
    BY <1>1, <1>2, <2>1 DEF Linked
  <2> QED BY <2>3, <2>4
<1>5. ConnsInOrder'
  BY <1>1 DEF QInv, ConnsInOrder, ConnInOrder
<1>6. QInv' /\ \A r \in Sources : Waiting(r)' \subseteq Waiting(r)
  BY <1>1, <1>2, <1>3, <1>4, <1>5, Calm
<1>7. ASSUME NEW r \in Sources PROVE Waiting(r) \subseteq Waiting(r)'
  BY <1>1, <1>2, <1>3, StillWaiting
<1> QED BY <1>1, <1>6, <1>7, Nothing DEF LinkStep

\* The relay reads a datagram, the oldest of its connection and older than all
\* its source has elsewhere: it arrives, or is lost.
LEMMA RelayReadsStep ==
  ASSUME QInv, IInv', NEW c \in Conns, RelayReads(c)
  PROVE  QInv' /\ LinkStep
<1>1. conn \in [Conns -> ConnShapes] /\ conn[c] \in ConnShapes /\ ConnInOrder(c) /\ conn[c].pc = "open"
  BY DEF RelayReads, QInv, ConnsInOrder
<1>2. PICK s \in Sources : s = conn[c].src
  BY <1>1 DEF ConnInOrder
<1>3. PICK q \in Seq(Nat) : q = conn[c].up
  BY <1>1 DEF ConnShapes
<1>4. q # <<>> /\ Sorted(q)
  BY <1>1, <1>3 DEF RelayReads, ConnInOrder
<1>5. PICK h \in Nat : h = Head(q)
  <2>1. Head(q) \in Nat
    BY <1>3, <1>4, TailSorted
  <2> QED BY <2>1
<1>6. PICK r \in Seq(Nat) : r = Tail(q)
  <2>1. Tail(q) \in Seq(Nat)
    BY <1>3, <1>4, TailSorted
  <2> QED BY <2>1
<1>7. /\ Sorted(r) /\ Elements(q) = Elements(r) \cup {h} /\ \A x \in Elements(r) : h < x
  BY <1>3, <1>4, <1>5, <1>6, TailSorted
<1>8. UNCHANGED <<sent, router, peers, task>>
  BY DEF RelayReads
<1>9. /\ conn' \in [Conns -> ConnShapes] /\ \A d \in Conns : d # c => conn'[d] = conn[d]
      /\ conn'[c].up = r /\ conn'[c].last = h /\ conn'[c].src = s /\ conn'[c].pc = "open"
  <2>1. conn' = [conn EXCEPT ![c].up = Tail(@), ![c].last = Head(conn[c].up)]
    BY DEF RelayReads
  <2>2. conn' = [conn EXCEPT ![c] = [conn[c] EXCEPT !.up = r, !.last = h]]
    BY <1>1, <1>3, <1>5, <1>6, <2>1 DEF ConnShapes
  <2>3. /\ [conn[c] EXCEPT !.up = r, !.last = h] \in ConnShapes
        /\ [conn[c] EXCEPT !.up = r, !.last = h].up = r
        /\ [conn[c] EXCEPT !.up = r, !.last = h].last = h
        /\ [conn[c] EXCEPT !.up = r, !.last = h].src = s
        /\ [conn[c] EXCEPT !.up = r, !.last = h].pc = "open"
    BY <1>1, <1>2 DEF ConnShapes
  <2> QED BY <1>1, <2>2, <2>3
<1>10. h \in Elements(conn[c].up) /\ Elements(r) \subseteq Elements(conn[c].up)
  BY <1>3, <1>7
<1>11. \A d \in Conns : /\ conn'[d].src = conn[d].src /\ conn'[d].pc = conn[d].pc
                        /\ Elements(conn'[d].up) \subseteq Elements(conn[d].up)
  BY <1>1, <1>2, <1>9, <1>10
<1>12. TasksInOrder'
  <2> SUFFICES ASSUME NEW v \in Peers
               PROVE  TaskInOrder(v)' /\ Linked(v)'
    BY DEF TasksInOrder
  <2>1. TaskInOrder(v) /\ Linked(v) /\ task[v] \in TaskShapes
    BY HandFacts DEF QInv, TasksInOrder
  <2>2. task[v].conn # None => task[v].conn \in Conns
    BY <2>1 DEF TaskShapes
  <2>3. TaskInOrder(v)'
    BY <1>8, <2>1 DEF TaskInOrder, Living
  <2>4. Linked(v)'
    BY <1>8, <1>11, <2>1, <2>2 DEF Linked
  <2> QED BY <2>3, <2>4
<1>13. ConnsInOrder'
  <2> SUFFICES ASSUME NEW d \in Conns PROVE ConnInOrder(d)'
    BY <1>9 DEF ConnsInOrder
  <2>1. CASE d = c
    <3>1. h <= sent[s] /\ \A x \in Elements(r) : x <= sent[s]
      BY <1>1, <1>2, <1>10 DEF ConnInOrder
    <3> QED BY <1>7, <1>8, <1>9, <2>1, <3>1 DEF ConnInOrder
  <2>2. CASE d # c
    BY <1>8, <1>9, <2>2 DEF QInv, ConnsInOrder, ConnInOrder
  <2> QED BY <2>1, <2>2
<1>14. AllYounger'
  <2> SUFFICES ASSUME NEW d \in Conns, NEW v \in Peers, conn'[d].src = task[v].src,
                      NEW n \in HandSet(task[v])
               PROVE  conn'[d].last < n /\ \A x \in Elements(conn'[d].up) : x < n
    BY <1>8 DEF AllYounger, Younger
  <2>1. conn[d].last < n /\ \A x \in Elements(conn[d].up) : x < n
    BY <1>11 DEF QInv, AllYounger, Younger
  <2>2. CASE d = c
    BY <1>9, <1>10, <2>1, <2>2
  <2>3. CASE d # c
    BY <1>9, <2>1, <2>3
  <2> QED BY <2>2, <2>3
<1>15. AllApart'
  <2> SUFFICES ASSUME NEW d \in Conns, NEW e \in Conns, d # e, conn'[d].src = conn'[e].src
               PROVE  Elements(conn'[d].up) \cap Elements(conn'[e].up) = {}
    BY DEF AllApart, Apart
  <2>1. Elements(conn[d].up) \cap Elements(conn[e].up) = {}
    BY <1>11 DEF QInv, AllApart, Apart
  <2> QED BY <1>11, <2>1
<1>16. RouterYoungest'
  <2> SUFFICES ASSUME router # RouterIdle
               PROVE  RouterYoungest'
    BY <1>8 DEF RouterYoungest
  <2>1. ASSUME NEW d \in Conns, conn'[d].src = router.src
        PROVE  conn'[d].last < router.n /\ \A x \in Elements(conn'[d].up) : x < router.n
    <3>1. conn[d].last < router.n /\ \A x \in Elements(conn[d].up) : x < router.n
      BY <1>11, <2>1 DEF QInv, RouterYoungest
    <3>2. CASE d = c
      BY <1>9, <1>10, <3>1, <3>2
    <3>3. CASE d # c
      BY <1>9, <3>1, <3>3
    <3> QED BY <3>2, <3>3
  <2> QED BY <1>8, <2>1 DEF QInv, RouterYoungest
<1>17. MapServes'
  BY <1>8 DEF QInv, MapServes
<1>18. QInv'
  BY <1>12, <1>13, <1>14, <1>15, <1>16, <1>17 DEF QInv
<1>19. h \in Waiting(s) /\ \A n \in Waiting(s)' : n \in Waiting(s) /\ n # h
  <2>1. h \in Waiting(s)
    BY <1>2, <1>10, WaitingIs
  <2>2. ASSUME NEW n \in Waiting(s)'
        PROVE  n \in Waiting(s) /\ n # h
    <3>1. \/ router.src = s /\ router.n = n /\ n \in 1..sent[s]
          \/ \E v \in Peers : task[v].src = s /\ n \in HandSet(task[v])
          \/ \E d \in Conns : conn'[d].src = s /\ n \in Elements(conn'[d].up)
      BY <1>8, WaitingWillBe
    <3>2. CASE router.src = s /\ router.n = n /\ n \in 1..sent[s]
      <4>1. router # RouterIdle
        BY <3>2, BridgeAssumption DEF RouterIdle
      <4>2. h < n
        BY <1>2, <1>10, <3>2, <4>1 DEF QInv, RouterYoungest
      <4>3. n \in Waiting(s)
        BY <3>2, WaitingIs
      <4> QED BY <4>2, <4>3
    <3>3. ASSUME NEW v \in Peers, task[v].src = s, n \in HandSet(task[v])
          PROVE  n \in Waiting(s) /\ n # h
      <4>1. h < n
        BY <1>2, <1>10, <3>3 DEF QInv, AllYounger, Younger
      <4> QED BY <3>3, <4>1, WaitingIs
    <3>4. ASSUME NEW d \in Conns, conn'[d].src = s, n \in Elements(conn'[d].up)
          PROVE  n \in Waiting(s) /\ n # h
      <4>1. conn[d].src = s /\ n \in Elements(conn[d].up)
        BY <1>11, <3>4
      <4>2. CASE d = c
        BY <1>7, <1>9, <3>4, <4>1, <4>2, WaitingIs
      <4>3. CASE d # c
        <5>1. Elements(conn[d].up) \cap Elements(conn[c].up) = {}
          BY <1>2, <4>1, <4>3 DEF QInv, AllApart, Apart
        <5> QED BY <1>10, <4>1, <5>1, WaitingIs
      <4> QED BY <4>2, <4>3
    <3> QED BY <3>1, <3>2, <3>3, <3>4
  <2> QED BY <2>1, <2>2
<1>20. \A n \in Waiting(s) : n # h => n \in Waiting(s)'
  <2> SUFFICES ASSUME NEW n \in Waiting(s), n # h
               PROVE  n \in Waiting(s)'
    OBVIOUS
  <2>1. \A d \in Conns : n \in Elements(conn[d].up) => n \in Elements(conn'[d].up)
    BY <1>3, <1>7, <1>9
  <2>2. \/ router.src = s /\ router.n = n /\ n \in 1..sent[s]
        \/ \E v \in Peers : task[v].src = s /\ n \in HandSet(task[v])
        \/ \E d \in Conns : conn[d].src = s /\ n \in Elements(conn[d].up)
    BY WaitingIs
  <2>3. \/ router'.src = s /\ router'.n = n /\ n \in 1..sent'[s]
        \/ \E v \in Peers : task'[v].src = s /\ n \in HandSet(task'[v])
        \/ \E d \in Conns : conn'[d].src = s /\ n \in Elements(conn'[d].up)
    BY <1>8, <1>11, <2>1, <2>2
  <2> QED BY <2>3, WaitingWillBe
<1>21. Waiting(s)' = Waiting(s) \ {h}
  BY <1>19, <1>20
<1>22. ASSUME NEW o \in Sources \ {s} PROVE Waiting(o)' = Waiting(o)
  <2>1. \A d \in Conns : conn[d].src = o => conn'[d] = conn[d]
    BY <1>2, <1>9
  <2>2. Waiting(o) \subseteq Waiting(o)'
    BY <1>8, <2>1, StillWaiting
  <2>3. Waiting(o)' \subseteq Waiting(o)
    <3> SUFFICES ASSUME NEW n \in Waiting(o)'
                 PROVE  n \in Waiting(o)
      OBVIOUS
    <3>1. \/ router'.src = o /\ router'.n = n /\ n \in 1..sent'[o]
          \/ \E v \in Peers : task'[v].src = o /\ n \in HandSet(task'[v])
          \/ \E d \in Conns : conn'[d].src = o /\ n \in Elements(conn'[d].up)
      BY WaitingWillBe
    <3>2. \/ router.src = o /\ router.n = n /\ n \in 1..sent[o]
          \/ \E v \in Peers : task[v].src = o /\ n \in HandSet(task[v])
          \/ \E d \in Conns : conn[d].src = o /\ n \in Elements(conn[d].up)
      BY <1>8, <1>11, <3>1
    <3> QED BY <3>2, WaitingIs
  <2> QED BY <2>2, <2>3
<1>23. CASE UNCHANGED arrived
  <2>1. L!Next
    BY <1>8, <1>21, <1>22, <1>23, Losing
  <2> QED BY <1>18, <2>1 DEF LinkStep
<1>24. CASE arrived' = [arrived EXCEPT ![s] = @ \cup {h}]
  <2>1. [o \in Sources |-> Waiting(o)]' = [[o \in Sources |-> Waiting(o)] EXCEPT ![s] = @ \ {h}]
    BY <1>21, <1>22
  <2>2. h \in [o \in Sources |-> Waiting(o)][s]
    BY <1>19
  <2>3. L!Deliver(s, h)
    BY <1>8, <1>24, <2>1, <2>2 DEF L!Deliver
  <2> QED BY <1>18, <2>2, <2>3 DEF LinkStep, L!Next
<1>25. arrived' \in {arrived, [arrived EXCEPT ![s] = @ \cup {h}]}
  BY <1>2, <1>3, <1>5 DEF RelayReads
<1> QED BY <1>23, <1>24, <1>25

\* A datagram comes in.  Its number is the next of its source, beyond all that
\* is on its way; a task spawned for it has nothing yet.
LEMMA RecvFromStep ==
  ASSUME QInv, IInv', NEW s \in Sources, RecvFrom(s)
  PROVE  QInv' /\ LinkStep
<1>1. sent \in [Sources -> Nat] /\ sent' = [sent EXCEPT ![s] = @ + 1] /\ s # None
  BY BridgeAssumption DEF QInv, IInv, Shapes, RecvFrom
<1>2. PICK m \in Nat : m = sent[s] + 1
  BY <1>1
<1>3. sent'[s] = m /\ sent[s] < m /\ m # 0 /\ \A r \in Sources : sent'[r] \in Nat /\ sent[r] <= sent'[r]
  BY <1>1, <1>2
<1>4. router = RouterIdle /\ UNCHANGED <<conn, arrived>>
  BY DEF RecvFrom
<1>5. PICK w \in Peers :
        /\ router' = [src |-> s, n |-> m, to |-> w] /\ task'[w].src = s /\ task'[w].pc # "unborn"
        /\ peers' = [peers EXCEPT ![s] = w]
        /\ \A v \in Peers : task'[v] = task[v] \/ (v = w /\ task'[w] = [Unborn EXCEPT !.pc = "dial", !.src = s])
        /\ task' # task => task[w].pc = "unborn"
        /\ peers # peers' => task[w].pc = "unborn"
  <2>1. CASE peers[s] # None /\ Living(peers[s])
    <3>1. router' = [src |-> s, n |-> m, to |-> peers[s]] /\ UNCHANGED <<peers, task>>
      BY <1>2, <2>1 DEF RecvFrom
    <3>2. peers[s] \in Peers /\ task[peers[s]].src = s /\ task[peers[s]].pc # "unborn"
      BY <2>1 DEF QInv, MapServes, IInv, Shapes
    <3>3. peers' = [peers EXCEPT ![s] = peers[s]]
      BY <3>1 DEF QInv, IInv, Shapes
    <3> QED BY <3>1, <3>2, <3>3
  <2>2. CASE ~(peers[s] # None /\ Living(peers[s]))
    <3>1. PICK w \in Peers :
            /\ task[w].pc = "unborn"
            /\ task' = [task EXCEPT ![w] = [Unborn EXCEPT !.pc = "dial", !.src = s]]
            /\ peers' = [peers EXCEPT ![s] = w]
            /\ router' = [src |-> s, n |-> sent[s] + 1, to |-> w]
      BY <2>2 DEF RecvFrom
    <3>2. task \in [Peers -> TaskShapes]
      BY DEF QInv, IInv, Shapes
    <3>3. task'[w] = [Unborn EXCEPT !.pc = "dial", !.src = s] /\ \A v \in Peers : v # w => task'[v] = task[v]
      BY <3>1, <3>2
    <3>4. [Unborn EXCEPT !.pc = "dial", !.src = s].src = s /\ [Unborn EXCEPT !.pc = "dial", !.src = s].pc = "dial"
      BY UnbornShape DEF TaskShapes
    <3> QED BY <1>2, <3>1, <3>3, <3>4
  <2> QED BY <2>1, <2>2
<1> DEFINE t == [Unborn EXCEPT !.pc = "dial", !.src = s]
<1>6. t.pc = "dial" /\ t.src = s /\ t.rx = <<>> /\ t.hand = 0 /\ t.conn = None
  <2>1. Unborn.rx = <<>> /\ Unborn.hand = 0 /\ Unborn.conn = None
    BY DEF Unborn
  <2> QED BY <2>1, UnbornShape DEF TaskShapes
<1> HIDE DEF t
<1>7. HandSet(t) = {} /\ Sorted(t.rx) /\ Elements(t.rx) = {}
  BY <1>6 DEF HandSet, Sorted, Elements
<1>8. \A v \in Peers : task'[v] = task[v] \/ (v = w /\ task'[v] = t)
  BY <1>5 DEF t
<1>9. \A v \in Peers : HandSet(task'[v]) = HandSet(task[v])
  <2> SUFFICES ASSUME NEW v \in Peers, task'[v] # task[v]
               PROVE  HandSet(task'[v]) = HandSet(task[v])
    OBVIOUS
  <2>1. v = w /\ task'[v] = t /\ task[v].pc = "unborn"
    BY <1>5, <1>8
  <2>2. HandSet(task[v]) = {}
    BY <2>1 DEF Living, QInv, TasksInOrder, TaskInOrder
  <2> QED BY <1>7, <2>1, <2>2
<1>10. \A v \in Peers : \A n \in HandSet(task'[v]) :
         /\ task'[v].src = task[v].src
         /\ n \in HandSet(task[v]) /\ n \in Nat /\ 0 < n /\ n <= sent[task[v].src]
         /\ task[v].src \in Sources
  <2> SUFFICES ASSUME NEW v \in Peers, NEW n \in HandSet(task'[v])
               PROVE  /\ task'[v].src = task[v].src
                      /\ n \in HandSet(task[v]) /\ n \in Nat /\ 0 < n /\ n <= sent[task[v].src]
                      /\ task[v].src \in Sources
    OBVIOUS
  <2>1. n \in HandSet(task[v])
    BY <1>9
  <2>2. TaskInOrder(v)
    BY DEF QInv, TasksInOrder
  <2>3. Living(v)
    BY <2>1, <2>2 DEF TaskInOrder
  <2>4. task[v].src \in Sources
    BY <2>3 DEF QInv, IInv, Spawned
  <2>5. task'[v] = task[v]
    BY <1>7, <1>8
  <2> QED BY <2>1, <2>2, <2>4, <2>5, HandFacts DEF TaskInOrder
<1>11. TasksInOrder'
  <2> SUFFICES ASSUME NEW v \in Peers
               PROVE  TaskInOrder(v)' /\ Linked(v)'
    BY DEF TasksInOrder
  <2>1. CASE task'[v] = t
    BY <1>6, <1>7, <2>1 DEF TaskInOrder, Linked
  <2>2. CASE task'[v] = task[v]
    <3>1. TaskInOrder(v) /\ Linked(v)
      BY DEF QInv, TasksInOrder
    <3>2. \A n \in HandSet(task'[v]) : n <= sent'[task'[v].src]
      <4> SUFFICES ASSUME NEW n \in HandSet(task'[v]) PROVE n <= sent'[task'[v].src]
        OBVIOUS
      <4>1. n \in Nat /\ n <= sent[task[v].src] /\ task[v].src \in Sources
        BY <1>10
      <4>2. sent[task[v].src] \in Nat /\ sent'[task[v].src] \in Nat /\ sent[task[v].src] <= sent'[task[v].src]
        BY <1>1, <1>3, <4>1
      <4> QED BY <2>2, <4>1, <4>2
    <3>3. TaskInOrder(v)'
      BY <2>2, <3>1, <3>2 DEF TaskInOrder, Living
    <3>4. Linked(v)'
      BY <1>4, <2>2, <3>1 DEF Linked
    <3> QED BY <3>3, <3>4
  <2> QED BY <1>8, <2>1, <2>2
<1>12. ConnsInOrder'
  <2> SUFFICES ASSUME NEW d \in Conns PROVE ConnInOrder(d)'
    BY <1>4 DEF QInv, ConnsInOrder
  <2>1. ConnInOrder(d) /\ conn[d].last \in Nat /\ conn[d].up \in Seq(Nat)
    BY DEF QInv, ConnsInOrder, ConnShapes
  <2>2. conn[d].pc # "free" =>
          /\ conn[d].src \in Sources /\ conn[d].last <= sent'[conn[d].src]
          /\ \A x \in Elements(conn[d].up) : x <= sent'[conn[d].src]
    <3> SUFFICES ASSUME conn[d].pc # "free"
                 PROVE  /\ conn[d].src \in Sources /\ conn[d].last <= sent'[conn[d].src]
                        /\ \A x \in Elements(conn[d].up) : x <= sent'[conn[d].src]
      OBVIOUS
    <3>1. /\ conn[d].src \in Sources /\ conn[d].last <= sent[conn[d].src]
          /\ \A x \in Elements(conn[d].up) : x <= sent[conn[d].src]
      BY <2>1 DEF ConnInOrder
    <3>2. \A x \in Elements(conn[d].up) : x \in Nat
      BY <2>1 DEF Elements
    <3>3. /\ sent[conn[d].src] \in Nat /\ sent'[conn[d].src] \in Nat
          /\ sent[conn[d].src] <= sent'[conn[d].src]
      BY <1>1, <1>3, <3>1
    <3> QED BY <2>1, <3>1, <3>2, <3>3
  <2> QED BY <1>4, <2>1, <2>2 DEF ConnInOrder
<1>13. AllYounger' /\ AllApart'
  BY <1>4, <1>10 DEF QInv, AllYounger, Younger, AllApart, Apart
<1>14. RouterYoungest'
  <2>1. ASSUME NEW v \in Peers, task'[v].src = s, NEW n \in HandSet(task'[v])
        PROVE  n < m
    BY <1>1, <1>3, <1>10, <2>1
  <2>2. ASSUME NEW d \in Conns, conn[d].src = s
        PROVE  conn[d].last < m /\ \A x \in Elements(conn[d].up) : x < m
    <3>1. ConnInOrder(d) /\ conn[d].last \in Nat /\ conn[d].up \in Seq(Nat)
      BY DEF QInv, ConnsInOrder, ConnShapes
    <3>2. conn[d].pc # "free"
      BY <1>1, <2>2, <3>1 DEF ConnInOrder, Free
    <3>3. conn[d].last <= sent[s] /\ \A x \in Elements(conn[d].up) : x <= sent[s]
      BY <2>2, <3>1, <3>2 DEF ConnInOrder
    <3>4. \A x \in Elements(conn[d].up) : x \in Nat
      BY <3>1 DEF Elements
    <3> QED BY <1>1, <1>3, <3>1, <3>3, <3>4
  <2> QED BY <1>3, <1>4, <1>5, <2>1, <2>2 DEF RouterYoungest
<1>15. MapServes'
  <2> SUFFICES ASSUME NEW r \in Sources, peers'[r] # None
               PROVE  task'[peers'[r]].src = r /\ task'[peers'[r]].pc # "unborn"
    BY DEF MapServes
  <2>1. peers \in [Sources -> Peers \cup {None}]
    BY DEF QInv, IInv, Shapes
  <2>2. CASE r = s
    BY <1>5, <2>1, <2>2
  <2>3. CASE r # s
    <3>1. peers'[r] = peers[r] /\ peers[r] \in Peers
      BY <1>5, <2>1, <2>3
    <3>2. task[peers[r]].src = r /\ task[peers[r]].pc # "unborn"
      BY <3>1 DEF QInv, MapServes
    <3>3. task'[peers[r]] = task[peers[r]]
      BY <1>5, <3>1, <3>2
    <3> QED BY <3>1, <3>2, <3>3
  <2> QED BY <2>2, <2>3
<1>16. QInv'
  BY <1>11, <1>12, <1>13, <1>14, <1>15 DEF QInv
<1>17. ASSUME NEW r \in Sources, NEW n
       PROVE  n \in Waiting(r)' <=> n \in Waiting(r) \/ (r = s /\ n = m)
  <2>1. router.src # r
    BY <1>4, BridgeAssumption DEF RouterIdle
  <2>2. n \in Waiting(r)' <=>
          \/ s = r /\ m = n /\ n \in 1..sent'[r]
          \/ \E v \in Peers : task'[v].src = r /\ n \in HandSet(task'[v])
          \/ \E d \in Conns : conn[d].src = r /\ n \in Elements(conn[d].up)
    BY <1>4, <1>5, WaitingWillBe
  <2>3. m \in 1..sent'[s]
    BY <1>3
  <2>4. \A v \in Peers :
          task'[v].src = r /\ n \in HandSet(task'[v]) <=> task[v].src = r /\ n \in HandSet(task[v])
    BY <1>9, <1>10
  <2>5. n \in Waiting(r) <=>
          \/ \E v \in Peers : task[v].src = r /\ n \in HandSet(task[v])
          \/ \E d \in Conns : conn[d].src = r /\ n \in Elements(conn[d].up)
    BY <2>1, WaitingIs
  <2> QED BY <2>2, <2>3, <2>4, <2>5
<1>18. Waiting(s)' = Waiting(s) \cup {m} /\ \A r \in Sources \ {s} : Waiting(r)' = Waiting(r)
  BY <1>17
<1>19. [o \in Sources |-> Waiting(o)]' = [[o \in Sources |-> Waiting(o)] EXCEPT ![s] = @ \cup {sent[s] + 1}]
  BY <1>2, <1>18
<1>20. L!Send(s)
  BY <1>1, <1>4, <1>19 DEF L!Send
<1> QED BY <1>16, <1>20 DEF LinkStep, L!Next

\* try_send: the datagram goes to the end of the channel, or is lost.
LEMMA TrySendStep ==
  ASSUME QInv, IInv', TrySend
  PROVE  QInv' /\ LinkStep
<1>1. PICK s \in Sources : s = router.src
  BY DEF TrySend, QInv, RouterYoungest
<1>2. PICK w \in Peers : w = router.to
  BY DEF TrySend, QInv, RouterYoungest
<1>3. PICK m \in Nat : m = router.n
  BY DEF QInv, IInv, Shapes
<1>4. /\ task[w].src = s /\ m # 0 /\ m = sent[s]
      /\ \A v \in Peers : task[v].src = s => \A n \in HandSet(task[v]) : n < m
      /\ \A c \in Conns : conn[c].src = s => conn[c].last < m /\ \A x \in Elements(conn[c].up) : x < m
  BY <1>1, <1>2, <1>3 DEF TrySend, QInv, RouterYoungest
<1>5. router' = RouterIdle /\ UNCHANGED <<sent, peers, conn, arrived>>
  BY DEF TrySend
<1>6. ConnsInOrder' /\ AllApart'
  BY <1>5 DEF QInv, ConnsInOrder, ConnInOrder, AllApart, Apart
<1>7. RouterYoungest'
  BY <1>5 DEF RouterYoungest
<1>8. m \in Waiting(s)
  BY <1>1, <1>3, <1>4, WaitingIs
<1>9. \A r \in Sources : RouterIdle.src # r
  BY BridgeAssumption DEF RouterIdle
<1>10. CASE UNCHANGED task
  <2>1. TasksInOrder' /\ AllYounger' /\ MapServes'
    BY <1>5, <1>10 DEF QInv, TasksInOrder, TaskInOrder, Linked, Living, AllYounger, Younger, MapServes
  <2>2. ASSUME NEW r \in Sources, NEW n
        PROVE  /\ n \in Waiting(r)' => n \in Waiting(r)
               /\ r # s /\ n \in Waiting(r) => n \in Waiting(r)'
    <3>1. n \in Waiting(r)' <=>
            \/ \E v \in Peers : task[v].src = r /\ n \in HandSet(task[v])
            \/ \E d \in Conns : conn[d].src = r /\ n \in Elements(conn[d].up)
      BY <1>5, <1>9, <1>10, WaitingWillBe
    <3> QED BY <1>1, <3>1, WaitingIs
  <2>3. Waiting(s)' \subseteq Waiting(s) /\ \A r \in Sources \ {s} : Waiting(r)' = Waiting(r)
    BY <2>2
  <2>4. L!Next
    BY <1>5, <2>3, Losing
  <2> QED BY <1>6, <1>7, <2>1, <2>4 DEF QInv, LinkStep
<1>11. CASE Living(w) /\ task' = [task EXCEPT ![w].rx = Append(@, m)]
  <2>1. task \in [Peers -> TaskShapes] /\ task[w] \in TaskShapes /\ TaskInOrder(w) /\ Linked(w)
    BY DEF QInv, IInv, Shapes, TasksInOrder
  <2>2. task[w].rx \in Seq(Nat) /\ task[w].hand \in Nat /\ Sorted(task[w].rx)
    BY <2>1 DEF TaskShapes, TaskInOrder
  <2>3. \A x \in Elements(task[w].rx) : x \in HandSet(task[w])
    BY DEF HandSet
  <2>4. \A x \in Elements(task[w].rx) : x < m
    BY <1>4, <2>3
  <2>5. PICK q : q = Append(task[w].rx, m)
    OBVIOUS
  <2>6. q \in Seq(Nat) /\ Sorted(q) /\ Elements(q) = Elements(task[w].rx) \cup {m}
    BY <2>2, <2>4, <2>5, AppendSorted
  <2>7. task[w].hand < m
    <3>1. CASE task[w].hand = 0
      BY <1>4, <3>1
    <3>2. CASE task[w].hand # 0
      BY <1>4, <3>2 DEF HandSet
    <3> QED BY <3>1, <3>2
  <2>8. /\ task'[w].pc = task[w].pc /\ task'[w].src = s /\ task'[w].rx = q
        /\ task'[w].hand = task[w].hand /\ task'[w].conn = task[w].conn
    BY <1>4, <1>11, <2>1, <2>5 DEF TaskShapes
  <2>9. \A v \in Peers : v # w => task'[v] = task[v]
    BY <1>11, <2>1
  <2>10. HandSet(task'[w]) = HandSet(task[w]) \cup {m}
    BY <1>4, <2>6, <2>8 DEF HandSet
  <2>11. \A v \in Peers : \A n :
           n \in HandSet(task'[v]) <=> n \in HandSet(task[v]) \/ (v = w /\ n = m)
    <3> SUFFICES ASSUME NEW v \in Peers, NEW n
                 PROVE  n \in HandSet(task'[v]) <=> n \in HandSet(task[v]) \/ (v = w /\ n = m)
      OBVIOUS
    <3>1. CASE v = w
      BY <2>10, <3>1
    <3>2. CASE v # w
      BY <2>9, <3>2
    <3> QED BY <3>1, <3>2
  <2>12. \A v \in Peers : task'[v].src = task[v].src /\ task'[v].pc = task[v].pc
    BY <1>4, <2>8, <2>9
  <2>13. TasksInOrder'
    <3> SUFFICES ASSUME NEW v \in Peers
                 PROVE  TaskInOrder(v)' /\ Linked(v)'
      BY DEF TasksInOrder
    <3>1. TaskInOrder(v) /\ Linked(v)
      BY DEF QInv, TasksInOrder
    <3>2. CASE v = w
      <4>1. \A n \in HandSet(task'[w]) : n <= sent[s]
        <5> SUFFICES ASSUME NEW n \in HandSet(task[w]) PROVE n <= m
          BY <1>4, <2>10
        <5>1. n \in Nat
          BY HandFacts
        <5> QED BY <1>4, <5>1
      <4>2. \A x \in Elements(q) : task[w].hand < x
        BY <2>1, <2>6, <2>7 DEF TaskInOrder
      <4>3. Living(w)'
        BY <1>11, <2>8 DEF Living
      <4>4. TaskInOrder(w)'
        BY <1>5, <2>1, <2>6, <2>8, <4>1, <4>2, <4>3 DEF TaskInOrder
      <4>5. Linked(w)'
        BY <1>4, <1>5, <2>1, <2>8 DEF Linked
      <4> QED BY <3>2, <4>4, <4>5
    <3>3. CASE v # w
      <4>1. task'[v] = task[v]
        BY <2>9, <3>3
      <4>2. TaskInOrder(v)'
        BY <1>5, <3>1, <4>1 DEF TaskInOrder, Living
      <4>3. Linked(v)'
        BY <1>5, <3>1, <4>1 DEF Linked
      <4> QED BY <4>2, <4>3
    <3> QED BY <3>2, <3>3
  <2>14. AllYounger'
    <3> SUFFICES ASSUME NEW d \in Conns, NEW v \in Peers, conn[d].src = task[v].src,
                        NEW n \in HandSet(task'[v])
                 PROVE  conn[d].last < n /\ \A x \in Elements(conn[d].up) : x < n
      BY <1>5, <2>12 DEF AllYounger, Younger
    <3>1. CASE n \in HandSet(task[v])
      BY <3>1 DEF QInv, AllYounger, Younger
    <3>2. CASE v = w /\ n = m
      BY <1>4, <3>2
    <3> QED BY <2>11, <3>1, <3>2
  <2>15. MapServes'
    <3> SUFFICES ASSUME NEW r \in Sources, peers[r] # None
                 PROVE  task'[peers[r]].src = r /\ task'[peers[r]].pc # "unborn"
      BY <1>5 DEF MapServes
    <3>1. peers[r] \in Peers
      BY DEF QInv, IInv, Shapes
    <3> QED BY <2>12, <3>1 DEF QInv, MapServes
  <2>16. ASSUME NEW r \in Sources, NEW n
         PROVE  n \in Waiting(r)' <=> n \in Waiting(r)
    <3>1. n \in Waiting(r)' <=>
            \/ \E v \in Peers : task'[v].src = r /\ n \in HandSet(task'[v])
            \/ \E d \in Conns : conn[d].src = r /\ n \in Elements(conn[d].up)
      BY <1>5, <1>9, WaitingWillBe
    <3>2. n \in Waiting(r)' <=>
            \/ \E v \in Peers : task[v].src = r /\ n \in HandSet(task[v])
            \/ \E d \in Conns : conn[d].src = r /\ n \in Elements(conn[d].up)
            \/ (r = s /\ n = m)
      BY <1>4, <2>11, <2>12, <3>1
    <3>3. n \in Waiting(r) <=>
            \/ (r = s /\ n = m)
            \/ \E v \in Peers : task[v].src = r /\ n \in HandSet(task[v])
            \/ \E d \in Conns : conn[d].src = r /\ n \in Elements(conn[d].up)
      BY <1>1, <1>3, <1>4, WaitingIs
    <3> QED BY <3>2, <3>3
  <2>17. \A r \in Sources : Waiting(r)' = Waiting(r)
    BY <2>16
  <2> QED BY <1>5, <1>6, <1>7, <2>13, <2>14, <2>15, <2>17, Nothing DEF QInv, LinkStep
<1>12. UNCHANGED task \/ (Living(w) /\ task' = [task EXCEPT ![w].rx = Append(@, m)])
  <2>1. \/ UNCHANGED task
        \/ Living(router.to) /\ task' = [task EXCEPT ![router.to].rx = Append(@, router.n)]
    BY DEF TrySend
  <2> QED BY <1>2, <1>3, <2>1
<1> QED BY <1>10, <1>11, <1>12

\* The sweep, the abort and the direction to the client leave what is on its
\* way alone.
LEMMA RouterStep ==
  ASSUME QInv, IInv',
         \/ Sweep \/ Abort \/ UNCHANGED vars
         \/ \E c \in Conns : RelaySends(c) \/ RelaySendDone(c)
  PROVE  QInv' /\ LinkStep
<1>1. UNCHANGED <<sent, router, task, conn, arrived>>
  BY DEF Sweep, Abort, RelaySends, RelaySendDone, vars
<1>2. \A s \in Sources : peers'[s] \in {peers[s], None}
  BY DEF Sweep, Abort, RelaySends, RelaySendDone, vars
<1>3. MapServes'
  BY <1>1, <1>2 DEF QInv, MapServes
<1>4. TasksInOrder' /\ ConnsInOrder' /\ AllYounger' /\ AllApart' /\ RouterYoungest'
  BY <1>1 DEF QInv, TasksInOrder, TaskInOrder, Linked, Living, ConnsInOrder, ConnInOrder,
              AllYounger, Younger, AllApart, Apart, RouterYoungest
<1>5. \A r \in Sources : Waiting(r)' = Waiting(r)
  BY <1>1 DEF Waiting, Held, Elements
<1> QED BY <1>1, <1>3, <1>4, <1>5, Nothing DEF QInv, LinkStep

\* What a failure leaves: nothing in hand, and the channel if the task stays.
LEMMA FailureFacts ==
  ASSUME QInv, NEW w \in Peers, NEW t, t \in {Failed(w), Gone(w)}
  PROVE  /\ t \in TaskShapes /\ t.src = task[w].src /\ t.hand = 0 /\ t.conn = None
         /\ t.pc \in {"backoff", "gone"} /\ (t.pc = "gone" => HandSet(t) = {})
         /\ t.rx \in {task[w].rx, <<>>}
<1>1. task[w] \in TaskShapes /\ t \in TaskShapes /\ t.src = task[w].src
  BY HandFacts, FailedShape DEF QInv
<1>2. Elements(<<>>) = {}
  BY DEF Elements
<1>3. CASE t = Gone(w)
  <2>1. t.hand = 0 /\ t.conn = None /\ t.pc = "gone" /\ t.rx = <<>>
    <3>1. Unborn.rx = <<>> /\ Unborn.hand = 0 /\ Unborn.conn = None
      BY DEF Unborn
    <3> QED BY <1>3, <3>1, UnbornShape DEF Gone, TaskShapes
  <2> QED BY <1>1, <1>2, <2>1 DEF HandSet
<1>4. CASE t # Gone(w)
  <2>1. t = [task[w] EXCEPT !.pc = "backoff", !.hand = 0, !.conn = None]
    BY <1>4 DEF Failed
  <2>2. t.hand = 0 /\ t.conn = None /\ t.pc = "backoff" /\ t.rx = task[w].rx
    BY <1>1, <2>1 DEF TaskShapes
  <2> QED BY <1>1, <2>2
<1> QED BY <1>3, <1>4

\* A task fails or leaves.
LEMMA LeavingStep ==
  ASSUME QInv, NEW w \in Peers, Living(w), NEW t, t \in {Failed(w), Gone(w)}, Becomes(w, t)
  PROVE  QInv' /\ LinkStep
<1>1. /\ t \in TaskShapes /\ t.src = task[w].src /\ t.hand = 0 /\ t.conn = None
      /\ t.pc \in {"backoff", "gone"} /\ (t.pc = "gone" => HandSet(t) = {})
      /\ t.rx \in {task[w].rx, <<>>}
  BY FailureFacts
<1>2. TaskInOrder(w) /\ task[w] \in TaskShapes
  BY HandFacts DEF QInv, TasksInOrder
<1>3. Elements(<<>>) = {} /\ Sorted(<<>>)
  BY DEF Elements, Sorted
<1>4. Sorted(t.rx) /\ Elements(t.rx) \subseteq Elements(task[w].rx)
  BY <1>1, <1>2, <1>3 DEF TaskInOrder
<1>5. HandSet(t) \subseteq HandSet(task[w])
  BY <1>1, <1>4 DEF HandSet
<1>6. \A x \in Elements(t.rx) : t.hand < x
  <2>1. \A x \in Elements(task[w].rx) : x \in HandSet(task[w])
    BY DEF HandSet
  <2> QED BY <1>1, <1>4, <2>1, HandFacts
<1>7. task' = [task EXCEPT ![w] = t] /\ UNCHANGED <<sent, router, peers, conn, arrived>>
  BY DEF Becomes
<1>8. QInv' /\ L!Next
  BY <1>1, <1>4, <1>5, <1>6, <1>7, TaskStep
<1> QED BY <1>8 DEF LinkStep

\* A task changes its stage.
LEMMA StageStep ==
  ASSUME QInv, NEW w \in Peers, Living(w), NEW t \in TaskShapes, Becomes(w, t),
         t.src = task[w].src, t.rx = task[w].rx, t.hand = task[w].hand, t.conn = task[w].conn,
         t.pc \notin {"sending", "gone", "unborn"}
  PROVE  QInv' /\ LinkStep
<1>1. TaskInOrder(w)
  BY DEF QInv, TasksInOrder
<1>2. HandSet(t) = HandSet(task[w])
  BY DEF HandSet
<1>3. Sorted(t.rx) /\ \A x \in Elements(t.rx) : t.hand < x
  BY <1>1 DEF TaskInOrder
<1>4. task' = [task EXCEPT ![w] = t] /\ UNCHANGED <<sent, router, peers, conn, arrived>>
  BY DEF Becomes
<1>5. QInv' /\ L!Next
  BY <1>2, <1>3, <1>4, TaskStep
<1> QED BY <1>5 DEF LinkStep

\* The pump takes the oldest datagram of the channel.
LEMMA PumpTakesStep ==
  ASSUME QInv, NEW w \in Peers, PumpTakes(w)
  PROVE  QInv' /\ LinkStep
<1>1. task[w] \in TaskShapes /\ TaskInOrder(w) /\ Living(w) /\ task[w].rx # <<>>
  BY HandFacts DEF QInv, TasksInOrder, PumpTakes, Living
<1>2. task[w].rx \in Seq(Nat) /\ Sorted(task[w].rx)
  BY <1>1 DEF TaskShapes, TaskInOrder
<1>3. /\ Tail(task[w].rx) \in Seq(Nat) /\ Sorted(Tail(task[w].rx)) /\ Head(task[w].rx) \in Nat
      /\ Elements(task[w].rx) = Elements(Tail(task[w].rx)) \cup {Head(task[w].rx)}
      /\ \A x \in Elements(Tail(task[w].rx)) : Head(task[w].rx) < x
  BY <1>1, <1>2, TailSorted
<1>4. PICK h \in Nat : h = Head(task[w].rx)
  BY <1>3
<1>5. PICK r \in Seq(Nat) : r = Tail(task[w].rx)
  BY <1>3
<1> DEFINE t == [task[w] EXCEPT !.pc = "sending", !.hand = h, !.rx = r, !.expired = FALSE]
<1>6. /\ t \in TaskShapes /\ t.src = task[w].src /\ t.pc = "sending" /\ t.hand = h /\ t.rx = r
      /\ t.conn = task[w].conn
  BY <1>1 DEF TaskShapes
<1>7. task' = [task EXCEPT ![w] = t] /\ UNCHANGED <<sent, router, peers, conn, arrived>>
  BY <1>4, <1>5 DEF PumpTakes, Becomes
<1> HIDE DEF t
<1>8. h # 0 /\ HandSet(t) \subseteq HandSet(task[w])
  <2>1. h \in Elements(task[w].rx) /\ Elements(r) \subseteq Elements(task[w].rx)
    BY <1>3, <1>4, <1>5
  <2>2. \A x \in Elements(task[w].rx) : x \in HandSet(task[w])
    BY DEF HandSet
  <2>3. 0 < h
    BY <2>1, <2>2, HandFacts
  <2> QED BY <1>6, <2>1, <2>2, <2>3 DEF HandSet
<1>9. Sorted(t.rx) /\ \A x \in Elements(t.rx) : t.hand < x
  BY <1>3, <1>4, <1>5, <1>6
<1>10. QInv' /\ L!Next
  BY <1>1, <1>6, <1>7, <1>8, <1>9, TaskStep
<1> QED BY <1>10 DEF LinkStep

\* It sends it, or fails in sending, the frame written or not.
LEMMA SendStep ==
  ASSUME QInv, NEW w \in Peers, SendDone(w) \/ SendFails(w)
  PROVE  QInv' /\ LinkStep
<1>1. task[w] \in TaskShapes /\ TaskInOrder(w) /\ Living(w) /\ task[w].pc = "sending"
  BY HandFacts DEF QInv, TasksInOrder, SendDone, SendFails, Living
<1>2. \A x \in Elements(task[w].rx) : x \in HandSet(task[w]) /\ 0 < x
  BY HandFacts DEF HandSet
<1>3. UNCHANGED <<sent, router, peers, arrived>>
  BY DEF SendDone, SendFails
<1>4. CASE SendDone(w)
  <2> DEFINE t == [task[w] EXCEPT !.pc = "open", !.hand = 0]
  <2>1. /\ t \in TaskShapes /\ t.src = task[w].src /\ t.pc = "open" /\ t.hand = 0
        /\ t.rx = task[w].rx /\ t.conn = task[w].conn
    BY <1>1 DEF TaskShapes
  <2>2. task' = [task EXCEPT ![w] = t] /\ conn' = Framed(w)
    BY <1>4 DEF SendDone
  <2> HIDE DEF t
  <2>3. Sorted(t.rx) /\ (\A x \in Elements(t.rx) : 0 < x) /\ HandSet(t) \subseteq Elements(task[w].rx)
    BY <1>1, <1>2, <2>1 DEF TaskInOrder, HandSet
  <2>4. QInv' /\ L!Next
    BY <1>1, <1>3, <2>1, <2>2, <2>3, FrameStep
  <2> QED BY <2>4 DEF LinkStep
<1>5. CASE SendFails(w)
  <2>1. PICK t : t = Failed(w)
    OBVIOUS
  <2>2. task' = [task EXCEPT ![w] = t] /\ (conn' = conn \/ conn' = Framed(w))
    BY <1>5, <2>1 DEF SendFails
  <2>3. /\ t \in TaskShapes /\ t.src = task[w].src /\ t.hand = 0 /\ t.conn = None
        /\ t.pc \in {"backoff", "gone"} /\ (t.pc = "gone" => HandSet(t) = {})
        /\ t.rx \in {task[w].rx, <<>>}
    BY <2>1, FailureFacts
  <2>4. Elements(<<>>) = {} /\ Sorted(<<>>)
    BY DEF Elements, Sorted
  <2>5. Sorted(t.rx) /\ Elements(t.rx) \subseteq Elements(task[w].rx)
    BY <1>1, <2>3, <2>4 DEF TaskInOrder
  <2>6. HandSet(t) \subseteq Elements(task[w].rx) /\ \A x \in Elements(t.rx) : 0 < x
    BY <1>2, <2>3, <2>5 DEF HandSet
  <2>7. CASE conn' = Framed(w)
    <3>1. QInv' /\ L!Next
      BY <1>1, <1>3, <2>2, <2>3, <2>5, <2>6, <2>7, FrameStep
    <3> QED BY <3>1 DEF LinkStep
  <2>8. CASE conn' = conn
    <3>1. Becomes(w, t)
      BY <1>5, <2>2, <2>8 DEF SendFails, Becomes
    <3> QED BY <1>1, <2>1, <3>1, LeavingStep
  <2> QED BY <2>2, <2>7, <2>8
<1> QED BY <1>4, <1>5

\* The steps of a task.
LEMMA DialStep ==
  ASSUME QInv, IInv', NEW w \in Peers, Dial(w) \/ Handshake(w) \/ Pump(w) \/ BackoffEnds(w)
  PROVE  QInv' /\ LinkStep
<1>1. task[w] \in TaskShapes
  BY HandFacts
<1>2. CASE \E c \in Conns : DialAccepted(w, c)
  BY <1>2, DialAcceptedStep
<1>3. CASE DialFails(w) \/ HandshakeFails(w) \/ PumpBreaks(w)
  <2>1. Living(w) /\ Becomes(w, Failed(w))
    BY <1>3 DEF DialFails, HandshakeFails, PumpBreaks, Living
  <2> QED BY <2>1, LeavingStep
<1>4. CASE PumpEnds(w) \/ PumpIdle(w)
  <2>1. Living(w) /\ Becomes(w, Gone(w))
    BY <1>4 DEF PumpEnds, PumpIdle, Living
  <2> QED BY <2>1, LeavingStep
<1>5. CASE DialRefused(w) \/ BackoffEnds(w)
  <2>1. PICK pc \in {"handshake", "dial"} : Becomes(w, [task[w] EXCEPT !.pc = pc])
    BY <1>5 DEF DialRefused, BackoffEnds
  <2>2. PICK t : t = [task[w] EXCEPT !.pc = pc]
    OBVIOUS
  <2>3. /\ t \in TaskShapes /\ t.src = task[w].src /\ t.rx = task[w].rx /\ t.hand = task[w].hand
        /\ t.conn = task[w].conn /\ t.pc \notin {"sending", "gone", "unborn"}
    BY <1>1, <2>2 DEF TaskShapes
  <2>4. Living(w)
    BY <1>5 DEF DialRefused, BackoffEnds, Living
  <2> QED BY <2>1, <2>2, <2>3, <2>4, StageStep
<1>6. CASE PumpReceives(w)
  <2>1. PICK t : t = [task[w] EXCEPT !.expired = FALSE]
    OBVIOUS
  <2>2. /\ t \in TaskShapes /\ t.src = task[w].src /\ t.rx = task[w].rx /\ t.hand = task[w].hand
        /\ t.conn = task[w].conn /\ t.pc = task[w].pc
    BY <1>1, <2>1 DEF TaskShapes
  <2>3. Living(w) /\ t.pc = "open" /\ Becomes(w, t)
    BY <1>6, <2>1, <2>2 DEF PumpReceives, Living
  <2> QED BY <2>2, <2>3, StageStep
<1>7. CASE HandshakeDone(w)
  BY <1>7, HandshakeDoneStep
<1>8. CASE PumpTakes(w)
  BY <1>8, PumpTakesStep
<1>9. CASE SendDone(w) \/ SendFails(w)
  BY <1>9, SendStep
<1> QED BY <1>2, <1>3, <1>4, <1>5, <1>6, <1>7, <1>8, <1>9 DEF Dial, Handshake, Pump

\* At first nothing is anywhere.
LEMMA InitQInv == Init => QInv /\ L!Init
<1> SUFFICES ASSUME Init PROVE QInv /\ L!Init
  OBVIOUS
<1>0. Elements(<<>>) = {} /\ Sorted(<<>>)
  BY DEF Elements, Sorted
<1>1. \A v \in Peers : /\ task[v] = Unborn /\ task[v].rx = <<>> /\ task[v].hand = 0
                       /\ task[v].conn = None /\ task[v].pc = "unborn" /\ task[v].src = None
  BY DEF Init, Unborn
<1>2. \A v \in Peers : HandSet(task[v]) = {}
  BY <1>0, <1>1 DEF HandSet
<1>3. Free \in ConnShapes /\ Free.pc = "free" /\ Free.src = None /\ Free.up = <<>> /\ Free.last = 0
  BY DEF Free, ConnShapes
<1>4. conn \in [Conns -> ConnShapes] /\ \A c \in Conns : conn[c] = Free
  BY <1>3 DEF Init
<1>5. TasksInOrder
  BY <1>0, <1>1, <1>2 DEF TasksInOrder, TaskInOrder, Linked
<1>6. ConnsInOrder
  BY <1>0, <1>3, <1>4 DEF ConnsInOrder, ConnInOrder
<1>7. AllYounger /\ AllApart
  BY <1>0, <1>2, <1>3, <1>4 DEF AllYounger, Younger, AllApart, Apart
<1>8. RouterYoungest /\ MapServes
  BY DEF Init, RouterYoungest, MapServes
<1>9. QInv
  BY <1>5, <1>6, <1>7, <1>8, InitIInv DEF QInv
<1>10. \A s \in Sources : Waiting(s) = {}
  <2> SUFFICES ASSUME NEW s \in Sources, NEW n \in Waiting(s) PROVE FALSE
    OBVIOUS
  <2>1. router.src # s
    BY BridgeAssumption DEF Init, RouterIdle
  <2>2. \A c \in Conns : Elements(conn[c].up) = {}
    BY <1>0, <1>3, <1>4
  <2> QED BY <1>2, <2>1, <2>2, WaitingIs
<1>11. L!Init
  BY <1>10 DEF Init, L!Init
<1> QED BY <1>9, <1>11

\* Every step keeps the invariant, and is a step of the link or none.
LEMMA NextQInv == QInv /\ [Next]_vars => QInv' /\ LinkStep
<1> SUFFICES ASSUME QInv, [Next]_vars PROVE QInv' /\ LinkStep
  OBVIOUS
<1>1. IInv'
  BY NextKeepsIInv DEF QInv
<1>2. CASE \E s \in Sources : RecvFrom(s)
  BY <1>1, <1>2, RecvFromStep
<1>3. CASE TrySend
  BY <1>1, <1>3, TrySendStep
<1>4. CASE \/ Sweep \/ Abort \/ UNCHANGED vars
           \/ \E c \in Conns : RelaySends(c) \/ RelaySendDone(c)
  BY <1>1, <1>4, RouterStep
<1>5. CASE \E w \in Peers : Dial(w) \/ Handshake(w) \/ Pump(w) \/ BackoffEnds(w)
  BY <1>1, <1>5, DialStep
<1>6. CASE \E c \in Conns : RelayReads(c) \/ RelayEnds(c)
  BY <1>1, <1>6, RelayReadsStep, RelayEndsStep
<1>7. CASE Idle
  BY <1>1, <1>7, IdleStep
<1> QED BY <1>2, <1>3, <1>4, <1>5, <1>6, <1>7 DEF Next

-----------------------------------------------------------------------------

\* The numbers of a source only grow from the target back to the router
\* (run_client_to, client_peer, relay_conn), whatever breaks or is replaced.
THEOREM LinkInvariant == Spec => []QInv
<1>1. Init => QInv
  BY InitQInv
<1>2. QInv /\ [Next]_vars => QInv'
  BY NextQInv
<1> QED BY <1>1, <1>2, PTL DEF Spec

\* The detour over the WebSocket (lib.rs:94-208) implements a datagram link that
\* delivers each datagram at most once, in any order: every step of router, tasks
\* and relay sends one, delivers one that has been on its way once, loses some, or
\* is no step of the link at all.
THEOREM BridgeIsALink == Spec => LinkSpec
<1>1. Init => QInv /\ L!Init
  BY InitQInv
<1>2. QInv /\ [Next]_vars => QInv' /\ [L!Next]_<<sent, [s \in Sources |-> Waiting(s)], arrived>>
  BY NextQInv DEF LinkStep
<1> QED BY <1>1, <1>2, PTL DEF Spec, LinkSpec, L!Spec

\* Datagrams that share a connection (lib.rs:189-195, 94-104) keep their order.
THEOREM OrderKept == Spec => []OrderOnConnection
<1>1. QInv => OrderOnConnection
  <2> SUFFICES ASSUME QInv, NEW c \in Conns
               PROVE  LET pipe == <<conn[c].last>> \o conn[c].up
                      IN  /\ \A i, j \in DOMAIN pipe : i < j => pipe[i] < pipe[j]
                          /\ \A n \in Elements(pipe), h \in Held(conn[c].src) : n < h
    BY DEF OrderOnConnection
  <2>1. conn[c].up \in Seq(Nat) /\ conn[c].last \in Nat /\ ConnInOrder(c)
    BY DEF QInv, ConnsInOrder, ConnShapes
  <2> DEFINE pipe == <<conn[c].last>> \o conn[c].up
  <2>2. Sorted(pipe) /\ Elements(pipe) = Elements(conn[c].up) \cup {conn[c].last}
    BY <2>1, PipeSorted DEF ConnInOrder
  <2> HIDE DEF pipe
  <2>3. \A i, j \in DOMAIN pipe : i < j => pipe[i] < pipe[j]
    BY <2>2 DEF Sorted
  <2>4. ASSUME NEW n \in Elements(pipe), NEW h \in Held(conn[c].src)
        PROVE  n < h
    <3>1. PICK w \in Peers : task[w].src = conn[c].src /\ h \in HandSet(task[w])
      BY DEF Held, HandSet
    <3> QED BY <2>2, <3>1 DEF QInv, AllYounger, Younger
  <2> QED BY <2>3, <2>4 DEF pipe
<1> QED BY <1>1, LinkInvariant, PTL
=============================================================================
