--------------------------- MODULE FlowTableProofs ---------------------------
(***************************************************************************)
(* What FlowTable guarantees for any number of peers, permits, threads and *)
(* flows: the counters and the semaphore are exact in every interleaving,  *)
(* refusals at the cap are due, and no peer keeps more than its share.     *)
(***************************************************************************)
EXTENDS FlowTable, FiniteSetTheorems, TLAPS

(***************************************************************************)
(* The sets of tasks are finite, so their cardinalities are numbers.       *)
(***************************************************************************)
LEMMA TaskSetsFinite ==
  /\ IsFiniteSet(Tasks) /\ Cardinality(Tasks) \in Nat
  /\ IsFiniteSet(DroppingAll) /\ Cardinality(DroppingAll) \in Nat
  /\ \A p \in Peers : IsFiniteSet(Live(p)) /\ Cardinality(Live(p)) \in Nat
<1>1. IsFiniteSet(Flows)
  BY FlowTableAssumption
<1>2. \A S \in SUBSET Flows : IsFiniteSet(S) /\ Cardinality(S) \in Nat
  BY <1>1, FS_Subset, FS_CardinalityType
<1>3. Tasks \in SUBSET Flows /\ DroppingAll \in SUBSET Flows
  BY DEF Tasks, DroppingAll
<1>4. \A p \in Peers : Live(p) \in SUBSET Flows
  BY DEF Live
<1> QED
  BY <1>2, <1>3, <1>4

(***************************************************************************)
(* A new task joins the live tasks of its peer and nothing else changes.   *)
(***************************************************************************)
LEMMA SpawnSets ==
  ASSUME IInv, NEW f \in Flows, Spawn(f)
  PROVE  /\ Cardinality(Tasks') = Cardinality(Tasks) + 1
         /\ DroppingAll' = DroppingAll
         /\ \A p \in Peers : Cardinality(Live(p)') =
              Cardinality(Live(p)) + (IF stream.owner = p THEN 1 ELSE 0)
<1> USE DEF IInv, TypeOK
<1>0. stream.owner \in Peers /\ flow[f].stage = "none"
  BY DEF OwnersKnown, Spawn, NoFlow
<1>1. Tasks' = Tasks \cup {f} /\ f \notin Tasks
  BY <1>0 DEF Spawn, Tasks
<1>2. DroppingAll' = DroppingAll
  BY <1>0 DEF Spawn, DroppingAll
<1>3. ASSUME NEW p \in Peers
      PROVE  Cardinality(Live(p)') = Cardinality(Live(p)) + (IF stream.owner = p THEN 1 ELSE 0)
  <2>1. CASE stream.owner = p
    <3>1. Live(p)' = Live(p) \cup {f} /\ f \notin Live(p)
      BY <2>1, <1>0 DEF Spawn, Live
    <3>2. IsFiniteSet(Live(p))
      BY TaskSetsFinite
    <3>3. Cardinality(Live(p)') = Cardinality(Live(p)) + 1
      BY <3>1, <3>2, FS_AddElement
    <3> QED
      BY <3>3, <2>1
  <2>2. CASE stream.owner # p
    <3>1. Live(p)' = Live(p)
      BY <2>2, <1>0 DEF Spawn, Live
    <3> QED
      BY <3>1, <2>2, TaskSetsFinite
  <2> QED
    BY <2>1, <2>2
<1> QED
  BY <1>1, <1>2, <1>3, FS_AddElement, TaskSetsFinite

(***************************************************************************)
(* An ending task leaves the live tasks of its peer and starts dropping.   *)
(***************************************************************************)
LEMMA EndSets ==
  ASSUME IInv, NEW f \in Flows, End(f)
  PROVE  /\ Tasks' = Tasks
         /\ Cardinality(DroppingAll') = Cardinality(DroppingAll) + 1
         /\ flow[f].owner \in Peers
         /\ \A p \in Peers : Cardinality(Live(p)') =
              Cardinality(Live(p)) - (IF flow[f].owner = p THEN 1 ELSE 0)
<1> USE DEF IInv, TypeOK
<1>0. flow[f].owner \in Peers /\ flow[f].stage = "live"
  BY DEF OwnersKnown, End
<1>1. Tasks' = Tasks
  BY <1>0 DEF End, Tasks
<1>2. DroppingAll' = DroppingAll \cup {f} /\ f \notin DroppingAll
  BY <1>0 DEF End, DroppingAll
<1>3. ASSUME NEW p \in Peers
      PROVE  Cardinality(Live(p)') = Cardinality(Live(p)) - (IF flow[f].owner = p THEN 1 ELSE 0)
  <2>1. CASE flow[f].owner = p
    <3>1. Live(p)' = Live(p) \ {f} /\ f \in Live(p)
      BY <2>1, <1>0 DEF End, Live
    <3>2. IsFiniteSet(Live(p))
      BY TaskSetsFinite
    <3>3. Cardinality(Live(p)') = Cardinality(Live(p)) - 1
      BY <3>1, <3>2, FS_RemoveElement
    <3> QED
      BY <3>3, <2>1
  <2>2. CASE flow[f].owner # p
    <3>1. Live(p)' = Live(p)
      BY <2>2, <1>0 DEF End, Live
    <3> QED
      BY <3>1, <2>2, TaskSetsFinite
  <2> QED
    BY <2>1, <2>2
<1> QED
  BY <1>0, <1>1, <1>2, <1>3, FS_AddElement, TaskSetsFinite

(***************************************************************************)
(* A freed task disappears; the live tasks are not touched.                *)
(***************************************************************************)
LEMMA FreeSets ==
  ASSUME IInv, NEW f \in Flows, Free(f)
  PROVE  /\ Cardinality(Tasks') = Cardinality(Tasks) - 1
         /\ Cardinality(DroppingAll') = Cardinality(DroppingAll) - 1
         /\ \A p \in Peers : Live(p)' = Live(p)
<1> USE DEF IInv, TypeOK
<1>1. Tasks' = Tasks \ {f} /\ f \in Tasks
  BY DEF Free, Tasks, NoFlow
<1>2. DroppingAll' = DroppingAll \ {f} /\ f \in DroppingAll
  BY DEF Free, DroppingAll, NoFlow
<1>3. ASSUME NEW p \in Peers PROVE Live(p)' = Live(p)
  BY DEF Free, Live, NoFlow
<1> QED
  BY <1>1, <1>2, <1>3, FS_RemoveElement, TaskSetsFinite

(***************************************************************************)
(* The inductive invariant.                                                *)
(***************************************************************************)
LEMMA InitIInv == Init => IInv
<1> SUFFICES ASSUME Init PROVE IInv
  OBVIOUS
<1> USE FlowTableAssumption DEF Init
<1>1. Tasks = {} /\ DroppingAll = {} /\ \A p \in Peers : Live(p) = {}
  BY DEF Tasks, DroppingAll, Live, NoFlow
<1>2. /\ Cardinality(Tasks) = 0 /\ Cardinality(DroppingAll) = 0
      /\ \A p \in Peers : Cardinality(Live(p)) = 0
  BY <1>1, FS_EmptySet
<1>3. TypeOK
  BY DEF TypeOK, Streams, Stages, FlowStages, Kinds, NoFlow, NoStream
<1>4. OwnersKnown
  BY DEF OwnersKnown, NoFlow
<1>5. CountsExact
  <2> SUFFICES ASSUME NEW p \in Peers
               PROVE  counts[p] = Cardinality(Live(p)) + InHand(p)
    BY DEF CountsExact
  <2>1. InHand(p) = 0
    BY DEF InHand
  <2> QED
    BY <1>2, <2>1
<1>6. PermitsBalance
  BY <1>2 DEF PermitsBalance
<1>7. CapKept
  <2> SUFFICES ASSUME NEW p \in Peers
               PROVE  Cardinality(Live(p)) + 0 <= MaxFlowsPerPeer
    BY DEF CapKept, Spawning
  <2> QED
    BY <1>2
<1>8. ThreadsEnough
  BY <1>2 DEF ThreadsEnough, Busy
<1> QED
  BY <1>3, <1>4, <1>5, <1>6, <1>7, <1>8 DEF IInv

(***************************************************************************)
(* A step that moves no task: the sets of tasks stay as they are.          *)
(***************************************************************************)
LEMMA TasksUnchanged ==
  ASSUME UNCHANGED flow
  PROVE  /\ Tasks' = Tasks /\ DroppingAll' = DroppingAll
         /\ \A p \in Peers : Live(p)' = Live(p)
BY DEF Tasks, DroppingAll, Live

\* Every step keeps the invariant.
LEMMA NextIInv == IInv /\ [Next]_vars => IInv'
<1> SUFFICES ASSUME IInv, [Next]_vars PROVE IInv'
  OBVIOUS
<1> USE FlowTableAssumption DEF IInv, TypeOK
<1>a. PICK t \in Nat : t = Cardinality(Tasks)
  BY TaskSetsFinite
<1>b. PICK d \in Nat : d = Cardinality(DroppingAll)
  BY TaskSetsFinite
<1>c. \A p \in Peers : Cardinality(Live(p)) \in Nat
  BY TaskSetsFinite
<1>1. ASSUME NEW s \in Streams, Arrive(s) PROVE IInv'
  <2> USE <1>1, TasksUnchanged DEF Arrive
  <2>1. TypeOK'
    OBVIOUS
  <2>2. OwnersKnown' /\ CountsExact'
    BY DEF OwnersKnown, CountsExact, InHand
  <2>3. PermitsBalance' /\ CapKept' /\ ThreadsEnough'
    BY DEF PermitsBalance, CapKept, Spawning, ThreadsEnough, Busy
  <2> QED
    BY <2>1, <2>2, <2>3
<1>2. CASE Refuse
  <2> USE <1>2, TasksUnchanged DEF Refuse
  <2>1. TypeOK'
    OBVIOUS
  <2>2. OwnersKnown' /\ CountsExact'
    BY DEF OwnersKnown, CountsExact, InHand
  <2>3. PermitsBalance' /\ CapKept' /\ ThreadsEnough'
    BY DEF PermitsBalance, CapKept, Spawning, ThreadsEnough, Busy
  <2> QED
    BY <2>1, <2>2, <2>3
<1>3. CASE Acquire
  <2> USE <1>3, TasksUnchanged DEF Acquire, Refusable
  <2>1. Head(backlog) \in Streams /\ Tail(backlog) \in Seq(Streams)
    OBVIOUS
  <2>2. stream'.owner \in Peers /\ pc' = "charge" /\ pc = "accept"
    BY <2>1 DEF Streams
  <2>3. TypeOK'
    BY <2>1 DEF Stages
  <2>4. OwnersKnown'
    BY <2>2 DEF OwnersKnown
  <2>5. CountsExact' /\ CapKept'
    BY <2>2, <1>c DEF CountsExact, CapKept, Spawning, InHand
  <2>6. PermitsBalance'
    BY <2>2, <1>a DEF PermitsBalance
  <2>7. ThreadsEnough'
    BY <2>2, <1>b DEF ThreadsEnough, ThreadFree, Busy
  <2> QED
    BY <2>3, <2>4, <2>5, <2>6, <2>7
<1>4. CASE Charge
  <2> USE <1>4, TasksUnchanged DEF Charge
  <2>1. stream.owner \in Peers /\ pc = "charge" /\ pc' \in {"spawn", "refund"}
    BY DEF OwnersKnown
  <2>2. TypeOK'
    BY <2>1 DEF Stages
  <2>3. OwnersKnown'
    BY <2>1 DEF OwnersKnown
  <2>4. CountsExact'
    BY <2>1, <1>c DEF CountsExact, InHand
  <2>5. CapKept'
    BY <2>1, <1>c DEF CapKept, Spawning, CountsExact, InHand
  <2>6. PermitsBalance'
    BY <2>1, <1>a DEF PermitsBalance
  <2>7. ThreadsEnough'
    BY <2>1, <1>b DEF ThreadsEnough, Busy
  <2> QED
    BY <2>2, <2>3, <2>4, <2>5, <2>6, <2>7
<1>5. ASSUME NEW f \in Flows, Spawn(f) PROVE IInv'
  <2> USE <1>5
  <2>1. stream.owner \in Peers /\ pc = "spawn" /\ pc' = "accept"
    BY DEF OwnersKnown, Spawn
  <2>2. TypeOK'
    BY <2>1 DEF Spawn, Stages, FlowStages, NoStream, Streams, Kinds
  <2>3. OwnersKnown'
    BY <2>1 DEF OwnersKnown, Spawn
  <2>a. /\ Cardinality(Tasks') = t + 1
        /\ DroppingAll' = DroppingAll
        /\ \A p \in Peers : Cardinality(Live(p)') =
             Cardinality(Live(p)) + (IF stream.owner = p THEN 1 ELSE 0)
    BY <1>a, SpawnSets
  <2>b. counts' = counts /\ permits' = permits
    BY DEF Spawn
  <2>4. CountsExact'
    BY <2>1, <1>c, <2>a, <2>b DEF CountsExact, InHand
  <2>5. CapKept'
    BY <2>1, <1>c, <2>a DEF CapKept, Spawning
  <2>6. PermitsBalance'
    BY <2>1, <1>a, <2>a, <2>b DEF PermitsBalance
  <2>7. ThreadsEnough'
    BY <2>1, <1>b, <2>a DEF ThreadsEnough, Busy
  <2> QED
    BY <2>2, <2>3, <2>4, <2>5, <2>6, <2>7
<1>6. CASE Ignore
  <2> USE <1>6, TasksUnchanged DEF Ignore
  <2>1. stream.owner \in Peers /\ pc = "spawn" /\ pc' = "refund"
    BY DEF OwnersKnown
  <2>2. TypeOK'
    BY <2>1 DEF Stages
  <2>3. OwnersKnown' /\ CountsExact'
    BY <2>1 DEF OwnersKnown, CountsExact, InHand
  <2>4. CapKept'
    BY <2>1, <1>c DEF CapKept, Spawning
  <2>5. PermitsBalance' /\ ThreadsEnough'
    BY <2>1 DEF PermitsBalance, ThreadsEnough, Busy
  <2> QED
    BY <2>2, <2>3, <2>4, <2>5
<1>7. CASE Refund
  <2> USE <1>7, TasksUnchanged DEF Refund
  <2>1. stream.owner \in Peers /\ pc = "refund" /\ pc' = "release"
    BY DEF OwnersKnown
  <2>2. TypeOK'
    BY <2>1 DEF Stages
  <2>3. OwnersKnown'
    BY <2>1 DEF OwnersKnown
  <2>4. CountsExact' /\ CapKept'
    BY <2>1, <1>c DEF CountsExact, InHand, CapKept, Spawning
  <2>5. PermitsBalance' /\ ThreadsEnough'
    BY <2>1 DEF PermitsBalance, ThreadsEnough, Busy
  <2> QED
    BY <2>2, <2>3, <2>4, <2>5
<1>8. CASE Release
  <2> USE <1>8, TasksUnchanged DEF Release
  <2>1. pc = "release" /\ pc' = "accept"
    OBVIOUS
  <2>2. permits' = permits + 1 /\ permits + t + 1 = MaxFlows
    BY <2>1, <1>a DEF PermitsBalance
  <2>3. TypeOK'
    BY <2>1, <2>2 DEF Stages, NoStream, Streams, Kinds
  <2>4. OwnersKnown' /\ CountsExact' /\ CapKept'
    BY <2>1, <1>c DEF OwnersKnown, CountsExact, InHand, CapKept, Spawning
  <2>5. PermitsBalance'
    BY <2>1, <2>2, <1>a DEF PermitsBalance
  <2>6. ThreadsEnough'
    BY <2>1, <1>b DEF ThreadsEnough, Busy
  <2> QED
    BY <2>3, <2>4, <2>5, <2>6
<1>9. ASSUME NEW f \in Flows, End(f) PROVE IInv'
  <2> USE <1>9
  <2>a. /\ Tasks' = Tasks
        /\ Cardinality(DroppingAll') = d + 1
        /\ flow[f].owner \in Peers
        /\ \A p \in Peers : Cardinality(Live(p)') =
             Cardinality(Live(p)) - (IF flow[f].owner = p THEN 1 ELSE 0)
    BY <1>b, EndSets
  <2>b. /\ counts' = [counts EXCEPT ![flow[f].owner] = @ - 1]
        /\ pc' = pc /\ stream' = stream /\ permits' = permits
        /\ Busy < Threads
    BY DEF End, ThreadFree
  <2>1. flow[f].owner \in Peers
    BY <2>a
  <2>2. TypeOK'
    BY <2>1 DEF End, FlowStages
  <2>3. OwnersKnown'
    BY <2>1 DEF OwnersKnown, End
  <2>4. CountsExact'
    <3> SUFFICES ASSUME NEW p \in Peers
                 PROVE  counts'[p] = Cardinality(Live(p)') + InHand(p)'
      BY DEF CountsExact
    <3>1. counts[p] = Cardinality(Live(p)) + InHand(p) /\ Cardinality(Live(p)) \in Nat
      BY <1>c DEF CountsExact
    <3>2. InHand(p)' = InHand(p) /\ InHand(p) \in Int
      BY <2>b DEF InHand
    <3>3. counts'[p] = counts[p] - (IF flow[f].owner = p THEN 1 ELSE 0)
      BY <2>b, <2>1
    <3>4. Cardinality(Live(p)') = Cardinality(Live(p)) - (IF flow[f].owner = p THEN 1 ELSE 0)
      BY <2>a
    <3> QED
      BY <3>1, <3>2, <3>3, <3>4
  <2>5. CapKept'
    <3> SUFFICES ASSUME NEW p \in Peers
                 PROVE  Cardinality(Live(p)') + Spawning(p)' <= MaxFlowsPerPeer
      BY DEF CapKept, Spawning
    <3>1. Cardinality(Live(p)) + Spawning(p) <= MaxFlowsPerPeer
      BY DEF CapKept, Spawning
    <3>2. Spawning(p)' = Spawning(p) /\ Spawning(p) \in Int
      BY <2>b DEF Spawning
    <3>3. Cardinality(Live(p)') \in Int /\ Cardinality(Live(p)') <= Cardinality(Live(p))
      BY <1>c, <2>a
    <3> QED
      BY <1>c, <3>1, <3>2, <3>3, FlowTableAssumption
  <2>6. PermitsBalance'
    BY <1>a, <2>a, <2>b DEF PermitsBalance
  <2>7. ThreadsEnough'
    BY <1>b, <2>a, <2>b DEF ThreadsEnough, Busy
  <2> QED
    BY <2>2, <2>3, <2>4, <2>5, <2>6, <2>7
<1>10. ASSUME NEW f \in Flows, Free(f) PROVE IInv'
  <2> USE <1>10
  <2>a. /\ Cardinality(Tasks') = t - 1
        /\ Cardinality(DroppingAll') = d - 1
        /\ \A p \in Peers : Live(p)' = Live(p)
    BY <1>a, <1>b, FreeSets
  <2>b. /\ permits' = permits + 1 /\ pc' = pc /\ stream' = stream /\ counts' = counts
        /\ flow[f].stage = "dropping"
    BY DEF Free
  <2>1. t # 0
    <3>1. f \in Tasks
      BY <2>b DEF Tasks
    <3> QED
      BY <3>1, <1>a, FS_EmptySet, TaskSetsFinite
  <2>2. permits + t + (IF pc = "accept" THEN 0 ELSE 1) = MaxFlows
    BY <1>a DEF PermitsBalance
  <2>3. TypeOK'
    <3>1. permits' \in 0..MaxFlows
      BY <2>1, <2>2, <2>b
    <3> QED
      BY <3>1, <2>b DEF Free, FlowStages, NoFlow
  <2>4. OwnersKnown'
    BY DEF OwnersKnown, Free, NoFlow
  <2>5. CountsExact' /\ CapKept'
    BY <1>c, <2>a, <2>b DEF CountsExact, InHand, CapKept, Spawning
  <2>6. PermitsBalance'
    BY <2>a, <2>b, <2>2 DEF PermitsBalance
  <2>7. ThreadsEnough'
    BY <1>b, <2>a, <2>b DEF ThreadsEnough, Busy
  <2> QED
    BY <2>3, <2>4, <2>5, <2>6, <2>7
<1>11. CASE UNCHANGED vars
  <2> USE <1>11, TasksUnchanged DEF vars
  <2>1. TypeOK' /\ OwnersKnown' /\ CountsExact'
    BY DEF OwnersKnown, CountsExact, InHand
  <2>2. PermitsBalance' /\ CapKept' /\ ThreadsEnough'
    BY DEF PermitsBalance, CapKept, Spawning, ThreadsEnough, Busy
  <2> QED
    BY <2>1, <2>2
<1> QED
  BY <1>1, <1>2, <1>3, <1>4, <1>5, <1>6, <1>7, <1>8, <1>9, <1>10, <1>11 DEF Next, Loop

(***************************************************************************)
(* Every reachable state satisfies the inductive invariant.                *)
(***************************************************************************)
THEOREM Inductive == Spec => []IInv
<1> QED
  BY InitIInv, NextIInv, PTL DEF Spec

(***************************************************************************)
(* The states of the flow table are well typed: in particular no           *)
(* interleaving of releases pushes the semaphore past MAX_FLOWS or takes a *)
(* permit it does not have.                                                *)
(***************************************************************************)
THEOREM TypeCorrect == Spec => []TypeOK
<1>1. IInv => TypeOK
  BY DEF IInv
<1> QED
  BY <1>1, Inductive, PTL

(***************************************************************************)
(* The counter of every peer is exact (FlowGuard, fetch_add, fetch_sub).   *)
(***************************************************************************)
THEOREM CountsAreExact == Spec => []CountsExact
<1>1. IInv => CountsExact
  BY DEF IInv
<1> QED
  BY <1>1, Inductive, PTL

(***************************************************************************)
(* No permit is lost or made up.                                           *)
(***************************************************************************)
THEOREM PermitsAreBalanced == Spec => []PermitsBalance
<1>1. IInv => PermitsBalance
  BY DEF IInv
<1> QED
  BY <1>1, Inductive, PTL

(***************************************************************************)
(* One peer cannot exhaust the process: beyond its cap it keeps at most    *)
(* one permit per thread.  A guard half dropped and an admission in        *)
(* progress each have a thread to themselves (ThreadsEnough), whichever    *)
(* peer they are for, and CapKept bounds the flows that run.               *)
(***************************************************************************)
THEOREM PeersKeepTheirShare == Spec => []PeerShare
<1>1. ASSUME IInv PROVE PeerShare
  <2> SUFFICES ASSUME NEW p \in Peers
               PROVE  HeldBy(p) <= MaxFlowsPerPeer + Threads
    BY DEF PeerShare
  <2> USE FlowTableAssumption
  <2>1. Dropping(p) \subseteq DroppingAll
    BY DEF Dropping, DroppingAll
  <2>2. Cardinality(Dropping(p)) \in Nat /\ Cardinality(Dropping(p)) <= Cardinality(DroppingAll)
    BY <2>1, TaskSetsFinite, FS_Subset, FS_CardinalityType
  <2>3. /\ Cardinality(Live(p)) \in Nat /\ Cardinality(DroppingAll) \in Nat
    BY TaskSetsFinite
  <2>4. Cardinality(Live(p)) <= MaxFlowsPerPeer
    BY <1>1, <2>3 DEF IInv, CapKept, Spawning
  <2>5. Cardinality(DroppingAll) + (IF pc = "accept" THEN 0 ELSE 1) <= Threads
    BY <1>1 DEF IInv, ThreadsEnough, Busy
  <2> QED
    BY <2>2, <2>3, <2>4, <2>5 DEF HeldBy
<1> QED
  BY <1>1, Inductive, PTL

(***************************************************************************)
(* A cap refusal happens exactly when the peer runs its full set of flows. *)
(***************************************************************************)
THEOREM CapRefusalsAreJustified == Spec => CapRefusalsAreDue
<1> DEFINE Due == (pc = "charge" /\ pc' # "charge") =>
                    (pc' = "refund" <=> Cardinality(Live(stream.owner)) = MaxFlowsPerPeer)
<1>1. ASSUME IInv, [Next]_vars PROVE [Due]_vars
  <2> SUFFICES ASSUME pc = "charge", pc' # "charge" PROVE Due
    OBVIOUS
  <2>1. Charge
    BY <1>1 DEF Next, Loop, Arrive, Refuse, Acquire, Spawn, Ignore, Refund, Release, End, Free, vars
  <2>2. stream.owner \in Peers
    BY <1>1 DEF IInv, OwnersKnown
  <2>3. counts[stream.owner] = Cardinality(Live(stream.owner))
    <3>1. InHand(stream.owner) = 0
      BY DEF InHand
    <3>2. Cardinality(Live(stream.owner)) \in Nat
      BY <2>2, TaskSetsFinite
    <3> QED
      BY <3>1, <3>2, <2>2, <1>1 DEF IInv, CountsExact
  <2>4. /\ Cardinality(Live(stream.owner)) \in Nat
        /\ Cardinality(Live(stream.owner)) <= MaxFlowsPerPeer
    <3>1. Cardinality(Live(stream.owner)) \in Nat
      BY <2>2, TaskSetsFinite
    <3> QED
      BY <3>1, <2>2, <1>1, FlowTableAssumption DEF IInv, CapKept, Spawning
  <2> QED
    BY <2>1, <2>3, <2>4, FlowTableAssumption DEF Charge
<1> QED
  BY <1>1, Inductive, PTL DEF Spec, CapRefusalsAreDue

=============================================================================
