------------------------------ MODULE FlowTable ------------------------------
(***************************************************************************)
(* The flow table of the server (crates/server/src/lib.rs): the loop that  *)
(* takes streams from the userspace stack, the semaphore that bounds all   *)
(* flows, the atomic counter that bounds the flows of one peer, and the    *)
(* FlowGuard whose Drop gives both back when a flow task ends.             *)
(*                                                                         *)
(* The loop and every ending flow task run on the threads of the runtime,  *)
(* in parallel.  Each access to the semaphore or to a counter is one step, *)
(* so the fetch_add / compare / fetch_sub of an admission interleaves with *)
(* the fetch_sub and the later release of a permit of the guards that are  *)
(* being dropped.                                                          *)
(***************************************************************************)
EXTENDS Integers, Sequences, FiniteSets

CONSTANTS
  Peers,            \* configured peers
  Nobody,           \* the owner of a source address outside every allowed_ips
  Flows,            \* identities of flow tasks, reused once a task is gone
  MaxFlows,         \* MAX_FLOWS, the permits of the semaphore
  MaxFlowsPerPeer,  \* MAX_FLOWS_PER_PEER
  Threads,          \* threads a task may be running on: the workers, and
                    \* those whose worker block_in_place has handed on
  MaxBacklog        \* model bound: streams waiting in accept_receiver

ASSUME FlowTableAssumption ==
  /\ Nobody \notin Peers
  /\ IsFiniteSet(Flows)
  /\ MaxFlows \in Nat \ {0}
  /\ MaxFlowsPerPeer \in Nat \ {0}
  /\ Threads \in Nat \ {0}
  /\ MaxBacklog \in Nat \ {0}
  /\ Cardinality(Flows) >= MaxFlows

VARIABLES
  backlog,  \* streams the stack has announced, oldest first
  pc,       \* where the accept loop is between two shared accesses
  stream,   \* the stream in its hands
  permits,  \* available permits of the semaphore `flows`
  counts,   \* `counts`, the flows charged to each peer
  flow      \* the flow tasks: their stage and the peer their guard charges

vars == <<backlog, pc, stream, permits, counts, flow>>

Kinds == {"tcp", "udp", "other"}

\* A stream: the peer owning its source (peer_for), whether allowed_dst
\* accepts its destination, and its transport.
Streams == [owner : Peers \cup {Nobody}, dstOk : BOOLEAN, kind : Kinds]

\* "accept": awaiting a stream.  "charge": holds a permit, fetch_add is next.
\* "spawn": admitted, owns a FlowGuard.  "refund": fetch_sub is next, for a
\* refused stream or for the guard of an ignored one.  "release": the counter
\* is restored, the permit is still held.
Stages == {"accept", "charge", "spawn", "refund", "release"}

\* "live": the task runs and owns its guard.  "dropping": Drop::drop has
\* decremented the counter, the permit field is not dropped yet.
FlowStages == {"none", "live", "dropping"}

NoFlow == [stage |-> "none", owner |-> Nobody]
NoStream == [owner |-> Nobody, dstOk |-> FALSE, kind |-> "other"]

TypeOK ==
  /\ backlog \in Seq(Streams)
  /\ pc \in Stages
  /\ stream \in Streams
  /\ permits \in 0..MaxFlows
  /\ counts \in [Peers -> Int]
  /\ flow \in [Flows -> [stage : FlowStages, owner : Peers \cup {Nobody}]]

Init ==
  /\ backlog = <<>>
  /\ pc = "accept"
  /\ stream = NoStream
  /\ permits = MaxFlows
  /\ counts = [p \in Peers |-> 0]
  /\ flow = [f \in Flows |-> NoFlow]

-----------------------------------------------------------------------------

Live(p) == {f \in Flows : flow[f].stage = "live" /\ flow[f].owner = p}
Dropping(p) == {f \in Flows : flow[f].stage = "dropping" /\ flow[f].owner = p}
DroppingAll == {f \in Flows : flow[f].stage = "dropping"}
Tasks == {f \in Flows : flow[f].stage # "none"}

\* Neither the body of the accept loop nor the drop of a guard awaits, so
\* whoever is in the middle of one has a thread to itself.  A TCP stream drops
\* in block_in_place (tcp.rs:449-452), which starts another thread for the
\* worker: the threads may be more than the workers.
Busy == Cardinality(DroppingAll) + (IF pc = "accept" THEN 0 ELSE 1)
ThreadFree == Busy < Threads

-----------------------------------------------------------------------------

\* The stack announces a stream (accept_sender, unbounded in the code).
Arrive(s) ==
  /\ Len(backlog) < MaxBacklog
  /\ backlog' = Append(backlog, s)
  /\ UNCHANGED <<pc, stream, permits, counts, flow>>

\* A destination allowed_dst rejects, a source nobody owns, or no permit left:
\* the stream is dropped and the loop continues.
Refusable(s) == ~s.dstOk \/ s.owner = Nobody \/ permits = 0

Refuse ==
  /\ pc = "accept" /\ backlog # <<>> /\ ThreadFree
  /\ Refusable(Head(backlog))
  /\ backlog' = Tail(backlog)
  /\ UNCHANGED <<pc, stream, permits, counts, flow>>

\* try_acquire_owned takes a permit.
Acquire ==
  /\ pc = "accept" /\ backlog # <<>> /\ ThreadFree
  /\ ~Refusable(Head(backlog))
  /\ stream' = Head(backlog)
  /\ backlog' = Tail(backlog)
  /\ permits' = permits - 1
  /\ pc' = "charge"
  /\ UNCHANGED <<counts, flow>>

\* Mutation: the cap compared with > instead of >=.
ChargeOffByOne ==
  /\ pc = "charge"
  /\ pc' = IF counts[stream.owner] > MaxFlowsPerPeer THEN "refund" ELSE "spawn"
  /\ counts' = [counts EXCEPT ![stream.owner] = @ + 1]
  /\ UNCHANGED <<backlog, stream, permits, flow>>

\* Mutation: no cap, only the table is bounded.
ChargeNoCap ==
  /\ pc = "charge"
  /\ pc' = "spawn"
  /\ counts' = [counts EXCEPT ![stream.owner] = @ + 1]
  /\ UNCHANGED <<backlog, stream, permits, flow>>

\* fetch_add returns the old value; at the cap the stream is refused.
Charge ==
  /\ pc = "charge"
  /\ pc' = IF counts[stream.owner] >= MaxFlowsPerPeer THEN "refund" ELSE "spawn"
  /\ counts' = [counts EXCEPT ![stream.owner] = @ + 1]
  /\ UNCHANGED <<backlog, stream, permits, flow>>

\* The guard moves into the task of a TCP or UDP flow...
Spawn(f) ==
  /\ pc = "spawn" /\ stream.kind \in {"tcp", "udp"}
  /\ flow[f] = NoFlow
  /\ flow' = [flow EXCEPT ![f] = [stage |-> "live", owner |-> stream.owner]]
  /\ pc' = "accept"
  /\ stream' = NoStream
  /\ UNCHANGED <<backlog, permits, counts>>

\* ...and any other transport is ignored, which drops the guard in the loop.
Ignore ==
  /\ pc = "spawn" /\ stream.kind = "other"
  /\ pc' = "refund"
  /\ UNCHANGED <<backlog, stream, permits, counts, flow>>

\* Mutation: the refused stream keeps its charge.
RefundNothing ==
  /\ pc = "refund"
  /\ pc' = "release"
  /\ UNCHANGED <<backlog, stream, permits, counts, flow>>

\* The fetch_sub of a refusal, or of the guard dropped by the loop.
Refund ==
  /\ pc = "refund"
  /\ counts' = [counts EXCEPT ![stream.owner] = @ - 1]
  /\ pc' = "release"
  /\ UNCHANGED <<backlog, stream, permits, flow>>

\* The permit of that stream goes back and the loop awaits the next one.
Release ==
  /\ pc = "release"
  /\ permits' = permits + 1
  /\ pc' = "accept"
  /\ stream' = NoStream
  /\ UNCHANGED <<backlog, counts, flow>>

\* Mutation: the permit is released together with the counter and again by the
\* drop of the field.
EndReleasesPermit(f) ==
  /\ flow[f].stage = "live" /\ ThreadFree
  /\ counts' = [counts EXCEPT ![flow[f].owner] = @ - 1]
  /\ permits' = permits + 1
  /\ flow' = [flow EXCEPT ![f] = [stage |-> "dropping", owner |-> @.owner]]
  /\ UNCHANGED <<backlog, pc, stream>>

\* Mutation: the guard of the task is forgotten, not dropped.
EndForgetsGuard(f) ==
  /\ flow[f].stage = "live" /\ ThreadFree
  /\ flow' = [flow EXCEPT ![f] = [stage |-> "dropping", owner |-> @.owner]]
  /\ UNCHANGED <<backlog, pc, stream, permits, counts>>

\* A flow task ends, by returning or by panicking, or never does:
\* FlowGuard::drop first...
End(f) ==
  /\ flow[f].stage = "live" /\ ThreadFree
  /\ counts' = [counts EXCEPT ![flow[f].owner] = @ - 1]
  /\ flow' = [flow EXCEPT ![f] = [stage |-> "dropping", owner |-> @.owner]]
  /\ UNCHANGED <<backlog, pc, stream, permits>>

\* ...and then the drop of its `_permit` field.
Free(f) ==
  /\ flow[f].stage = "dropping"
  /\ permits' = permits + 1
  /\ flow' = [flow EXCEPT ![f] = NoFlow]
  /\ UNCHANGED <<backlog, pc, stream, counts>>

Loop == Refuse \/ Acquire \/ Charge \/ (\E f \in Flows : Spawn(f)) \/ Ignore \/ Refund \/ Release

Next ==
  \/ \E s \in Streams : Arrive(s)
  \/ Loop
  \/ \E f \in Flows : End(f) \/ Free(f)

\* The runtime queues ready tasks, so a loop that is ready again and again gets
\* a thread (strong fairness), and a drop once begun goes on.  Whether a flow
\* ever ends is up to its two ends: nothing is assumed of it.
Fairness == SF_vars(Loop) /\ \A f \in Flows : WF_vars(Free(f))

Spec == Init /\ [][Next]_vars

FairSpec == Spec /\ Fairness

-----------------------------------------------------------------------------

\* 1 while the loop holds a charge of peer p that no task owns yet.
InHand(p) == IF pc \in {"spawn", "refund"} /\ stream.owner = p THEN 1 ELSE 0

\* The atomic counter of a peer is the number of its running flows, off by the
\* one charge the accept loop may hold: no path (cap refusal, ignored
\* transport, end of a task) leaks or doubles a decrement.
CountsExact == \A p \in Peers : counts[p] = Cardinality(Live(p)) + InHand(p)

\* Every permit is either in the semaphore or accounted for by a task or by
\* the loop, so the table cannot shrink over time.
PermitsBalance ==
  permits + Cardinality(Tasks) + (IF pc = "accept" THEN 0 ELSE 1) = MaxFlows

\* Permits that flows of p keep from the other peers, half-dropped guards and
\* the admission in progress included.
HeldBy(p) ==
  Cardinality(Live(p)) + Cardinality(Dropping(p)) + (IF pc # "accept" /\ stream.owner = p THEN 1 ELSE 0)

\* "So one peer cannot exhaust the process" (lib.rs:18): a peer keeps at most
\* its cap, plus one permit for every thread that is between the two halves of
\* a guard's drop or in the middle of an admission.
PeerShare == \A p \in Peers : HeldBy(p) <= MaxFlowsPerPeer + Threads

\* A stream is refused at the per-peer cap only while that peer really runs a
\* full set of flows: the transient overcount of an admission never turns
\* away a flow that had room, nor lets one more in.
CapRefusalsAreDue ==
  [][ (pc = "charge" /\ pc' # "charge") =>
        (pc' = "refund" <=> Cardinality(Live(stream.owner)) = MaxFlowsPerPeer) ]_vars

\* Once the stack announces no more streams, only flows that still run keep a
\* permit or a count: whichever flows end, in whatever order, and whichever
\* never do, the rest comes back and stays.
OnlyRunningFlowsCount ==
  <>[][\A s \in Streams : ~Arrive(s)]_vars
    => <>[](/\ \A p \in Peers : counts[p] = Cardinality(Live(p))
            /\ permits + Cardinality({f \in Flows : flow[f].stage = "live"}) = MaxFlows)

-----------------------------------------------------------------------------

\* The parts of the inductive invariant that the properties above need.

\* A stream in the hands of the loop has an owner, and a task charges a peer.
OwnersKnown ==
  /\ pc # "accept" => stream.owner \in Peers
  /\ \A f \in Flows :
       /\ flow[f].stage = "none" => flow[f] = NoFlow
       /\ flow[f].stage # "none" => flow[f].owner \in Peers

\* The flow about to be spawned for p.
Spawning(p) == IF pc = "spawn" /\ stream.owner = p THEN 1 ELSE 0

\* A peer runs no more flows than its cap, the one being spawned included.
CapKept == \A p \in Peers : Cardinality(Live(p)) + Spawning(p) <= MaxFlowsPerPeer

\* There are never more tasks in the middle of a body than threads.
ThreadsEnough == Busy <= Threads

IInv ==
  /\ TypeOK
  /\ OwnersKnown
  /\ CountsExact
  /\ PermitsBalance
  /\ CapKept
  /\ ThreadsEnough

=============================================================================
