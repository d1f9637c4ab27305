----------------------------- MODULE UdpFlowProofs -----------------------------
(***************************************************************************)
(* The answers of a flow are in order, and none that does not fit goes     *)
(* unmarked over IPv4, for any number of flows, upstreams and datagrams.   *)
(* A datagram moves from the stream to the hand of dns_over_tcp and on to  *)
(* the upstream, and its number is above all those before it.              *)
(***************************************************************************)
EXTENDS UdpFlow, TLAPS

\* What a number of a datagram is.
Numbers == 1..MaxSent

\* The state of a task and its hand agree.
Handed(t) == t.hand # 0 <=> t.pc \in {"dial", "exchange"}

\* A step of one flow that leaves a task that is one keeps what is said of tasks.
LEMMA TaskMoves ==
  ASSUME TypeOK, NEW f \in Flows, NEW t \in Tasks, Handed(t), flow' = [flow EXCEPT ![f] = t]
  PROVE  /\ flow' \in [Flows -> Tasks] /\ \A g \in Flows : Handed(flow'[g])
         /\ flow'[f] = t /\ \A g \in Flows \ {f} : flow'[g] = flow[g]
BY DEF TypeOK, Handed

\* The same of a step that gives back its hand, if any.
LEMMA GoesTypes ==
  ASSUME TypeOK, NEW f \in Flows, NEW p \in PCs \ {"dial", "exchange"}, Goes(f, p)
  PROVE  /\ flow' \in [Flows -> Tasks] /\ \A g \in Flows : Handed(flow'[g])
         /\ flow'[f].pc = p /\ flow'[f].hand = 0
         /\ \A g \in Flows \ {f} : flow'[g] = flow[g]
<1> DEFINE t == [flow[f] EXCEPT !.pc = p, !.hand = 0]
<1>1. flow[f] \in Tasks /\ 0 \in 0..MaxSent
  BY UdpFlowAssumption DEF TypeOK
<1>2. t \in Tasks /\ t.pc = p /\ t.hand = 0
  BY <1>1 DEF Tasks
<1>3. flow' = [flow EXCEPT ![f] = t]
  BY DEF Goes, TypeOK
<1> HIDE DEF t
<1>4. Handed(t)
  BY <1>2 DEF Handed
<1> QED BY <1>2, <1>3, <1>4, TaskMoves

\* What an answer is.
LEMMA WriteTypes ==
  ASSUME TypeOK, NEW f \in Flows, NEW n \in Numbers, NEW via \in {"udp", "tcp"},
         NEW size \in Sizes, NEW flag \in BOOLEAN, Write(f, n, via, size, flag)
  PROVE  /\ got' \in [Flows -> Seq(Answers)]
         /\ got'[f] = Append(got[f], [n |-> n, via |-> via, clipped |-> Clipped(f, size), flagged |-> flag])
         /\ \A g \in Flows \ {f} : got'[g] = got[g]
<1> DEFINE a == [n |-> n, via |-> via, clipped |-> Clipped(f, size), flagged |-> flag]
<1>1. Clipped(f, size) \in BOOLEAN
  BY DEF Clipped
<1>2. a \in Answers
  BY <1>1 DEF Answers, Numbers
<1>3. got' = [got EXCEPT ![f] = Append(got[f], a)] /\ got \in [Flows -> Seq(Answers)]
  BY DEF Write, TypeOK
<1> HIDE DEF a
<1>4. Append(got[f], a) \in Seq(Answers)
  BY <1>2, <1>3
<1>5. got' \in [Flows -> Seq(Answers)] /\ got'[f] = Append(got[f], a)
      /\ \A g \in Flows \ {f} : got'[g] = got[g]
  BY <1>3, <1>4
<1> QED BY <1>5 DEF a

-----------------------------------------------------------------------------

\* The initial state has its types.
LEMMA InitTypes == Init => TypeOK
<1> SUFFICES ASSUME Init PROVE TypeOK
  OBVIOUS
<1>1. flow \in [Flows -> Tasks] /\ \A f \in Flows : flow[f].hand # 0 <=> flow[f].pc \in {"dial", "exchange"}
  BY UdpFlowAssumption DEF Init, Tasks, PCs
<1>2. sent \in [Flows -> 0..MaxSent] /\ left \in [Flows -> SUBSET (1..MaxSent)]
      /\ waiting \in [Flows -> SUBSET (1..MaxSent)] /\ failed \in SUBSET Flows /\ no_udp \in SUBSET Upstreams
  BY UdpFlowAssumption DEF Init
<1>3. asks \in [Flows -> Seq(1..MaxSent)] /\ got \in [Flows -> Seq(Answers)]
  BY DEF Init
<1> QED BY <1>1, <1>2, <1>3 DEF TypeOK

\* FallBack names a place without a hand.
LEMMA FallsBack == \A f \in Flows : FallBack(f) \in PCs \ {"dial", "exchange"}
BY DEF FallBack, PCs

\* The head of what waits is a number, and what is behind it are numbers.
LEMMA AsksHead ==
  ASSUME TypeOK, NEW f \in Flows, asks[f] # <<>>
  PROVE  /\ Head(asks[f]) \in Numbers /\ Tail(asks[f]) \in Seq(Numbers)
         /\ Head(asks[f]) = asks[f][1] /\ asks[f] \in Seq(Numbers)
         /\ Len(asks[f]) \in Nat \ {0} /\ Len(Tail(asks[f])) = Len(asks[f]) - 1
         /\ \A i \in 1..(Len(asks[f]) - 1) : Tail(asks[f])[i] = asks[f][i + 1]
<1>1. asks[f] \in Seq(Numbers)
  BY DEF TypeOK, Numbers
<1> QED BY <1>1

\* Each step keeps the types.
LEMMA NextTypes == TypeOK /\ [Next]_vars => TypeOK'
<1> SUFFICES ASSUME TypeOK, [Next]_vars
             PROVE  TypeOK'
  OBVIOUS
<1> USE UdpFlowAssumption
<1>1. ASSUME NEW f \in Flows, Opens(f) PROVE TypeOK'
  <2> DEFINE p == IF Kind[f] = "forced" THEN "read" ELSE "check"
  <2>1. flow[f] \in Tasks /\ p \in PCs /\ p \notin {"dial", "exchange"} /\ flow[f].hand = 0
    BY <1>1 DEF Opens, TypeOK, PCs
  <2>2. flow' = [flow EXCEPT ![f] = [flow[f] EXCEPT !.pc = p]]
    BY <1>1 DEF Opens, TypeOK
  <2> HIDE DEF p
  <2>3. [flow[f] EXCEPT !.pc = p] \in Tasks /\ Handed([flow[f] EXCEPT !.pc = p])
    BY <2>1 DEF Tasks, Handed
  <2>4. flow' \in [Flows -> Tasks] /\ \A g \in Flows : Handed(flow'[g])
    BY <2>2, <2>3, TaskMoves
  <2>5. sent' \in [Flows -> 0..MaxSent] /\ asks' \in [Flows -> Seq(1..MaxSent)]
    <3>1. <<1>> \in Seq(1..MaxSent) /\ 1 \in 0..MaxSent
      OBVIOUS
    <3> QED BY <1>1, <3>1 DEF Opens, TypeOK
  <2> QED BY <1>1, <2>4, <2>5 DEF Opens, TypeOK, Handed
<1>2. ASSUME NEW f \in Flows, PeerSends(f) PROVE TypeOK'
  <2>1. sent[f] + 1 \in 1..MaxSent /\ asks[f] \in Seq(1..MaxSent)
    BY <1>2 DEF PeerSends, TypeOK
  <2>2. Append(asks[f], sent[f] + 1) \in Seq(1..MaxSent)
    BY <2>1
  <2>3. sent' \in [Flows -> 0..MaxSent] /\ asks' \in [Flows -> Seq(1..MaxSent)]
    BY <1>2, <2>1, <2>2 DEF PeerSends, TypeOK
  <2> QED BY <1>2, <2>3 DEF PeerSends, TypeOK
<1>3. ASSUME NEW f \in Flows, Lates(f) PROVE TypeOK'
  <2>1. flow[f] \in Tasks /\ Handed(flow[f])
    BY DEF TypeOK, Handed
  <2>2. flow' = [flow EXCEPT ![f] = [flow[f] EXCEPT !.late = TRUE]]
    BY <1>3 DEF Lates, TypeOK
  <2>3. [flow[f] EXCEPT !.late = TRUE] \in Tasks /\ Handed([flow[f] EXCEPT !.late = TRUE])
    <3>1. flow[f].pc \in PCs /\ flow[f].hand \in 0..MaxSent
      BY <2>1 DEF Tasks
    <3> QED BY <2>1, <3>1 DEF Tasks, Handed
  <2>4. flow' \in [Flows -> Tasks] /\ \A g \in Flows : Handed(flow'[g])
    BY <2>2, <2>3, TaskMoves
  <2> QED BY <1>3, <2>4 DEF Lates, TypeOK, Handed
<1>4. ASSUME NEW f \in Flows, NEW p \in PCs \ {"dial", "exchange"}, Goes(f, p), failed' \in SUBSET Flows
      PROVE  TypeOK'
  <2>1. flow' \in [Flows -> Tasks] /\ \A g \in Flows : Handed(flow'[g])
    BY <1>4, GoesTypes
  <2> QED BY <1>4, <2>1 DEF Goes, TypeOK, Handed
<1>5. ASSUME NEW f \in Flows, Check(f) \/ Associates(f) \/ AssociateTimesOut(f) \/ RelayIdles(f) \/ RelayFails(f)
                              \/ ReadEnds(f) \/ DialFails(f) \/ ExchangeFails(f)
      PROVE  TypeOK'
  <2>1. failed' \in SUBSET Flows
    BY <1>5 DEF TypeOK, Check, Associates, AssociateTimesOut, RelayIdles, RelayFails, ReadEnds, DialFails, ExchangeFails
  <2>2. \E p \in PCs \ {"dial", "exchange"} : Goes(f, p)
    BY <1>5, FallsBack
       DEF PCs, Check, Associates, AssociateTimesOut, RelayIdles, RelayFails, ReadEnds, DialFails, ExchangeFails
  <2> QED BY <1>4, <2>1, <2>2
<1>6. ASSUME NEW f \in Flows, AssociateFails(f) PROVE TypeOK'
  <2>1. flow[f] \in Tasks /\ flow[f].hand = 0
    BY <1>6 DEF AssociateFails, TypeOK
  <2>2. flow' = [flow EXCEPT ![f] = [flow[f] EXCEPT !.pc = FallBack(f)]]
    BY <1>6 DEF AssociateFails, TypeOK
  <2>3. [flow[f] EXCEPT !.pc = FallBack(f)] \in Tasks /\ Handed([flow[f] EXCEPT !.pc = FallBack(f)])
    BY <2>1, FallsBack DEF Handed, Tasks
  <2>4. flow' \in [Flows -> Tasks] /\ \A g \in Flows : Handed(flow'[g])
    BY <2>2, <2>3, TaskMoves
  <2> QED BY <1>6, <2>4 DEF AssociateFails, TypeOK, Handed
<1>7. ASSUME NEW f \in Flows, RelaySends(f) PROVE TypeOK'
  <2>1. Head(asks[f]) \in 1..MaxSent /\ Tail(asks[f]) \in Seq(1..MaxSent)
    BY <1>7, AsksHead DEF RelaySends, HasRead, Numbers
  <2>2. asks' \in [Flows -> Seq(1..MaxSent)] /\ left' \in [Flows -> SUBSET (1..MaxSent)]
        /\ waiting' \in [Flows -> SUBSET (1..MaxSent)]
    BY <1>7, <2>1 DEF RelaySends, TypeOK
  <2> QED BY <1>7, <2>2 DEF RelaySends, TypeOK
<1>8. ASSUME NEW f \in Flows, NEW n \in 1..MaxSent, NEW size \in Sizes, RelayReplies(f, n, size) PROVE TypeOK'
  <2>1. waiting' \in [Flows -> SUBSET (1..MaxSent)]
    BY <1>8 DEF RelayReplies, TypeOK
  <2>2. CASE UNCHANGED <<flow, got>>
    BY <1>8, <2>1, <2>2 DEF RelayReplies, TypeOK
  <2>3. CASE Write(f, n, "udp", size, FALSE) /\ flow' = [flow EXCEPT ![f].late = FALSE]
    <3>1. flow[f] \in Tasks /\ Handed(flow[f])
      BY DEF TypeOK, Handed
    <3>2. flow' = [flow EXCEPT ![f] = [flow[f] EXCEPT !.late = FALSE]]
      BY <2>3 DEF TypeOK
    <3>3. flow[f].pc \in PCs /\ flow[f].hand \in 0..MaxSent
      BY <3>1 DEF Tasks
    <3>4. [flow[f] EXCEPT !.late = FALSE] \in Tasks /\ Handed([flow[f] EXCEPT !.late = FALSE])
      BY <3>1, <3>3 DEF Tasks, Handed
    <3>5. flow' \in [Flows -> Tasks] /\ \A g \in Flows : Handed(flow'[g])
      BY <3>2, <3>4, TaskMoves
    <3>6. got' \in [Flows -> Seq(Answers)]
      BY <2>3, WriteTypes DEF Numbers
    <3> QED BY <1>8, <2>1, <3>5, <3>6 DEF RelayReplies, TypeOK, Handed
  <2> QED BY <1>8, <2>2, <2>3 DEF RelayReplies
<1>9. ASSUME NEW f \in Flows, ReadQuery(f) PROVE TypeOK'
  <2>1. Head(asks[f]) \in 1..MaxSent /\ Tail(asks[f]) \in Seq(1..MaxSent)
    BY <1>9, AsksHead DEF ReadQuery, HasRead, Numbers
  <2> DEFINE h == Head(asks[f])
             t == [flow[f] EXCEPT !.pc = "dial", !.hand = h]
  <2>2. flow[f] \in Tasks /\ flow' = [flow EXCEPT ![f] = t] /\ h \in 1..MaxSent
    BY <1>9, <2>1 DEF ReadQuery, TypeOK
  <2> HIDE DEF h
  <2>3. h # 0 /\ h \in 0..MaxSent /\ "dial" \in PCs
    BY <2>2 DEF PCs
  <2>4. t \in Tasks /\ Handed(t)
    BY <2>2, <2>3 DEF Tasks, Handed
  <2>5. flow' \in [Flows -> Tasks] /\ \A g \in Flows : Handed(flow'[g])
    BY <2>2, <2>4, TaskMoves
  <2>6. asks' \in [Flows -> Seq(1..MaxSent)]
    BY <1>9, <2>1 DEF ReadQuery, TypeOK
  <2> QED BY <1>9, <2>5, <2>6 DEF ReadQuery, TypeOK, Handed
<1>10. ASSUME NEW f \in Flows, Dials(f) PROVE TypeOK'
  <2> DEFINE t == [flow[f] EXCEPT !.pc = "exchange"]
  <2>1. flow[f] \in Tasks /\ flow' = [flow EXCEPT ![f] = t] /\ flow[f].hand \in 1..MaxSent
    BY <1>10 DEF Dials, TypeOK, Tasks
  <2>2. t \in Tasks /\ t.pc = "exchange" /\ t.hand = flow[f].hand
    BY <2>1 DEF Tasks, PCs
  <2>3. Handed(t)
    BY <2>1, <2>2 DEF Handed
  <2>4. flow' \in [Flows -> Tasks] /\ \A g \in Flows : Handed(flow'[g])
    BY <2>1, <2>2, <2>3, TaskMoves
  <2>5. left' \in [Flows -> SUBSET (1..MaxSent)]
    BY <1>10, <2>1 DEF Dials, TypeOK
  <2> QED BY <1>10, <2>4, <2>5 DEF Dials, TypeOK, Handed
<1>11. ASSUME NEW f \in Flows, NEW size \in Sizes, Exchanges(f, size) PROVE TypeOK'
  <2> DEFINE t == [pc |-> "read", hand |-> 0, late |-> FALSE]
  <2>1. t \in Tasks /\ Handed(t)
    BY DEF Tasks, PCs, Handed
  <2>2. flow' = [flow EXCEPT ![f] = t] /\ flow[f].hand \in Numbers
    BY <1>11 DEF Exchanges, TypeOK, Tasks, Numbers
  <2>3. flow' \in [Flows -> Tasks] /\ \A g \in Flows : Handed(flow'[g])
    BY <2>1, <2>2, TaskMoves
  <2>4. got' \in [Flows -> Seq(Answers)]
    <3>1. (size = "over") \in BOOLEAN
      OBVIOUS
    <3> QED BY <1>11, <2>2, <3>1, WriteTypes DEF Exchanges
  <2> QED BY <1>11, <2>3, <2>4 DEF Exchanges, TypeOK, Handed
<1>12. CASE UNCHANGED vars
  BY <1>12 DEF vars, TypeOK
<1> QED BY <1>1, <1>2, <1>3, <1>5, <1>6, <1>7, <1>8, <1>9, <1>10, <1>11, <1>12
        DEF Next, Associate, Relay, Read, Dial, Exchange

\* Every variable stays in its type; a task has a query in its hand exactly
\* between reading it and being done with it.
THEOREM UdpFlowTypes == Spec => []TypeOK
BY InitTypes, NextTypes, PTL DEF Spec

-----------------------------------------------------------------------------

\* What waits has been sent, in order.
AsksInOrder(f) ==
  /\ \A i \in DOMAIN asks[f] : asks[f][i] <= sent[f]
  /\ \A i, j \in DOMAIN asks[f] : i < j => asks[f][i] < asks[f][j]

\* It is younger than the query in hand and whatever left.
AsksYounger(f) ==
  \A i \in DOMAIN asks[f] :
    flow[f].hand < asks[f][i] /\ \A n \in left[f] : n < asks[f][i]

\* What left has been sent; only that is waited for, and answered.
LeftSent(f) ==
  /\ flow[f].hand <= sent[f] /\ \A n \in left[f] : n <= sent[f]
  /\ waiting[f] \subseteq left[f]
  /\ \A i \in DOMAIN got[f] : got[f][i].n \in left[f]

\* The query in hand is younger than what left before it, or is the last that
\* did, and then it has no answer yet.
HandYoungest(f) ==
  /\ flow[f].pc = "dial" => \A n \in left[f] : n < flow[f].hand
  /\ flow[f].pc = "exchange" =>
       /\ flow[f].hand \in left[f]
       /\ \A i \in DOMAIN got[f] : got[f][i].n < flow[f].hand

\* Answers over TCP are to ever younger queries, and none comes before dns_over_tcp.
AnswersAscend(f) ==
  \A i, j \in DOMAIN got[f] : i < j /\ got[f][i].via = "tcp" => got[f][i].n < got[f][j].n
Relaying(f) ==
  flow[f].pc \in {"unborn", "check", "associate", "relay"} =>
    \A i \in DOMAIN got[f] : got[f][i].via = "udp"

\* Before it is opened a flow has nothing.
Fresh(f) == flow[f].pc = "unborn" => sent[f] = 0 /\ asks[f] = <<>> /\ left[f] = {}

Kept(f) ==
  /\ AsksInOrder(f) /\ AsksYounger(f) /\ LeftSent(f)
  /\ HandYoungest(f) /\ AnswersAscend(f) /\ Relaying(f) /\ Fresh(f)

IInv == TypeOK /\ \A f \in Flows : Kept(f)

\* The parts of the state of a flow.
Same(f) ==
  /\ flow'[f] = flow[f] /\ sent'[f] = sent[f] /\ asks'[f] = asks[f]
  /\ left'[f] = left[f] /\ waiting'[f] = waiting[f] /\ got'[f] = got[f]

\* A flow that does not move keeps what is said of it.
LEMMA SameKeeps == ASSUME NEW f \in Flows, Kept(f), Same(f) PROVE Kept(f)'
BY DEF Same, Kept, AsksInOrder, AsksYounger, LeftSent, HandYoungest, AnswersAscend, Relaying, Fresh

\* Nor does one that only goes to a place without a hand.
LEMMA GoesKeeps ==
  ASSUME TypeOK, NEW f \in Flows, Kept(f), flow[f].pc \notin {"unborn"},
         flow'[f].hand = 0, flow'[f].pc \notin {"unborn", "dial", "exchange"},
         flow'[f].pc \in {"check", "associate", "relay"} => flow[f].pc \in {"check", "associate", "relay"},
         sent'[f] = sent[f], asks'[f] = asks[f], left'[f] = left[f],
         waiting'[f] = waiting[f], got'[f] = got[f]
  PROVE  Kept(f)'
<1>1. asks[f] \in Seq(Nat \ {0}) /\ sent[f] \in Nat
  <2>1. asks[f] \in Seq(1..MaxSent)
    BY DEF TypeOK
  <2> QED BY <2>1, UdpFlowAssumption DEF TypeOK
<1>2. AsksInOrder(f)' /\ HandYoungest(f)' /\ AnswersAscend(f)' /\ Fresh(f)' /\ Relaying(f)'
  BY DEF Kept, AsksInOrder, HandYoungest, AnswersAscend, Fresh, Relaying
<1>3. LeftSent(f)'
  BY <1>1 DEF Kept, LeftSent
<1>4. AsksYounger(f)'
  BY <1>1 DEF Kept, AsksYounger
<1> QED BY <1>2, <1>3, <1>4 DEF Kept

\* A first datagram, or one more.
LEMMA OpensKeeps == ASSUME IInv, TypeOK', NEW f \in Flows, Opens(f) PROVE Kept(f)'
<1>1. sent'[f] = 1 /\ asks'[f] = <<1>> /\ left'[f] = {} /\ got'[f] = got[f] /\ waiting'[f] \subseteq {}
  BY DEF Opens, TypeOK, IInv, Kept, Fresh, LeftSent
<1>2. flow'[f].pc \in {"read", "check"} /\ flow'[f].hand = 0
  BY DEF Opens, TypeOK, IInv
<1>3. DOMAIN asks'[f] = {1} /\ asks'[f][1] = 1
  BY <1>1
<1>4. DOMAIN got[f] = {}
  <2>1. \A i \in DOMAIN got[f] : got[f][i].n \in {}
    BY DEF IInv, Kept, Fresh, LeftSent, Opens
  <2> QED BY <2>1
<1>5. AsksInOrder(f)' /\ AsksYounger(f)' /\ LeftSent(f)'
  BY <1>1, <1>2, <1>3, <1>4 DEF AsksInOrder, AsksYounger, LeftSent
<1>6. HandYoungest(f)' /\ AnswersAscend(f)' /\ Relaying(f)' /\ Fresh(f)'
  BY <1>1, <1>2, <1>4 DEF HandYoungest, AnswersAscend, Relaying, Fresh
<1> QED BY <1>5, <1>6 DEF Kept

\* One datagram more is younger than all before it.
LEMMA PeerSendsKeeps == ASSUME IInv, NEW f \in Flows, PeerSends(f) PROVE Kept(f)'
<1> DEFINE q == asks[f]
           n == sent[f] + 1
<1>1. asks[f] \in Seq(1..MaxSent) /\ sent[f] \in Nat /\ n \in 1..MaxSent
  BY UdpFlowAssumption DEF IInv, TypeOK, PeerSends
<1>2. asks'[f] = Append(q, n) /\ sent'[f] = n /\ flow' = flow /\ left' = left /\ waiting' = waiting /\ got' = got
  BY DEF PeerSends, IInv, TypeOK
<1>3. DOMAIN Append(q, n) = 1..(Len(q) + 1) /\ DOMAIN q = 1..Len(q) /\ Len(q) \in Nat
      /\ Append(q, n)[Len(q) + 1] = n /\ (\A i \in 1..Len(q) : Append(q, n)[i] = q[i] /\ q[i] \in Nat)
  <2>1. q \in Seq(Nat) /\ n \in Nat
    BY <1>1, UdpFlowAssumption
  <2> HIDE DEF q, n
  <2>2. DOMAIN Append(q, n) = 1..(Len(q) + 1) /\ DOMAIN q = 1..Len(q) /\ Len(q) \in Nat
    BY <2>1
  <2>3. Append(q, n)[Len(q) + 1] = n
    BY <2>1
  <2>4. \A i \in 1..Len(q) : Append(q, n)[i] = q[i] /\ q[i] \in Nat
    BY <2>1
  <2> QED BY <2>2, <2>3, <2>4
<1> HIDE DEF q
<1>4. \A i \in 1..Len(q) : q[i] < n
  BY <1>1, <1>3 DEF IInv, Kept, AsksInOrder, q
<1>5. AsksInOrder(f)'
  <2>1. \A i \in 1..(Len(q) + 1) : Append(q, n)[i] <= n
    <3> SUFFICES ASSUME NEW i \in 1..(Len(q) + 1) PROVE Append(q, n)[i] <= n
      OBVIOUS
    <3>1. CASE i = Len(q) + 1
      BY <1>1, <1>3, <3>1
    <3>2. CASE i # Len(q) + 1
      <4>1. i \in 1..Len(q)
        BY <1>3, <3>2
      <4> QED BY <1>1, <1>3, <1>4, <4>1
    <3> QED BY <3>1, <3>2
  <2>2. \A i, j \in 1..(Len(q) + 1) : i < j => Append(q, n)[i] < Append(q, n)[j]
    <3> SUFFICES ASSUME NEW i \in 1..(Len(q) + 1), NEW j \in 1..(Len(q) + 1), i < j
                 PROVE  Append(q, n)[i] < Append(q, n)[j]
      OBVIOUS
    <3>1. i \in 1..Len(q)
      BY <1>3
    <3>2. CASE j = Len(q) + 1
      BY <1>3, <1>4, <3>1, <3>2
    <3>3. CASE j # Len(q) + 1
      <4>1. j \in 1..Len(q)
        BY <1>3, <3>3
      <4> QED BY <1>3, <3>1, <4>1 DEF IInv, Kept, AsksInOrder, q
    <3> QED BY <3>2, <3>3
  <2> QED BY <1>2, <1>3, <2>1, <2>2 DEF AsksInOrder
<1>6. AsksYounger(f)'
  <2>1. flow[f].hand < n /\ \A m \in left[f] : m < n
    <3>1. flow[f].hand \in Nat /\ \A m \in left[f] : m \in Nat
      BY UdpFlowAssumption DEF IInv, TypeOK, Tasks
    <3> QED BY <1>1, <3>1 DEF IInv, Kept, LeftSent
  <2>2. \A i \in 1..(Len(q) + 1) :
          flow[f].hand < Append(q, n)[i] /\ \A m \in left[f] : m < Append(q, n)[i]
    <3> SUFFICES ASSUME NEW i \in 1..(Len(q) + 1)
                 PROVE  flow[f].hand < Append(q, n)[i] /\ \A m \in left[f] : m < Append(q, n)[i]
      OBVIOUS
    <3>1. CASE i = Len(q) + 1
      BY <1>3, <2>1, <3>1
    <3>2. CASE i # Len(q) + 1
      <4>1. i \in 1..Len(q)
        BY <1>3, <3>2
      <4> QED BY <1>3, <4>1 DEF IInv, Kept, AsksYounger, q
    <3> QED BY <3>1, <3>2
  <2> QED BY <1>2, <1>3, <2>2 DEF AsksYounger
<1>7. LeftSent(f)'
  <2>1. flow[f].hand \in Nat /\ \A m \in left[f] : m \in Nat
    BY UdpFlowAssumption DEF IInv, TypeOK, Tasks
  <2> QED BY <1>1, <1>2, <2>1 DEF IInv, Kept, LeftSent
<1>8. HandYoungest(f)' /\ AnswersAscend(f)' /\ Relaying(f)' /\ Fresh(f)'
  BY <1>2 DEF PeerSends, IInv, Kept, HandYoungest, AnswersAscend, Relaying, Fresh
<1> QED BY <1>5, <1>6, <1>7, <1>8 DEF Kept

-----------------------------------------------------------------------------

\* Taking the oldest of what waits: it is younger than all before it, and
\* older than the rest.
LEMMA HeadOldest ==
  ASSUME IInv, NEW f \in Flows, asks[f] # <<>>
  PROVE  /\ Head(asks[f]) \in Nat /\ Head(asks[f]) <= sent[f] /\ flow[f].hand < Head(asks[f])
         /\ \A n \in left[f] : n < Head(asks[f])
         /\ \A i \in DOMAIN Tail(asks[f]) :
              /\ Tail(asks[f])[i] <= sent[f] /\ Head(asks[f]) < Tail(asks[f])[i]
              /\ \A n \in left[f] : n < Tail(asks[f])[i]
         /\ \A i, j \in DOMAIN Tail(asks[f]) : i < j => Tail(asks[f])[i] < Tail(asks[f])[j]
<1> DEFINE q == asks[f]
           t == Tail(asks[f])
<1>1. q \in Seq(1..MaxSent) /\ Len(q) \in Nat \ {0} /\ DOMAIN q = 1..Len(q) /\ Head(q) = q[1]
      /\ DOMAIN t = 1..(Len(q) - 1) /\ (\A i \in 1..(Len(q) - 1) : t[i] = q[i + 1])
  BY DEF IInv, TypeOK
<1>2. 1 \in DOMAIN q /\ q[1] \in Nat
  BY <1>1, UdpFlowAssumption
<1>3. \A i \in DOMAIN q : q[i] <= sent[f] /\ flow[f].hand < q[i] /\ \A n \in left[f] : n < q[i]
  BY DEF IInv, Kept, AsksInOrder, AsksYounger
<1>4. \A i, j \in DOMAIN q : i < j => q[i] < q[j]
  BY DEF IInv, Kept, AsksInOrder
<1> HIDE DEF q, t
<1>5. \A i \in DOMAIN t : i + 1 \in DOMAIN q /\ 1 < i + 1 /\ t[i] = q[i + 1]
  BY <1>1
<1>6. \A i, j \in DOMAIN t : i < j => i + 1 < j + 1
  BY <1>1
<1>7. Head(q) \in Nat /\ Head(q) <= sent[f] /\ flow[f].hand < Head(q) /\ \A n \in left[f] : n < Head(q)
  BY <1>1, <1>2, <1>3
<1>8. \A i \in DOMAIN t : t[i] <= sent[f] /\ Head(q) < t[i] /\ \A n \in left[f] : n < t[i]
  BY <1>1, <1>2, <1>3, <1>4, <1>5
<1>9. \A i, j \in DOMAIN t : i < j => t[i] < t[j]
  BY <1>4, <1>5, <1>6
<1> QED BY <1>7, <1>8, <1>9 DEF q, t

\* The relay sends the oldest.
LEMMA RelaySendsKeeps == ASSUME IInv, NEW f \in Flows, RelaySends(f) PROVE Kept(f)'
<1> DEFINE h == Head(asks[f])
           t == Tail(asks[f])
<1>1. asks[f] # <<>> /\ flow[f].pc = "relay"
  BY DEF RelaySends, HasRead
<1>2. asks'[f] = t /\ left'[f] = left[f] \cup {h} /\ waiting'[f] = waiting[f] \cup {h}
      /\ flow' = flow /\ sent' = sent /\ got' = got
  BY DEF RelaySends, IInv, TypeOK
<1>3. h \in Nat /\ h <= sent[f] /\ (\A n \in left[f] : n < h)
      /\ \A i \in DOMAIN t : /\ t[i] <= sent[f] /\ h < t[i] /\ \A n \in left[f] : n < t[i]
  BY <1>1, HeadOldest
<1>4. \A i, j \in DOMAIN t : i < j => t[i] < t[j]
  BY <1>1, HeadOldest
<1>5. flow[f].hand = 0
  BY <1>1 DEF IInv, TypeOK
<1> HIDE DEF h, t
<1>6. \A i \in DOMAIN t : 0 < t[i]
  <2>1. t \in Seq(1..MaxSent)
    BY <1>1, AsksHead DEF IInv, Numbers, t
  <2> QED BY <2>1, UdpFlowAssumption
<1>7. AsksInOrder(f)' /\ AsksYounger(f)'
  BY <1>2, <1>3, <1>4, <1>5, <1>6 DEF AsksInOrder, AsksYounger
<1>8. LeftSent(f)'
  BY <1>2, <1>3 DEF IInv, Kept, LeftSent
<1>9. HandYoungest(f)' /\ AnswersAscend(f)' /\ Relaying(f)' /\ Fresh(f)'
  BY <1>1, <1>2 DEF IInv, Kept, HandYoungest, AnswersAscend, Relaying, Fresh
<1> QED BY <1>7, <1>8, <1>9 DEF Kept

\* dns_over_tcp takes the oldest in hand.
LEMMA ReadQueryKeeps == ASSUME IInv, NEW f \in Flows, ReadQuery(f) PROVE Kept(f)'
<1> DEFINE h == Head(asks[f])
           t == Tail(asks[f])
<1>1. asks[f] # <<>> /\ flow[f].pc = "read"
  BY DEF ReadQuery, HasRead
<1>2. asks'[f] = t /\ flow'[f].pc = "dial" /\ flow'[f].hand = h
      /\ left' = left /\ waiting' = waiting /\ sent' = sent /\ got' = got
  BY DEF ReadQuery, IInv, TypeOK, Tasks
<1>3. h \in Nat /\ h <= sent[f] /\ (\A n \in left[f] : n < h)
      /\ \A i \in DOMAIN t : /\ t[i] <= sent[f] /\ h < t[i] /\ \A n \in left[f] : n < t[i]
  BY <1>1, HeadOldest
<1>4. \A i, j \in DOMAIN t : i < j => t[i] < t[j]
  BY <1>1, HeadOldest
<1> HIDE DEF h, t
<1>5. AsksInOrder(f)' /\ AsksYounger(f)'
  BY <1>2, <1>3, <1>4 DEF AsksInOrder, AsksYounger
<1>6. LeftSent(f)'
  BY <1>2, <1>3 DEF IInv, Kept, LeftSent
<1>7. HandYoungest(f)' /\ AnswersAscend(f)' /\ Relaying(f)' /\ Fresh(f)'
  BY <1>1, <1>2, <1>3 DEF IInv, Kept, HandYoungest, AnswersAscend, Relaying, Fresh
<1> QED BY <1>5, <1>6, <1>7 DEF Kept

\* The query in hand leaves: it is the youngest that did, and has no answer.
LEMMA DialsKeeps == ASSUME IInv, NEW f \in Flows, Dials(f) PROVE Kept(f)'
<1>1. flow'[f].pc = "exchange" /\ flow'[f].hand = flow[f].hand /\ left'[f] = left[f] \cup {flow[f].hand}
      /\ asks' = asks /\ sent' = sent /\ waiting' = waiting /\ got' = got /\ flow[f].pc = "dial"
  BY DEF Dials, IInv, TypeOK, Tasks
<1>2. AsksInOrder(f)' /\ AsksYounger(f)'
  BY <1>1 DEF IInv, Kept, AsksInOrder, AsksYounger
<1>3. LeftSent(f)'
  BY <1>1 DEF IInv, Kept, LeftSent
<1>4. HandYoungest(f)'
  BY <1>1 DEF IInv, Kept, LeftSent, HandYoungest
<1>5. AnswersAscend(f)' /\ Relaying(f)' /\ Fresh(f)'
  BY <1>1 DEF IInv, Kept, AnswersAscend, Relaying, Fresh
<1> QED BY <1>2, <1>3, <1>4, <1>5 DEF Kept

\* Its answer is younger than those before it.
LEMMA ExchangesKeeps ==
  ASSUME IInv, NEW f \in Flows, NEW size \in Sizes, Exchanges(f, size)
  PROVE  Kept(f)'
<1> DEFINE h == flow[f].hand
           a == [n |-> h, via |-> "tcp", clipped |-> Clipped(f, size), flagged |-> (size = "over")]
           q == got[f]
<1>1. flow[f].pc = "exchange" /\ h \in Numbers /\ h \in left[f] /\ \A i \in DOMAIN q : q[i].n < h
  BY DEF Exchanges, IInv, TypeOK, Tasks, Numbers, Kept, HandYoungest
<1>2. got'[f] = Append(q, a)
  <2>1. (size = "over") \in BOOLEAN
    OBVIOUS
  <2> QED BY <1>1, <2>1, WriteTypes DEF IInv, Exchanges
<1>3. flow'[f].pc = "read" /\ flow'[f].hand = 0
      /\ asks' = asks /\ sent' = sent /\ waiting' = waiting /\ left' = left
  BY DEF Exchanges, IInv, TypeOK
<1>4. a.n = h /\ a.via = "tcp"
  OBVIOUS
<1>5. q \in Seq(Answers)
  BY DEF IInv, TypeOK
<1> HIDE DEF a, q
<1>6. DOMAIN Append(q, a) = 1..(Len(q) + 1) /\ DOMAIN q = 1..Len(q) /\ Len(q) \in Nat
      /\ Append(q, a)[Len(q) + 1] = a /\ \A i \in 1..Len(q) : Append(q, a)[i] = q[i]
  BY <1>5
<1>7. \A i \in DOMAIN got'[f] : got'[f][i].n \in left[f]
  <2> SUFFICES ASSUME NEW i \in 1..(Len(q) + 1) PROVE Append(q, a)[i].n \in left[f]
    BY <1>2, <1>6
  <2>1. CASE i = Len(q) + 1
    BY <1>1, <1>4, <1>6, <2>1
  <2>2. CASE i # Len(q) + 1
    <3>1. i \in 1..Len(q)
      BY <1>6, <2>2
    <3> QED BY <1>6, <3>1 DEF IInv, Kept, LeftSent, q
  <2> QED BY <2>1, <2>2
<1>8. AnswersAscend(f)'
  <2> SUFFICES ASSUME NEW i \in 1..(Len(q) + 1), NEW j \in 1..(Len(q) + 1), i < j,
                      Append(q, a)[i].via = "tcp"
               PROVE  Append(q, a)[i].n < Append(q, a)[j].n
    BY <1>2, <1>6 DEF AnswersAscend
  <2>1. i \in 1..Len(q)
    BY <1>6
  <2>2. CASE j = Len(q) + 1
    BY <1>1, <1>4, <1>6, <2>1, <2>2
  <2>3. CASE j # Len(q) + 1
    <3>1. j \in 1..Len(q)
      BY <1>6, <2>3
    <3> QED BY <1>6, <2>1, <3>1 DEF IInv, Kept, AnswersAscend, q
  <2> QED BY <2>2, <2>3
<1>9. AsksInOrder(f)' /\ HandYoungest(f)' /\ Relaying(f)' /\ Fresh(f)'
  BY <1>1, <1>3 DEF IInv, Kept, AsksInOrder, HandYoungest, Relaying, Fresh
<1>10. AsksYounger(f)' /\ LeftSent(f)'
  <2>1. sent[f] \in Nat /\ \A i \in DOMAIN asks[f] : asks[f][i] > 0
    <3>1. asks[f] \in Seq(1..MaxSent)
      BY DEF IInv, TypeOK
    <3> QED BY <3>1, UdpFlowAssumption DEF IInv, TypeOK
  <2> QED BY <1>3, <1>7, <2>1 DEF IInv, Kept, AsksYounger, LeftSent
<1> QED BY <1>8, <1>9, <1>10 DEF Kept

\* An answer from the relay is to something sent; nothing is in order there,
\* and nothing has been answered over TCP.
LEMMA RelayRepliesKeeps ==
  ASSUME IInv, NEW f \in Flows, NEW m \in Numbers, NEW size \in Sizes, RelayReplies(f, m, size)
  PROVE  Kept(f)'
<1>1. flow[f].pc = "relay" /\ m \in waiting[f] /\ waiting'[f] \subseteq waiting[f]
      /\ asks' = asks /\ sent' = sent /\ left' = left
  BY DEF RelayReplies, IInv, TypeOK
<1>2. CASE UNCHANGED <<flow, got>>
  BY <1>1, <1>2
     DEF IInv, Kept, AsksInOrder, AsksYounger, LeftSent, HandYoungest, AnswersAscend, Relaying, Fresh
<1>3. CASE Write(f, m, "udp", size, FALSE) /\ flow' = [flow EXCEPT ![f].late = FALSE]
  <2> DEFINE a == [n |-> m, via |-> "udp", clipped |-> Clipped(f, size), flagged |-> FALSE]
             q == got[f]
  <2>1. got'[f] = Append(q, a)
    BY <1>3, WriteTypes DEF IInv
  <2>2. flow'[f].pc = flow[f].pc /\ flow'[f].hand = flow[f].hand
    BY <1>3 DEF IInv, TypeOK, Tasks
  <2>3. a.n = m /\ a.via = "udp" /\ q \in Seq(Answers)
    BY DEF IInv, TypeOK
  <2> HIDE DEF a, q
  <2>4. DOMAIN Append(q, a) = 1..(Len(q) + 1) /\ DOMAIN q = 1..Len(q) /\ Len(q) \in Nat
        /\ Append(q, a)[Len(q) + 1] = a /\ \A i \in 1..Len(q) : Append(q, a)[i] = q[i]
    BY <2>3
  <2>5. \A i \in DOMAIN got'[f] : got'[f][i].n \in left[f] /\ got'[f][i].via = "udp"
    <3> SUFFICES ASSUME NEW i \in 1..(Len(q) + 1)
                 PROVE  Append(q, a)[i].n \in left[f] /\ Append(q, a)[i].via = "udp"
      BY <2>1, <2>4
    <3>1. CASE i = Len(q) + 1
      BY <1>1, <2>3, <2>4, <3>1 DEF IInv, Kept, LeftSent
    <3>2. CASE i # Len(q) + 1
      <4>1. i \in 1..Len(q)
        BY <2>4, <3>2
      <4> QED BY <1>1, <2>4, <4>1 DEF IInv, Kept, LeftSent, Relaying, q
    <3> QED BY <3>1, <3>2
  <2>6. AnswersAscend(f)' /\ Relaying(f)'
    BY <2>5 DEF AnswersAscend, Relaying
  <2>7. AsksInOrder(f)' /\ AsksYounger(f)' /\ LeftSent(f)' /\ HandYoungest(f)' /\ Fresh(f)'
    BY <1>1, <2>2, <2>5 DEF IInv, Kept, AsksInOrder, AsksYounger, LeftSent, HandYoungest, Fresh
  <2> QED BY <2>6, <2>7 DEF Kept
<1> QED BY <1>2, <1>3 DEF RelayReplies

-----------------------------------------------------------------------------

\* In the initial state nothing has been sent.
LEMMA InitIInv == Init => IInv
<1> SUFFICES ASSUME Init PROVE IInv
  OBVIOUS
<1>1. TypeOK
  BY InitTypes
<1>2. ASSUME NEW f \in Flows PROVE Kept(f)
  <2>1. /\ flow[f].pc = "unborn" /\ flow[f].hand = 0 /\ sent[f] = 0 /\ asks[f] = <<>> /\ got[f] = <<>>
        /\ left[f] = {} /\ waiting[f] = {}
    BY DEF Init
  <2>2. DOMAIN asks[f] = {} /\ DOMAIN got[f] = {}
    BY <2>1
  <2>3. AsksInOrder(f) /\ AsksYounger(f) /\ HandYoungest(f) /\ AnswersAscend(f) /\ Relaying(f) /\ Fresh(f)
    BY <2>1, <2>2 DEF AsksInOrder, AsksYounger, HandYoungest, AnswersAscend, Relaying, Fresh
  <2>4. LeftSent(f)
    BY <2>1, <2>2 DEF LeftSent
  <2> QED BY <2>3, <2>4 DEF Kept
<1> QED BY <1>1, <1>2 DEF IInv

\* The steps that move a flow on without a datagram.
Turns(f) ==
  \/ Check(f) \/ Associates(f) \/ AssociateFails(f) \/ AssociateTimesOut(f) \/ RelayIdles(f)
  \/ RelayFails(f) \/ ReadEnds(f) \/ DialFails(f) \/ ExchangeFails(f)

\* They keep what is said of it.
LEMMA TurnsKeep == ASSUME IInv, NEW f \in Flows, Turns(f) PROVE Kept(f)'
<1>1. /\ flow[f].pc \notin {"unborn"}
      /\ UNCHANGED <<sent, asks, left, waiting, got>>
  BY DEF Turns, Check, Associates, AssociateFails, AssociateTimesOut, RelayIdles, RelayFails, ReadEnds,
         DialFails, ExchangeFails, Goes
<1>2. /\ flow'[f].hand = 0 /\ flow'[f].pc \notin {"unborn", "dial", "exchange"}
      /\ flow'[f].pc \in {"check", "associate", "relay"} => flow[f].pc \in {"check", "associate", "relay"}
  <2>1. flow[f] \in Tasks
    BY DEF IInv, TypeOK
  <2>2. CASE AssociateFails(f)
    BY <2>1, <2>2 DEF IInv, TypeOK, AssociateFails, FallBack, Tasks
  <2>3. CASE ~AssociateFails(f)
    BY <2>1, <2>3
       DEF IInv, TypeOK, Tasks, Turns, Check, Associates, AssociateTimesOut, RelayIdles, RelayFails, ReadEnds,
           DialFails, ExchangeFails, Goes, FallBack
  <2> QED BY <2>2, <2>3
<1> QED BY <1>1, <1>2, GoesKeeps DEF IInv

\* A deadline that passes is nothing these orders speak of.
LEMMA LatesKeeps == ASSUME IInv, NEW f \in Flows, Lates(f) PROVE Kept(f)'
<1>1. flow'[f].pc = flow[f].pc /\ flow'[f].hand = flow[f].hand /\ UNCHANGED <<sent, asks, left, waiting, got>>
  BY DEF Lates, IInv, TypeOK, Tasks
<1> QED BY <1>1
     DEF IInv, Kept, AsksInOrder, AsksYounger, LeftSent, HandYoungest, AnswersAscend, Relaying, Fresh

\* A step is one flow's.
Step(f) ==
  \/ Opens(f) \/ PeerSends(f) \/ Lates(f) \/ Turns(f) \/ RelaySends(f) \/ ReadQuery(f) \/ Dials(f)
  \/ \E n \in Numbers, size \in Sizes : RelayReplies(f, n, size)
  \/ \E size \in Sizes : Exchanges(f, size)

\* There are no others.
LEMMA StepsOfFlows == Next => \E f \in Flows : Step(f)
BY DEF Next, Associate, Relay, Read, Dial, Exchange, Step, Turns, Numbers

\* It leaves the other flows alone.
LEMMA StepIsLocal ==
  ASSUME TypeOK, NEW f \in Flows, Step(f), NEW g \in Flows, g # f
  PROVE  Same(g)
<1>1. CASE Opens(f) \/ PeerSends(f) \/ Lates(f) \/ RelaySends(f) \/ ReadQuery(f) \/ Dials(f)
  BY <1>1 DEF TypeOK, Same, Opens, PeerSends, Lates, RelaySends, ReadQuery, Dials
<1>2. CASE Turns(f)
  BY <1>2
     DEF TypeOK, Same, Turns, Check, Associates, AssociateFails, AssociateTimesOut, RelayIdles, RelayFails,
         ReadEnds, DialFails, ExchangeFails, Goes
<1>3. ASSUME NEW n \in Numbers, NEW size \in Sizes, RelayReplies(f, n, size) PROVE Same(g)
  BY <1>3 DEF TypeOK, Same, RelayReplies, Write
<1>4. ASSUME NEW size \in Sizes, Exchanges(f, size) PROVE Same(g)
  BY <1>4 DEF TypeOK, Same, Exchanges, Write
<1> QED BY <1>1, <1>2, <1>3, <1>4 DEF Step

\* Each step keeps the order of each flow.
LEMMA NextKeepsIInv == IInv /\ [Next]_vars => IInv'
<1> SUFFICES ASSUME IInv, [Next]_vars
             PROVE  IInv'
  OBVIOUS
<1>1. TypeOK'
  BY NextTypes DEF IInv
<1>2. CASE UNCHANGED vars
  <2>1. \A f \in Flows : Same(f)
    BY <1>2 DEF vars, Same
  <2> QED BY <1>1, <2>1, SameKeeps DEF IInv
<1>3. CASE Next
  <2>1. PICK f \in Flows : Step(f)
    BY <1>3, StepsOfFlows
  <2>2. Kept(f)'
    BY <1>1, <2>1, OpensKeeps, PeerSendsKeeps, LatesKeeps, TurnsKeep, RelaySendsKeeps, ReadQueryKeeps,
       DialsKeeps, RelayRepliesKeeps, ExchangesKeeps DEF Step
  <2>3. ASSUME NEW g \in Flows, g # f PROVE Kept(g)'
    BY <2>1, <2>3, StepIsLocal, SameKeeps DEF IInv
  <2> QED BY <1>1, <2>2, <2>3 DEF IInv
<1> QED BY <1>2, <1>3

\* On every flow the numbers grow from the answers back to the stream.
THEOREM UdpFlowInvariant == Spec => []IInv
BY InitIInv, NextKeepsIInv, PTL DEF Spec

\* Answers answer what has left for the upstream, and what follows an answer of
\* dns_over_tcp answers a later query ("one write is one datagram here").
THEOREM AnswersAreInOrder == Spec => []AnswersInOrder
<1>1. IInv => AnswersInOrder
  BY DEF IInv, Kept, LeftSent, AnswersAscend, AnswersInOrder
<1> QED BY <1>1, UdpFlowInvariant, PTL

-----------------------------------------------------------------------------

\* What a step adds to the answers, and that it says so if it is clipped.
LEMMA WritesMarked ==
  ASSUME TypeOK, NEW f \in Flows \ V6, NEW n \in Numbers, NEW via \in {"udp", "tcp"},
         NEW size \in Sizes, NEW flag \in BOOLEAN, size = "over" => flag, Write(f, n, via, size, flag),
         NothingClippedSilently
  PROVE  NothingClippedSilently'
<1> DEFINE a == [n |-> n, via |-> via, clipped |-> Clipped(f, size), flagged |-> flag]
           q == got[f]
<1>1. got'[f] = Append(q, a) /\ \A g \in Flows \ {f} : got'[g] = got[g]
  BY WriteTypes
<1>2. (a.clipped => a.flagged) /\ q \in Seq(Answers)
  BY DEF Clipped, TypeOK
<1> HIDE DEF a, q
<1>3. DOMAIN Append(q, a) = 1..(Len(q) + 1) /\ DOMAIN q = 1..Len(q) /\ Len(q) \in Nat
      /\ Append(q, a)[Len(q) + 1] = a /\ \A i \in 1..Len(q) : Append(q, a)[i] = q[i]
  BY <1>2
<1>4. ASSUME NEW i \in 1..(Len(q) + 1) PROVE Append(q, a)[i].clipped => Append(q, a)[i].flagged
  <2>1. CASE i = Len(q) + 1
    BY <1>2, <1>3, <2>1
  <2>2. CASE i # Len(q) + 1
    <3>1. i \in 1..Len(q)
      BY <1>3, <2>2
    <3> QED BY <1>3, <3>1 DEF NothingClippedSilently, q
  <2> QED BY <2>1, <2>2
<1> QED BY <1>1, <1>3, <1>4 DEF NothingClippedSilently

\* Over IPv6 there is nothing to keep.
LEMMA WritesOverV6 ==
  ASSUME TypeOK, NEW f \in V6, NEW n \in Numbers, NEW via \in {"udp", "tcp"},
         NEW size \in Sizes, NEW flag \in BOOLEAN, Write(f, n, via, size, flag),
         NothingClippedSilently
  PROVE  NothingClippedSilently'
<1>1. f \in Flows
  BY UdpFlowAssumption
<1>2. \A g \in Flows \ {f} : got'[g] = got[g]
  BY <1>1 DEF Write, TypeOK
<1>3. \A g \in Flows \ V6 : got'[g] = got[g]
  BY <1>2
<1> QED BY <1>3 DEF NothingClippedSilently

\* Over IPv4 no answer reaches a peer clipped and unmarked: what the relay has
\* that does not fit is dropped, and dns_over_tcp flags it ("ipstack would clip
\* the tail without saying so, so flag it truncated").
THEOREM ClippedIsMarked == Spec => []NothingClippedSilently
<1>1. Init => NothingClippedSilently
  <2> SUFFICES ASSUME Init PROVE NothingClippedSilently
    OBVIOUS
  <2>1. \A f \in Flows : got[f] = <<>>
    BY DEF Init
  <2>2. DOMAIN <<>> = {}
    OBVIOUS
  <2> QED BY <2>1, <2>2 DEF NothingClippedSilently
<1>2. TypeOK /\ NothingClippedSilently /\ [Next]_vars => NothingClippedSilently'
  <2> SUFFICES ASSUME TypeOK, NothingClippedSilently, [Next]_vars
               PROVE  NothingClippedSilently'
    OBVIOUS
  <2>1. CASE UNCHANGED got
    BY <2>1 DEF NothingClippedSilently
  <2>2. CASE Next /\ ~UNCHANGED got
    <3>1. PICK f \in Flows :
            \/ \E n \in Numbers, size \in Sizes : RelayReplies(f, n, size)
            \/ \E size \in Sizes : Exchanges(f, size)
      BY <2>2, StepsOfFlows
         DEF Step, Opens, PeerSends, Lates, RelaySends, ReadQuery, Dials, Turns, Check, Associates,
             AssociateFails, AssociateTimesOut, RelayIdles, RelayFails, ReadEnds, DialFails, ExchangeFails, Goes
    <3>2. flow[f].pc = "exchange" => flow[f].hand \in Numbers
      BY DEF TypeOK, Tasks, Numbers
    <3>3. ASSUME NEW n \in Numbers, NEW size \in Sizes, RelayReplies(f, n, size)
          PROVE  NothingClippedSilently'
      <4>1. Write(f, n, "udp", size, FALSE) /\ size # "over"
        BY <2>2, <3>3 DEF RelayReplies
      <4> QED BY <4>1, WritesMarked, WritesOverV6
    <3>4. ASSUME NEW size \in Sizes, Exchanges(f, size) PROVE NothingClippedSilently'
      <4>1. Write(f, flow[f].hand, "tcp", size, size = "over") /\ flow[f].hand \in Numbers
        BY <3>2, <3>4 DEF Exchanges
      <4>2. (size = "over") \in BOOLEAN
        OBVIOUS
      <4> QED BY <4>1, <4>2, WritesMarked, WritesOverV6
    <3> QED BY <3>1, <3>3, <3>4
  <2>3. UNCHANGED vars => UNCHANGED got
    BY DEF vars
  <2> QED BY <2>1, <2>2, <2>3
<1> QED BY <1>1, <1>2, UdpFlowTypes, PTL DEF Spec
=============================================================================
