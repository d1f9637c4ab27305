---------------------------- MODULE DatapathProofs ----------------------------
(***************************************************************************)
(* Isolation and cryptokey routing of the server, for any number of peers, *)
(* addresses and datagrams, and queues of any capacity: what the stack is  *)
(* given, what is encrypted for a peer and where it is sent.  A packet is  *)
(* followed from the datagram that carried it through the tasks and the    *)
(* queues to the reply.                                                    *)
(***************************************************************************)
EXTENDS Datapath, TLAPS

-----------------------------------------------------------------------------
(* What the operations of the endpoint return.                             *)

LEMMA NewPeerType == NewPeer \in PeerStates
BY WgAssumption DEF NewPeer, PeerStates, NotInitiating

\* encapsulate: the packet is encrypted now, or queued for a session.
LEMMA EncapsulateFacts ==
  ASSUME NEW s \in PeerStates, NEW p \in Peers, NEW pk \in Packets, NEW m \in 0..MaxSent
  PROVE  LET t == EncapsulateState(s, pk, m)
             out == EncapsulateOut(s, p, pk)
         IN  /\ t \in PeerStates /\ t.endpoint = s.endpoint
             /\ t.queued \subseteq s.queued \cup {pk}
             /\ out \in SUBSET Replies
             /\ \A x \in out : x.for = p /\ x.inner \in {pk, NoPacket}
<1>1. EncapsulateState(s, pk, m) \in PeerStates
  BY DEF EncapsulateState, PeerStates
<1>2. /\ EncapsulateState(s, pk, m).endpoint = s.endpoint
      /\ EncapsulateState(s, pk, m).queued \subseteq s.queued \cup {pk}
  BY DEF EncapsulateState, PeerStates
<1>3. EncapsulateOut(s, p, pk) \subseteq {Data(p, pk), Reply(p, "init")}
  BY DEF EncapsulateOut
<1>4. /\ Data(p, pk) \in Replies /\ Data(p, pk).for = p /\ Data(p, pk).inner = pk
      /\ Reply(p, "init") \in Replies /\ Reply(p, "init").for = p /\ Reply(p, "init").inner = NoPacket
  BY DEF Data, Reply, Replies
<1> QED BY <1>1, <1>2, <1>3, <1>4

\* The flush: what was queued, for the peer itself.
LEMMA FlushFacts ==
  ASSUME NEW s \in PeerStates, NEW p \in Peers, NEW m \in 0..MaxSent
  PROVE  LET t == FlushState(s, m)
             out == FlushOut(s, p)
         IN  /\ t \in PeerStates /\ t.endpoint = s.endpoint /\ t.queued \subseteq s.queued
             /\ out \in SUBSET Replies
             /\ \A x \in out : x.for = p /\ x.inner \in s.queued \cup {NoPacket}
<1>1. FlushState(s, m) \in PeerStates
  BY DEF FlushState, PeerStates
<1>2. FlushState(s, m).endpoint = s.endpoint /\ FlushState(s, m).queued \subseteq s.queued
  BY DEF FlushState, PeerStates
<1>3. FlushOut(s, p) \subseteq {Data(p, pk) : pk \in s.queued} \cup {Reply(p, "init")}
  BY DEF FlushOut
<1>4. \A pk \in s.queued : Data(p, pk) \in Replies /\ Data(p, pk).for = p /\ Data(p, pk).inner = pk
  BY DEF Data, Replies, PeerStates
<1>5. Reply(p, "init") \in Replies /\ Reply(p, "init").for = p /\ Reply(p, "init").inner = NoPacket
  BY DEF Reply, Replies
<1> QED BY <1>1, <1>2, <1>3, <1>4, <1>5

\* A datagram accepted leaves the endpoint and the queue to the caller.
LEMMA AcceptedFacts ==
  ASSUME NEW s \in PeerStates, NEW d \in Datagrams
  PROVE  LET t == [Accepted(s, d) EXCEPT !.endpoint = d.from]
         IN  t \in PeerStates /\ t.endpoint = d.from /\ t.queued = s.queued
<1>0. /\ d.kind \in {"init", "response", "data"} /\ d.n \in Numbers /\ d.n \in 0..MaxSent
      /\ d.sess \in 0..MaxSent /\ d.from \in Addrs
  BY WgAssumption DEF Datagrams, Numbers
<1>1. Accepted(s, d) \in PeerStates /\ Accepted(s, d).queued = s.queued
  <2>1. CASE d.kind = "init"
    BY <1>0, <2>1 DEF Accepted, PeerStates, Numbers, NotInitiating
  <2>2. CASE d.kind = "response"
    BY <1>0, <2>2 DEF Accepted, PeerStates, Numbers, NotInitiating
  <2>3. CASE d.kind = "data"
    BY <1>0, <2>3 DEF Accepted, PeerStates, Numbers
  <2> QED BY <1>0, <2>1, <2>2, <2>3
<1> QED BY <1>0, <1>1 DEF PeerStates

\* The answer to a handshake message carries no packet.
LEMMA AnswerFacts ==
  ASSUME NEW p \in Peers, NEW k \in {"init", "response"}
  PROVE  /\ Answer(p, k) \in SUBSET Replies
         /\ \A x \in Answer(p, k) : x.for = p /\ x.inner = NoPacket
BY DEF Answer, Reply, Data, Replies

\* A cookie is for nobody in particular.
LEMMA CookieFacts ==
  /\ Reply(NoPeer, "cookie") \in Replies
  /\ Reply(NoPeer, "cookie").for = NoPeer /\ Reply(NoPeer, "cookie").inner = NoPacket
BY DEF Reply, Replies

\* recv_from_network: whatever becomes of the datagram, what is sent back is
\* for its author, the endpoint moves to where it came from if at all, and a
\* packet comes out only if it does.
LEMMA ReceivedFacts ==
  ASSUME NEW s \in PeerStates, NEW d \in Datagrams, NEW load, NEW m \in 0..MaxSent
  PROVE  LET r == Received(s, d, load, m)
         IN  /\ r.state \in PeerStates /\ r.idx \in {d.author, NoPeer}
             /\ r.state.endpoint \in {s.endpoint, d.from} /\ r.state.queued \subseteq s.queued
             /\ r.out \in SUBSET Replies
             /\ \A x \in r.out : /\ x.for \in {d.author, NoPeer}
                                 /\ x.inner # NoPacket => x.for = d.author /\ x.inner \in s.queued
             /\ r.ip \in {d.inner, NoPacket}
             /\ r.ip # NoPacket => r.idx = d.author /\ r.state.endpoint = d.from
<1> DEFINE r == Received(s, d, load, m)
<1>0. d.author \in Peers /\ d.from \in Addrs /\ d.kind \in {"init", "response", "data"}
  BY DEF Datagrams
<1>1. CASE Limited(d) /\ load = "outer"
  <2>1. r = Result(NoPeer, s, {Reply(NoPeer, "cookie")}, NoPacket)
    BY <1>1 DEF Received
  <2> QED BY <2>1, CookieFacts DEF Result
<1>2. CASE Limited(d) /\ load = "inner"
  <2> DEFINE f == FlushOut(s, d.author)
             t == FlushState(s, m)
             u == IF f # {} THEN [t EXCEPT !.endpoint = d.from] ELSE t
  <2>1. load # "outer"
    BY <1>2
  <2>2. r = Result(d.author, u, {Reply(NoPeer, "cookie")} \cup f, NoPacket)
    BY <1>2, <2>1 DEF Received
  <2>3. /\ t \in PeerStates /\ t.endpoint = s.endpoint /\ t.queued \subseteq s.queued
        /\ f \in SUBSET Replies
        /\ \A x \in f : x.for = d.author /\ x.inner \in s.queued \cup {NoPacket}
    BY <1>0, FlushFacts
  <2> HIDE DEF f, t
  <2>4. u \in PeerStates /\ u.endpoint \in {s.endpoint, d.from} /\ u.queued \subseteq s.queued
    BY <1>0, <2>3 DEF PeerStates
  <2> HIDE DEF u
  <2>5. r.state = u /\ r.idx = d.author /\ r.out = {Reply(NoPeer, "cookie")} \cup f /\ r.ip = NoPacket
    BY <2>2 DEF Result
  <2> QED BY <2>3, <2>4, <2>5, CookieFacts
<1>3. CASE ~(Limited(d) /\ load \in {"outer", "inner"}) /\ ~Fresh(s, d)
  <2>1. r = Result(NoPeer, s, {}, NoPacket)
    BY <1>3 DEF Received
  <2> QED BY <2>1 DEF Result
<1>4. CASE ~(Limited(d) /\ load \in {"outer", "inner"}) /\ Fresh(s, d)
  <2> DEFINE t == [Accepted(s, d) EXCEPT !.endpoint = d.from]
  <2>1. t \in PeerStates /\ t.endpoint = d.from /\ t.queued = s.queued
    BY AcceptedFacts
  <2>2. CASE d.kind = "data"
    <3>1. r = Result(d.author, t, {}, d.inner)
      BY <1>4, <2>2 DEF Received
    <3> HIDE DEF t
    <3>2. r.state = t /\ r.idx = d.author /\ r.out = {} /\ r.ip = d.inner
      BY <3>1 DEF Result
    <3> QED BY <2>1, <3>2
  <2>3. CASE d.kind # "data"
    <3> DEFINE f == FlushOut(t, d.author)
               u == FlushState(t, m)
    <3>1. r = Result(d.author, u, Answer(d.author, d.kind) \cup f, NoPacket)
      BY <1>4, <2>3 DEF Received
    <3> HIDE DEF t
    <3>2. /\ u \in PeerStates /\ u.endpoint = t.endpoint /\ u.queued \subseteq t.queued
          /\ f \in SUBSET Replies
          /\ \A x \in f : x.for = d.author /\ x.inner \in t.queued \cup {NoPacket}
      BY <1>0, <2>1, FlushFacts
    <3> HIDE DEF f, u
    <3>3. r.state = u /\ r.idx = d.author /\ r.out = Answer(d.author, d.kind) \cup f /\ r.ip = NoPacket
      BY <3>1 DEF Result
    <3>4. /\ Answer(d.author, d.kind) \in SUBSET Replies
          /\ \A x \in Answer(d.author, d.kind) : x.for = d.author /\ x.inner = NoPacket
      BY <1>0, <2>3, AnswerFacts
    <3> QED BY <2>1, <3>2, <3>3, <3>4
  <2> QED BY <2>2, <2>3
<1> QED BY <1>1, <1>2, <1>3, <1>4

\* update_timers, for one peer.
LEMMA TimerFacts ==
  ASSUME NEW s \in PeerStates, NEW p \in Peers, NEW m \in 0..MaxSent,
         NEW e \in {"quiet", "expire", "keepalive", "rekey"}
  PROVE  LET t == TimerState(s, e, m)
         IN  /\ t \in PeerStates /\ t.endpoint = s.endpoint /\ t.queued \subseteq s.queued
             /\ TimerOut(p, e) \in SUBSET Replies
             /\ \A x \in TimerOut(p, e) : x.for = p /\ x.inner = NoPacket
<1>1. TimerState(s, e, m) \in PeerStates
  <2>1. [s EXCEPT !.initiating = m] \in PeerStates
    BY DEF PeerStates
  <2>2. [s EXCEPT !.current = 0, !.pending = 0, !.queued = {}, !.initiating = NotInitiating] \in PeerStates
    <3>1. 0 \in 0..MaxSent /\ {} \in SUBSET Packets
      BY WgAssumption
    <3> QED BY <3>1 DEF PeerStates
  <2> QED BY <2>1, <2>2 DEF TimerState
<1>2. TimerState(s, e, m).endpoint = s.endpoint /\ TimerState(s, e, m).queued \subseteq s.queued
  BY DEF TimerState, PeerStates
<1>3. TimerOut(p, e) \in SUBSET Replies /\ \A x \in TimerOut(p, e) : x.for = p /\ x.inner = NoPacket
  BY DEF TimerOut, Reply, Data, Replies
<1> QED BY <1>1, <1>2, <1>3

-----------------------------------------------------------------------------
(* The inductive invariant.                                                *)

\* Peer p has sent from address a.
Used(p, a) == \E d \in sent : d.author = p /\ d.from = a

\* What may be sent to address a.
Sendable(a, m) ==
  /\ m.inner # NoPacket => SentBy(m.for, Back(m.inner))
  /\ m.for # NoPeer => Used(m.for, a)

\* Peer p has sent the packet, and has an endpoint since.
Vetted(p, pk) == SentBy(p, pk) /\ wg[p].endpoint # NoAddr

\* What the endpoint knows of a peer it learned from that peer.
PeerKept(p, s) ==
  /\ s.endpoint # NoAddr => Used(p, s.endpoint)
  /\ \A pk \in s.queued : SentBy(p, Back(pk))

PeersKept == \A p \in Peers : PeerKept(p, wg[p])

\* The packet the recv task carries came from the peer it is held for.
RecvCarries ==
  /\ recv.pc = "packet" => recv.ip # NoPacket
  /\ recv.ip # NoPacket => recv.idx \in Peers /\ Vetted(recv.idx, recv.ip)
  /\ recv.idx # NoPeer => Used(recv.idx, recv.from)

RecvSendable == \A m \in recv.out : Sendable(recv.from, m)
StkSendable == \A x \in stk.out : Sendable(x.to, x.msg)
TimSendable == \A x \in tim.out : Sendable(x.to, x.msg)

\* Packets into the stack, and packets out of it.
Inward(pk) == pk.dst \in AllowedDst /\ Owner[pk.src] # NoPeer /\ Vetted(Owner[pk.src], pk)
Outward(pk) == Owner[pk.dst] # NoPeer /\ Vetted(Owner[pk.dst], Back(pk))

FlowsInward == \A pk \in flows : Inward(pk)
QueueInward == \A i \in DOMAIN to_stack : Inward(to_stack[i])
QueueOutward == \A i \in DOMAIN to_wg : Outward(to_wg[i])

IInv ==
  /\ TypeOK /\ PeersKept /\ RecvCarries
  /\ RecvSendable /\ StkSendable /\ TimSendable
  /\ FlowsInward /\ QueueInward /\ QueueOutward

\* No datagram is unmade and no endpoint forgotten.
Grows ==
  /\ sent \subseteq sent'
  /\ \A p \in Peers : wg[p].endpoint # NoAddr => wg'[p].endpoint # NoAddr

-----------------------------------------------------------------------------

\* The reply to a reply.
LEMMA BackTwice == \A pk \in Packets : Back(pk) \in Packets /\ Back(Back(pk)) = pk
BY DEF Back, Packets

\* The invariant holds at first.
LEMMA InitIInv == Init => IInv
<1> SUFFICES ASSUME Init PROVE IInv
  OBVIOUS
<1>1. TypeOK
  <2>1. wg \in [Peers -> PeerStates]
    BY NewPeerType DEF Init
  <2>2. made \in [Peers -> 0..MaxSent]
    BY WgAssumption DEF Init
  <2>3. /\ recv \in [pc : {"idle", "reply", "packet"}, idx : Peers \cup {NoPeer},
                    from : Addrs \cup {NoAddr}, out : SUBSET Replies, ip : Packets \cup {NoPacket}]
        /\ stk \in [pc : {"idle", "send"}, out : SUBSET Sending]
        /\ tim \in [pc : {"idle", "send"}, out : SUBSET Sending]
    BY DEF Init, RecvIdle, SendIdle
  <2>4. Len(to_stack) <= Queue /\ Len(to_wg) <= Queue
    BY DatapathAssumption DEF Init
  <2> QED BY <2>1, <2>2, <2>3, <2>4 DEF Init, TypeOK
<1>2. PeersKept
  BY DEF Init, PeersKept, PeerKept, NewPeer
<1>3. RecvCarries /\ RecvSendable /\ StkSendable /\ TimSendable
  BY DEF Init, RecvCarries, RecvSendable, StkSendable, TimSendable, RecvIdle, SendIdle
<1>4. FlowsInward /\ QueueInward /\ QueueOutward
  BY DEF Init, FlowsInward, QueueInward, QueueOutward
<1> QED BY <1>1, <1>2, <1>3, <1>4 DEF IInv

\* As the system grows, what is known of packets and addresses stays true.
LEMMA KnowledgeStays ==
  ASSUME Grows
  PROVE  /\ \A p, a : Used(p, a) => Used(p, a)'
         /\ \A p, pk : SentBy(p, pk) => SentBy(p, pk)'
         /\ \A p \in Peers : \A pk : Vetted(p, pk) => Vetted(p, pk)'
         /\ \A a, m : Sendable(a, m) => Sendable(a, m)'
         /\ \A p, s : PeerKept(p, s) => PeerKept(p, s)'
<1>1. \A p, a : Used(p, a) => Used(p, a)'
  BY DEF Grows, Used
<1>2. \A p, pk : SentBy(p, pk) => SentBy(p, pk)'
  BY DEF Grows, SentBy
<1>3. \A p \in Peers : \A pk : Vetted(p, pk) => Vetted(p, pk)'
  BY <1>2 DEF Grows, Vetted
<1>4. \A a, m : Sendable(a, m) => Sendable(a, m)'
  BY <1>1, <1>2 DEF Sendable
<1>5. \A p, s : PeerKept(p, s) => PeerKept(p, s)'
  BY <1>1, <1>2 DEF PeerKept
<1> QED BY <1>1, <1>2, <1>3, <1>4, <1>5

\* An owner is a peer.
LEMMA PacketsStay ==
  ASSUME TypeOK, Grows, NEW pk \in Packets
  PROVE  (Inward(pk) => Inward(pk)') /\ (Outward(pk) => Outward(pk)')
<1>1. Owner[pk.src] \in Peers \cup {NoPeer} /\ Owner[pk.dst] \in Peers \cup {NoPeer}
  BY DatapathAssumption DEF Packets
<1> QED BY <1>1, KnowledgeStays DEF Inward, Outward

\* The parts of the invariant a step leaves alone stay with it.
LEMMA PartsStay ==
  ASSUME IInv, Grows
  PROVE  /\ UNCHANGED wg => PeersKept'
         /\ UNCHANGED recv => RecvCarries' /\ RecvSendable'
         /\ UNCHANGED stk => StkSendable'
         /\ UNCHANGED tim => TimSendable'
         /\ UNCHANGED flows => FlowsInward'
         /\ UNCHANGED to_stack => QueueInward'
         /\ UNCHANGED to_wg => QueueOutward'
<1>1. UNCHANGED wg => PeersKept'
  BY KnowledgeStays DEF IInv, PeersKept
<1>2. UNCHANGED recv => RecvCarries' /\ RecvSendable'
  BY KnowledgeStays DEF IInv, RecvCarries, RecvSendable
<1>3. (UNCHANGED stk => StkSendable') /\ (UNCHANGED tim => TimSendable')
  BY KnowledgeStays DEF IInv, StkSendable, TimSendable
<1>4. UNCHANGED flows => FlowsInward'
  BY PacketsStay DEF IInv, TypeOK, FlowsInward
<1>5. UNCHANGED to_stack => QueueInward'
  <2>1. \A i \in DOMAIN to_stack : to_stack[i] \in Packets
    BY DEF IInv, TypeOK
  <2> QED BY <2>1, PacketsStay DEF IInv, QueueInward
<1>6. UNCHANGED to_wg => QueueOutward'
  <2>1. \A i \in DOMAIN to_wg : to_wg[i] \in Packets
    BY DEF IInv, TypeOK
  <2> QED BY <2>1, PacketsStay DEF IInv, QueueOutward
<1> QED BY <1>1, <1>2, <1>3, <1>4, <1>5, <1>6

\* A step that leaves datagrams and endpoints alone.
LEMMA StillGrows ==
  ASSUME UNCHANGED <<wg, sent>>
  PROVE  Grows
BY DEF Grows

\* An operation of the endpoint on one peer.
LEMMA PeerStep ==
  ASSUME IInv, NEW p \in Peers, NEW t \in PeerStates,
         wg' = [wg EXCEPT ![p] = t], UNCHANGED sent,
         PeerKept(p, t), wg[p].endpoint # NoAddr => t.endpoint # NoAddr
  PROVE  Grows /\ PeersKept' /\ wg' \in [Peers -> PeerStates] /\ wg'[p] = t
<1>1. wg' \in [Peers -> PeerStates]
  BY DEF IInv, TypeOK
<1>2. \A q \in Peers : wg'[q] = IF q = p THEN t ELSE wg[q]
  BY DEF IInv, TypeOK
<1>3. Grows
  BY <1>2 DEF Grows
<1>4. \A q \in Peers : PeerKept(q, wg'[q])
  BY <1>2 DEF IInv, PeersKept
<1>5. PeersKept'
  BY <1>3, <1>4, KnowledgeStays DEF PeersKept
<1> QED BY <1>1, <1>2, <1>3, <1>5

\* Queues.
LEMMA PushFacts ==
  ASSUME NEW q \in Seq(Packets), Len(q) <= Queue, NEW pk \in Packets
  PROVE  /\ Push(q, pk) \in Seq(Packets) /\ Len(Push(q, pk)) <= Queue
         /\ \A i \in DOMAIN Push(q, pk) : Push(q, pk)[i] = pk \/ (i \in DOMAIN q /\ Push(q, pk)[i] = q[i])
BY DatapathAssumption DEF Push

\* What is left of a queue after its head is taken.
LEMMA TailFacts ==
  ASSUME NEW q \in Seq(Packets), Len(q) <= Queue, q # <<>>
  PROVE  /\ Tail(q) \in Seq(Packets) /\ Len(Tail(q)) <= Queue
         /\ \A i \in DOMAIN Tail(q) : i + 1 \in DOMAIN q /\ Tail(q)[i] = q[i + 1]
         /\ Head(q) \in Packets /\ 1 \in DOMAIN q /\ Head(q) = q[1]
BY DatapathAssumption

-----------------------------------------------------------------------------
(* The steps.                                                              *)

LEMMA PeerSendsKeeps ==
  ASSUME IInv, NEW d \in Datagrams, PeerSends(d)
  PROVE  IInv'
<1>1. /\ sent' = sent \cup {d} /\ made' = [made EXCEPT ![d.author] = d.n]
      /\ UNCHANGED <<wg, recv, stk, tim, to_stack, to_wg, flows>>
  BY DEF PeerSends
<1>2. d.n \in 0..MaxSent
  BY WgAssumption DEF Datagrams, Numbers
<1>3. Grows
  BY <1>1 DEF Grows
<1>4. TypeOK'
  BY <1>1, <1>2 DEF IInv, TypeOK
<1> QED BY <1>1, <1>3, <1>4, PartsStay DEF IInv

\* The recv task takes a datagram of a peer.
LEMMA RecvDatagramKeeps ==
  ASSUME IInv, NEW d \in sent, NEW load, RecvDatagram(d, load)
  PROVE  IInv'
<1> DEFINE p == d.author
           s == wg[p]
           r == Received(s, d, load, made[p])
<1>1. d \in Datagrams /\ p \in Peers /\ s \in PeerStates /\ made[p] \in 0..MaxSent /\ d.from \in Addrs
  BY DEF IInv, TypeOK, Datagrams
<1>2. /\ r.state \in PeerStates /\ r.idx \in {p, NoPeer}
      /\ r.state.endpoint \in {s.endpoint, d.from} /\ r.state.queued \subseteq s.queued
      /\ r.out \in SUBSET Replies
      /\ \A x \in r.out : /\ x.for \in {p, NoPeer}
                          /\ x.inner # NoPacket => x.for = p /\ x.inner \in s.queued
      /\ r.ip \in {d.inner, NoPacket}
      /\ r.ip # NoPacket => r.idx = p /\ r.state.endpoint = d.from
  BY <1>1, ReceivedFacts
<1>3. /\ wg' = [wg EXCEPT ![p] = r.state]
      /\ recv' = [pc |-> "reply", idx |-> r.idx, from |-> d.from, out |-> r.out, ip |-> r.ip]
      /\ UNCHANGED <<sent, made, stk, tim, to_stack, to_wg, flows>>
  BY DEF RecvDatagram
<1> HIDE DEF r
<1>4. /\ recv'.pc = "reply" /\ recv'.idx = r.idx /\ recv'.from = d.from
      /\ recv'.out = r.out /\ recv'.ip = r.ip
  BY <1>3
<1>5. Used(p, d.from) /\ PeerKept(p, s) /\ SentBy(p, d.inner)
  BY <1>1 DEF Used, SentBy, IInv, PeersKept
<1>6. PeerKept(p, r.state) /\ d.from # NoAddr
  BY <1>1, <1>2, <1>5, WgAssumption DEF PeerKept
<1>7. Grows /\ PeersKept' /\ wg' \in [Peers -> PeerStates] /\ wg'[p] = r.state
  BY <1>1, <1>2, <1>3, <1>6, PeerStep
<1>8. TypeOK'
  <2>1. d.inner \in Packets \cup {NoPacket}
    BY <1>1 DEF Datagrams
  <2>2. recv' \in [pc : {"idle", "reply", "packet"}, idx : Peers \cup {NoPeer},
                  from : Addrs \cup {NoAddr}, out : SUBSET Replies, ip : Packets \cup {NoPacket}]
    BY <1>1, <1>2, <1>3, <2>1
  <2> QED BY <1>3, <1>7, <2>2 DEF IInv, TypeOK
<1>9. RecvCarries'
  <2>1. d \in sent'
    BY <1>3
  <2>2. ASSUME recv'.ip # NoPacket
        PROVE  recv'.idx \in Peers /\ Vetted(recv.idx, recv.ip)'
    <3>1. recv'.ip = d.inner /\ recv'.idx = d.author /\ wg'[d.author].endpoint # NoAddr
      BY <1>2, <1>4, <1>6, <1>7, <2>2
    <3> QED BY <1>1, <2>1, <3>1 DEF Vetted, SentBy
  <2>3. ASSUME recv'.idx # NoPeer
        PROVE  Used(recv.idx, recv.from)'
    <3>1. recv'.idx = d.author /\ recv'.from = d.from
      BY <1>2, <1>4, <2>3
    <3> QED BY <2>1, <3>1 DEF Used
  <2> QED BY <1>4, <2>2, <2>3 DEF RecvCarries
<1>10. RecvSendable'
  <2>1. \A x \in r.out : Sendable(d.from, x)
    BY <1>2, <1>5 DEF Sendable, PeerKept
  <2> QED BY <1>4, <1>7, <2>1, KnowledgeStays DEF RecvSendable
<1> QED BY <1>3, <1>7, <1>8, <1>9, <1>10, PartsStay DEF IInv

\* It sends the answers, or drops a packet with a source of somebody else.
LEMMA RecvReplyKeeps ==
  ASSUME IInv, RecvReply \/ RecvSpoofed
  PROVE  IInv'
<1>1. /\ recv' = RecvIdle \/ (recv.ip # NoPacket /\ recv' = [recv EXCEPT !.pc = "packet", !.out = {}])
      /\ UNCHANGED <<wg, sent, made, stk, tim, to_stack, to_wg, flows>>
  BY DEF RecvReply, RecvSpoofed
<1>2. Grows
  BY <1>1, StillGrows
<1>3. CASE recv' = RecvIdle
  <2>1. TypeOK' /\ RecvCarries' /\ RecvSendable'
    BY <1>1, <1>3 DEF IInv, TypeOK, RecvCarries, RecvSendable, RecvIdle
  <2> QED BY <1>1, <1>2, <2>1, PartsStay DEF IInv
<1>4. CASE recv.ip # NoPacket /\ recv' = [recv EXCEPT !.pc = "packet", !.out = {}]
  <2>1. TypeOK'
    BY <1>1, <1>4 DEF IInv, TypeOK
  <2>2. recv'.ip = recv.ip /\ recv'.idx = recv.idx /\ recv'.from = recv.from /\ recv'.out = {}
    BY <1>4 DEF IInv, TypeOK
  <2>3. RecvCarries' /\ RecvSendable'
    BY <1>2, <1>4, <2>2, KnowledgeStays DEF IInv, RecvCarries, RecvSendable
  <2> QED BY <1>1, <1>2, <2>1, <2>3, PartsStay DEF IInv
<1> QED BY <1>1, <1>3, <1>4

\* What a packet that reaches the checks is.
LEMMA PacketInHand ==
  ASSUME IInv, recv.pc = "packet"
  PROVE  recv.ip \in Packets /\ recv.idx \in Peers /\ Vetted(recv.idx, recv.ip) /\ Used(recv.idx, recv.from)
BY WgAssumption DEF IInv, TypeOK, RecvCarries

\* It refuses a destination, and answers the peer itself.
LEMMA RecvForbiddenKeeps ==
  ASSUME IInv, RecvForbidden
  PROVE  IInv'
<1>1. CASE recv' = RecvIdle /\ UNCHANGED wg
  <2>1. Grows
    BY <1>1, StillGrows DEF RecvForbidden
  <2>2. TypeOK' /\ RecvCarries' /\ RecvSendable'
    BY <1>1 DEF RecvForbidden, IInv, TypeOK, RecvCarries, RecvSendable, RecvIdle
  <2> QED BY <1>1, <2>1, <2>2, PartsStay DEF IInv, RecvForbidden
<1>2. CASE ~(recv' = RecvIdle /\ UNCHANGED wg)
  <2> DEFINE p == recv.idx
             pk == Back(recv.ip)
             t == EncapsulateState(wg[p], pk, made[p])
             out == EncapsulateOut(wg[p], p, pk)
  <2>1. /\ wg' = [wg EXCEPT ![p] = t] /\ recv' = [recv EXCEPT !.pc = "reply", !.ip = NoPacket, !.out = out]
        /\ UNCHANGED <<sent, made, stk, tim, to_stack, to_wg, flows>>
    BY <1>2 DEF RecvForbidden
  <2>2. recv.ip \in Packets /\ p \in Peers /\ Vetted(p, recv.ip) /\ Used(p, recv.from)
    BY PacketInHand DEF RecvForbidden
  <2>3. pk \in Packets /\ SentBy(p, Back(pk))
    BY <2>2, BackTwice DEF Vetted
  <2>4. wg[p] \in PeerStates /\ made[p] \in 0..MaxSent /\ PeerKept(p, wg[p])
    BY <2>2 DEF IInv, TypeOK, PeersKept
  <2> HIDE DEF pk
  <2>5. /\ t \in PeerStates /\ t.endpoint = wg[p].endpoint
        /\ t.queued \subseteq wg[p].queued \cup {pk}
        /\ out \in SUBSET Replies
        /\ \A x \in out : x.for = p /\ x.inner \in {pk, NoPacket}
    BY <2>2, <2>3, <2>4, EncapsulateFacts
  <2> HIDE DEF t, out
  <2>6. PeerKept(p, t)
    BY <2>3, <2>4, <2>5 DEF PeerKept
  <2>7. Grows /\ PeersKept' /\ wg' \in [Peers -> PeerStates]
    BY <2>1, <2>2, <2>5, <2>6, PeerStep
  <2>8. TypeOK'
    BY <2>1, <2>5, <2>7 DEF IInv, TypeOK
  <2>9. recv'.pc = "reply" /\ recv'.ip = NoPacket /\ recv'.idx = p /\ recv'.from = recv.from /\ recv'.out = out
    BY <2>1 DEF IInv, TypeOK
  <2>10. RecvCarries'
    BY <2>2, <2>7, <2>9, KnowledgeStays DEF RecvCarries
  <2>11. RecvSendable'
    <3>1. \A x \in out : Sendable(recv.from, x)
      BY <2>2, <2>3, <2>5 DEF Sendable
    <3> QED BY <2>7, <2>9, <3>1, KnowledgeStays DEF RecvSendable
  <2> QED BY <2>1, <2>7, <2>8, <2>10, <2>11, PartsStay DEF IInv
<1> QED BY <1>1, <1>2

\* It hands the packet to the stack.
LEMMA RecvForwardKeeps ==
  ASSUME IInv, RecvForward
  PROVE  IInv'
<1>1. /\ to_stack' = Push(to_stack, recv.ip) /\ recv' = RecvIdle
      /\ UNCHANGED <<wg, sent, made, stk, tim, to_wg, flows>>
  BY DEF RecvForward
<1>2. recv.ip \in Packets /\ recv.idx \in Peers /\ Vetted(recv.idx, recv.ip)
  BY PacketInHand DEF RecvForward
<1>3. Inward(recv.ip)
  BY <1>2, WgAssumption DEF RecvForward, Owned, Inward
<1>4. Grows
  BY <1>1, StillGrows
<1>5. /\ to_stack' \in Seq(Packets) /\ Len(to_stack') <= Queue
      /\ \A i \in DOMAIN to_stack' :
           to_stack'[i] = recv.ip \/ (i \in DOMAIN to_stack /\ to_stack'[i] = to_stack[i])
  BY <1>1, <1>2, PushFacts DEF IInv, TypeOK
<1>6. TypeOK' /\ RecvCarries' /\ RecvSendable'
  BY <1>1, <1>5 DEF IInv, TypeOK, RecvCarries, RecvSendable, RecvIdle
<1>7. QueueInward'
  <2>1. \A i \in DOMAIN to_stack' : to_stack'[i] \in Packets /\ Inward(to_stack'[i])
    BY <1>2, <1>3, <1>5 DEF IInv, TypeOK, QueueInward
  <2> QED BY <1>4, <2>1, PacketsStay DEF QueueInward, IInv
<1> QED BY <1>1, <1>4, <1>6, <1>7, PartsStay DEF IInv

\* The stack takes a packet, and may open a flow for it.
LEMMA StackReadsKeeps ==
  ASSUME IInv, StackReads
  PROVE  IInv'
<1>1. /\ to_stack # <<>> /\ to_stack' = Tail(to_stack)
      /\ flows' \in {flows, flows \cup {Head(to_stack)}}
      /\ UNCHANGED <<wg, sent, made, recv, stk, tim, to_wg>>
  BY DEF StackReads
<1>2. Grows
  BY <1>1, StillGrows
<1>3. /\ to_stack' \in Seq(Packets) /\ Len(to_stack') <= Queue
      /\ \A i \in DOMAIN to_stack' : i + 1 \in DOMAIN to_stack /\ to_stack'[i] = to_stack[i + 1]
      /\ Head(to_stack) \in Packets /\ 1 \in DOMAIN to_stack /\ Head(to_stack) = to_stack[1]
  BY <1>1, TailFacts DEF IInv, TypeOK
<1>4. TypeOK'
  BY <1>1, <1>3 DEF IInv, TypeOK
<1>5. QueueInward'
  <2>1. \A i \in DOMAIN to_stack' : to_stack'[i] \in Packets /\ Inward(to_stack'[i])
    BY <1>3 DEF IInv, TypeOK, QueueInward
  <2> QED BY <1>2, <2>1, PacketsStay DEF QueueInward, IInv
<1>6. FlowsInward'
  <2>1. \A pk \in flows' : pk \in Packets /\ Inward(pk)
    BY <1>1, <1>3 DEF IInv, TypeOK, FlowsInward, QueueInward
  <2> QED BY <1>2, <2>1, PacketsStay DEF FlowsInward, IInv
<1> QED BY <1>1, <1>2, <1>4, <1>5, <1>6, PartsStay DEF IInv

\* The reply to a packet that came in goes back to who sent it.
LEMMA ReplyIsOutward ==
  ASSUME NEW pk \in Packets, Inward(pk)
  PROVE  Back(pk) \in Packets /\ Outward(Back(pk))
<1>1. Back(pk) \in Packets /\ Back(Back(pk)) = pk /\ Back(pk).dst = pk.src
  BY BackTwice DEF Back
<1> QED BY <1>1 DEF Inward, Outward

\* The stack answers on a flow.
LEMMA StackWritesKeeps ==
  ASSUME IInv, NEW pk \in flows, StackWrites(pk)
  PROVE  IInv'
<1>1. to_wg' = Push(to_wg, Back(pk)) /\ UNCHANGED <<wg, sent, made, recv, stk, tim, to_stack, flows>>
  BY DEF StackWrites
<1>2. pk \in Packets /\ Back(pk) \in Packets /\ Outward(Back(pk))
  BY ReplyIsOutward DEF IInv, TypeOK, FlowsInward
<1>3. /\ to_wg' \in Seq(Packets) /\ Len(to_wg') <= Queue
      /\ \A i \in DOMAIN to_wg' : to_wg'[i] = Back(pk) \/ (i \in DOMAIN to_wg /\ to_wg'[i] = to_wg[i])
  BY <1>1, <1>2, PushFacts DEF IInv, TypeOK
<1>4. Grows
  BY <1>1, StillGrows
<1>5. TypeOK'
  BY <1>1, <1>3 DEF IInv, TypeOK
<1>6. QueueOutward'
  <2>1. \A i \in DOMAIN to_wg' : to_wg'[i] \in Packets /\ Outward(to_wg'[i])
    BY <1>2, <1>3 DEF IInv, TypeOK, QueueOutward
  <2> QED BY <1>4, <2>1, PacketsStay DEF QueueOutward, IInv
<1> QED BY <1>1, <1>4, <1>5, <1>6, PartsStay DEF IInv

\* The stk task finds the peer and encrypts for it.
LEMMA StkTakesKeeps ==
  ASSUME IInv, StkTakes
  PROVE  IInv'
<1> DEFINE pk == Head(to_wg)
           p == Owner[pk.dst]
           t == EncapsulateState(wg[p], pk, made[p])
           out == EncapsulateOut(wg[p], p, pk)
           to == wg[p].endpoint
<1>1. to_wg # <<>> /\ to_wg' = Tail(to_wg) /\ UNCHANGED <<sent, made, recv, tim, to_stack, flows>>
  BY DEF StkTakes
<1>2. /\ to_wg' \in Seq(Packets) /\ Len(to_wg') <= Queue
      /\ \A i \in DOMAIN to_wg' : i + 1 \in DOMAIN to_wg /\ to_wg'[i] = to_wg[i + 1]
      /\ pk \in Packets /\ 1 \in DOMAIN to_wg /\ pk = to_wg[1]
  BY <1>1, TailFacts DEF IInv, TypeOK
<1>3. Outward(pk)
  BY <1>2 DEF IInv, QueueOutward
<1>4. p \in Peers /\ SentBy(p, Back(pk)) /\ to # NoAddr
  BY <1>2, <1>3, DatapathAssumption DEF Outward, Vetted, Packets
<1>5. /\ wg' = [wg EXCEPT ![p] = t]
      /\ stk' = [pc |-> "send", out |-> {[to |-> to, msg |-> m] : m \in out}]
  BY <1>4, WgAssumption DEF StkTakes
<1>6. wg[p] \in PeerStates /\ made[p] \in 0..MaxSent /\ PeerKept(p, wg[p])
  BY <1>4 DEF IInv, TypeOK, PeersKept
<1>7. to \in Addrs /\ Used(p, to)
  BY <1>4, <1>6 DEF PeerStates, PeerKept
<1> HIDE DEF pk
<1>8. /\ t \in PeerStates /\ t.endpoint = to /\ t.queued \subseteq wg[p].queued \cup {pk}
      /\ out \in SUBSET Replies
      /\ \A x \in out : x.for = p /\ x.inner \in {pk, NoPacket}
  BY <1>2, <1>4, <1>6, EncapsulateFacts
<1> HIDE DEF t, out, to
<1>9. PeerKept(p, t)
  BY <1>4, <1>6, <1>7, <1>8 DEF PeerKept
<1>10. Grows /\ PeersKept' /\ wg' \in [Peers -> PeerStates]
  BY <1>1, <1>4, <1>5, <1>8, <1>9, PeerStep
<1>11. TypeOK'
  <2>1. stk' \in [pc : {"idle", "send"}, out : SUBSET Sending]
    BY <1>5, <1>7, <1>8 DEF Sending
  <2> QED BY <1>1, <1>2, <1>10, <2>1 DEF IInv, TypeOK
<1>12. StkSendable'
  <2>1. \A m \in out : Sendable(to, m)
    BY <1>4, <1>7, <1>8 DEF Sendable
  <2>2. \A x \in stk'.out : Sendable(x.to, x.msg)
    BY <1>5, <2>1
  <2> QED BY <1>10, <2>2, KnowledgeStays DEF StkSendable
<1>13. QueueOutward'
  <2>1. \A i \in DOMAIN to_wg' : to_wg'[i] \in Packets /\ Outward(to_wg'[i])
    BY <1>2 DEF IInv, TypeOK, QueueOutward
  <2> QED BY <1>10, <2>1, PacketsStay DEF QueueOutward, IInv
<1> QED BY <1>1, <1>10, <1>11, <1>12, <1>13, PartsStay DEF IInv

\* A task sends what it holds.
LEMMA SendsKeep ==
  ASSUME IInv, StkSends \/ TimSends
  PROVE  IInv'
<1>1. Grows
  BY StillGrows DEF StkSends, TimSends
<1>2. TypeOK'
  BY DEF IInv, TypeOK, StkSends, TimSends, SendIdle
<1>3. CASE StkSends
  <2>1. StkSendable'
    BY <1>3 DEF StkSends, StkSendable, SendIdle
  <2> QED BY <1>1, <1>2, <1>3, <2>1, PartsStay DEF IInv, StkSends
<1>4. CASE TimSends
  <2>1. TimSendable'
    BY <1>4 DEF TimSends, TimSendable, SendIdle
  <2> QED BY <1>1, <1>2, <1>4, <2>1, PartsStay DEF IInv, TimSends
<1> QED BY <1>3, <1>4

\* The timers of every peer.
LEMMA TimTicksKeeps ==
  ASSUME IInv, NEW event \in Events, TimTicks(event)
  PROVE  IInv'
<1>1. /\ wg' = [p \in Peers |-> TimerState(wg[p], event[p], made[p])]
      /\ tim' = [pc |-> "send",
                 out |-> UNION {{[to |-> wg[p].endpoint, msg |-> m] : m \in TimerOut(p, event[p])}
                                  : p \in {q \in Peers : wg[q].endpoint # NoAddr}}]
      /\ UNCHANGED <<sent, made, recv, stk, to_stack, to_wg, flows>>
  BY DEF TimTicks
<1>2. \A p \in Peers : wg[p] \in PeerStates /\ made[p] \in 0..MaxSent /\ PeerKept(p, wg[p])
  BY DEF IInv, TypeOK, PeersKept
<1>3. \A p \in Peers :
        /\ TimerState(wg[p], event[p], made[p]) \in PeerStates
        /\ TimerState(wg[p], event[p], made[p]).endpoint = wg[p].endpoint
        /\ TimerState(wg[p], event[p], made[p]).queued \subseteq wg[p].queued
        /\ TimerOut(p, event[p]) \in SUBSET Replies
        /\ \A x \in TimerOut(p, event[p]) : x.for = p /\ x.inner = NoPacket
  <2> SUFFICES ASSUME NEW p \in Peers
               PROVE  /\ TimerState(wg[p], event[p], made[p]) \in PeerStates
                      /\ TimerState(wg[p], event[p], made[p]).endpoint = wg[p].endpoint
                      /\ TimerState(wg[p], event[p], made[p]).queued \subseteq wg[p].queued
                      /\ TimerOut(p, event[p]) \in SUBSET Replies
                      /\ \A x \in TimerOut(p, event[p]) : x.for = p /\ x.inner = NoPacket
    OBVIOUS
  <2>1. wg[p] \in PeerStates /\ made[p] \in 0..MaxSent
    BY <1>2
  <2>2. event[p] \in {"quiet", "expire", "keepalive", "rekey"}
    BY DEF Events
  <2> DEFINE s == wg[p]
             e == event[p]
             m == made[p]
  <2>3. s \in PeerStates /\ e \in {"quiet", "expire", "keepalive", "rekey"} /\ m \in 0..MaxSent
    BY <2>1, <2>2
  <2> HIDE DEF s, e, m
  <2>4. /\ TimerState(s, e, m) \in PeerStates
        /\ TimerState(s, e, m).endpoint = s.endpoint
        /\ TimerState(s, e, m).queued \subseteq s.queued
        /\ TimerOut(p, e) \in SUBSET Replies
        /\ \A x \in TimerOut(p, e) : x.for = p /\ x.inner = NoPacket
    BY <2>3, TimerFacts
  <2> QED BY <2>4 DEF s, e, m
<1>4. wg' \in [Peers -> PeerStates]
  BY <1>1, <1>3
<1>5. \A p \in Peers : wg'[p].endpoint = wg[p].endpoint /\ wg'[p].queued \subseteq wg[p].queued
  BY <1>1, <1>3
<1>6. Grows
  BY <1>1, <1>5 DEF Grows
<1>7. PeersKept'
  <2>1. \A p \in Peers : PeerKept(p, wg'[p])
    BY <1>2, <1>5 DEF PeerKept
  <2> QED BY <1>6, <2>1, KnowledgeStays DEF PeersKept
<1>8. \A x \in tim'.out : \E p \in Peers : \E m \in TimerOut(p, event[p]) :
         wg[p].endpoint # NoAddr /\ x = [to |-> wg[p].endpoint, msg |-> m]
  BY <1>1
<1>9. \A x \in tim'.out : x \in Sending /\ Sendable(x.to, x.msg)
  <2> SUFFICES ASSUME NEW x \in tim'.out
               PROVE  x \in Sending /\ Sendable(x.to, x.msg)
    OBVIOUS
  <2>0. PICK p \in Peers : \E m \in TimerOut(p, event[p]) :
          wg[p].endpoint # NoAddr /\ x = [to |-> wg[p].endpoint, msg |-> m]
    BY <1>8
  <2>1. PICK m \in TimerOut(p, event[p]) :
          wg[p].endpoint # NoAddr /\ x = [to |-> wg[p].endpoint, msg |-> m]
    BY <2>0
  <2>2. m \in Replies /\ m.for = p /\ m.inner = NoPacket
    BY <1>3
  <2>3. wg[p].endpoint \in Addrs /\ Used(p, wg[p].endpoint)
    BY <1>2, <2>1 DEF PeerStates, PeerKept
  <2> QED BY <2>1, <2>2, <2>3 DEF Sending, Sendable
<1>10. TypeOK'
  <2>1. tim'.out \in SUBSET Sending
    BY <1>9
  <2>2. tim' \in [pc : {"idle", "send"}, out : SUBSET Sending]
    BY <1>1, <2>1
  <2> QED BY <1>1, <1>4, <2>2 DEF IInv, TypeOK
<1>11. TimSendable'
  BY <1>6, <1>9, KnowledgeStays DEF TimSendable
<1> QED BY <1>1, <1>6, <1>7, <1>10, <1>11, PartsStay DEF IInv

\* Every step keeps the invariant.
LEMMA NextKeepsIInv == IInv /\ [Next]_vars => IInv'
<1> SUFFICES ASSUME IInv, [Next]_vars
             PROVE  IInv'
  OBVIOUS
<1>1. CASE \E d \in Datagrams : PeerSends(d)
  BY <1>1, PeerSendsKeeps
<1>2. CASE \E d \in sent, load \in Loads : RecvDatagram(d, load)
  BY <1>2, RecvDatagramKeeps
<1>3. CASE RecvReply \/ RecvSpoofed \/ RecvForbidden \/ RecvForward
  BY <1>3, RecvReplyKeeps, RecvForbiddenKeeps, RecvForwardKeeps
<1>4. CASE StackReads \/ \E pk \in flows : StackWrites(pk)
  BY <1>4, StackReadsKeeps, StackWritesKeeps
<1>5. CASE StkTakes \/ StkSends \/ TimSends
  BY <1>5, StkTakesKeeps, SendsKeep
<1>6. CASE \E event \in Events : TimTicks(event)
  BY <1>6, TimTicksKeeps
<1>7. CASE UNCHANGED vars
  <2>1. Grows
    BY <1>7, StillGrows DEF vars
  <2>2. TypeOK'
    BY <1>7 DEF IInv, TypeOK, vars
  <2> QED BY <1>7, <2>1, <2>2, PartsStay DEF IInv, vars
<1> QED BY <1>1, <1>2, <1>3, <1>4, <1>5, <1>6, <1>7 DEF Next

\* The invariant of the server's tasks and queues, for any number of peers
\* (server/src/lib.rs, start).
THEOREM InvariantHolds == Spec => []IInv
BY InitIInv, NextKeepsIInv, PTL DEF Spec

-----------------------------------------------------------------------------

\* The queues keep their capacity and the endpoint its shape (server/src/lib.rs, start).
THEOREM DatapathTypes == Spec => []TypeOK
<1>1. IInv => TypeOK
  BY DEF IInv
<1> QED BY <1>1, InvariantHolds, PTL

\* The stack is given only packets from the owner of their source, to allowed
\* destinations (server/src/lib.rs:105-119).
THEOREM StackIsIsolated == Spec => []StackSeesOwnedPackets
<1>1. IInv => StackSeesOwnedPackets
  BY DEF IInv, StackSeesOwnedPackets, FlowsInward, QueueInward, Inward, Vetted
<1> QED BY <1>1, InvariantHolds, PTL

\* A packet encrypted for a peer answers one that this peer sent.
THEOREM RepliesAreOwned == Spec => []AnswersOwnPackets
<1>1. IInv => AnswersOwnPackets
  BY DEF IInv, AnswersOwnPackets, InHand, RecvSendable, StkSendable, TimSendable, Sendable, PeersKept, PeerKept
<1> QED BY <1>1, InvariantHolds, PTL

\* A packet of the stack finds its peer and the endpoint of it.
THEOREM RepliesAreRouted == Spec => []RepliesFindEndpoint
<1>1. IInv => RepliesFindEndpoint
  BY DEF IInv, RepliesFindEndpoint, QueueOutward, Outward, Vetted
<1> QED BY <1>1, InvariantHolds, PTL

\* What is made for a peer goes to an address the peer has sent from, also
\* when the endpoint moves between the lock and the send.
THEOREM TargetsWereUsed == Spec => []SendsToUsedAddress
<1>1. IInv => SendsToUsedAddress
  BY DEF IInv, SendsToUsedAddress, InHand, RecvSendable, StkSendable, TimSendable, Sendable, Used
<1> QED BY <1>1, InvariantHolds, PTL

-----------------------------------------------------------------------------
(* Roaming.  A response the tunnel accepts is to a handshake younger than  *)
(* any session it has, so that a session it starts is a new one.           *)

Young(s, m) ==
  /\ s.current <= m /\ s.pending <= m
  /\ s.initiating # NotInitiating =>
       s.current <= s.initiating /\ s.pending <= s.initiating /\ s.initiating <= m

Ages ==
  /\ \A d \in sent : d.n <= made[d.author]
  /\ \A p \in Peers : Young(wg[p], made[p])

\* A handshake started by a packet is younger than every session.
LEMMA EncapsulateYoung ==
  ASSUME NEW s \in PeerStates, NEW pk, NEW m \in 0..MaxSent, Young(s, m)
  PROVE  Young(EncapsulateState(s, pk, m), m)
<1> DEFINE t == [s EXCEPT !.queued = @ \cup {pk}, !.initiating = IF @ = NotInitiating THEN m ELSE @]
<1>1. /\ t.current = s.current /\ t.pending = s.pending
      /\ t.initiating = IF s.initiating = NotInitiating THEN m ELSE s.initiating
  BY DEF PeerStates
<1>2. Young(t, m)
  BY <1>1 DEF Young, PeerStates
<1> QED BY <1>2 DEF EncapsulateState

\* The same of one started by a flush.
LEMMA FlushYoung ==
  ASSUME NEW s \in PeerStates, NEW m \in 0..MaxSent, Young(s, m)
  PROVE  Young(FlushState(s, m), m)
<1> DEFINE t == [s EXCEPT !.initiating = IF @ = NotInitiating THEN m ELSE @]
           u == [s EXCEPT !.queued = {}]
<1>1. /\ t.current = s.current /\ t.pending = s.pending
      /\ t.initiating = IF s.initiating = NotInitiating THEN m ELSE s.initiating
      /\ u.current = s.current /\ u.pending = s.pending /\ u.initiating = s.initiating
  BY DEF PeerStates
<1>2. Young(t, m) /\ Young(u, m)
  BY <1>1 DEF Young, PeerStates
<1> QED BY <1>2 DEF FlushState

\* A session is as old as the message that started it.
LEMMA AcceptedYoung ==
  ASSUME NEW s \in PeerStates, NEW d \in Datagrams, NEW m \in 0..MaxSent,
         Young(s, m), d.n <= m, Fresh(s, d)
  PROVE  Young([Accepted(s, d) EXCEPT !.endpoint = d.from], m)
<1> DEFINE t == [Accepted(s, d) EXCEPT !.endpoint = d.from]
<1>0. d.kind \in {"init", "response", "data"} /\ d.n \in Nat
  BY WgAssumption DEF Datagrams, Numbers
<1>1. CASE d.kind = "init"
  <2>1. t.current = s.current /\ t.pending = d.n /\ t.initiating = NotInitiating
    BY <1>1 DEF Accepted, PeerStates
  <2> QED BY <2>1 DEF Young
<1>2. CASE d.kind = "response"
  <2>1. t.current = d.n /\ t.pending = s.pending /\ t.initiating = NotInitiating
    BY <1>2 DEF Accepted, PeerStates
  <2> QED BY <2>1 DEF Young
<1>3. CASE d.kind = "data"
  <2>1. /\ t.current = IF d.sess > s.current THEN d.sess ELSE s.current
        /\ t.pending = s.pending /\ t.initiating = s.initiating
    BY <1>3 DEF Accepted, PeerStates
  <2>2. d.sess \in {s.current, s.pending}
    BY <1>3 DEF Fresh
  <2> QED BY <2>1, <2>2 DEF Young
<1> QED BY <1>0, <1>1, <1>2, <1>3

\* So recv_from_network keeps sessions and handshakes in order.
LEMMA ReceivedYoung ==
  ASSUME NEW s \in PeerStates, NEW d \in Datagrams, NEW load, NEW m \in 0..MaxSent,
         Young(s, m), d.n <= m
  PROVE  Young(Received(s, d, load, m).state, m)
<1> DEFINE r == Received(s, d, load, m)
<1>1. CASE Limited(d) /\ load = "outer"
  BY <1>1 DEF Received, Result
<1>2. CASE Limited(d) /\ load = "inner"
  <2> DEFINE t == FlushState(s, m)
  <2>1. t \in PeerStates /\ Young(t, m)
    BY FlushFacts, FlushYoung DEF Datagrams
  <2>2. r.state \in {t, [t EXCEPT !.endpoint = d.from]}
    BY <1>2 DEF Received, Result
  <2> HIDE DEF t
  <2>3. Young([t EXCEPT !.endpoint = d.from], m)
    BY <2>1 DEF Young, PeerStates
  <2> QED BY <2>1, <2>2, <2>3
<1>3. CASE ~(Limited(d) /\ load \in {"outer", "inner"}) /\ ~Fresh(s, d)
  BY <1>3 DEF Received, Result
<1>4. CASE ~(Limited(d) /\ load \in {"outer", "inner"}) /\ Fresh(s, d)
  <2> DEFINE t == [Accepted(s, d) EXCEPT !.endpoint = d.from]
  <2>1. t \in PeerStates /\ Young(t, m)
    BY <1>4, AcceptedFacts, AcceptedYoung
  <2>2. r.state \in {t, FlushState(t, m)}
    BY <1>4 DEF Received, Result
  <2> HIDE DEF t
  <2> QED BY <2>1, <2>2, FlushYoung
<1> QED BY <1>1, <1>2, <1>3, <1>4

\* A handshake the timers start or repeat is the youngest.
LEMMA TimerYoung ==
  ASSUME NEW s \in PeerStates, NEW m \in 0..MaxSent, Young(s, m),
         NEW e \in {"quiet", "expire", "keepalive", "rekey"}
  PROVE  Young(TimerState(s, e, m), m)
<1>1. CASE e = "rekey"
  <2> DEFINE t == [s EXCEPT !.initiating = m]
  <2>1. t.current = s.current /\ t.pending = s.pending /\ t.initiating = m
    BY DEF PeerStates
  <2>2. TimerState(s, e, m) = t
    BY <1>1 DEF TimerState
  <2> HIDE DEF t
  <2> QED BY <2>1, <2>2 DEF Young
<1>2. CASE e = "expire"
  <2> DEFINE t == TimerState(s, e, m)
  <2>1. t.current = 0 /\ t.pending = 0 /\ t.initiating = NotInitiating
    BY <1>2 DEF TimerState, PeerStates
  <2> QED BY <2>1 DEF Young
<1>3. CASE e \in {"quiet", "keepalive"}
  BY <1>3 DEF TimerState
<1> QED BY <1>1, <1>2, <1>3

\* An operation of the endpoint on one peer, or on none.
LEMMA AgesStep ==
  ASSUME TypeOK, Ages, NEW p \in Peers, NEW t, Young(t, made[p]),
         wg' = [wg EXCEPT ![p] = t], UNCHANGED <<sent, made>>
  PROVE  Ages'
BY DEF TypeOK, Ages

\* Every step keeps them in order.
LEMMA AgesKept == IInv /\ Ages /\ [Next]_vars => Ages'
<1> SUFFICES ASSUME IInv, Ages, [Next]_vars
             PROVE  Ages'
  OBVIOUS
<1>0. TypeOK
  BY DEF IInv
<1>1. ASSUME NEW d \in Datagrams, PeerSends(d)
      PROVE  Ages'
  <2> DEFINE p == d.author
  <2>1. /\ sent' = sent \cup {d} /\ made' = [made EXCEPT ![p] = d.n]
        /\ d.n = made[p] + 1 /\ UNCHANGED wg
    BY <1>1 DEF PeerSends
  <2>2. p \in Peers /\ \A q \in Peers : made[q] \in 0..MaxSent /\ wg[q] \in PeerStates
    BY <1>0 DEF TypeOK, Datagrams
  <2>3. \A q \in Peers : made'[q] \in Nat /\ made[q] <= made'[q]
    BY <1>0, <2>1, <2>2, WgAssumption DEF TypeOK
  <2>4. \A q \in Peers : Young(wg[q], made'[q])
    <3> SUFFICES ASSUME NEW q \in Peers
                 PROVE  Young(wg[q], made'[q])
      OBVIOUS
    <3>1. Young(wg[q], made[q]) /\ wg[q] \in PeerStates /\ made[q] \in Nat /\ made'[q] \in Nat
          /\ made[q] <= made'[q]
      BY <2>2, <2>3, WgAssumption DEF Ages
    <3>2. /\ wg[q].current \in Int /\ wg[q].pending \in Int /\ wg[q].initiating \in Int
      BY <3>1, WgAssumption DEF PeerStates, NotInitiating
    <3> QED BY <3>1, <3>2 DEF Young
  <2>5. \A e \in sent : e.n <= made'[e.author]
    <3> SUFFICES ASSUME NEW e \in sent
                 PROVE  e.n <= made'[e.author]
      OBVIOUS
    <3>1. e.author \in Peers /\ e.n \in Nat /\ e.n <= made[e.author]
      BY <1>0, WgAssumption DEF TypeOK, Datagrams, Numbers, Ages
    <3> QED BY <3>1, <2>2, <2>3, WgAssumption
  <2>6. d.n <= made'[p]
    BY <1>0, <2>1, <2>2, WgAssumption DEF TypeOK
  <2> QED BY <2>1, <2>4, <2>5, <2>6 DEF Ages
<1>2. ASSUME NEW d \in sent, NEW load, RecvDatagram(d, load)
      PROVE  Ages'
  <2> DEFINE p == d.author
  <2>1. /\ p \in Peers /\ d \in Datagrams /\ wg[p] \in PeerStates /\ made[p] \in 0..MaxSent
        /\ Young(wg[p], made[p]) /\ d.n <= made[p]
    BY <1>0 DEF TypeOK, Datagrams, Ages
  <2>2. Young(Received(wg[p], d, load, made[p]).state, made[p])
    BY <2>1, ReceivedYoung
  <2> QED BY <1>0, <1>2, <2>1, <2>2, AgesStep DEF RecvDatagram
<1>3. CASE RecvForbidden
  <2>1. CASE UNCHANGED wg
    BY <1>3, <2>1 DEF RecvForbidden, Ages
  <2>2. CASE wg' = [wg EXCEPT ![recv.idx] = EncapsulateState(@, Back(recv.ip), made[recv.idx])]
    <3> DEFINE p == recv.idx
    <3>1. p \in Peers
      BY <1>3, PacketInHand DEF RecvForbidden
    <3>2. wg[p] \in PeerStates /\ made[p] \in 0..MaxSent /\ Young(wg[p], made[p])
      BY <1>0, <3>1 DEF TypeOK, Ages
    <3>3. Young(EncapsulateState(wg[p], Back(recv.ip), made[p]), made[p])
      BY <3>2, EncapsulateYoung
    <3> QED BY <1>0, <1>3, <2>2, <3>1, <3>3, AgesStep DEF RecvForbidden
  <2> QED BY <1>3, <2>1, <2>2 DEF RecvForbidden
<1>4. CASE StkTakes
  <2> DEFINE pk == Head(to_wg)
             p == Owner[pk.dst]
  <2>1. UNCHANGED <<sent, made>>
    BY <1>4 DEF StkTakes
  <2>2. CASE p = NoPeer
    BY <1>4, <2>1, <2>2 DEF StkTakes, Ages
  <2>3. CASE p # NoPeer
    <3>1. wg' = [wg EXCEPT ![p] = EncapsulateState(@, pk, made[p])]
      BY <1>4, <2>3 DEF StkTakes
    <3>2. p \in Peers
      <4>1. pk \in Packets
        BY <1>0, <1>4, TailFacts DEF StkTakes, TypeOK
      <4> QED BY <2>3, <4>1, DatapathAssumption DEF Packets
    <3>3. wg[p] \in PeerStates /\ made[p] \in 0..MaxSent /\ Young(wg[p], made[p])
      BY <1>0, <3>2 DEF TypeOK, Ages
    <3> HIDE DEF pk, p
    <3>4. Young(EncapsulateState(wg[p], pk, made[p]), made[p])
      BY <3>3, EncapsulateYoung
    <3> QED BY <1>0, <2>1, <3>1, <3>2, <3>4, AgesStep
  <2> QED BY <2>2, <2>3
<1>5. ASSUME NEW event \in Events, TimTicks(event)
      PROVE  Ages'
  <2>1. wg' = [p \in Peers |-> TimerState(wg[p], event[p], made[p])] /\ UNCHANGED <<sent, made>>
    BY <1>5 DEF TimTicks
  <2>2. \A p \in Peers : Young(wg'[p], made[p])
    <3> SUFFICES ASSUME NEW p \in Peers
                 PROVE  Young(wg'[p], made[p])
      OBVIOUS
    <3>1. /\ wg[p] \in PeerStates /\ made[p] \in 0..MaxSent /\ Young(wg[p], made[p])
          /\ event[p] \in {"quiet", "expire", "keepalive", "rekey"}
      BY <1>0 DEF TypeOK, Ages, Events
    <3>2. Young(TimerState(wg[p], event[p], made[p]), made[p])
      BY <3>1, TimerYoung
    <3> QED BY <2>1, <3>2
  <2> QED BY <2>1, <2>2 DEF Ages
<1>6. CASE RecvReply \/ RecvSpoofed \/ RecvForward \/ StackReads \/ StkSends \/ TimSends
  BY <1>6 DEF RecvReply, RecvSpoofed, RecvForward, StackReads, StkSends, TimSends, Ages
<1>7. CASE (\E pk \in flows : StackWrites(pk)) \/ UNCHANGED vars
  BY <1>7 DEF StackWrites, vars, Ages
<1> QED BY <1>1, <1>2, <1>3, <1>4, <1>5, <1>6, <1>7 DEF Next

\* Where the endpoint of a peer is after a datagram.
LEMMA MovesOnAccept ==
  ASSUME NEW s \in PeerStates, NEW d \in Datagrams, NEW load, NEW m \in 0..MaxSent, Young(s, m)
  PROVE  LET r == Received(s, d, load, m)
         IN  r.state.endpoint # s.endpoint =>
               \/ r.state.lastInit # s.lastInit
               \/ r.state.accepted # s.accepted
               \/ r.state.current # s.current
               \/ Reply(NoPeer, "cookie") \in r.out
<1> DEFINE r == Received(s, d, load, m)
<1>1. CASE Limited(d) /\ load = "outer"
  BY <1>1 DEF Received, Result
<1>2. CASE Limited(d) /\ load = "inner"
  BY <1>2 DEF Received, Result
<1>3. CASE ~(Limited(d) /\ load \in {"outer", "inner"}) /\ ~Fresh(s, d)
  BY <1>3 DEF Received, Result
<1>4. CASE ~(Limited(d) /\ load \in {"outer", "inner"}) /\ Fresh(s, d)
  <2> DEFINE t == [Accepted(s, d) EXCEPT !.endpoint = d.from]
  <2>1. t \in PeerStates
    BY AcceptedFacts
  <2>2. r.state \in {t, FlushState(t, m)}
    BY <1>4 DEF Received, Result
  <2>3. d.kind \in {"init", "response", "data"} /\ d.n \in Nat
    BY WgAssumption DEF Datagrams, Numbers
  <2>4. t.lastInit # s.lastInit \/ t.accepted # s.accepted \/ t.current # s.current
    <3>1. CASE d.kind = "init"
      <4>1. t.lastInit = d.n /\ d.n > s.lastInit
        BY <1>4, <3>1 DEF Accepted, Fresh, PeerStates
      <4> QED BY <4>1, <2>3 DEF PeerStates
    <3>2. CASE d.kind = "response"
      <4>1. t.current = d.n /\ d.n > s.initiating /\ s.current <= s.initiating
        BY <1>4, <3>2 DEF Accepted, Fresh, PeerStates, Young
      <4>2. s.current \in Int /\ s.initiating \in Int
        BY WgAssumption DEF PeerStates, NotInitiating
      <4> QED BY <4>1, <4>2, <2>3
    <3>3. CASE d.kind = "data"
      <4>1. t.accepted = s.accepted \cup {d.n} /\ d.n \notin s.accepted
        BY <1>4, <3>3 DEF Accepted, Fresh, PeerStates
      <4> QED BY <4>1
    <3> QED BY <2>3, <3>1, <3>2, <3>3
  <2> HIDE DEF t
  <2>5. LET u == FlushState(t, m)
        IN  u.lastInit = t.lastInit /\ u.accepted = t.accepted /\ u.current = t.current
    BY <2>1 DEF FlushState, PeerStates
  <2> QED BY <2>2, <2>4, <2>5
<1> QED BY <1>1, <1>2, <1>3, <1>4

\* Only recv_from_network moves an endpoint.
LEMMA MovesOnProof ==
  IInv /\ Ages /\ [Next]_vars =>
    \A p \in Peers : wg'[p].endpoint # wg[p].endpoint
                     => AcceptsMessage(p) \/ Reply(NoPeer, "cookie") \in recv'.out
<1> SUFFICES ASSUME IInv, Ages, [Next]_vars, NEW p \in Peers, wg'[p].endpoint # wg[p].endpoint
             PROVE  AcceptsMessage(p) \/ Reply(NoPeer, "cookie") \in recv'.out
  OBVIOUS
<1>0. /\ TypeOK /\ wg[p] \in PeerStates /\ made[p] \in 0..MaxSent /\ Young(wg[p], made[p])
  BY DEF IInv, TypeOK, Ages
<1>1. ASSUME NEW d \in sent, NEW load, RecvDatagram(d, load)
      PROVE  AcceptsMessage(p) \/ Reply(NoPeer, "cookie") \in recv'.out
  <2> DEFINE r == Received(wg[d.author], d, load, made[d.author])
  <2>1. d \in Datagrams /\ d.author \in Peers
    BY <1>0 DEF TypeOK, Datagrams
  <2>2. wg' = [wg EXCEPT ![d.author] = r.state] /\ recv'.out = r.out
    BY <1>1 DEF RecvDatagram
  <2> HIDE DEF r
  <2>3. p = d.author /\ wg'[p] = r.state
    BY <1>0, <2>1, <2>2 DEF TypeOK
  <2>4. \/ r.state.lastInit # wg[p].lastInit
        \/ r.state.accepted # wg[p].accepted
        \/ r.state.current # wg[p].current
        \/ Reply(NoPeer, "cookie") \in r.out
    BY <1>0, <2>1, <2>3, MovesOnAccept DEF r
  <2> QED BY <2>2, <2>3, <2>4 DEF AcceptsMessage
<1>2. CASE RecvForbidden
  <2>1. wg' = wg \/ wg' = [wg EXCEPT ![recv.idx] = EncapsulateState(@, Back(recv.ip), made[recv.idx])]
    BY <1>2 DEF RecvForbidden
  <2>2. EncapsulateState(wg[p], Back(recv.ip), made[p]).endpoint = wg[p].endpoint
    BY <1>0 DEF EncapsulateState, PeerStates
  <2> QED BY <1>0, <2>1, <2>2 DEF TypeOK
<1>3. CASE StkTakes
  <2> DEFINE pk == Head(to_wg)
  <2>1. wg' = wg \/ wg' = [wg EXCEPT ![Owner[pk.dst]] = EncapsulateState(@, pk, made[Owner[pk.dst]])]
    BY <1>3 DEF StkTakes
  <2> HIDE DEF pk
  <2>2. EncapsulateState(wg[p], pk, made[p]).endpoint = wg[p].endpoint
    BY <1>0 DEF EncapsulateState, PeerStates
  <2> QED BY <1>0, <2>1, <2>2 DEF TypeOK
<1>4. ASSUME NEW event \in Events, TimTicks(event)
      PROVE  FALSE
  <2>1. wg'[p] = TimerState(wg[p], event[p], made[p])
    BY <1>4 DEF TimTicks
  <2>2. event[p] \in {"quiet", "expire", "keepalive", "rekey"}
    BY DEF Events
  <2>3. TimerState(wg[p], event[p], made[p]).endpoint = wg[p].endpoint
    BY <1>0, <2>2 DEF TimerState, PeerStates
  <2> QED BY <2>1, <2>3
<1>5. CASE RecvReply \/ RecvSpoofed \/ RecvForward \/ StackReads \/ StkSends \/ TimSends
  BY <1>5 DEF RecvReply, RecvSpoofed, RecvForward, StackReads, StkSends, TimSends
<1>6. CASE (\E d \in Datagrams : PeerSends(d)) \/ (\E pk \in flows : StackWrites(pk)) \/ UNCHANGED vars
  BY <1>6 DEF PeerSends, StackWrites, vars
<1> QED BY <1>1, <1>2, <1>3, <1>4, <1>5, <1>6 DEF Next

\* An endpoint moves only when the tunnel accepts a message, which only the
\* holder of the key can make, or in the call that also answers with a cookie
\* (wgcore/src/lib.rs:126).
THEOREM RoamsOnProof == Spec => EndpointMovesUnlessLimited
<1>1. Init => Ages
  BY WgAssumption DEF Init, Ages, Young, NewPeer, NotInitiating
<1>2. Spec => [](IInv /\ Ages)
  BY <1>1, InitIInv, NextKeepsIInv, AgesKept, PTL DEF Spec
<1>3. IInv /\ Ages /\ [Next]_vars =>
        [\A p \in Peers : wg'[p].endpoint # wg[p].endpoint
            => AcceptsMessage(p) \/ Reply(NoPeer, "cookie") \in recv'.out]_vars
  BY MovesOnProof
<1> QED BY <1>2, <1>3, PTL DEF Spec, EndpointMovesUnlessLimited
================================================================================
