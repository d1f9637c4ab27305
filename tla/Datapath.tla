------------------------------- MODULE Datapath -------------------------------
(***************************************************************************)
(* The three tasks of the server that share the WireGuard endpoint         *)
(* (crates/server/src/lib.rs, start) and the userspace stack they feed:    *)
(*                                                                         *)
(*   recv   peer -> stack: decrypt, check the source against the owner of  *)
(*          the address, check the destination, queue for the stack        *)
(*   stk    stack -> peer: pick the peer owning the destination, encrypt   *)
(*   tim    every 250 ms: the timers of every peer                         *)
(*                                                                         *)
(* Wg is behind a mutex.  A lock section is one step; the datagrams and    *)
(* the endpoint a task carries out of it are sent in a later step, when    *)
(* another task may have moved the endpoint.                               *)
(***************************************************************************)
EXTENDS Wg, Sequences

CONSTANTS
  Owner,       \* peer_for over allowed_ips: the peer owning an address
  AllowedDst,  \* the destinations allowed_dst accepts
  AddrsOf,     \* the network addresses a peer sends from
  Loads,       \* the outcomes of the rate limiter that are considered
  Queue        \* QUEUE, the capacity of to_stack and of to_wg

\* Config::validate keeps every allowed_ip inside the tunnel network, and
\* allowed_dst rejects that network: no allowed destination belongs to a peer.
ASSUME DatapathAssumption ==
  /\ Owner \in [IPs -> Peers \cup {NoPeer}]
  /\ AllowedDst \in SUBSET {ip \in IPs : Owner[ip] = NoPeer}
  /\ AddrsOf \in [Peers -> SUBSET Addrs]
  /\ Loads \in SUBSET LoadLevels
  /\ Queue \in Nat \ {0}

VARIABLES
  wg,        \* the Wg behind the mutex, per peer
  sent,      \* datagrams the peers have made; the network may deliver one
             \* any number of times, in any order, or never
  made,      \* how many each peer has made
  recv,      \* the peer -> stack task
  stk,       \* the stack -> peer task
  tim,       \* the timers task
  to_stack,  \* queue of packets for the stack
  to_wg,     \* queue of packets from the stack
  flows      \* the sessions of the stack, by the packet that opened them

vars == <<wg, sent, made, recv, stk, tim, to_stack, to_wg, flows>>

\* What a task sends once it has released the lock: a datagram and its target.
Sending == [to : Addrs, msg : Replies]

RecvIdle == [pc |-> "idle", idx |-> NoPeer, from |-> NoAddr, out |-> {}, ip |-> NoPacket]
SendIdle == [pc |-> "idle", out |-> {}]

TypeOK ==
  /\ wg \in [Peers -> PeerStates]
  /\ sent \in SUBSET Datagrams
  /\ made \in [Peers -> 0..MaxSent]
  /\ recv \in [pc : {"idle", "reply", "packet"}, idx : Peers \cup {NoPeer},
               from : Addrs \cup {NoAddr}, out : SUBSET Replies, ip : Packets \cup {NoPacket}]
  /\ stk \in [pc : {"idle", "send"}, out : SUBSET Sending]
  /\ tim \in [pc : {"idle", "send"}, out : SUBSET Sending]
  /\ to_stack \in Seq(Packets) /\ Len(to_stack) <= Queue
  /\ to_wg \in Seq(Packets) /\ Len(to_wg) <= Queue
  /\ flows \in SUBSET Packets

Init ==
  /\ wg = [p \in Peers |-> NewPeer]
  /\ sent = {}
  /\ made = [p \in Peers |-> 0]
  /\ recv = RecvIdle
  /\ stk = SendIdle
  /\ tim = SendIdle
  /\ to_stack = <<>>
  /\ to_wg = <<>>
  /\ flows = {}

-----------------------------------------------------------------------------

\* A peer makes a datagram: a handshake, the response to ours, or a data
\* message on a session the server has answered.  Its packet may carry any
\* addresses, its own or not.
PeerSends(d) ==
  LET p == d.author
      s == wg[p]
  IN  /\ made[p] < MaxSent
      /\ d.n = made[p] + 1
      /\ d.from \in AddrsOf[p]
      /\ CASE d.kind = "init" -> d.sess = 0 /\ d.inner = NoPacket
           [] d.kind = "response" -> s.initiating # NotInitiating /\ d.sess = 0 /\ d.inner = NoPacket
           [] d.kind = "data" -> d.sess \in {s.current, s.pending} \ {0}
      /\ sent' = sent \cup {d}
      /\ made' = [made EXCEPT ![p] = d.n]
      /\ UNCHANGED <<wg, recv, stk, tim, to_stack, to_wg, flows>>

-----------------------------------------------------------------------------

\* recv_from, then recv_from_network under the lock.
RecvDatagram(d, load) ==
  LET r == Received(wg[d.author], d, load, made[d.author])
  IN  /\ recv.pc = "idle"
      /\ wg' = [wg EXCEPT ![d.author] = r.state]
      /\ recv' = [pc |-> "reply", idx |-> r.idx, from |-> d.from, out |-> r.out, ip |-> r.ip]
      /\ UNCHANGED <<sent, made, stk, tim, to_stack, to_wg, flows>>

\* What the endpoint answers goes to where the datagram came from.
RecvReply ==
  /\ recv.pc = "reply"
  /\ recv' = IF recv.ip = NoPacket THEN RecvIdle
             ELSE [recv EXCEPT !.pc = "packet", !.out = {}]
  /\ UNCHANGED <<wg, sent, made, stk, tim, to_stack, to_wg, flows>>

\* Mutation: any peer's address passes as a source.
OwnedBySomeone(ip, idx) == Owner[ip.src] # NoPeer

\* The cryptokey routing check on a decrypted packet.
Owned(ip, idx) == Owner[ip.src] = idx

\* A source the peer does not own: the packet is dropped.
RecvSpoofed ==
  /\ recv.pc = "packet" /\ ~Owned(recv.ip, recv.idx)
  /\ recv' = RecvIdle
  /\ UNCHANGED <<wg, sent, made, stk, tim, to_stack, to_wg, flows>>

Back(pk) == [src |-> pk.dst, dst |-> pk.src]

\* A forbidden destination: dropped, or refused with tcp_rst, which is
\* encrypted in a second lock section.
RecvForbidden ==
  /\ recv.pc = "packet" /\ Owned(recv.ip, recv.idx) /\ recv.ip.dst \notin AllowedDst
  /\ \/ recv' = RecvIdle /\ UNCHANGED wg
     \/ /\ wg' = [wg EXCEPT ![recv.idx] = EncapsulateState(@, Back(recv.ip), made[recv.idx])]
        /\ recv' = [recv EXCEPT !.pc = "reply", !.ip = NoPacket,
                      !.out = EncapsulateOut(wg[recv.idx], recv.idx, Back(recv.ip))]
  /\ UNCHANGED <<sent, made, stk, tim, to_stack, to_wg, flows>>

\* Mutation: a queue without a limit.
PushUnbounded(q, pk) == Append(q, pk)

\* try_send: queued for the stack, dropped when the queue is full.
Push(q, pk) == IF Len(q) < Queue THEN Append(q, pk) ELSE q

\* Mutation: the isolation gate is left to the accept loop.
RecvForwardAnywhere ==
  /\ recv.pc = "packet" /\ Owned(recv.ip, recv.idx)
  /\ to_stack' = Push(to_stack, recv.ip)
  /\ recv' = RecvIdle
  /\ UNCHANGED <<wg, sent, made, stk, tim, to_wg, flows>>

\* The packet passes both checks.
RecvForward ==
  /\ recv.pc = "packet" /\ Owned(recv.ip, recv.idx) /\ recv.ip.dst \in AllowedDst
  /\ to_stack' = Push(to_stack, recv.ip)
  /\ recv' = RecvIdle
  /\ UNCHANGED <<wg, sent, made, stk, tim, to_wg, flows>>

-----------------------------------------------------------------------------

\* The stack reads a packet from PacketDev and opens a flow for it, unless the
\* packet is over the mtu (PacketDev drops it) or the stack refuses it.
StackReads ==
  /\ to_stack # <<>>
  /\ to_stack' = Tail(to_stack)
  /\ flows' \in {flows, flows \cup {Head(to_stack)}}
  /\ UNCHANGED <<wg, sent, made, recv, stk, tim, to_wg>>

\* The stack writes a packet of an open flow back (PacketDev::poll_write).
StackWrites(pk) ==
  /\ to_wg' = Push(to_wg, Back(pk))
  /\ UNCHANGED <<wg, sent, made, recv, stk, tim, to_stack, flows>>

-----------------------------------------------------------------------------

\* A packet from the stack: the peer owning its destination, its encryption
\* and its endpoint, all under one lock.
StkTakes ==
  LET pk == Head(to_wg)
      p == Owner[pk.dst]
  IN  /\ stk.pc = "idle" /\ to_wg # <<>>
      /\ to_wg' = Tail(to_wg)
      /\ IF p = NoPeer
         THEN UNCHANGED <<wg, stk>>
         ELSE /\ wg' = [wg EXCEPT ![p] = EncapsulateState(@, pk, made[p])]
              /\ stk' = IF wg[p].endpoint = NoAddr THEN SendIdle
                        ELSE [pc |-> "send",
                              out |-> {[to |-> wg[p].endpoint, msg |-> m] : m \in EncapsulateOut(wg[p], p, pk)}]
      /\ UNCHANGED <<sent, made, recv, tim, to_stack, flows>>

StkSends ==
  /\ stk.pc = "send"
  /\ stk' = SendIdle
  /\ UNCHANGED <<wg, sent, made, recv, tim, to_stack, to_wg, flows>>

-----------------------------------------------------------------------------

\* Mutation: the targets are not those of the peers in `out`.
TimTicksMisaligned(event) ==
  /\ tim.pc = "idle"
  /\ \A p \in Peers : event[p] \in TimerEvents(wg[p])
  /\ wg' = [p \in Peers |-> TimerState(wg[p], event[p], made[p])]
  /\ tim' = [pc |-> "send",
             out |-> {[to |-> wg[q].endpoint, msg |-> m] :
                        q \in {q \in Peers : wg[q].endpoint # NoAddr},
                        m \in UNION {TimerOut(p, event[p]) : p \in Peers}}]
  /\ UNCHANGED <<sent, made, recv, stk, to_stack, to_wg, flows>>

\* One tick: update_timers for every peer and their endpoints, under one lock.
TimTicks(event) ==
  /\ tim.pc = "idle"
  /\ \A p \in Peers : event[p] \in TimerEvents(wg[p])
  /\ wg' = [p \in Peers |-> TimerState(wg[p], event[p], made[p])]
  /\ tim' = [pc |-> "send",
             out |-> UNION {{[to |-> wg[p].endpoint, msg |-> m] : m \in TimerOut(p, event[p])}
                             : p \in {q \in Peers : wg[q].endpoint # NoAddr}}]
  /\ UNCHANGED <<sent, made, recv, stk, to_stack, to_wg, flows>>

TimSends ==
  /\ tim.pc = "send"
  /\ tim' = SendIdle
  /\ UNCHANGED <<wg, sent, made, recv, stk, to_stack, to_wg, flows>>

-----------------------------------------------------------------------------

Events == [Peers -> {"quiet", "expire", "keepalive", "rekey"}]

Next ==
  \/ \E d \in Datagrams : PeerSends(d)
  \/ \E d \in sent, load \in Loads : RecvDatagram(d, load)
  \/ RecvReply \/ RecvSpoofed \/ RecvForbidden \/ RecvForward
  \/ StackReads
  \/ \E pk \in flows : StackWrites(pk)
  \/ StkTakes \/ StkSends
  \/ \E event \in Events : TimTicks(event)
  \/ TimSends

Spec == Init /\ [][Next]_vars

-----------------------------------------------------------------------------

\* Peer p made a datagram carrying pk.
SentBy(p, pk) == \E d \in sent : d.author = p /\ d.inner = pk

\* Everything a task is about to send, with its target.
InHand ==
  {[to |-> recv.from, msg |-> m] : m \in recv.out} \cup stk.out \cup tim.out

\* Isolation and cryptokey routing, end to end: a packet encrypted for a peer
\* answers a packet that this very peer sent, whichever task encrypts it and
\* however long it waited in a queue or in the tunnel.
AnswersOwnPackets ==
  /\ \A x \in InHand :
       x.msg.inner # NoPacket => SentBy(x.msg.for, Back(x.msg.inner))
  /\ \A p \in Peers : \A pk \in wg[p].queued : SentBy(p, Back(pk))

\* The stack only sees packets that the owner of their source sent, to
\* destinations the isolation gate allows.
StackSeesOwnedPackets ==
  \A pk \in flows \cup {to_stack[i] : i \in DOMAIN to_stack} :
    /\ pk.dst \in AllowedDst
    /\ Owner[pk.src] # NoPeer
    /\ SentBy(Owner[pk.src], pk)

\* A packet from the stack always finds its peer and the peer's endpoint: the
\* two `else{continue}` of the task are never taken, so no reply is encrypted
\* (and a handshake started) only to be thrown away.
RepliesFindEndpoint ==
  \A i \in DOMAIN to_wg :
    LET p == Owner[to_wg[i].dst] IN p # NoPeer /\ wg[p].endpoint # NoAddr

\* Whatever a task still holds when the endpoint has moved on, a datagram made
\* for a peer goes to an address that peer has sent from.
SendsToUsedAddress ==
  \A x \in InHand :
    x.msg.for # NoPeer => \E d \in sent : d.author = x.msg.for /\ d.from = x.to

\* "Roam only on proof of the peer's private key" (wgcore lib.rs:126): an
\* endpoint moves only in a step in which the tunnel accepts a message it had
\* not accepted before.  The exception is what the code adds to that: when the
\* tunnel itself answers with a cookie, a packet that leaves its queue in the
\* same call counts as proof too, so a late duplicate can move the endpoint.
AcceptsMessage(p) ==
  \/ wg'[p].lastInit # wg[p].lastInit
  \/ wg'[p].accepted # wg[p].accepted
  \/ wg'[p].current # wg[p].current

EndpointMovesUnlessLimited ==
  [][\A p \in Peers :
       wg'[p].endpoint # wg[p].endpoint
         => AcceptsMessage(p) \/ Reply(NoPeer, "cookie") \in recv'.out]_vars

=============================================================================
