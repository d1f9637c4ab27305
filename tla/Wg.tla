---------------------------------- MODULE Wg ----------------------------------
(***************************************************************************)
(* The multi-peer WireGuard endpoint of crates/wgcore/src/lib.rs: "pure    *)
(* state machine, it never touches sockets".  It is modelled the same way: *)
(* each operation of Wg is an operator from the state of a peer to its     *)
(* next state and the datagrams and packets the operation hands back.      *)
(*                                                                         *)
(* The tunnel of a peer (boringtun's Tunn) is external.  It is kept to     *)
(* what recv_from_network and encapsulate observe of it: which datagrams   *)
(* it accepts, whether a session is current, and the packets it queues     *)
(* while there is none.  Cryptography is perfect: only a peer makes its    *)
(* own datagrams, and no datagram is accepted twice.                       *)
(***************************************************************************)
EXTENDS Integers

CONSTANTS
  Peers,     \* indices of the configured peers
  NoPeer,    \* the None of an index
  Addrs,     \* network addresses datagrams come from
  NoAddr,    \* the None of an endpoint
  IPs,       \* addresses inside the tunnel
  MaxSent    \* model bound: datagrams a peer makes

Packets == [src : IPs, dst : IPs]
NoPacket == [src |-> "none", dst |-> "none"]

ASSUME WgAssumption ==
  /\ NoPeer \notin Peers
  /\ NoAddr \notin Addrs
  /\ NoPacket \notin Packets
  /\ MaxSent \in Nat

Numbers == 1..MaxSent

\* Datagrams from peers.  `n` is the peer's own numbering, `sess` the number of
\* the handshake message whose session encrypts a data message, `inner` its
\* packet (none for a keepalive).
Datagrams ==
  [author : Peers, kind : {"init", "response", "data"}, n : Numbers,
   sess : 0..MaxSent, from : Addrs, inner : Packets \cup {NoPacket}]

\* Datagrams for peers.
Replies ==
  [for : Peers \cup {NoPeer}, kind : {"init", "response", "cookie", "data"},
   inner : Packets \cup {NoPacket}]

Reply(p, k) == [for |-> p, kind |-> k, inner |-> NoPacket]
Data(p, pk) == [for |-> p, kind |-> "data", inner |-> pk]

-----------------------------------------------------------------------------

NotInitiating == -1

\* endpoint: where the last valid datagram came from.  current, pending: the
\* session in use and the one answered but not yet confirmed, 0 for none.
\* lastInit, accepted: replay protection of handshakes and of data.
\* initiating: our own handshake in progress (how many datagrams the peer had
\* made when it started).  queued: packets waiting for a session.
PeerStates ==
  [endpoint : Addrs \cup {NoAddr}, current : 0..MaxSent, pending : 0..MaxSent,
   lastInit : 0..MaxSent, accepted : SUBSET Numbers,
   initiating : {NotInitiating} \cup 0..MaxSent, queued : SUBSET Packets]

NewPeer ==
  [endpoint |-> NoAddr, current |-> 0, pending |-> 0, lastInit |-> 0,
   accepted |-> {}, initiating |-> NotInitiating, queued |-> {}]

-----------------------------------------------------------------------------

\* Wg::encapsulate.  `made` is how many datagrams the peer has made so far.
\* Without a session the packet is queued and a handshake starts.
EncapsulateState(s, pk, made) ==
  IF s.current # 0 THEN s
  ELSE [s EXCEPT !.queued = @ \cup {pk},
                 !.initiating = IF @ = NotInitiating THEN made ELSE @]

EncapsulateOut(s, p, pk) ==
  IF s.current # 0 THEN {Data(p, pk)}
  ELSE IF s.initiating = NotInitiating THEN {Reply(p, "init")} ELSE {}

\* The calls of decapsulate with an empty input, until Done: the queued
\* packets leave on the current session, or ask for a handshake.
FlushState(s, made) ==
  IF s.queued = {} THEN s
  ELSE IF s.current # 0 THEN [s EXCEPT !.queued = {}]
  ELSE [s EXCEPT !.initiating = IF @ = NotInitiating THEN made ELSE @]

FlushOut(s, p) ==
  IF s.queued = {} THEN {}
  ELSE IF s.current # 0 THEN {Data(p, pk) : pk \in s.queued}
  ELSE IF s.initiating = NotInitiating THEN {Reply(p, "init")} ELSE {}

-----------------------------------------------------------------------------

\* A handshake initiation newer than the last, a response to the handshake in
\* progress, a data message of a live session that was not received before.
Fresh(s, d) ==
  CASE d.kind = "init" -> d.n > s.lastInit
    [] d.kind = "response" -> s.initiating # NotInitiating /\ d.n > s.initiating
    [] d.kind = "data" -> d.sess \in {s.current, s.pending} \ {0} /\ d.n \notin s.accepted

\* The tunnel after accepting d, before any flush.
Accepted(s, d) ==
  CASE d.kind = "init" ->
         [s EXCEPT !.lastInit = d.n, !.pending = d.n, !.initiating = NotInitiating]
    [] d.kind = "response" ->
         [s EXCEPT !.current = d.n, !.initiating = NotInitiating]
    [] d.kind = "data" ->
         [s EXCEPT !.accepted = @ \cup {d.n}, !.current = IF d.sess > @ THEN d.sess ELSE @]

\* What an accepted datagram answers: a response, a first keepalive, nothing.
Answer(p, kind) ==
  CASE kind = "init" -> {Reply(p, "response")}
    [] kind = "response" -> {Data(p, NoPacket)}
    [] kind = "data" -> {}

\* The result of recv_from_network: the peer, its new state, net_out, ip_out.
Result(idx, s, out, ip) == [idx |-> idx, state |-> s, out |-> out, ip |-> ip]

\* The rate limiter is consulted twice for a handshake message, by
\* recv_from_network and again inside decapsulate.  Its outcome is a choice:
\* "none" passes both, "outer" and "inner" fail the first and the second.
LoadLevels == {"none", "outer", "inner"}

Limited(d) == d.kind \in {"init", "response"}

\* Mutation: the endpoint follows any datagram, before the tunnel judged it.
ReceivedRoamsEarly(s, d, load, made) ==
  LET t == [s EXCEPT !.endpoint = d.from]
  IN  IF ~Fresh(s, d) THEN Result(NoPeer, t, {}, NoPacket)
      ELSE Result(d.author, FlushState(Accepted(t, d), made),
                  Answer(d.author, d.kind) \cup FlushOut(Accepted(t, d), d.author), d.inner)

\* Wg::recv_from_network.
Received(s, d, load, made) ==
  LET p == d.author
  IN  IF Limited(d) /\ load = "outer"
      THEN Result(NoPeer, s, {Reply(NoPeer, "cookie")}, NoPacket)
      ELSE IF Limited(d) /\ load = "inner"
      THEN LET flushed == FlushOut(s, p)
               t == FlushState(s, made)
           IN  Result(p, IF flushed # {} THEN [t EXCEPT !.endpoint = d.from] ELSE t,
                      {Reply(NoPeer, "cookie")} \cup flushed, NoPacket)
      ELSE IF ~Fresh(s, d)
      THEN Result(NoPeer, s, {}, NoPacket)
      ELSE LET t == [Accepted(s, d) EXCEPT !.endpoint = d.from]
           IN  IF d.kind = "data"
               THEN Result(p, t, {}, d.inner)
               ELSE Result(p, FlushState(t, made), Answer(p, d.kind) \cup FlushOut(t, p), NoPacket)

\* Wg::update_timers, for one peer: nothing, a keepalive, a handshake (a new
\* one, or the one in progress again), or the end of every session.
TimerEvents(s) ==
  {"quiet", "expire"}
    \cup (IF s.current # 0 THEN {"keepalive", "rekey"} ELSE {})
    \cup (IF s.initiating # NotInitiating THEN {"rekey"} ELSE {})

\* Mutation: the end of the sessions forgets the endpoint too.
TimerForgetsEndpoint(s, e, made) ==
  CASE e = "rekey" -> [s EXCEPT !.initiating = made]
    [] e = "expire" -> NewPeer
    [] OTHER -> s

\* The tunnel after such an event.
TimerState(s, e, made) ==
  CASE e = "rekey" -> [s EXCEPT !.initiating = made]
    [] e = "expire" -> [s EXCEPT !.current = 0, !.pending = 0, !.queued = {},
                                 !.initiating = NotInitiating]
    [] OTHER -> s

TimerOut(p, e) ==
  CASE e = "rekey" -> {Reply(p, "init")}
    [] e = "keepalive" -> {Data(p, NoPacket)}
    [] OTHER -> {}

=============================================================================
