-------------------------------- MODULE UdpFlow --------------------------------
(***************************************************************************)
(* A UDP flow of a peer on its way out (crates/server/src/flow.rs,         *)
(* handle_udp), over the stream the userspace stack made for it            *)
(* (vendor/ipstack/src/stream/udp.rs).                                     *)
(*                                                                         *)
(*   udp_relay      asks the upstream for an association and pumps         *)
(*                  datagrams; an upstream that fails is put into NO_UDP   *)
(*   dns_over_tcp   one query at a time over a SOCKS5 CONNECT: the fall    *)
(*                  back for port 53, or the path to a forced resolver     *)
(*                                                                         *)
(* Flows run in parallel and share NO_UDP.                                 *)
(***************************************************************************)
EXTENDS Naturals, Sequences

CONSTANTS
  Flows,      \* streams accepted from the stack
  Upstreams,  \* SOCKS5 proxies
  Up,         \* the upstream of each flow
  Kind,       \* "udp"; "dns", to port 53; "forced", to port 53 with `dns` set
  HasUdp,     \* the upstreams that relay UDP
  V6,         \* the flows over IPv6
  ShortIdle,  \* whether udp_idle_secs is below what a dial and an exchange take
  MaxSent     \* model bound: datagrams of a flow; upstreams answer each once

ASSUME UdpFlowAssumption ==
  /\ Up \in [Flows -> Upstreams]
  /\ Kind \in [Flows -> {"udp", "dns", "forced"}]
  /\ HasUdp \in SUBSET Upstreams
  /\ V6 \in SUBSET Flows
  /\ ShortIdle \in BOOLEAN
  /\ MaxSent \in Nat \ {0}

VARIABLES
  no_udp,   \* NO_UDP, a static of the process
  flow,     \* the flow tasks
  sent,     \* how many datagrams the peer has sent on each; they are numbered
  asks,     \* those waiting in the stream, first_payload at the head
  left,     \* those that went to the upstream
  waiting,  \* those relayed and not answered yet
  got,      \* the answers written back, in order
  failed    \* flows whose upstream failed, or whose peer sent an empty datagram

vars == <<no_udp, flow, sent, asks, left, waiting, got, failed>>

PCs == {"unborn", "check", "associate", "relay", "read", "dial", "exchange", "done"}

\* hand: the query of dns_over_tcp.  late: the deadline of the stream has
\* passed, to be noticed by the next poll_read.
Tasks == [pc : PCs, hand : 0..MaxSent, late : BOOLEAN]

\* An answer fits the mtu; or fits it with an IPv4 header but not with the
\* longer IPv6 one; or does not fit.
Sizes == {"fits", "tight", "over"}

Answers == [n : 1..MaxSent, via : {"udp", "tcp"}, clipped : BOOLEAN, flagged : BOOLEAN]

TypeOK ==
  /\ no_udp \in SUBSET Upstreams
  /\ flow \in [Flows -> Tasks]
  /\ sent \in [Flows -> 0..MaxSent]
  /\ asks \in [Flows -> Seq(1..MaxSent)]
  /\ left \in [Flows -> SUBSET (1..MaxSent)]
  /\ waiting \in [Flows -> SUBSET (1..MaxSent)]
  /\ got \in [Flows -> Seq(Answers)]
  /\ failed \in SUBSET Flows
  /\ \A f \in Flows : flow[f].hand # 0 <=> flow[f].pc \in {"dial", "exchange"}

Init ==
  /\ no_udp = {}
  /\ flow = [f \in Flows |-> [pc |-> "unborn", hand |-> 0, late |-> FALSE]]
  /\ sent = [f \in Flows |-> 0]
  /\ asks = [f \in Flows |-> <<>>]
  /\ left = [f \in Flows |-> {}]
  /\ waiting = [f \in Flows |-> {}]
  /\ got = [f \in Flows |-> <<>>]
  /\ failed = {}

-----------------------------------------------------------------------------

\* The stream, and the task that runs handle_udp on it.
Opens(f) ==
  /\ flow[f].pc = "unborn"
  /\ flow' = [flow EXCEPT ![f].pc = IF Kind[f] = "forced" THEN "read" ELSE "check"]
  /\ sent' = [sent EXCEPT ![f] = 1]
  /\ asks' = [asks EXCEPT ![f] = <<1>>]
  /\ UNCHANGED <<no_udp, left, waiting, got, failed>>

\* Another datagram of the flow reaches the stream.
PeerSends(f) ==
  /\ flow[f].pc \notin {"unborn", "done"} /\ sent[f] < MaxSent
  /\ sent' = [sent EXCEPT ![f] = @ + 1]
  /\ asks' = [asks EXCEPT ![f] = Append(@, sent[f] + 1)]
  /\ UNCHANGED <<no_udp, flow, left, waiting, got, failed>>

\* Flow f goes on at pc, and nothing else changes but what `failed` says.
Goes(f, pc) ==
  /\ flow' = [flow EXCEPT ![f].pc = pc, ![f].hand = 0]
  /\ UNCHANGED <<no_udp, sent, asks, left, waiting, got>>

\* udp_relay hands the stream back: port 53 goes on over TCP, the rest ends.
FallBack(f) == IF Kind[f] = "dns" THEN "read" ELSE "done"

\* NO_UDP is looked at under its lock.
Check(f) ==
  /\ flow[f].pc = "check"
  /\ Goes(f, IF Up[f] \in no_udp THEN FallBack(f) ELSE "associate")
  /\ UNCHANGED failed

\* Mutation: a failed associate ends every flow.
AssociateFailsForGood(f) ==
  /\ flow[f].pc = "associate"
  /\ flow' = [flow EXCEPT ![f].pc = "done"]
  /\ no_udp' = no_udp \cup {Up[f]}
  /\ UNCHANGED <<sent, asks, left, waiting, got, failed>>

\* associate returns an error: a proxy without UDP, or any other failure, a
\* refused connection among them.
AssociateFails(f) ==
  /\ flow[f].pc = "associate"
  /\ flow' = [flow EXCEPT ![f].pc = FallBack(f)]
  /\ no_udp' = no_udp \cup {Up[f]}
  /\ UNCHANGED <<sent, asks, left, waiting, got, failed>>

\* ASSOCIATE_TIMEOUT leaves NO_UDP alone.
AssociateTimesOut(f) ==
  /\ flow[f].pc = "associate"
  /\ Goes(f, FallBack(f)) /\ UNCHANGED failed

Associates(f) ==
  /\ flow[f].pc = "associate" /\ Up[f] \in HasUdp
  /\ Goes(f, "relay") /\ UNCHANGED failed

-----------------------------------------------------------------------------

\* poll_read: the first payload is there whatever the deadline; otherwise a
\* deadline that has passed comes before what waits.
HasRead(f) == asks[f] # <<>> /\ (~flow[f].late \/ Head(asks[f]) = 1)
ReadTimesOut(f) == ~HasRead(f)

\* A datagram of the peer, wrapped and sent to the relay.
RelaySends(f) ==
  /\ flow[f].pc = "relay" /\ HasRead(f)
  /\ asks' = [asks EXCEPT ![f] = Tail(@)]
  /\ left' = [left EXCEPT ![f] = @ \cup {Head(asks[f])}]
  /\ waiting' = [waiting EXCEPT ![f] = @ \cup {Head(asks[f])}]
  /\ UNCHANGED <<no_udp, flow, sent, got, failed>>

\* poll_write: the stack clips what does not fit the mtu, and the deadline
\* starts again.
Clipped(f, size) == size = "over" \/ (size = "tight" /\ f \in V6)

Write(f, n, via, size, flag) ==
  got' = [got EXCEPT ![f] =
            Append(@, [n |-> n, via |-> via, clipped |-> Clipped(f, size), flagged |-> flag])]

\* An answer from the relay: written back, or dropped, as one that is over
\* the mtu is, and a fragment, and one of an unknown address type.
RelayReplies(f, n, size) ==
  /\ flow[f].pc = "relay" /\ n \in waiting[f]
  /\ waiting' = [waiting EXCEPT ![f] = @ \ {n}]
  /\ \/ UNCHANGED <<flow, got>>
     \/ /\ size # "over"
        /\ Write(f, n, "udp", size, FALSE)
        /\ flow' = [flow EXCEPT ![f].late = FALSE]
  /\ UNCHANGED <<no_udp, sent, asks, left, failed>>

\* The control connection ends, the socket fails, or the peer sends an empty
\* datagram, which reads as the end of the stream.
RelayFails(f) ==
  /\ flow[f].pc = "relay"
  /\ Goes(f, "done") /\ failed' = failed \cup {f}

\* Mutation: a flow nobody uses waits for the upstream to end the association.
RelayWaits(f) ==
  /\ flow[f].pc = "relay" /\ ReadTimesOut(f) /\ asks[f] # <<>>
  /\ Goes(f, "done") /\ UNCHANGED failed

\* sleep(idle), or the deadline of the stream.
RelayIdles(f) ==
  /\ flow[f].pc = "relay" /\ ReadTimesOut(f)
  /\ Goes(f, "done") /\ UNCHANGED failed

-----------------------------------------------------------------------------

\* dns_over_tcp: the next query...
ReadQuery(f) ==
  /\ flow[f].pc = "read" /\ HasRead(f)
  /\ flow' = [flow EXCEPT ![f].pc = "dial", ![f].hand = Head(asks[f])]
  /\ asks' = [asks EXCEPT ![f] = Tail(@)]
  /\ UNCHANGED <<no_udp, sent, left, waiting, got, failed>>

\* ...or the end of the stream, or a query that reads as one.
ReadEnds(f) ==
  /\ flow[f].pc = "read"
  /\ \/ ReadTimesOut(f) /\ UNCHANGED failed
     \/ failed' = failed \cup {f}
  /\ Goes(f, "done")

\* dial fails or times out: the query is lost, and the next one is read.
DialFails(f) ==
  /\ flow[f].pc = "dial"
  /\ Goes(f, "read") /\ failed' = failed \cup {f}

Dials(f) ==
  /\ flow[f].pc = "dial"
  /\ flow' = [flow EXCEPT ![f].pc = "exchange"]
  /\ left' = [left EXCEPT ![f] = @ \cup {flow[f].hand}]
  /\ UNCHANGED <<no_udp, sent, asks, waiting, got, failed>>

\* Mutation: an answer that does not fit is written whole, the rest of it as
\* a datagram of its own.
ExchangeWritesAll(f, size) ==
  /\ flow[f].pc = "exchange"
  /\ Write(f, flow[f].hand, "tcp", size, size = "over")
  /\ flow' = IF size = "over" THEN flow
             ELSE [flow EXCEPT ![f] = [pc |-> "read", hand |-> 0, late |-> FALSE]]
  /\ UNCHANGED <<no_udp, sent, asks, left, waiting, failed>>

\* Mutation: a clipped answer is not flagged.
ExchangeClips(f, size) ==
  /\ flow[f].pc = "exchange"
  /\ Write(f, flow[f].hand, "tcp", size, FALSE)
  /\ flow' = [flow EXCEPT ![f] = [pc |-> "read", hand |-> 0, late |-> FALSE]]
  /\ UNCHANGED <<no_udp, sent, asks, left, waiting, failed>>

\* The answer, flagged truncated if it is over the cap, cut to it and written.
Exchanges(f, size) ==
  /\ flow[f].pc = "exchange"
  /\ Write(f, flow[f].hand, "tcp", size, size = "over")
  /\ flow' = [flow EXCEPT ![f] = [pc |-> "read", hand |-> 0, late |-> FALSE]]
  /\ UNCHANGED <<no_udp, sent, asks, left, waiting, failed>>

\* It fails or takes longer than DNS_TIMEOUT: its connection is dropped.
ExchangeFails(f) ==
  /\ flow[f].pc = "exchange"
  /\ Goes(f, "read") /\ UNCHANGED failed

\* The deadline of the stream passes while nothing polls it.
Lates(f) ==
  /\ ShortIdle /\ flow[f].pc \in {"associate", "dial", "exchange"} /\ ~flow[f].late
  /\ flow' = [flow EXCEPT ![f].late = TRUE]
  /\ UNCHANGED <<no_udp, sent, asks, left, waiting, got, failed>>

-----------------------------------------------------------------------------

Associate(f) == Associates(f) \/ AssociateFails(f) \/ AssociateTimesOut(f)
Relay(f) ==
  \/ RelaySends(f) \/ RelayFails(f)
  \/ \E n \in 1..MaxSent, size \in Sizes : RelayReplies(f, n, size)
Read(f) == ReadQuery(f) \/ ReadEnds(f)
Dial(f) == Dials(f) \/ DialFails(f)
Exchange(f) == ExchangeFails(f) \/ \E size \in Sizes : Exchanges(f, size)

Next == \E f \in Flows :
  \/ Opens(f) \/ PeerSends(f) \/ Lates(f)
  \/ Check(f) \/ Associate(f) \/ Relay(f) \/ RelayIdles(f)
  \/ Read(f) \/ Dial(f) \/ Exchange(f)

\* Every task is run; associate, dial and exchange have timeouts, and so does
\* a stream or a relay nobody uses.
Fairness == \A f \in Flows :
  WF_vars(Check(f)) /\ WF_vars(Associate(f)) /\ WF_vars(RelaySends(f)) /\ WF_vars(RelayIdles(f))
    /\ WF_vars(Read(f)) /\ WF_vars(Dial(f)) /\ WF_vars(Exchange(f))

Spec == Init /\ [][Next]_vars

FairSpec == Spec /\ Fairness

-----------------------------------------------------------------------------

\* Answers only answer what has left for the upstream, and whatever follows an
\* answer over TCP answers a later query than it: dns_over_tcp answers none twice
\* and none after its successor ("one write is one datagram here").  The
\* association keeps no order.
AnswersInOrder == \A f \in Flows :
  /\ \A i \in DOMAIN got[f] : got[f][i].n \in left[f]
  /\ \A i, j \in DOMAIN got[f] :
       i < j /\ got[f][i].via = "tcp" => got[f][i].n < got[f][j].n

\* "ipstack would clip the tail without saying so, so flag it truncated"
\* (flow.rs): no answer reaches a peer clipped and unmarked.  (Over IPv6 the
\* stack clips 20 bytes earlier than UDP_OVERHEAD allows for, and some do.)
NothingClippedSilently == \A f \in Flows \ V6 :
  \A i \in DOMAIN got[f] : got[f][i].clipped => got[f][i].flagged

\* "A proxy without udp still resolves": whatever happens to the association,
\* of this flow or of others, the query that opened a flow to port 53 leaves,
\* unless the upstream fails the flow's own connection.
DnsResolves == \A f \in Flows :
  (Kind[f] # "udp" /\ sent[f] > 0) ~> (1 \in left[f] \/ f \in failed)

\* Every flow ends, and so gives back its place in the flow table.
FlowsEnd == \A f \in Flows : flow[f].pc # "unborn" ~> flow[f].pc = "done"

=============================================================================
