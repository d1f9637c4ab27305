-------------------------------- MODULE Config --------------------------------
(***************************************************************************)
(* From the server's configuration file to the tables its tasks route by:  *)
(* Config::validate (crates/server/src/config.rs), the loop over the peers *)
(* in `start` (crates/server/src/lib.rs), and the two helpers that read    *)
(* the tables for every packet, allowed_dst and peer_for (net.rs).         *)
(*                                                                         *)
(* An address is its family and its bits, so that prefixes are compared    *)
(* for what they are.  The file is read lazily: a step of validate chooses *)
(* the next network, and with it what the file contains.  Keys and         *)
(* upstreams are names; the checks of their spelling are left out.         *)
(***************************************************************************)
EXTENDS Integers, Sequences, FiniteSets

CONSTANTS
  Width,      \* bits of an address (32 and 128 in the program)
  AsV4,       \* IPv6 addresses that map an IPv4 one, with the address they map
  Special,    \* loopback, unspecified, multicast, broadcast, link-local
  Private,    \* private, shared and reserved ranges
  Tunnels,    \* values of `address`, the tunnel network
  FileNets,   \* networks the file may list as allowed_ips
  Resolvers,  \* addresses the file may name as dns
  Keys,       \* public keys
  Upstreams,  \* proxies
  Global,     \* the upstream of a peer that names none
  None,
  MaxPeers,   \* model bound: peers in the file
  MaxNets     \* model bound: networks in the file

Addresses == [fam : {"v4", "v6"}, bits : [1..Width -> {0, 1}]]
Nets == [addr : Addresses, len : 0..Width]

ASSUME ConfigAssumption ==
  /\ Width \in Nat
  /\ \A a \in DOMAIN AsV4 : AsV4[a] \in Addresses /\ AsV4[a] \notin DOMAIN AsV4
  /\ Tunnels \subseteq Nets /\ FileNets \subseteq Nets
  /\ Resolvers \subseteq Addresses
  /\ None \notin Addresses \cup Upstreams /\ Global \in Upstreams
  /\ MaxPeers \in Nat /\ MaxNets \in Nat
  /\ None \notin 1..MaxPeers

-----------------------------------------------------------------------------

\* IpNet::contains, of an address and of a network.  The address of a network
\* keeps its host bits: 10.7.0.1/24.
Contains(n, a) ==
  n.addr.fam = a.fam /\ \A i \in 1..n.len : n.addr.bits[i] = a.bits[i]

\* Mutant of Covers: a network does not cover itself.
CoversStrictly(n, m) == n.len < m.len /\ Contains(n, m.addr)

Covers(n, m) == n.len <= m.len /\ Contains(n, m.addr)

\* Mutant of Overlaps: only a network inside an earlier one counts.
OverlapsInside(n, m) == Contains(n, m.addr)

\* The overlap test of validate: m against n, which came before.
Overlaps(n, m) == Contains(n, m.addr) \/ Contains(m, n.addr)

\* What the gate sees of an IPv6 address that maps an IPv4 one.
Plain(a) == IF a \in DOMAIN AsV4 THEN AsV4[a] ELSE a

\* Mutant of AllowedDst: a mapped address is not unmapped.
AllowedDstUnmapped(net, a, private) ==
  /\ ~Contains(net, a)
  /\ a \notin Special
  /\ private \/ a \notin Private

\* allowed_dst; for a mapped address it calls itself.
AllowedDst(net, a, private) ==
  /\ ~Contains(net, a) /\ ~Contains(net, Plain(a))
  /\ Plain(a) \notin Special
  /\ private \/ Plain(a) \notin Private

\* peer_for: the peer of the longest prefix.  Of two equally long ones it takes
\* the last; which that is does not matter, validate leaves at most one.
PeerFor(table, a) ==
  LET hits == {e \in table : Contains(e.net, a)}
  IN  IF hits = {} THEN None
      ELSE (CHOOSE e \in hits : \A f \in hits : f.net.len <= e.net.len).peer

-----------------------------------------------------------------------------

VARIABLES
  phase,      \* "dns", "peers", "start", "serving", or "refused"
  address,    \* the tunnel network
  private,    \* allow_private
  dns,        \* the resolver, or None
  peers,      \* key and upstream of the peers read so far
  seen,       \* their networks, each with the number of its peer
  culprit,    \* the network refused, with the reason
  allowed,    \* the routing table `start` builds
  upstreams   \* and the proxy of each registered peer

vars == <<phase, address, private, dns, peers, seen, culprit, allowed, upstreams>>

Entries == [net : FileNets, peer : 1..MaxPeers]
Peers == [key : Keys, up : Upstreams \cup {None}]
Reasons == {"none", "outside", "overlap"}
Phases == {"dns", "peers", "start", "serving", "refused"}

TypeOK ==
  /\ phase \in Phases /\ address \in Tunnels /\ private \in BOOLEAN
  /\ dns \in Resolvers \cup {None}
  /\ peers \in Seq(Peers) /\ Len(peers) <= MaxPeers
  /\ seen \subseteq Entries /\ allowed \subseteq Entries
  /\ culprit.reason \in Reasons /\ culprit.net \in FileNets \cup {None}
  /\ upstreams \in Seq(Upstreams) /\ Len(upstreams) <= Len(peers)

Init ==
  /\ phase = "dns" /\ address \in Tunnels /\ private \in BOOLEAN
  /\ dns \in Resolvers \cup {None}
  /\ peers = <<>> /\ seen = {} /\ allowed = {} /\ upstreams = <<>>
  /\ culprit = [reason |-> "none", net |-> None]

\* validate looks at the resolver before the peers.
ValidateDns ==
  /\ phase = "dns"
  /\ phase' = IF dns = None \/ AllowedDst(address, dns, private) THEN "peers" ELSE "refused"
  /\ UNCHANGED <<address, private, dns, peers, seen, culprit, allowed, upstreams>>

\* The peer read last, and whether it has a network yet.
Current == Len(peers)
HasNet == \E e \in seen : e.peer = Current

\* The next peer of the file; one without networks is refused.
ValidatePeer(p) ==
  /\ phase = "peers" /\ Current < MaxPeers
  /\ Current = 0 \/ HasNet
  /\ peers' = Append(peers, p)
  /\ UNCHANGED <<phase, address, private, dns, seen, culprit, allowed, upstreams>>

RefuseEmpty ==
  /\ phase = "peers"
  /\ ~HasNet
  /\ phase' = "refused"
  /\ UNCHANGED <<address, private, dns, peers, seen, culprit, allowed, upstreams>>

\* Its next network: outside the tunnel, overlapping an earlier one, or kept.
ValidateNet(net) ==
  /\ phase = "peers" /\ Current > 0 /\ Cardinality(seen) < MaxNets
  /\ LET reason == IF ~Covers(address, net) THEN "outside"
                   ELSE IF \E e \in seen : Overlaps(e.net, net) THEN "overlap"
                   ELSE "none"
     IN  IF reason = "none"
         THEN seen' = seen \cup {[net |-> net, peer |-> Current]} /\ UNCHANGED <<phase, culprit>>
         ELSE phase' = "refused" /\ culprit' = [reason |-> reason, net |-> net] /\ UNCHANGED seen
  /\ UNCHANGED <<address, private, dns, peers, allowed, upstreams>>

\* The end of the file.
Validated ==
  /\ phase = "peers" /\ HasNet
  /\ phase' = "start"
  /\ UNCHANGED <<address, private, dns, peers, seen, culprit, allowed, upstreams>>

\* `start` registers one peer after the other; its index in the Wg is the index
\* of its upstream.  Two peers with one key pass validate and are refused here.
Registered == Len(upstreams)
NextPeer == Registered + 1

Register ==
  /\ phase = "start" /\ Registered < Current
  /\ LET p == peers[NextPeer]
     IN  IF \E i \in 1..Registered : peers[i].key = p.key
         THEN phase' = "refused" /\ UNCHANGED <<allowed, upstreams>>
         ELSE /\ allowed' = allowed \cup {e \in seen : e.peer = NextPeer}
              /\ upstreams' = Append(upstreams, IF p.up = None THEN Global ELSE p.up)
              /\ UNCHANGED phase
  /\ UNCHANGED <<address, private, dns, peers, seen, culprit>>

Serve ==
  /\ phase = "start" /\ Registered = Current
  /\ phase' = "serving"
  /\ UNCHANGED <<address, private, dns, peers, seen, culprit, allowed, upstreams>>

Next ==
  \/ ValidateDns
  \/ \E p \in Peers : ValidatePeer(p)
  \/ RefuseEmpty
  \/ \E net \in FileNets : ValidateNet(net)
  \/ Validated
  \/ Register
  \/ Serve

Spec == Init /\ [][Next]_vars

-----------------------------------------------------------------------------

\* The isolation gate and the routing table agree: no destination the gate
\* lets through, in whatever family it is written, belongs to a peer.  This is
\* what Datapath assumes of Owner and AllowedDst.
PeersUnreachable ==
  \A a \in Addresses :
    AllowedDst(address, a, private) =>
      PeerFor(allowed, a) = None /\ PeerFor(allowed, Plain(a)) = None

\* An address inside a network the file gives a peer is that peer's alone,
\* however long the prefixes: its packets are charged to the index of that
\* peer, and leave through the upstream the file names for it.
OwnerAndUpstream ==
  phase = "serving" =>
    \A e \in seen : \A a \in Addresses :
      Contains(e.net, a) =>
        /\ PeerFor(allowed, a) = e.peer
        /\ upstreams[e.peer] = (IF peers[e.peer].up = None THEN Global ELSE peers[e.peer].up)

\* A file is refused for a network only if that network really reaches outside
\* the tunnel or shares an address with an earlier one.
RefusalsAreDue ==
  /\ culprit.reason = "outside" =>
       \E a \in Addresses : Contains(culprit.net, a) /\ ~Contains(address, a)
  /\ culprit.reason = "overlap" =>
       \E a \in Addresses, e \in seen : Contains(culprit.net, a) /\ Contains(e.net, a)

=============================================================================
