----------------------------- MODULE ConfigProofs -----------------------------
(***************************************************************************)
(* What Config::validate guarantees of every file: the networks it accepts *)
(* are inside the tunnel and share no address, so routing by longest       *)
(* prefix is routing by owner, and the gate lets nothing through that is a *)
(* peer's.  For any address width, ranges, files and number of peers.      *)
(***************************************************************************)
EXTENDS Config, TLAPS

\* No two networks accepted share an address, and all are the tunnel's.
Disjoint ==
  \A e, f \in seen : \A a \in Addresses :
    Contains(e.net, a) /\ Contains(f.net, a) => e = f

Inside == \A e \in seen : Covers(address, e.net)

\* The table of `start` never has what validate has not accepted, and at the
\* end it has all of it; upstreams follow the order of the peers.
TableAccepted ==
  /\ allowed \subseteq seen
  /\ \A e \in seen : e.peer \in 1..Len(peers)
  /\ \A e \in seen : e.peer <= Len(upstreams) => e \in allowed
  /\ phase \in {"dns", "peers"} => upstreams = <<>>
  /\ phase = "serving" => Len(upstreams) = Len(peers)

UpstreamsAligned ==
  \A i \in 1..Len(upstreams) :
    upstreams[i] = (IF peers[i].up = None THEN Global ELSE peers[i].up)

IInv == TypeOK /\ Disjoint /\ Inside /\ TableAccepted /\ UpstreamsAligned

-----------------------------------------------------------------------------

\* Prefixes are nested or disjoint: two networks with an address in common
\* overlap in the sense of validate.
LEMMA SharedOverlaps ==
  ASSUME NEW n \in Nets, NEW m \in Nets, NEW a \in Addresses,
         Contains(n, a), Contains(m, a)
  PROVE  Overlaps(n, m)
<1>1. n.len \in Nat /\ m.len \in Nat
  BY ConfigAssumption DEF Nets
<1>2. CASE n.len <= m.len
  <2>1. \A i \in 1..n.len : i \in 1..m.len
    BY <1>1, <1>2
  <2> QED BY <2>1 DEF Contains, Overlaps
<1>3. CASE m.len <= n.len
  <2>1. \A i \in 1..m.len : i \in 1..n.len
    BY <1>1, <1>3
  <2> QED BY <2>1 DEF Contains, Overlaps
<1> QED BY <1>1, <1>2, <1>3

\* An address of a covered network is an address of the covering one.
LEMMA CoversTransitive ==
  ASSUME NEW n \in Nets, NEW m \in Nets, NEW a \in Addresses,
         Covers(n, m), Contains(m, a)
  PROVE  Contains(n, a)
<1>1. n.len \in Nat /\ m.len \in Nat /\ n.len <= m.len
  BY ConfigAssumption DEF Nets, Covers
<1>2. \A i \in 1..n.len : i \in 1..m.len
  BY <1>1
<1> QED BY <1>2 DEF Covers, Contains

\* peer_for over networks that share no address: the owner, or None.
LEMMA PeerForOwner ==
  ASSUME NEW T, NEW a, NEW e \in T, Contains(e.net, a),
         \A f \in T : Contains(f.net, a) => f = e,
         e.net.len \in Nat
  PROVE  PeerFor(T, a) = e.peer
<1> DEFINE hits == {f \in T : Contains(f.net, a)}
<1>1. hits = {e}
  OBVIOUS
<1>2. (CHOOSE h \in hits : \A f \in hits : f.net.len <= h.net.len) = e
  BY <1>1
<1> QED BY <1>1, <1>2 DEF PeerFor

\* The table knows no address outside the tunnel.
LEMMA PeerForNobody ==
  ASSUME NEW T, NEW a, \A f \in T : ~Contains(f.net, a)
  PROVE  PeerFor(T, a) = None
BY DEF PeerFor

-----------------------------------------------------------------------------

\* The invariant holds at first.
LEMMA InitIInv == Init => IInv
BY ConfigAssumption
DEF Init, IInv, TypeOK, Phases, Reasons, Disjoint, Inside, TableAccepted, UpstreamsAligned

\* The step that reads a network.
LEMMA NetKeepsIInv ==
  ASSUME IInv, NEW net \in FileNets, ValidateNet(net)
  PROVE  IInv'
<1> DEFINE new == [net |-> net, peer |-> Current]
<1> USE DEF IInv
<1>0. /\ net \in Nets /\ Len(peers) \in Nat
      /\ Current \in 1..MaxPeers /\ Current \in 1..Len(peers)
  BY ConfigAssumption DEF TypeOK, ValidateNet, Current
<1>1. CASE UNCHANGED seen
  <2>1. phase' \in {"peers", "refused"} /\ culprit'.reason \in Reasons /\ culprit'.net \in FileNets \cup {None}
    BY <1>1 DEF ValidateNet, TypeOK, Reasons
  <2> QED
    BY <1>1, <2>1 DEF ValidateNet, TypeOK, Phases, Disjoint, Inside, TableAccepted, UpstreamsAligned
<1>2. CASE ~UNCHANGED seen
  <2>1. /\ seen' = seen \cup {new}
        /\ Covers(address, net)
        /\ \A e \in seen : ~Overlaps(e.net, net)
        /\ UNCHANGED <<phase, culprit>>
    BY <1>2 DEF ValidateNet
  <2>2. TypeOK'
    BY <1>0, <2>1 DEF ValidateNet, TypeOK, Entries
  <2>3. \A e \in seen : \A a \in Addresses : ~(Contains(e.net, a) /\ Contains(net, a))
    <3> SUFFICES ASSUME NEW e \in seen, NEW a \in Addresses, Contains(e.net, a), Contains(net, a)
                 PROVE  FALSE
      OBVIOUS
    <3>1. e.net \in Nets
      BY ConfigAssumption DEF TypeOK, Entries
    <3> QED BY <1>0, <2>1, <3>1, SharedOverlaps
  <2>4. Disjoint'
    <3> SUFFICES ASSUME NEW e \in seen', NEW f \in seen', NEW a \in Addresses,
                        Contains(e.net, a), Contains(f.net, a)
                 PROVE  e = f
      BY DEF Disjoint
    <3>1. new.net = net
      OBVIOUS
    <3> QED BY <2>1, <2>3, <3>1 DEF Disjoint
  <2>5. Inside'
    <3>1. new.net = net /\ address' = address
      BY DEF ValidateNet
    <3> QED BY <2>1, <3>1 DEF Inside
  <2>6. TableAccepted'
    <3>1. phase = "peers" /\ UNCHANGED <<peers, allowed, upstreams, phase>>
      BY <2>1 DEF ValidateNet
    <3>2. new.peer = Current /\ upstreams = <<>> /\ Len(upstreams) = 0
      BY <3>1 DEF TableAccepted
    <3>3. \A e \in seen' : e.peer \in 1..Len(peers) /\ ~(e.peer <= 0)
      BY <1>0, <2>1, <3>2 DEF TableAccepted
    <3> QED BY <2>1, <3>1, <3>2, <3>3 DEF TableAccepted
  <2>7. UpstreamsAligned'
    BY DEF ValidateNet, UpstreamsAligned
  <2> QED BY <2>2, <2>4, <2>5, <2>6, <2>7
<1> QED BY <1>1, <1>2

\* The step that registers a peer.
LEMMA RegisterKeepsIInv ==
  ASSUME IInv, Register
  PROVE  IInv'
<1> USE DEF IInv
<1> DEFINE p == peers[NextPeer]
           up == IF p.up = None THEN Global ELSE p.up
<1>0. /\ Len(upstreams) \in Nat /\ Len(peers) \in Nat
      /\ Len(upstreams) < Len(peers)
      /\ NextPeer \in 1..Len(peers)
      /\ p \in Peers /\ up \in Upstreams
      /\ phase = "start"
  <2>1. /\ Len(upstreams) \in Nat /\ Len(peers) \in Nat
        /\ Len(upstreams) < Len(peers) /\ phase = "start"
    BY DEF Register, TypeOK, Registered, Current
  <2>2. NextPeer \in 1..Len(peers)
    BY <2>1 DEF NextPeer, Registered
  <2>3. p \in Peers
    BY <2>2 DEF TypeOK
  <2> QED BY <2>1, <2>2, <2>3, ConfigAssumption DEF Peers
<1>1. CASE UNCHANGED <<allowed, upstreams>>
  <2>1. phase' \in {"start", "refused"}
    BY <1>0, <1>1 DEF Register
  <2> QED
    BY <1>1, <2>1 DEF Register, TypeOK, Phases, Disjoint, Inside, TableAccepted, UpstreamsAligned
<1>2. CASE ~UNCHANGED <<allowed, upstreams>>
  <2>1. /\ allowed' = allowed \cup {e \in seen : e.peer = NextPeer}
        /\ upstreams' = Append(upstreams, up)
        /\ UNCHANGED <<phase, address, private, dns, peers, seen, culprit>>
    BY <1>2 DEF Register
  <2>2. /\ upstreams' \in Seq(Upstreams) /\ Len(upstreams') = NextPeer
        /\ \A i \in 1..Len(upstreams) : upstreams'[i] = upstreams[i]
        /\ upstreams'[NextPeer] = up
    BY <1>0, <2>1 DEF TypeOK, NextPeer, Registered
  <2>3. TypeOK'
    BY <1>0, <2>1, <2>2 DEF TypeOK
  <2>4. Disjoint' /\ Inside'
    BY <2>1 DEF Disjoint, Inside
  <2>5. TableAccepted'
    <3>1. \A e \in seen : e.peer <= NextPeer => e \in allowed'
      <4> SUFFICES ASSUME NEW e \in seen, e.peer <= NextPeer
                   PROVE  e \in allowed'
        OBVIOUS
      <4>1. e.peer \in Nat
        BY <1>0 DEF TableAccepted
      <4>2. e.peer = NextPeer \/ e.peer <= Len(upstreams)
        BY <1>0, <4>1 DEF NextPeer, Registered
      <4> QED BY <2>1, <4>2 DEF TableAccepted
    <3> QED BY <1>0, <2>1, <2>2, <3>1 DEF TableAccepted
  <2>6. UpstreamsAligned'
    <3> SUFFICES ASSUME NEW i \in 1..Len(upstreams')
                 PROVE  upstreams'[i] = (IF peers[i].up = None THEN Global ELSE peers[i].up)
      BY <2>1 DEF UpstreamsAligned
    <3>1. CASE i = NextPeer
      BY <2>2, <3>1
    <3>2. CASE i # NextPeer
      <4>1. i \in 1..Len(upstreams)
        BY <1>0, <2>2, <3>2 DEF NextPeer, Registered
      <4> QED BY <2>2, <4>1 DEF UpstreamsAligned
    <3> QED BY <3>1, <3>2
  <2> QED BY <2>3, <2>4, <2>5, <2>6
<1> QED BY <1>1, <1>2

\* Every step keeps the invariant.
LEMMA NextKeepsIInv == IInv /\ [Next]_vars => IInv'
<1> SUFFICES ASSUME IInv, [Next]_vars
             PROVE  IInv'
  OBVIOUS
<1> USE DEF IInv
<1>1. CASE ValidateDns
  BY <1>1 DEF ValidateDns, TypeOK, Phases, Disjoint, Inside, TableAccepted, UpstreamsAligned
<1>2. ASSUME NEW p \in Peers, ValidatePeer(p)
      PROVE  IInv'
  <2>1. /\ peers' = Append(peers, p) /\ Len(peers') = Len(peers) + 1 /\ Len(peers) \in Nat
        /\ peers' \in Seq(Peers) /\ Len(peers') <= MaxPeers
        /\ \A i \in 1..Len(peers) : peers'[i] = peers[i]
    BY <1>2, ConfigAssumption DEF ValidatePeer, TypeOK, Current
  <2>2. phase = "peers" /\ upstreams = <<>>
        /\ UNCHANGED <<phase, address, private, dns, seen, culprit, allowed, upstreams>>
    BY <1>2 DEF ValidatePeer, TableAccepted
  <2>3. TypeOK'
    BY <2>1, <2>2 DEF TypeOK
  <2>4. TableAccepted'
    <3>1. \A e \in seen : e.peer \in 1..Len(peers')
      BY <2>1 DEF TableAccepted
    <3> QED BY <2>2, <3>1 DEF TableAccepted
  <2>5. Disjoint' /\ Inside' /\ UpstreamsAligned'
    BY <2>2 DEF Disjoint, Inside, UpstreamsAligned
  <2> QED BY <2>3, <2>4, <2>5
<1>3. CASE RefuseEmpty
  BY <1>3 DEF RefuseEmpty, TypeOK, Phases, Disjoint, Inside, TableAccepted, UpstreamsAligned
<1>4. ASSUME NEW net \in FileNets, ValidateNet(net)
      PROVE  IInv'
  BY <1>4, NetKeepsIInv
<1>5. CASE Validated
  BY <1>5 DEF Validated, TypeOK, Phases, Disjoint, Inside, TableAccepted, UpstreamsAligned
<1>6. CASE Register
  BY <1>6, RegisterKeepsIInv
<1>7. CASE Serve
  BY <1>7 DEF Serve, TypeOK, Phases, Disjoint, Inside, TableAccepted, UpstreamsAligned,
              Registered, Current
<1>8. CASE UNCHANGED vars
  BY <1>8 DEF vars, TypeOK, Phases, Disjoint, Inside, TableAccepted, UpstreamsAligned
<1> QED BY <1>1, <1>2, <1>3, <1>4, <1>5, <1>6, <1>7, <1>8 DEF Next

-----------------------------------------------------------------------------

\* Every file leads only to tables that satisfy the invariant.
THEOREM ConfigInductive == Spec => []IInv
BY InitIInv, NextKeepsIInv, PTL DEF Spec

\* Nothing the isolation gate lets through belongs to a peer, in either family.
THEOREM GateExcludesPeers == Spec => []PeersUnreachable
<1>1. IInv => PeersUnreachable
  <2> SUFFICES ASSUME IInv, NEW a \in Addresses, AllowedDst(address, a, private)
               PROVE  PeerFor(allowed, a) = None /\ PeerFor(allowed, Plain(a)) = None
    BY DEF PeersUnreachable
  <2>1. Plain(a) \in Addresses
    BY ConfigAssumption DEF Plain
  <2>2. ASSUME NEW b \in {a, Plain(a)}, NEW e \in allowed
        PROVE  ~Contains(e.net, b)
    <3>1. e \in seen /\ e.net \in Nets /\ address \in Nets
      BY ConfigAssumption DEF IInv, TypeOK, TableAccepted, Entries
    <3>2. Covers(address, e.net) /\ b \in Addresses /\ ~Contains(address, b)
      BY <2>1, <3>1 DEF IInv, Inside, AllowedDst
    <3> QED BY <3>1, <3>2, CoversTransitive
  <2> QED BY <2>2, PeerForNobody
<1> QED BY <1>1, ConfigInductive, PTL

\* Once the server runs, an address of a peer's network is routed to that peer
\* and leaves through that peer's upstream.
THEOREM OwnersGetTheirUpstream == Spec => []OwnerAndUpstream
<1>1. IInv => OwnerAndUpstream
  <2> SUFFICES ASSUME IInv, phase = "serving", NEW e \in seen, NEW a \in Addresses, Contains(e.net, a)
               PROVE  /\ PeerFor(allowed, a) = e.peer
                      /\ upstreams[e.peer] = (IF peers[e.peer].up = None THEN Global ELSE peers[e.peer].up)
    BY DEF OwnerAndUpstream
  <2>1. Len(upstreams) = Len(peers) /\ e.peer \in 1..Len(peers) /\ Len(peers) \in Nat
    BY DEF IInv, TypeOK, TableAccepted
  <2>2. e \in allowed /\ allowed \subseteq seen
    BY <2>1 DEF IInv, TableAccepted
  <2>3. \A f \in allowed : Contains(f.net, a) => f = e
    BY <2>2 DEF IInv, Disjoint
  <2>4. e.net.len \in Nat
    BY ConfigAssumption DEF IInv, TypeOK, Entries, Nets
  <2>5. PeerFor(allowed, a) = e.peer
    BY <2>2, <2>3, <2>4, PeerForOwner
  <2> QED BY <2>1, <2>5 DEF IInv, UpstreamsAligned
<1> QED BY <1>1, ConfigInductive, PTL

-----------------------------------------------------------------------------

\* A network that is not covered has an address outside: its own, or, when it
\* is the wider one, its own with the first bit beyond its prefix turned.
LEMMA NotCoveredReachesOut ==
  ASSUME NEW n \in Nets, NEW m \in Nets, ~Covers(n, m)
  PROVE  \E a \in Addresses : Contains(m, a) /\ ~Contains(n, a)
<1>0. /\ n.len \in 0..Width /\ m.len \in 0..Width /\ Width \in Nat
      /\ n.addr \in Addresses /\ m.addr \in Addresses
  BY ConfigAssumption DEF Nets
<1>1. CASE ~Contains(n, m.addr)
  BY <1>0, <1>1 DEF Contains
<1>2. CASE Contains(n, m.addr)
  <2>1. m.len + 1 \in 1..n.len /\ m.len + 1 \in 1..Width
    BY <1>0, <1>2 DEF Covers
  <2> DEFINE k == m.len + 1
             turned == [i \in 1..Width |-> IF i = k THEN 1 - n.addr.bits[k] ELSE m.addr.bits[i]]
             a == [fam |-> m.addr.fam, bits |-> turned]
  <2>2. n.addr.bits[k] \in {0, 1} /\ m.addr.fam \in {"v4", "v6"} /\ m.addr.bits \in [1..Width -> {0, 1}]
    BY <1>0, <2>1 DEF Addresses
  <2>3. turned \in [1..Width -> {0, 1}]
    <3>1. 1 - n.addr.bits[k] \in {0, 1}
      BY <2>2
    <3>2. \A i \in 1..Width : m.addr.bits[i] \in {0, 1}
      BY <2>2
    <3>3. \A i \in 1..Width : (IF i = k THEN 1 - n.addr.bits[k] ELSE m.addr.bits[i]) \in {0, 1}
      BY <3>1, <3>2
    <3> QED BY <3>3
  <2>4. a \in Addresses
    BY <2>2, <2>3 DEF Addresses
  <2>5. \A i \in 1..m.len : i \in 1..Width /\ i # k
    BY <1>0
  <2>6. Contains(m, a)
    BY <2>5 DEF Contains
  <2>7. a.bits[k] # n.addr.bits[k]
    BY <2>1, <2>2
  <2>8. ~Contains(n, a)
    BY <2>1, <2>7 DEF Contains
  <2> QED BY <2>4, <2>6, <2>8
<1> QED BY <1>1, <1>2

\* A network that fails the overlap test shares an address.
LEMMA OverlapsShare ==
  ASSUME NEW n \in Nets, NEW m \in Nets, Overlaps(n, m)
  PROVE  \E a \in Addresses : Contains(m, a) /\ Contains(n, a)
<1>1. n.addr \in Addresses /\ m.addr \in Addresses
  BY DEF Nets
<1> QED BY <1>1 DEF Overlaps, Contains

\* validate refuses a network only with a reason that holds of its addresses.
THEOREM NetsRefusedWithReason == Spec => []RefusalsAreDue
<1> DEFINE Settled == RefusalsAreDue /\ (culprit.reason # "none" => phase = "refused")
<1>1. Init => Settled
  BY DEF Init, RefusalsAreDue
<1>2. IInv /\ Settled /\ [Next]_vars => Settled'
  <2> SUFFICES ASSUME IInv, Settled, [Next]_vars
               PROVE  Settled'
    OBVIOUS
  <2>1. CASE UNCHANGED <<culprit, seen, address>> /\ phase # "refused"
    BY <2>1 DEF RefusalsAreDue
  <2>2. ASSUME NEW net \in FileNets, ValidateNet(net)
        PROVE  Settled'
    <3>1. net \in Nets /\ address \in Nets /\ address' = address /\ culprit.reason = "none"
      BY <2>2, ConfigAssumption DEF IInv, TypeOK, ValidateNet
    <3>2. CASE ~Covers(address, net)
      <4>1. culprit' = [reason |-> "outside", net |-> net] /\ phase' = "refused"
        BY <2>2, <3>2 DEF ValidateNet
      <4> QED BY <3>1, <3>2, <4>1, NotCoveredReachesOut DEF RefusalsAreDue
    <3>3. CASE Covers(address, net) /\ \E e \in seen : Overlaps(e.net, net)
      <4>1. culprit' = [reason |-> "overlap", net |-> net] /\ phase' = "refused" /\ seen' = seen
        BY <2>2, <3>3 DEF ValidateNet
      <4>2. \A e \in seen : e.net \in Nets
        BY ConfigAssumption DEF IInv, TypeOK, Entries
      <4>3. \E a \in Addresses, e \in seen : Contains(net, a) /\ Contains(e.net, a)
        BY <3>1, <3>3, <4>2, OverlapsShare
      <4> QED BY <4>1, <4>3 DEF RefusalsAreDue
    <3>4. CASE Covers(address, net) /\ ~(\E e \in seen : Overlaps(e.net, net))
      <4>1. culprit' = culprit
        BY <2>2, <3>4 DEF ValidateNet
      <4> QED BY <3>1, <4>1 DEF RefusalsAreDue
    <3> QED BY <3>2, <3>3, <3>4
  <2>3. CASE UNCHANGED vars
    BY <2>3 DEF vars, RefusalsAreDue
  <2> QED BY <2>1, <2>2, <2>3
          DEF Next, ValidateDns, ValidatePeer, RefuseEmpty, Validated, Register, Serve
<1>3. Settled => RefusalsAreDue
  OBVIOUS
<1> QED BY <1>1, <1>2, <1>3, ConfigInductive, PTL DEF Spec

=============================================================================
