# wg-wrapper in TLA+

Specifications of wg-wrapper: the userspace WireGuard server that leaves only
through SOCKS5, the WebSocket bridge and relay that carry its datagrams, and the
Windows client.  Each module is translated from the Rust source; `PROJECT.json`
maps every definition to the lines it stands for.  Paths below are relative to
`src/`.

Check a run with `tlc -workers 2 -config MCFlowTable.cfg MCFlowTable`, the proofs
of a component with `tlapm FlowTableProofs.tla`, and so on for every `*Proofs.tla`.

## The system

| Component | Source | State it keeps | Operations | Talks to |
|---|---|---|---|---|
| WireGuard endpoint | `crates/wgcore` | per peer: endpoint, sessions, handshake, queued packets; a rate limiter | `recv_from_network`, `encapsulate`, `update_timers`, `endpoint` | called under one mutex by the three tasks of the datapath, and by the client engine |
| Server datapath | `crates/server/src/lib.rs` 65-136, `net.rs` | two bounded queues; what each task carries across an await | peer to stack, stack to peer, timers | UDP socket, WireGuard endpoint, userspace stack |
| Server configuration | `crates/server/src/config.rs`, `lib.rs` 36-51, `net.rs` 10-33 | the file; the routing table and the upstreams built from it | `validate`, the loop over the peers in `start`, `allowed_dst`, `peer_for` | read by the datapath for every packet |
| Flow table | `crates/server/src/lib.rs` 18-34, 137-164 | semaphore, one atomic counter per peer, a guard per flow task | accept loop, end of a flow task | the stack's accept channel, flow tasks |
| Flows | `crates/server/src/flow.rs` | a SOCKS5 connection or association; the set `NO_UDP` | `handle_tcp`, `handle_udp`, `dns_over_tcp` | upstream proxy, streams of the stack |
| Userspace stack | `vendor/ipstack` (vendored, patched) | session table; per stream sequence numbers, buffers, TCP state | `process_device_read`, stream reads and writes, timers | packet device, flow tasks |
| Bridge and relay | `crates/wsrelay` | map from source to channel, a task per source, a task and a permit per connection | `run_client_to`, `client_peer`, `relay_conn`, `serve_limited` | WireGuard sockets at both ends |
| Client engine | `crates/wgclient/src/lib.rs` 128-250 | tasks and threads of one tunnel, counters | `connect_to`, `close` | adapter, bridge, server |
| Adapter | `crates/wgclient/src/lib.rs` 348-482 | undo list, dns flag | `open`, `Drop` | Windows routing and DNS |
| Client session | `crates/client-win` `main.rs`, `ui/app.js` | `Session` behind an async mutex; the window's `busy` and last painted state | `connect`, `disconnect`, `install_update`, Quit | engine, adapter |

What is hard here, and what makes each part correct:

* **Flow table.** The counter is updated by fetch_add, compare, fetch_sub in the
  loop while guards of ending flows decrement it on other threads, and a guard
  gives back its counter before its permit.  Correct means: nothing leaks or is
  given back twice, a refusal at the cap is always due, one peer cannot take the
  table.
* **Datapath.** Three tasks share the endpoint; each sends after it has released
  the lock, with an endpoint that may have moved.  Packets may wait in a queue or
  inside the tunnel.  Correct means: a peer only ever receives answers to packets
  it sent itself, endpoints move only on proof, nothing is sent where the peer has
  never been.
* **Bridge.** Tasks per source come and go while the router looks at their
  channels; connections break and are replaced while the relay still reads the old
  one.  Correct means: one task per source, no datagram twice, order kept on a
  connection, every task gets through or leaves as long as what it awaits comes back.
* **Client session.** A dial runs with the mutex free, and Quit, the installer and
  the window act meanwhile.  Correct means: one adapter at a time, owned by
  somebody who drops it, and a session whose fields agree.
* **UDP flows.** Flows share the sticky `NO_UDP`; associations and lookups fail, time
  out and are answered late; the stack clips what the flow has measured already.
  Correct means: a lookup gets through or its upstream failed it, answers match their
  queries and arrive whole or marked, every flow ends.
* **Configuration.** Networks of peers are compared pairwise by address; the gate and
  the routing table are two functions that have to agree on every address.  Correct
  means: no destination that passes the gate is a peer's, an address has one owner, and
  its packets leave through that owner's upstream.
* **Adapter and engine.** A dozen commands, each of which may fail, an undo list run
  backwards, two threads that hold the device and four tasks.  Correct means: the server
  is never routed into its own tunnel, nothing else leaves beside it but what more
  specific routes take elsewhere, everything is undone and everything ends.
* **TCP flows.** One task polls both directions, the main loop of the stream and timers
  change the session on other threads, and a poll that finds nothing sleeps until its
  waker is called.  Correct means: nobody sleeps on data, an end of stream or room that
  is there, one FIN, no data lost at the end, a drop that returns.

`hazards` in `PROJECT.json` lists each of these at its line with the properties
that cover it.

## Modules

| Module | Models |
|---|---|
| `FlowTable` | the accept loop, the semaphore, the counters, the two halves of `FlowGuard`'s drop |
| `FlowTableProofs` | theorems about `FlowTable` |
| `Wg` | the operations of `wgcore::Wg` as operators from a peer's state to its next state and output |
| `Datapath` | the three server tasks around `Wg`, the queues, the stack as their environment |
| `DatapathProofs` | theorems about `Datapath` and the endpoint in it |
| `Config` | `Config::validate`, the tables `start` builds, `allowed_dst`, `peer_for` |
| `ConfigProofs` | theorems about `Config` |
| `Link` | abstract: a datagram link, at most once, no order |
| `Bridge` | `run_client_to`, `client_peer`, `relay_conn`; implements `Link` |
| `BridgeProofs` | theorems about `Bridge`: one task per source, `Bridge` implements `Link`, the order on a connection |
| `UdpFlow` | `handle_udp`, `udp_relay` with `NO_UDP`, `dns_over_tcp`, over the stack's UDP stream |
| `UdpFlowProofs` | theorems about `UdpFlow` |
| `ClientSession` | the commands of the Windows client and what they do to session, adapter and tunnel |
| `ClientSessionProofs` | theorems about `ClientSession` |
| `Adapter` | `win::open` command by command, `Drop` of the adapter, and the routes that result |
| `Engine` | `connect_to` and `close` with their threads and tasks, on top of `Adapter` |
| `EngineProofs` | theorems about `Engine` and the `Adapter` in it |
| `TcpStream` | `handle_tcp` over the stack's TCP stream: copy, main loop, helper tasks, wakers |
| `TcpStreamProofs` | theorems about `TcpStream` |
| `MC*` | TLC instances; constants come from the `.cfg` files |

Definitions named as mutations in a comment are deliberately wrong variants of the
definition after them.  Nothing uses them; put in its place, each makes a property
fail, which shows that the property depends on that code.

### FlowTable

`pc` is the place of the accept loop (`lib.rs` 142-162) between two accesses to
shared state: `accept`, `charge` (holds a permit), `spawn` (admitted), `refund` and
`release`.  `Refuse`, `Acquire` are lines 148-150, `Charge` is the `fetch_add` and
comparison of 151, `Refund` and `Release` are either the refusal at 152 or the drop
of the guard of a stream that is neither TCP nor UDP (160).  A flow task ends with
`End` (the counter, line 33) and then `Free` (the permit field).  Neither the loop
nor a drop awaits in between, so each occupies a thread; `Threads` bounds how many can
be in the middle of a body at once.  It is not the number of workers of the runtime: the
drop of a TCP stream calls `block_in_place` (`tcp.rs` 449-452), which hands its worker on to
another thread, so more threads than workers can be inside the end of a flow.

`accept` returning an error (145) ends the loop in the code; the stack's run loop
never drops its sender, so the model has no such step.

### Wg and Datapath

A lock section is one step; the sends after it are a later step.  `recv`, `stk` and
`tim` hold what a task carries across its awaits.  `sent` is every datagram a peer
has made: delivering an element any number of times, late, or never gives
duplication, reordering and loss at once.

boringtun's `Tunn` is external and kept to what the wrapper sees of it: a handshake
initiation is accepted once and makes a pending session, a response completes the
handshake we started, a data message is accepted once and confirms its session,
packets queue while there is no session and leave when decapsulate is called with
an empty input.  Cryptography is perfect.  The rate limiter is a choice (`Loads`)
at each of the two places that ask it: `recv_from_network` itself ("outer") and
decapsulate ("inner").  Cookie replies from peers are left out: they never move an
endpoint (`kind==3`).

`Owner` and `AllowedDst` stand for `peer_for` and `allowed_dst`.  That no allowed
destination is a peer's is the assumption `DatapathAssumption`; it is what
`PeersUnreachable` of `Config` establishes.
The stack is the environment of `to_stack` and `to_wg`: it may open a flow for any
packet it reads and may write to any open flow at any time.

### Link and Bridge

`router` is `run_client_to` between its lookup (149) and `try_send` (158): the task
it picked may leave meanwhile.  A `task` is a `client_peer`; `rx` is its channel,
`hand` the datagram in `tx.send().await`, `expired` whether its deadline has
passed.  A `conn` is a permit of the relay and the connection that holds it; it
outlives the client's half of the connection until `relay_conn` notices.  Durations
are left out except the comparison with the deadline.  `Abort` is `Tunnel::close` aborting
`run_client_to`; the `client_peer` tasks are not aborted, they see their channel
close.

Neither end reads while it awaits a send of its own (`client_peer` 193, `relay_conn` 112,
114, 119), and a send waits while the connection is full.  `HasRoom` says so of the
direction to the relay, whose frames are counted against `Buffer`.  Of the other direction
there is what `client_peer` sees, a frame that moves its deadline, and whether `relay_conn`
is in the middle of a send (`replying`), which takes as long as it likes.

### UdpFlow

`flow[f].pc` is the await a flow task stands at: `associate`, the `select!` of
`udp_relay` (`relay`), the read, dial and exchange of `dns_over_tcp`; `check` is the
look at `NO_UDP`.  `asks` is the stream: its first payload, which `poll_read` hands
out whatever the deadline, and then the channel from the stack, which a deadline
that has passed hides (`late`).  The deadline moves with every poll, so it can only
pass while nothing polls the stream, and only if `udp_idle_secs` is short
(`ShortIdle`).  The steps of the SOCKS5 handshakes are one outcome.  Answers are told
apart by size: they fit, they fit with an IPv4 header only, or they do not fit; `Write`
is `create_rev_packet`, which cuts to what its own header leaves.

### ClientSession

Dials are numbered; `tunnel`, `adapter`, `closing` hold the number of the dial they
came from, `inPlace` and `running` are the adapters whose routes are applied and
the dials whose tasks run.  `disc[c]` is the `disconnect` run by the window, by Quit
or by the installer.  The window's guard `busy` and the stale state it decides on
are `ui` and `last`; a disabled button only narrows what `ClickConnect` allows.
`Opens` either applies everything or undoes everything.

### Config

An address is a family and a sequence of bits, a network an address with its host bits
and a length, so `Contains`, `Covers` and `Overlaps` are what ipnet and lines 108-109 of
config.rs do.  The file is read lazily: `ValidatePeer` and `ValidateNet` choose what comes
next in it.  `AsV4` is `to_ipv4_mapped`; the special and the private ranges of the gate
are sets.  `Register` is one turn of the loop in `start`, which refuses a second peer with
the same key (wgcore `add_peer`).

### Adapter and Engine

`Script` is the sequence of commands of `win::open` for a configuration; each has an
effect (a route, a rule, a setting) and may push its undo.  `CommandWorks` and
`CommandFails` run the next one, `UndoLast` runs the list backwards as `Drop` does, and
each undo may fail, which is only logged.  `Chosen` is Windows' route selection, and
`Released` the removal of the adapter; both are external.  A process that ended with its
tunnel up may have left its rule and its pins.

`main` is `connect_to`, then the dialled tunnel, then `close`.  `reader` and `writer` are
the threads around the device, `tasks` what `connect_to` spawns, `abort` a task that has
been asked to stop and has not reached an await yet.  `Senders` are the holders of
`to_tun`: the write thread ends when there are none.  The adapter is dropped in the order
of `dial` and `disconnect` of the client.

Exceptions the properties name: resolvers set before a later command of their block
fails stay until the adapter goes, and so do its address and mtu (`DropRestores`); a full
tunnel takes back the LANs of the link of the best default route and covers the rest with
halves, so a host for which any other row of the routing table is more specific than these
(an on-link subnet of another link, a route through another gateway, a host route, an IPv6
prefix of a link) stays outside (`Elsewhere` in `TunnelHolds`); after a failed first send the receiving task is detached and
keeps the writer, and with it the adapter (`EngineEnds` says nothing of `refused`).

### TcpStream

`pc` is the place of the flow task between two accesses to shared state: a poll goes
through the direction to the remote (`up`: `poll_read`, then the write) and then back
(`down`: the read, `poll_write`, `poll_shutdown`) until each waits.  The main loop holds
the mutex of the Tcb for a packet, so `Receives` is one step; `CloseWaitEnds`,
`LastAckEnds`, `TwoMslEnds` are the helper tasks.  `wakers` is where the flow task has left
its waker; a step that wakes a place sets `woken`, and only a woken task is polled.  The
channel to the relay wakes its reader by itself.  The peer sends data, its FIN after its
data, acknowledgements of what has been sent and a reset, at any time.

Left out: reassembly, retransmission, duplicate acknowledgements, and windows other than
full or not; segments arrive in order, a segment of data fills the buffer of the copy, and
none carries data and FIN together (Established ignores those).  What the code does not do,
and the properties therefore do not claim: a reset and the helper tasks wake nobody; pushed data
that carries an acknowledgement leaves a writer asleep; in CloseWait the acknowledgement
that empties the buffer does not wake the writer; `poll_shutdown` leaves its waker after it
has let go of the mutex under which it saw data in flight.  `EofReachesRelay` and
`WriterResumes` name the states they cover.

## Runs

| Run | Checks | Bounds | Distinct states |
|---|---|---|---|
| `flow_table` | `TypeOK`, `CountsExact`, `PermitsBalance`, `PeerShare`, `CapRefusalsAreDue`, `OnlyRunningFlowsCount` | 2 peers, 4 permits, cap 1, 2 threads, 1 waiting stream | 49 thousand |
| `datapath` | `TypeOK`, `AnswersOwnPackets`, `StackSeesOwnedPackets`, `RepliesFindEndpoint`, `SendsToUsedAddress`, `EndpointMovesUnlessLimited` | 2 peers with 2 datagrams each, one of them roaming between 2 addresses, queues of 1, every limiter outcome | 979 thousand |
| `client_session` | `OneAdapter`, `SessionAddsUp`, `EnginesOwned`, `QuitRestoresTunnel`, `ConnectSettles`, `DisconnectRestores` | 3 dials | 18 thousand |
| `bridge` | `OnePeerPerSource`, `OrderOnConnection`, `LinkSpec`, `Reconnects`, `BridgeStops` | 1 source, 2 tasks, 2 permits, channel of 1, connections that hold 1 frame, 2 datagrams | 46 thousand |
| `udp_flow` | `AnswersInOrder`, `NothingClippedSilently`, `DnsResolves`, `FlowsEnd` | a plain flow over IPv6 and a port 53 flow over IPv4, 1 upstream, 2 datagrams each, a short idle time | 34 thousand |
| `config` | `PeersUnreachable`, `OwnerAndUpstream`, `RefusalsAreDue` | addresses of 3 bits in 2 families, 2 peers, 3 networks out of 9, 3 tunnels, 2 upstreams | 49 thousand |
| `tunnel` | `ServerStaysOutside`, `DropRestores`, `NoRuleLeft`, `TunnelHolds`, `UpMeansPumping`, `EngineEnds` | 3 configurations, 2 links, a LAN on each, a network behind another gateway, an IPv6 prefix, with and without leftovers, 1 failing undo, 1 packet each way | 1.05 million |
| `tcp` | `OneFin`, `EofReachesRelay`, `WriterResumes`, `DropEnds` | 2 segments and 2 replies, send buffer and socket of 1 | 985 thousand |

Why the bounds are enough to be interesting.  Flow table: both peers can be at
their cap with permits left and the table can be full; with two threads a drop
overlaps an admission of the same peer.  Datapath: a handshake and a data message
per peer reach an open session, a flow and its answer in both peers at once, and a
queue of one is full as soon as it is used; the roaming peer makes its messages at
either address, so a late one is from where it no longer is.  Client session: a failed dial, a successful one
and a further one against each exit.  Bridge: a source outlives its first task, a
connection is still read after its replacement, permits run out, the channel is
full, and so is a connection while both ends send.  UDP flows: one flow may fill `NO_UDP` while the other is before, inside or after
its own look at it, with a second datagram waiting or not.

Configuration: networks that cover, equal, nest in and miss each other, with the shorter
one first or last, in both families, and mapped addresses on either side of the tunnel
network.  Tunnel: a full tunnel, one whose network is the LAN itself, a split one without
resolvers; any command may fail, and at most one undo with it.  TCP: buffers of one are
full at the first piece, and a second one has to wait for room, on both sides.

Four runs show where the code does less than its comments and its README say:

* `client_exit`: `main.rs:306`, "Tear the tunnel down first so routes and dns are
  restored before the process goes away".  Quit during a dial finds no tunnel in
  the session and exits with the adapter of that dial in place; so does an install.
* `tcp_eof`: tcp.rs 338, "once the peer's FIN is in, nothing more can arrive, so report
  EOF".  A closed session reports end of stream before the channel is looked at: data that
  was acknowledged, followed by FIN and last acknowledgement before the relay was polled,
  never reaches the remote.
* `tcp_idle`: config.rs 37, "How long a relayed TCP flow may sit with no traffic in either
  direction before it is reset".  The timeout is polled by `poll_read` alone; once the peer
  has closed nobody reads, and a silent remote keeps the flow.
* `tunnel_leak`: README.md 144-147, "Nothing else can leave", "only the default gateway and
  the relay stay reachable outside it", "IPv6 is blocked".  Only the LANs of the link of the
  best default route are taken back: with a full tunnel up, a LAN of another link, a network
  behind another gateway and an IPv6 prefix of a link are reached beside it.

Known limits that the properties above leave room for.  Two awaits of `client_peer` have no
bound: a handshake whose relay has accepted and never answers (175), which `Reconnects`
supposes away (`[]<>(pc # "handshake")`), and a send into a connection whose other end is
sending too (193 against 112, 114, 119), in which neither end reads nor looks at its
deadline.  `BridgeStops` names both (`Unanswered`, `BothSending`) as what may keep a task after
the tunnel is closed; without either exception TLC finds it violated.  A remote that answers
after the peer has closed its side has nothing in flight at that moment, so the main loop
sends our FIN (`tcp.rs` 754) and `poll_write` then writes the answer after it.  Further:
`NothingClippedSilently` speaks of flows over IPv4 (`UDP_OVERHEAD` is that of
IPv4, over IPv6 the stack clips 20 bytes earlier); a resolver or an allowed network of one
host that is the server's own address would lead the server into the tunnel, which `open`
does not check and `HostAssumption` excludes; `NO_UDP` is never emptied; in `datapath` a cookie from inside decapsulate lets a
late duplicate move an endpoint (the second disjunct of `EndpointMovesUnlessLimited`).

## Fairness

* `FlowTable`: strong fairness for the loop (threads are contended, and tokio queues
  ready tasks), weak fairness for the second half of a drop.  Nothing is assumed of the end
  of a flow: `tcp_idle` shows a TCP flow that has none.  `OnlyRunningFlowsCount` says that
  once streams stop arriving, what is charged and what is taken from the semaphore is in
  the end what still runs.
* `ClientSession`: strong fairness for the steps of a connect and of each
  disconnect: the async mutex is granted in order, the handshake has a timeout,
  aborted tasks end.  Resolving a name and opening the adapter are taken to return.
  Nobody has to click anything.
* `Bridge`: time passes (`Idle`), dials end (by `CONNECT_TIMEOUT` or the operating
  system), sleeps end, and so does a handshake whose connection the relay has refused or
  closed; strong fairness for the receive branch of the `select!` of either end, which polls
  its branches in a random order.  A send ends if the connection has room for it (`HasRoom`); the relay
  makes room when it reads, which it does not while it sends.  Nothing is assumed of the end
  of the relay's own sends or of a handshake it has accepted.
* `UdpFlow`: weak fairness for every step of a task: associate, dial and exchange have
  timeouts, and a relay or a stream that nobody uses reaches its idle time.  An
  upstream answers each datagram once, so it does not keep a flow from idling for ever.
* `Engine`: weak fairness for commands and undos (they are processes that return), for
  `connect_to`, whose handshake has a deadline, for aborted tasks and for the threads.
  `tun.recv` returns only when the session is shut down; nobody has to disconnect.
* `TcpStream`: weak fairness for the steps of the flow task once it is woken, for the exit
  signal of the main loop and for the timers of the close handshake; in `tcp` the remote
  takes what it is sent.  The peer and the idle timeout owe nothing; `tcp_idle` adds the
  timeout.

`Datapath` states safety only.

## Proofs

`FlowTableProofs` proves, for every set of peers, every cap, any number of permits
and threads, and with no bound on the waiting streams beyond `MaxBacklog`:

| Theorem | States |
|---|---|
| `TypeCorrect` | `Spec => []TypeOK` |
| `CountsAreExact` | `Spec => []CountsExact` |
| `PermitsAreBalanced` | `Spec => []PermitsBalance` |
| `PeersKeepTheirShare` | `Spec => []PeerShare` |
| `CapRefusalsAreJustified` | `Spec => CapRefusalsAreDue` |

They follow from `Inductive`, `Spec => []IInv`.  `TypeOK` is not inductive alone:
that a permit count stays within `0..MaxFlows` needs `PermitsBalance`, and that
needs tasks to be counted by what they hold.  `IInv` therefore also has
`OwnersKnown` (whoever is charged is a peer), `CountsExact`, `CapKept` (the number
of live flows, with the one about to be spawned, is within the cap) and
`ThreadsEnough` (bodies in progress never exceed the threads).  `CapKept` and
`CountsExact` give `CapRefusalsAreDue`: at a comparison the counter is exactly the
number of live flows.  `CapKept` and `ThreadsEnough` give `PeerShare`: what is
beyond the cap is half-dropped guards, one per thread.  The lemmas `SpawnSets`,
`EndSets`, `FreeSets` say how each step changes the sets of tasks and their
cardinalities.  The assumption is `FlowTableAssumption`; TLC evaluates it in
`flow_table`.

`ConfigProofs` proves, for addresses of any width, any special and private ranges, any
networks and files of any size:

| Theorem | States |
|---|---|
| `GateExcludesPeers` | `Spec => []PeersUnreachable` |
| `OwnersGetTheirUpstream` | `Spec => []OwnerAndUpstream` |
| `NetsRefusedWithReason` | `Spec => []RefusalsAreDue` |

The first two follow from `ConfigInductive`, `Spec => []IInv`, where `IInv` says that the accepted
networks share no address (`Disjoint`), lie inside the tunnel (`Inside`), that the routing
table holds only accepted networks and in the end all of them (`TableAccepted`), and that
upstreams follow the peers (`UpstreamsAligned`).  `Disjoint` is kept because prefixes are
nested or disjoint (`SharedOverlaps`): two networks that share an address contain the
address of one another, which is what `validate` tests.  With it longest-prefix routing has
one candidate (`PeerForOwner`), and with `Inside` the gate refuses every address the table
knows (`PeerForNobody`).  `NetsRefusedWithReason` rests on `OverlapsShare` and
`NotCoveredReachesOut`, which give the witness.  The assumption is `ConfigAssumption`; TLC
evaluates it in `config`.

`DatapathProofs` proves, for any number of peers, addresses, packets and datagrams and
queues of any capacity:

| Theorem | States |
|---|---|
| `DatapathTypes` | `Spec => []TypeOK` |
| `StackIsIsolated` | `Spec => []StackSeesOwnedPackets` |
| `RepliesAreOwned` | `Spec => []AnswersOwnPackets` |
| `RepliesAreRouted` | `Spec => []RepliesFindEndpoint` |
| `TargetsWereUsed` | `Spec => []SendsToUsedAddress` |
| `RoamsOnProof` | `Spec => EndpointMovesUnlessLimited` |

All but the last follow from `InvariantHolds`, `Spec => []IInv`.  What a property says of
one place has to be known of every place a packet was before: `IInv` says that a peer's
endpoint is an address it has sent from and its queued packets answer its own
(`PeersKept`), that a packet in the hands of the receiving task came in a datagram of its
owner (`RecvCarries`), that the messages each task is about to send are the addressee's
(`RecvSendable`, `StkSendable`, `TimSendable`), and that the flows and both queues hold
packets of peers that have an endpoint by then (`FlowsInward`, `QueueInward`,
`QueueOutward`).  The argument is that none of this is ever taken back: datagrams once sent
stay in `sent`, and an endpoint once known stays known (`Grows`), so that what was true
when a lock was released is true when the task acts on it.  The lemmas `EncapsulateFacts`,
`FlushFacts`, `AcceptedFacts`, `ReceivedFacts` and `TimerFacts` state what the operations of
the endpoint return; `RoamsOnProof` compares the age of sessions before and after a step
(`Ages`).  The assumptions are `WgAssumption` and `DatapathAssumption`, evaluated in
`datapath`; the second has what `GateExcludesPeers` and `OwnersGetTheirUpstream` prove of
`Config`.

`ClientSessionProofs` proves, for any number of dials, `OneAdapterOnly`
(`Spec => []OneAdapter`), `SessionAgrees` (`SessionAddsUp`), `TasksHaveOwners`
(`EnginesOwned`) and `QuitLeavesNothing` (`QuitRestoresTunnel`).  There is one dial because
the window has one command in hand (`WindowBusy`), one disconnect that closes because it
holds the mutex (`OneCloser`), and nothing in the session before the answer of a dial
(`NoTunnelYet`).  Numbers are used once (`Numbered`), so what Quit was asked to end is not
what a later dial brings, and it is either still in the session or in the hands of a
disconnect (`QuitPending`).  `Applied` says whose routes are in place.  The assumption is
`ClientAssumption`, evaluated in `client_session`.

`BridgeProofs` proves `OneClientPeer`, `Spec => []OnePeerPerSource`, for any number of
sources, tasks, connections and datagrams, from the shapes of the state and from
`Spawned`: a living task has a source.

It also proves `BridgeIsALink`, `Spec => LinkSpec` (at most once, no order), and `OrderKept`,
`Spec => []OrderOnConnection`, from the same assumption, `BridgeAssumption` (evaluated in
`bridge`).  A datagram of a source is at one place at a time: in the hand of the router,
in the channel or the hand of a task, or in a connection.  The invariant `QInv`
(`LinkInvariant`) says that numbers only grow from the target back to the router:
`TasksInOrder` and `ConnsInOrder` inside each task and each connection, `AllYounger` from a
connection to the task that feeds it, `AllApart` between connections of one source that are
open together (an old one draining while the next one is in use),
`RouterYoungest` for the datagram in the router's hand, and `MapServes` for what the map
entry of a source can reach.  Under it each action of `Bridge` is a step of `Link`, one
lemma per action, or leaves the mapped state alone.  All of it is needed: the order
on one connection depends on the channel behind it, and that on what the router may still
send.

`TcpStreamProofs` proves, for any number of segments and replies and any buffers:

- `OneFinSent` (`Spec => []OneFin`): the FIN is sent only by steps that leave the states in
  `Open`, and in those none has been sent.
- `TcpTypes` (`Spec => []TypeOK`), with the counts behind the bounds: written plus unread plus
  held replies are at most what the remote sends, what is acknowledged is at most what was
  written and the FINs, and what waits in the channel at most what the peer has sent.
- `SleepersHaveNothingToDo` (`Spec => []NobodySleepsOnWork`): a flow that is idle and not due to
  be polled has nothing it could read or write.  It excepts what the code does not do: a reset
  wakes nobody, a writer may sleep on room after the peer's FIN, and while the write to the
  remote waits; and it says nothing of `poll_shutdown`, which leaves its waker too late (391-402)
  and can miss a wake-up.  The invariant (`Sleepers`) follows the reader from access to
  access: past the channel its waker is there and the channel empty, past the registration the
  second waker is there, and past the look at the state no FIN is unread.  A step
  that leaves the flow asleep has taken no waker (`StaysAsleep`), so a packet that leaves it
  asleep brought nothing for the wakers it has left (`PacketForReader`).  The writer
  needs the reader's part: an acknowledgement on pushed data wakes the reader only, and the
  writer is polled with it.  It is
  the safety half of `EofReachesRelay` and `WriterResumes`, for every bound; TLC found it
  broken by the mutations `WakesQuietly` and `WakesReaderOnly`.
- `DropNeverWaitsInVain` (`Spec => []DropIsTold`), the safety half of `DropEnds`: who blocks on
  the main loop has left it the message, which only its end takes.

`UdpFlowProofs` proves, for any number of flows, upstreams and datagrams, `UdpFlowTypes`
(`Spec => []TypeOK`), `AnswersAreInOrder` (`Spec => []AnswersInOrder`: what follows an answer
over TCP answers a later query; the association keeps no order) and `ClippedIsMarked`
(`Spec => []NothingClippedSilently`).  A query is in the stream, in the hand of
`dns_over_tcp`, or has left for the upstream, and the invariant (`UdpFlowInvariant`, `Kept` for
each flow) says that numbers grow from the answers back to the stream: `AsksInOrder` within
the stream, `AsksYounger` from the stream to the hand and to whatever has left,
`HandYoungest` from the hand to what left and was answered before it, `AnswersAscend` among
the answers over TCP, before which only the association answers (`Relaying`).
`LeftSent` ties what the upstream holds to what the
peer has sent.  A step moves one flow only (`StepIsLocal`), so the others keep what is said
of them.  The assumption is `UdpFlowAssumption`, evaluated in `udp_flow`.

`EngineProofs` proves, for any configurations, routing table, hosts and number of packets,
and whatever commands and undos fail:

| Theorem | States |
|---|---|
| `SystemIsRestored` | `Spec => []DropRestores` |
| `RulesAreGone` | `Spec => []NoRuleLeft` |
| `ServerIsOutside` | `Spec => []ServerStaysOutside` |
| `TunnelTakesAll` | `Spec => []TunnelHolds` |
| `EngineTypes` | `Spec => []EngineTypeOK` |
| `UpIsPumping` | `Spec => []UpMeansPumping` |

The first part is about the commands of `open` alone.  `FlattenSeq` is a recursive
function, so that its elements are those of its parts (`FlattenFacts`) takes an induction;
the induction theorems of the library take an operator, so it is stated on subsets of `Nat`
(`Induction`, from the well-foundedness of `<`).  `AllowedFacts`, `LanFacts`, `V6Facts` and
`ResolverFacts` say which routes each part adds, `ScriptParts` where the parts are in the
script, `CommandKinds` what each command is: the rule and the resolvers come before
`HeadLen`, the pins follow, and only after them routes into the tunnel, all of
destinations other than the server.

The adapter's invariant is `AInv` (`AdapterInvariant`).  `DropRestores` is not inductive: that
nothing is left in the end is because everything in place is on the undo list, was there
before, failed to be undone or goes with the adapter (`Restorable`), where the resolvers are
accounted for by `dns` or by the block that has yet to set it.  `RuleRemembered` is the same
of the rule, which the undo also clears of stale ones, and `RoutesRemembered` of routes into
the tunnel.  `ServerStaysOutside` needs the order of the list: `PinBelow` says that no route
into the tunnel was added before the pin of the server, so that the list, run backwards,
takes the pin away last, and `PinHeld` that the pin is in place as long as the list has such
a route; that `open` adds the pin first is `Applied` together with the place of the pin in the
script.  With `Applied` and `Finished` an open adapter has everything the script adds
(`OpenHas`), and `TunnelHolds` is then an argument about prefixes (`HostBest`, `BestExists`,
`RoutesAre`): what fits a host best is a destination inside the tunnel, since a half
outranks every default route, the LANs are taken in, the pins hold nobody else, and any other row
that is not beaten by one of these is an exception `Elsewhere` makes.  `EInv`
(`EngineInvariant`) says what runs in each stage of `connect_to` (`Quiet`, `Pumping`) and that a
packet is in one place (`Packets`).

The assumptions are in `Adapter` and `Engine`, and `tunnel` evaluates them: `HasDefault` and
`TableAssumption` (the table has a default route and no link named like the tunnel),
`ConfAssumption` (types), `PrefixAssumption` (a host is in a half of its family, halves are longer than
the whole), `HostAssumption` (nothing is longer than a host route; no other host is in one; the server
is not a resolver, an allowed network or inside the tunnel network) and `EngineAssumption`.

Left to TLC: all liveness (`OnlyRunningFlowsCount`, `ConnectSettles`, `DisconnectRestores`,
`Reconnects`, `BridgeStops`, `DnsResolves`, `FlowsEnd`, `EngineEnds`, `EofReachesRelay`,
`WriterResumes`, `DropEnds`), which is out of the prover's reach.  Every other property of the
passing runs is a theorem.

## Not modelled

TLS, DNS resolution, key parsing, packet layout, command lines, profiles, settings,
logging and the drawing of the window have no state the properties speak of.
Durations other than deadlines are left out.  A poisoned `Wg` mutex is recovered by
the code (`into_inner`) and no lock section panics in the model.  Of the stack, the
session table (removal by message), and reassembly and retransmission in `Tcb` with their
wrapping sequence numbers, are left for later.

## Plan

Done: every module above, and a theorem for every safety property of the runs.

1. `SeqNum`, `Tcb`: wrapping comparison and reassembly as functions, against a
   reference over a small sequence space.
2. `SessionTable`: insertion and removal by message of the stack, composed with the
   flow table's `Arrive`.
