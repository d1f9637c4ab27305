-------------------------------- MODULE Bridge --------------------------------
(***************************************************************************)
(* WireGuard over WebSocket (crates/wsrelay/src/lib.rs), between the       *)
(* client's UDP socket and the relay's:                                    *)
(*                                                                         *)
(*   run_client_to   one task that maps each source onto a channel, and    *)
(*                   spawns a client_peer when there is none               *)
(*   client_peer     a task per source that owns the connection: dials,    *)
(*                   pumps, backs off, and leaves when idle                *)
(*   relay_conn      a task per accepted connection, one permit each       *)
(*                                                                         *)
(* The tasks run in parallel: a client_peer may leave between the router's *)
(* look at its channel and the datagram it then sends there, and a relay   *)
(* still reads a connection its client has left for the next one.  Neither *)
(* end of a connection reads while it awaits a send of its own.            *)
(***************************************************************************)
EXTENDS Naturals, Sequences, FiniteSets

CONSTANTS
  Sources,       \* local UDP addresses that use the bridge
  Peers,         \* client_peer tasks, by name; each is spawned once
  None,          \* no task, no connection
  Conns,         \* the permits of the relay, MAX_CONNS; each a connection
  Queue,         \* QUEUE, the capacity of a channel
  Buffer,        \* frames the sockets of a connection hold on the way up
  MaxSent        \* model bound: datagrams a source sends

ASSUME BridgeAssumption ==
  /\ None \notin Peers \cup Conns \cup Sources
  /\ Queue \in Nat \ {0}
  /\ Buffer \in Nat \ {0}
  /\ MaxSent \in Nat
  /\ IsFiniteSet(Peers)

VARIABLES
  sent,     \* datagrams received from each source so far; they are numbered
  router,   \* run_client_to: the datagram it holds and the channel it picked
  peers,    \* its map from a source to the task at the end of the channel
  task,     \* the client_peer tasks
  conn,     \* the connections at the relay
  replying, \* those on which relay_conn awaits a send to the client
  arrived,  \* datagrams the relay has sent to the target
  aborted   \* the tunnel was closed, and run_client_to aborted with it

vars == <<sent, router, peers, task, conn, replying, arrived, aborted>>

\* rx: its channel.  hand: the datagram in tx.send().await.  expired: its
\* deadline has passed.
Tasks ==
  [pc : {"unborn", "dial", "handshake", "open", "sending", "backoff", "gone"},
   src : Sources \cup {None}, rx : Seq(1..MaxSent), hand : 0..MaxSent,
   conn : Conns \cup {None}, expired : BOOLEAN]

\* up: frames on the way.  last: the last one the relay has read.
Connections ==
  [pc : {"free", "handshake", "open"}, src : Sources \cup {None},
   up : Seq(1..MaxSent), last : 0..MaxSent]

Unborn ==
  [pc |-> "unborn", src |-> None, rx |-> <<>>, hand |-> 0, conn |-> None, expired |-> FALSE]
Free == [pc |-> "free", src |-> None, up |-> <<>>, last |-> 0]
RouterIdle == [src |-> None, n |-> 0, to |-> None]

TypeOK ==
  /\ sent \in [Sources -> 0..MaxSent]
  /\ router \in [src : Sources \cup {None}, n : 0..MaxSent, to : Peers \cup {None}]
  /\ peers \in [Sources -> Peers \cup {None}]
  /\ task \in [Peers -> Tasks]
  /\ \A w \in Peers : Len(task[w].rx) <= Queue
  /\ conn \in [Conns -> Connections]
  /\ \A c \in Conns : Len(conn[c].up) <= Buffer
  /\ replying \subseteq Conns
  /\ arrived \in [Sources -> SUBSET (1..MaxSent)]
  /\ aborted \in BOOLEAN

Init ==
  /\ sent = [s \in Sources |-> 0]
  /\ router = RouterIdle
  /\ peers = [s \in Sources |-> None]
  /\ task = [w \in Peers |-> Unborn]
  /\ conn = [c \in Conns |-> Free]
  /\ replying = {}
  /\ arrived = [s \in Sources |-> {}]
  /\ aborted = FALSE

Living(w) == task[w].pc \notin {"unborn", "gone"}

-----------------------------------------------------------------------------

\* recv_from, and the lookup: a channel whose receiver lives is used again,
\* otherwise a client_peer is spawned, its deadline set.
RecvFrom(s) ==
  /\ router = RouterIdle /\ ~aborted /\ sent[s] < MaxSent
  /\ sent' = [sent EXCEPT ![s] = @ + 1]
  /\ IF peers[s] # None /\ Living(peers[s])
     THEN /\ router' = [src |-> s, n |-> sent[s] + 1, to |-> peers[s]]
          /\ UNCHANGED <<peers, task>>
     ELSE \E w \in Peers :
          /\ task[w].pc = "unborn"
          /\ task' = [task EXCEPT ![w] = [Unborn EXCEPT !.pc = "dial", !.src = s]]
          /\ peers' = [peers EXCEPT ![s] = w]
          /\ router' = [src |-> s, n |-> sent[s] + 1, to |-> w]
  /\ UNCHANGED <<conn, replying, arrived, aborted>>

\* try_send: lost when the channel is full or its receiver has gone meanwhile.
TrySend ==
  /\ router # RouterIdle
  /\ router' = RouterIdle
  /\ IF Living(router.to) /\ Len(task[router.to].rx) < Queue
     THEN task' = [task EXCEPT ![router.to].rx = Append(@, router.n)]
     ELSE UNCHANGED task
  /\ UNCHANGED <<sent, peers, conn, replying, arrived, aborted>>

\* Mutation: the sweep drops the wrong entries.
SweepLiving ==
  /\ router = RouterIdle /\ ~aborted
  /\ peers' = [s \in Sources |-> IF peers[s] # None /\ Living(peers[s]) THEN None ELSE peers[s]]
  /\ UNCHANGED <<sent, router, task, conn, replying, arrived, aborted>>

\* The sweep: entries of closed channels are dropped.
Sweep ==
  /\ router = RouterIdle /\ ~aborted
  /\ peers' = [s \in Sources |-> IF peers[s] # None /\ Living(peers[s]) THEN peers[s] ELSE None]
  /\ UNCHANGED <<sent, router, task, conn, replying, arrived, aborted>>

\* Tunnel::close aborts run_client_to, at an await.  The client_peers it has
\* spawned are not among the tasks that are aborted: they find the channel
\* closed.
Abort ==
  /\ router = RouterIdle /\ ~aborted
  /\ aborted' = TRUE
  /\ UNCHANGED <<sent, router, peers, task, conn, replying, arrived>>

-----------------------------------------------------------------------------

\* A step of task w that touches nothing else.
Becomes(w, t) ==
  /\ task' = [task EXCEPT ![w] = t]
  /\ UNCHANGED <<sent, router, peers, conn, replying, arrived, aborted>>

\* The task returns, and what waits in its channel is lost.
Gone(w) == [Unborn EXCEPT !.pc = "gone", !.src = task[w].src]

\* Mutation: no look at the deadline between two attempts.
KeepsTrying(w) == [task[w] EXCEPT !.pc = "backoff", !.hand = 0, !.conn = None]

\* The task after a failure: past the deadline it leaves, otherwise it sleeps.
Failed(w) ==
  IF task[w].expired THEN Gone(w)
  ELSE [task[w] EXCEPT !.pc = "backoff", !.hand = 0, !.conn = None]

\* TcpStream::connect fails, or times out after CONNECT_TIMEOUT.
DialFails(w) ==
  /\ task[w].pc = "dial"
  /\ Becomes(w, Failed(w))

\* It connects, and the relay has a permit for it...
DialAccepted(w, c) ==
  /\ task[w].pc = "dial" /\ conn[c].pc = "free"
  /\ task' = [task EXCEPT ![w] = [@ EXCEPT !.pc = "handshake", !.conn = c]]
  /\ conn' = [conn EXCEPT ![c] = [Free EXCEPT !.pc = "handshake", !.src = task[w].src]]
  /\ UNCHANGED <<sent, router, peers, replying, arrived, aborted>>

\* ...or has none, and closes it.
DialRefused(w) ==
  /\ task[w].pc = "dial" /\ \A c \in Conns : conn[c].pc # "free"
  /\ Becomes(w, [task[w] EXCEPT !.pc = "handshake"])

\* The TLS and WebSocket handshakes, which have no timeout.
HandshakeDone(w) ==
  /\ task[w].pc = "handshake" /\ task[w].conn # None
  /\ task' = [task EXCEPT ![w] = [@ EXCEPT !.pc = "open"]]
  /\ conn' = [conn EXCEPT ![task[w].conn] = [@ EXCEPT !.pc = "open"]]
  /\ UNCHANGED <<sent, router, peers, replying, arrived, aborted>>

HandshakeFails(w) ==
  /\ task[w].pc = "handshake"
  /\ Becomes(w, Failed(w))

\* The pump takes a datagram, which moves the deadline...
PumpTakes(w) ==
  /\ task[w].pc = "open" /\ task[w].rx # <<>>
  /\ Becomes(w, [task[w] EXCEPT !.pc = "sending", !.hand = Head(task[w].rx),
                                !.rx = Tail(@), !.expired = FALSE])

\* The connection takes a frame, and loses it if the relay has left.
HasRoom(w) == task[w].conn # None => Len(conn[task[w].conn].up) < Buffer

\* The frame is on the connection, if the relay has not left it.
Framed(w) ==
  IF task[w].conn = None THEN conn
  ELSE [conn EXCEPT ![task[w].conn].up = Append(@, task[w].hand)]

\* ...and sends it, which waits for room and has no timeout...
SendDone(w) ==
  /\ task[w].pc = "sending" /\ HasRoom(w)
  /\ task' = [task EXCEPT ![w] = [@ EXCEPT !.pc = "open", !.hand = 0]]
  /\ conn' = Framed(w)
  /\ UNCHANGED <<sent, router, peers, replying, arrived, aborted>>

\* Mutation: a datagram whose send failed is put back into the channel.
SendFailsRequeued(w) ==
  /\ task[w].pc = "sending" /\ Len(task[w].rx) < Queue
  /\ task' = [task EXCEPT ![w] = [Failed(w) EXCEPT !.rx = Append(@, task[w].hand)]]
  /\ UNCHANGED conn \/ (HasRoom(w) /\ conn' = Framed(w))
  /\ UNCHANGED <<sent, router, peers, replying, arrived, aborted>>

\* ...or fails, the frame written or not.
SendFails(w) ==
  /\ task[w].pc = "sending"
  /\ task' = [task EXCEPT ![w] = Failed(w)]
  /\ UNCHANGED conn \/ (HasRoom(w) /\ conn' = Framed(w))
  /\ UNCHANGED <<sent, router, peers, replying, arrived, aborted>>

\* A message from the relay moves the deadline too.
PumpReceives(w) ==
  /\ task[w].pc = "open" /\ task[w].expired
  /\ Becomes(w, [task[w] EXCEPT !.expired = FALSE])

\* The stream ends or fails.
PumpBreaks(w) ==
  /\ task[w].pc = "open"
  /\ Becomes(w, Failed(w))

\* Mutation: a closed channel is not told from an empty one.
PumpSpins(w) ==
  /\ task[w].pc = "open" /\ task[w].rx = <<>> /\ aborted
  /\ Becomes(w, task[w])

\* The channel is closed and drained.
PumpEnds(w) ==
  /\ task[w].pc = "open" /\ task[w].rx = <<>> /\ aborted
  /\ Becomes(w, Gone(w))

\* The deadline passes on an open connection.
PumpIdle(w) ==
  /\ task[w].pc = "open" /\ task[w].expired
  /\ Becomes(w, Gone(w))

\* sleep(backoff), doubled up to BACKOFF_MAX: how long is left out.
BackoffEnds(w) ==
  /\ task[w].pc = "backoff"
  /\ Becomes(w, [task[w] EXCEPT !.pc = "dial"])

-----------------------------------------------------------------------------

\* relay_conn: a frame is read and sent to the target (or that send fails)...
RelayReads(c) ==
  /\ conn[c].pc = "open" /\ c \notin replying /\ conn[c].up # <<>>
  /\ conn' = [conn EXCEPT ![c].up = Tail(@), ![c].last = Head(conn[c].up)]
  /\ arrived' \in {arrived, [arrived EXCEPT ![conn[c].src] = @ \cup {Head(conn[c].up)}]}
  /\ UNCHANGED <<sent, router, peers, task, replying, aborted>>

\* ...a datagram of the target, or a ping, is sent to the client, and nothing
\* else is looked at meanwhile...
RelaySends(c) ==
  /\ conn[c].pc = "open" /\ c \notin replying
  /\ replying' = replying \cup {c}
  /\ UNCHANGED <<sent, router, peers, task, conn, arrived, aborted>>

\* ...which ends when there is room on the way down, at any time or never.
RelaySendDone(c) ==
  /\ c \in replying
  /\ replying' = replying \ {c}
  /\ UNCHANGED <<sent, router, peers, task, conn, arrived, aborted>>

\* ...until the connection is closed, fails or idles.  The client's half of it
\* leads nowhere from here on.
RelayEnds(c) ==
  /\ conn[c].pc # "free"
  /\ conn' = [conn EXCEPT ![c] = Free]
  /\ replying' = replying \ {c}
  /\ task' = [w \in Peers |-> IF task[w].conn = c THEN [task[w] EXCEPT !.conn = None] ELSE task[w]]
  /\ UNCHANGED <<sent, router, peers, arrived, aborted>>

\* IDLE passes without a step that moves a deadline.  It passes in awaits: the
\* router's lookup takes no time.
Idle ==
  /\ router = RouterIdle
  /\ task' = [w \in Peers |-> IF Living(w) THEN [task[w] EXCEPT !.expired = TRUE] ELSE task[w]]
  /\ UNCHANGED <<sent, router, peers, conn, replying, arrived, aborted>>

-----------------------------------------------------------------------------

Dial(w) == DialFails(w) \/ DialRefused(w) \/ \E c \in Conns : DialAccepted(w, c)
Handshake(w) == HandshakeDone(w) \/ HandshakeFails(w)
Pump(w) ==
  \/ PumpTakes(w) \/ SendDone(w) \/ SendFails(w)
  \/ PumpReceives(w) \/ PumpBreaks(w) \/ PumpEnds(w) \/ PumpIdle(w)

Next ==
  \/ \E s \in Sources : RecvFrom(s)
  \/ TrySend \/ Sweep \/ Abort
  \/ \E w \in Peers : Dial(w) \/ Handshake(w) \/ Pump(w) \/ BackoffEnds(w)
  \/ \E c \in Conns : RelayReads(c) \/ RelaySends(c) \/ RelaySendDone(c) \/ RelayEnds(c)
  \/ Idle

\* Time passes, and the runtime runs every task that can run; select! tries
\* its branches in a random order, so one that is ready again and again is not
\* passed over: rx.recv() of a client_peer, rx.next() of a relay_conn.  Dialling
\* ends, by its timeout if need be, and a handshake when the relay has closed.
\* A client's send ends when there is room.  Nothing makes a relay answer a
\* handshake, and nothing makes room.
Fairness ==
  /\ WF_vars(Idle) /\ WF_vars(TrySend)
  /\ \A w \in Peers :
       /\ WF_vars(Dial(w)) /\ WF_vars(BackoffEnds(w))
       /\ WF_vars(task[w].conn = None /\ HandshakeFails(w))
       /\ WF_vars(HasRoom(w) /\ (SendDone(w) \/ SendFails(w)))
       /\ SF_vars(PumpTakes(w) \/ PumpEnds(w))
  /\ \A c \in Conns : SF_vars(RelayReads(c))

Spec == Init /\ [][Next]_vars

FairSpec == Spec /\ Fairness

-----------------------------------------------------------------------------

\* Each source has one client_peer at most, at the end of the channel the
\* router would use: "each local source address gets one WS connection".
OnePeerPerSource ==
  \A w \in Peers : Living(w) => peers[task[w].src] = w

Elements(q) == {q[i] : i \in DOMAIN q}

\* The datagrams of s that its client_peer has in hand or in its channel.
Held(s) ==
  UNION {({task[w].hand} \ {0}) \cup Elements(task[w].rx) : w \in {w \in Peers : task[w].src = s}}

\* Datagrams keep their order as long as they share a connection: the relay
\* has read only older ones than it will read, and those only older ones than
\* the client still holds.  (Across a reconnection they may be overtaken.)
OrderOnConnection ==
  \A c \in Conns :
    LET pipe == <<conn[c].last>> \o conn[c].up
    IN  /\ \A i, j \in DOMAIN pipe : i < j => pipe[i] < pipe[j]
        /\ \A n \in Elements(pipe), h \in Held(conn[c].src) : n < h

\* The datagrams of s that are somewhere between the router and the target.
Waiting(s) ==
  {n \in 1..sent[s] : router.src = s /\ router.n = n}
    \cup Held(s)
    \cup UNION {Elements(conn[c].up) : c \in {c \in Conns : conn[c].src = s}}

\* The bridge and the relay are a datagram link: nothing arrives twice.
L == INSTANCE Link WITH waiting <- [s \in Sources |-> Waiting(s)]

LinkSpec == L!Spec

\* A client_peer without a connection gets one or leaves, however often its
\* attempts fail, unless a handshake is never answered: that has no timeout.
Reconnects ==
  \A w \in Peers :
    []<>(task[w].pc # "handshake") =>
      ((task[w].pc \in {"dial", "handshake", "backoff"}) ~> (task[w].pc \in {"open", "gone"}))

\* A handshake whose relay has accepted and has not answered yet.
Unanswered(w) == task[w].pc = "handshake" /\ task[w].conn # None

\* Both ends of a connection await a send, so neither reads and neither looks
\* at its deadline; the client's send finds no room.
BothSending(w) ==
  /\ task[w].pc = "sending" /\ task[w].conn \in replying
  /\ Len(conn[task[w].conn].up) = Buffer

\* Once the tunnel is closed, a client_peer leaves, though nobody aborts it, or
\* is in one of the two awaits that the code does not bound: an unanswered
\* handshake, and a send into a full connection while the relay sends too.
BridgeStops ==
  aborted ~> [](\A w \in Peers : Living(w) => Unanswered(w) \/ BothSending(w))

=============================================================================
