------------------------------- MODULE TcpStream -------------------------------
(***************************************************************************)
(* One TCP flow of the server: handle_tcp and tokio's copy_bidirectional   *)
(* (crates/server/src/flow.rs) over IpStackTcpStream of the patched stack  *)
(* (vendor/ipstack/src/stream/tcp.rs).                                     *)
(*                                                                         *)
(* The flow task polls both directions of the copy whenever it is woken;   *)
(* the main loop of the stream runs on another thread, and so do the       *)
(* timers of the close handshake.  What they share is the Tcb behind its   *)
(* mutex, the data channel and the places for a waker.  The main loop      *)
(* holds the mutex for a whole packet, so a packet is one step; a poll is  *)
(* one step per access.                                                    *)
(*                                                                         *)
(* Segments arrive in order and none is lost: reassembly, retransmission   *)
(* and windows other than full or not are left out.  A segment of data     *)
(* fills the buffer of the copy, and carries no FIN.                       *)
(***************************************************************************)
EXTENDS Integers, Sequences

CONSTANTS
  MaxData,     \* model bound: segments of data the peer sends
  MaxReplies,  \* model bound: pieces of data the remote sends
  Window,      \* segments in flight when the send buffer is full
  RemoteBuf    \* pieces the socket to the remote takes

ASSUME TcpAssumption ==
  /\ MaxData \in Nat /\ MaxReplies \in Nat
  /\ Window \in Nat \ {0} /\ RemoteBuf \in Nat \ {0}

VARIABLES
  state,      \* Tcb::state
  sent,       \* segments of data written to the peer, that is Tcb::seq
  fins,       \* times the FIN has taken a sequence number
  acked,      \* what the peer has acknowledged of them
  main,       \* the main loop: "run", "ended"
  exit,       \* whether exit_monitor holds a message
  timers,     \* the helper tasks that sleep
  data,       \* pieces in data_rx
  wakers,     \* where the waker of the flow is: "data", "read", "write", "shutdown"
  ready,      \* Shutdown::Ready
  timeout,    \* the Sleep of the stream: "new", "armed", "fired"
  woken,      \* the flow task is due to be polled
  pc,         \* and where it is
  up,         \* the copy from the peer to the remote: "read", "write", "done"
  down,       \* and back: "read", "write", "shut", "done"
  seen,       \* what poll_shutdown has looked at
  toRemote, fromRemote,  \* pieces in the socket to the remote
  remote,     \* "open", "eof" or "reset" from the remote
  peer        \* what the peer has sent: data, FIN, acknowledgements, a reset

stream == <<state, sent, fins, acked, main, exit, timers>>
shared == <<data, wakers, ready, timeout>>
relay == <<pc, up, down, seen>>
sockets == <<toRemote, fromRemote, remote>>
vars == <<stream, shared, woken, relay, sockets, peer>>

States == {"SynReceived", "Established", "CloseWait", "LastAck", "FinWait1", "FinWait2", "TimeWait", "Closed"}
Places == {"data", "read", "write", "shutdown"}

TypeOK ==
  /\ state \in States /\ main \in {"run", "ended"} /\ exit \in BOOLEAN
  /\ timers \subseteq {"close wait", "last ack", "two msl"} /\ wakers \subseteq Places
  /\ sent \in 0..MaxReplies /\ acked \in 0..sent + 1 /\ data \in 0..MaxData
  /\ ready \in BOOLEAN /\ woken \in BOOLEAN /\ timeout \in {"new", "armed", "fired"}
  /\ up \in {"read", "write", "done"} /\ down \in {"read", "write", "shut", "done"}
  /\ toRemote \in 0..RemoteBuf

Init ==
  /\ state = "SynReceived" /\ sent = 0 /\ fins = 0 /\ acked = 0
  /\ main = "run" /\ exit = FALSE /\ timers = {}
  /\ data = 0 /\ wakers = {} /\ ready = FALSE /\ timeout = "new"
  /\ woken = FALSE /\ pc = "dial" /\ up = "read" /\ down = "read" /\ seen = "none"
  /\ toRemote = 0 /\ fromRemote = 0 /\ remote = "open"
  /\ peer = [data |-> 0, fin |-> FALSE, ack |-> -1, gone |-> FALSE]

\* Wakes whoever has left a waker at one of these places.
Wake(places) ==
  /\ woken' = (woken \/ wakers \cap places # {})
  /\ wakers' = wakers \ places

\* Unacknowledged segments of data, given what is acknowledged.
InFlight(a) == IF a >= sent THEN 0 ELSE sent - a

-----------------------------------------------------------------------------

\* How the main loop ends: the flow's shutdown becomes ready.
MainEnds ==
  /\ main' = "ended" /\ exit' = FALSE
  /\ ready' = TRUE /\ Wake({"shutdown"})

\* An exit signal, from the drop of the stream or a helper task.
ExitSignal ==
  /\ main = "run" /\ exit
  /\ MainEnds
  /\ UNCHANGED <<state, sent, fins, acked, timers, data, timeout, relay, sockets, peer>>

\* Effects of a packet on state, data, wakers and helpers.
Moves(s, f, helper) ==
  /\ state' = s /\ fins' = fins + f /\ timers' = timers \cup helper

\* FIN follows at once, as the last thing sent.
LastFin == Moves("LastAck", 1, {"last ack"})

Stay == UNCHANGED <<state, fins, timers>>

\* A FIN from the peer while established: with data in flight, ours waits.
FinArrives(inflight) ==
  IF inflight = 0 THEN LastFin ELSE Moves("CloseWait", 0, {"close wait"})

\* Mutant of Places to wake: a FIN wakes nobody.
WakesQuietly(kind, inflight) ==
  CASE kind \in {"data", "push"} -> {"data", "read"}
    [] kind = "ack" /\ state = "Established" -> {"write"}
    [] OTHER -> {}

\* Mutant: an acknowledgement wakes nobody.
WakesReaderOnly(kind, inflight) ==
  CASE kind \in {"data", "push"} -> {"data", "read"}
    [] kind = "fin" -> {"read"}
    [] OTHER -> {}

\* Whom a packet wakes.  Data that is pushed leaves a writer asleep while the
\* session is established.
Wakes(kind, inflight) ==
  CASE kind \in {"data", "push"} ->
         {"data", "read"} \cup
           (IF state \in {"FinWait1", "FinWait2"} \/ (kind = "data" /\ state = "Established") THEN {"write"} ELSE {})
    [] kind = "ack" -> IF state = "Established" \/ (state = "CloseWait" /\ inflight > 0) THEN {"write"} ELSE {}
    [] kind = "fin" -> {"read"} \cup (IF state = "Established" /\ inflight > 0 THEN {"write"} ELSE {})

\* A packet of a session that is not closed, and no reset.
Handles(kind, inflight) ==
  CASE state = "SynReceived" -> Moves("Established", 0, {})
    [] state = "Established" -> IF kind = "fin" THEN FinArrives(inflight) ELSE Stay
    [] state = "CloseWait" -> IF inflight = 0 THEN LastFin ELSE Stay
    [] state = "LastAck" -> Moves("Closed", 0, {})
    [] state = "FinWait1" -> IF kind = "fin" THEN Moves("TimeWait", 0, {"two msl"}) ELSE Moves("FinWait2", 0, {})
    [] state = "FinWait2" -> IF kind = "fin" THEN Moves("TimeWait", 0, {"two msl"}) ELSE Stay
    [] OTHER -> Stay

\* What the peer may send next: an acknowledgement, which begins with that of
\* the SYN; data, pushed or not; its FIN after all of its data, again if the
\* first came too early; a reset.
MaySend(kind, a) ==
  /\ ~peer.gone
  /\ a \in peer.ack..(sent + fins) /\ (peer.ack = -1 => a = 0)
  /\ kind = "ack" => a > peer.ack
  /\ kind \in {"data", "push"} => peer.data < MaxData /\ ~peer.fin
  /\ kind = "fin" /\ peer.fin => state \in {"SynReceived", "Established"}

\* The main loop takes a packet.
Receives(kind, a) ==
  /\ main = "run" /\ MaySend(kind, a)
  /\ peer' = [data |-> IF kind \in {"data", "push"} THEN peer.data + 1 ELSE peer.data,
              fin |-> peer.fin \/ kind = "fin", ack |-> a, gone |-> kind = "rst"]
  /\ UNCHANGED <<sent, timeout, relay, sockets>>
  /\ CASE state = "Closed" -> MainEnds /\ UNCHANGED <<state, fins, acked, timers, data>>
       [] state # "Closed" /\ kind = "rst" ->
            state' = "Closed" /\ UNCHANGED <<fins, acked, timers, data, main, exit, ready, wakers, woken>>
       [] OTHER ->
            /\ Handles(kind, InFlight(a))
            /\ acked' = a
            /\ data' = data + (IF kind \in {"data", "push"} THEN 1 ELSE 0)
            /\ Wake(Wakes(kind, InFlight(a)))
            /\ exit' = (exit \/ state = "LastAck")
            /\ UNCHANGED <<main, ready>>

-----------------------------------------------------------------------------

\* The sleepers.  They wake nobody: the main loop does when it is told to exit.
Sleeper(t) == t \in timers /\ UNCHANGED <<sent, acked, main, shared, woken, relay, sockets, peer>>

\* Mutant of CloseWaitEnds: the state is not looked at again.
CloseWaitEndsBlindly ==
  /\ Sleeper("close wait")
  /\ state' = "LastAck" /\ fins' = fins + 1 /\ timers' = (timers \ {"close wait"}) \cup {"last ack"}
  /\ UNCHANGED exit

CloseWaitEnds ==
  /\ Sleeper("close wait")
  /\ IF state = "CloseWait"
     THEN state' = "LastAck" /\ fins' = fins + 1 /\ timers' = (timers \ {"close wait"}) \cup {"last ack"}
     ELSE timers' = timers \ {"close wait"} /\ UNCHANGED <<state, fins>>
  /\ UNCHANGED exit

\* After its retries, unless the session is closed.
LastAckEnds ==
  /\ Sleeper("last ack")
  /\ state' = "Closed" /\ timers' = timers \ {"last ack"}
  /\ exit' = (exit \/ state # "Closed")
  /\ UNCHANGED fins

TwoMslEnds ==
  /\ Sleeper("two msl")
  /\ state' = "Closed" /\ timers' = timers \ {"two msl"}
  /\ exit' = TRUE
  /\ UNCHANGED fins

\* The idle timeout wakes the task that last polled it.
TimeoutFires ==
  /\ timeout = "armed" /\ pc = "idle"
  /\ timeout' = "fired" /\ woken' = TRUE
  /\ UNCHANGED <<stream, data, wakers, ready, relay, sockets, peer>>

-----------------------------------------------------------------------------

\* handle_tcp dials the remote, or gives up, and then copies.
DialEnds ==
  /\ pc = "dial"
  /\ \/ pc' = "idle" /\ woken' = TRUE
     \/ pc' = "drop" /\ UNCHANGED woken
  /\ UNCHANGED <<stream, shared, up, down, seen, sockets, peer>>

\* The flow task is polled: first one direction, then the other, until each
\* waits or is done.
Poll ==
  /\ pc = "idle" /\ woken
  /\ pc' = "up" /\ woken' = FALSE
  /\ UNCHANGED <<stream, shared, up, down, seen, sockets, peer>>

\* End of stream: the remote is told, and this direction is done.
Eof == up' = "done" /\ pc' = "down"

\* Start of poll_read, with the idle timeout.
ReadBegins ==
  /\ pc = "up" /\ up = "read"
  /\ CASE state = "Closed" ->
            Eof /\ ready' = TRUE /\ Wake({"shutdown", "write"}) /\ UNCHANGED <<state, timeout>>
       [] state # "Closed" /\ timeout = "fired" ->
            pc' = "drop" /\ state' = "Closed" /\ ready' = TRUE /\ Wake({"shutdown"}) /\ UNCHANGED <<up, timeout>>
       [] OTHER -> pc' = "channel" /\ timeout' = "armed" /\ UNCHANGED <<state, up, ready, wakers, woken>>
  /\ UNCHANGED <<sent, fins, acked, main, exit, timers, data, down, seen, sockets, peer>>

\* The channel, which keeps a waker of its own.
ReadChannel ==
  /\ pc = "channel"
  /\ IF data > 0 THEN data' = data - 1 /\ up' = "write" /\ pc' = "up" /\ UNCHANGED wakers
     ELSE wakers' = wakers \cup {"data"} /\ pc' = "register" /\ UNCHANGED <<data, up>>
  /\ UNCHANGED <<stream, ready, timeout, woken, down, seen, sockets, peer>>

ReadRegisters ==
  /\ pc = "register"
  /\ wakers' = wakers \cup {"read"} /\ pc' = "look"
  /\ UNCHANGED <<stream, data, ready, timeout, woken, up, down, seen, sockets, peer>>

\* Only then the state, which may say that the peer has sent its FIN.
FinSeen == state \in {"CloseWait", "LastAck", "TimeWait", "Closed"}
ReadLooks ==
  /\ pc = "look"
  /\ IF FinSeen THEN Eof ELSE pc' = "down" /\ UNCHANGED up
  /\ UNCHANGED <<stream, shared, woken, down, seen, sockets, peer>>

\* What was read goes to the remote as soon as its socket takes it.
WritesRemote ==
  /\ pc = "up" /\ up = "write"
  /\ IF remote = "reset" THEN pc' = "drop" /\ UNCHANGED <<up, toRemote>>
     ELSE IF toRemote < RemoteBuf THEN toRemote' = toRemote + 1 /\ up' = "read" /\ UNCHANGED pc
     ELSE pc' = "down" /\ UNCHANGED <<up, toRemote>>
  /\ UNCHANGED <<stream, shared, woken, down, seen, fromRemote, remote, peer>>

UpIsDone ==
  /\ pc = "up" /\ up = "done"
  /\ pc' = "down"
  /\ UNCHANGED <<stream, shared, woken, up, down, seen, sockets, peer>>

ReadsRemote ==
  /\ pc = "down" /\ down = "read"
  /\ IF remote = "reset" THEN pc' = "drop" /\ UNCHANGED <<down, fromRemote>>
     ELSE IF fromRemote > 0 THEN fromRemote' = fromRemote - 1 /\ down' = "write" /\ UNCHANGED pc
     ELSE IF remote = "eof" THEN down' = "shut" /\ UNCHANGED <<pc, fromRemote>>
     ELSE pc' = "idle" /\ UNCHANGED <<down, fromRemote>>
  /\ UNCHANGED <<stream, shared, woken, up, seen, toRemote, remote, peer>>

\* poll_write, all under the mutex.
Writes ==
  /\ pc = "down" /\ down = "write"
  /\ timeout' = "armed"
  /\ CASE state = "Closed" ->
            pc' = "drop" /\ ready' = TRUE /\ Wake({"shutdown", "read"}) /\ UNCHANGED <<sent, down>>
       [] state # "Closed" /\ InFlight(acked) >= Window ->
            pc' = "idle" /\ wakers' = wakers \cup {"write"} /\ UNCHANGED <<sent, down, ready, woken>>
       [] OTHER -> sent' = sent + 1 /\ down' = "read" /\ UNCHANGED <<pc, ready, wakers, woken>>
  /\ UNCHANGED <<state, fins, acked, main, exit, timers, data, up, seen, sockets, peer>>

\* poll_shutdown looks at the session and lets go of the mutex...
ShutLooks ==
  /\ pc = "down" /\ down = "shut"
  /\ IF state = "Closed" THEN down' = "done" /\ UNCHANGED <<pc, seen>>
     ELSE /\ seen' = IF ready THEN "ready"
                     ELSE IF InFlight(acked) > 0 THEN "in flight"
                     ELSE IF state = "Established" THEN "clear" ELSE "closing"
          /\ pc' = IF ~ready /\ InFlight(acked) > 0 THEN "sleepy" ELSE "shut"
          /\ UNCHANGED down
  /\ UNCHANGED <<stream, shared, woken, up, sockets, peer>>

\* ...leaves its waker for acknowledgements while data is in flight...
ShutRegisters ==
  /\ pc = "sleepy"
  /\ wakers' = wakers \cup {"write"} /\ pc' = "shut"
  /\ UNCHANGED <<stream, data, ready, timeout, woken, up, down, seen, sockets, peer>>

\* ...and sends the FIN if it still may.  That the shutdown is pending may
\* overwrite that it has become ready.
ShutActs ==
  /\ pc = "shut"
  /\ IF seen = "ready" THEN down' = "done" /\ pc' = "down" /\ UNCHANGED <<state, fins, ready, wakers>>
     ELSE /\ IF seen = "clear" /\ state = "Established" /\ InFlight(acked) = 0
             THEN state' = "FinWait1" /\ fins' = fins + 1
             ELSE UNCHANGED <<state, fins>>
          /\ ready' = FALSE /\ wakers' = wakers \cup {"shutdown"}
          /\ pc' = "idle" /\ UNCHANGED down
  /\ seen' = "none"
  /\ UNCHANGED <<sent, acked, main, exit, timers, data, timeout, woken, up, sockets, peer>>

\* Both directions are done, or nothing is left to do before they are.
DownIsDone ==
  /\ pc = "down" /\ down = "done"
  /\ pc' = IF up = "done" THEN "drop" ELSE "idle"
  /\ UNCHANGED <<stream, shared, woken, up, down, seen, sockets, peer>>

\* Mutant of Drops: the main loop is not told.
DropsQuietly ==
  /\ pc = "drop"
  /\ pc' = "wait"
  /\ UNCHANGED <<stream, shared, woken, up, down, seen, sockets, peer>>

\* Drop of the stream: it tells the main loop to exit and blocks until it has.
Drops ==
  /\ pc = "drop"
  /\ IF main = "run" THEN exit' = TRUE ELSE UNCHANGED exit
  /\ pc' = "wait"
  /\ UNCHANGED <<state, sent, fins, acked, main, timers, shared, woken, up, down, seen, sockets, peer>>

DropReturns ==
  /\ pc = "wait" /\ main = "ended"
  /\ pc' = "ended" /\ data' = 0 /\ wakers' = {} /\ woken' = FALSE
  /\ UNCHANGED <<stream, ready, timeout, up, down, seen, sockets, peer>>

Copy ==
  \/ DialEnds \/ Poll \/ ReadBegins \/ ReadChannel \/ ReadRegisters \/ ReadLooks \/ WritesRemote
  \/ UpIsDone \/ ReadsRemote \/ Writes \/ ShutLooks \/ ShutRegisters \/ ShutActs \/ DownIsDone
  \/ Drops \/ DropReturns

-----------------------------------------------------------------------------

\* The remote, at the other end of a socket that wakes who waits for it.
Connected == pc \notin {"dial", "drop", "wait", "ended"}

RemoteTakes ==
  /\ Connected /\ toRemote > 0
  /\ toRemote' = toRemote - 1 /\ woken' = (woken \/ up = "write")
  /\ UNCHANGED <<stream, shared, relay, fromRemote, remote, peer>>

RemoteSends ==
  /\ Connected /\ remote = "open"
  /\ sent + fromRemote + (IF down = "write" THEN 1 ELSE 0) < MaxReplies
  /\ fromRemote' = fromRemote + 1 /\ woken' = (woken \/ down = "read")
  /\ UNCHANGED <<stream, shared, relay, toRemote, remote, peer>>

RemoteEnds(how) ==
  /\ Connected /\ remote = "open"
  /\ remote' = how
  /\ woken' = (woken \/ down = "read" \/ (how = "reset" /\ up = "write"))
  /\ UNCHANGED <<stream, shared, relay, toRemote, fromRemote, peer>>

Next ==
  \/ \E kind \in {"ack", "data", "push", "fin", "rst"}, a \in 0..(MaxReplies + 1) : Receives(kind, a)
  \/ ExitSignal
  \/ CloseWaitEnds \/ LastAckEnds \/ TwoMslEnds \/ TimeoutFires
  \/ Copy
  \/ RemoteTakes \/ RemoteSends \/ RemoteEnds("eof") \/ RemoteEnds("reset")

\* Threads run and timers of the close handshake expire.
Fairness ==
  /\ WF_vars(ExitSignal) /\ WF_vars(Copy)
  /\ WF_vars(CloseWaitEnds) /\ WF_vars(LastAckEnds) /\ WF_vars(TwoMslEnds)

\* In addition, the remote takes what it is sent.
Spec == Init /\ [][Next]_vars /\ Fairness /\ WF_vars(RemoteTakes)

\* In addition, the idle timeout expires.
SpecIdle == Spec /\ WF_vars(TimeoutFires)

-----------------------------------------------------------------------------

\* "Without it a relay never learns the peer closed" (tcp.rs:339): once the
\* FIN has been taken, the flow reads more data or the end of the stream,
\* without help from the idle timeout.
EofReachesRelay ==
  (up = "read" /\ state \in {"CloseWait", "LastAck", "TimeWait"})
    ~> (up # "read" \/ pc \in {"drop", "wait", "ended"})

\* A writer that waits for the window is polled again when there is room,
\* while the session is established.  (After the FIN of the peer it is not: the
\* acknowledgement that empties the buffer then, and the helper tasks, wake nobody.)
WriterResumes ==
  (down = "write" /\ InFlight(acked) < Window /\ state = "Established")
    ~> (down # "write" \/ state # "Established" \/ pc \in {"drop", "wait", "ended"})

\* Whichever of poll_shutdown, the main loop and the helper tasks closes the
\* session, its FIN takes one sequence number.
OneFin == fins <= 1 /\ (state \in {"SynReceived", "Established", "CloseWait"} => fins = 0)

\* The drop of a stream, which blocks its thread, ends.
DropEnds == pc \in {"drop", "wait"} ~> pc = "ended"

\* "Once the peer's FIN is in, nothing more can arrive, so report EOF"
\* (tcp.rs:338): a relay that has been told of the end of the stream has read
\* everything the stream has acknowledged, unless the peer has reset it.
EofIsLast == up = "done" /\ ~peer.gone => data = 0

\* "How long a relayed TCP flow may sit with no traffic in either direction
\* before it is reset" (config.rs:37): a flow ends some time after everybody
\* has fallen silent.
IdleFlowEnds == <>(pc = "ended")

=============================================================================
