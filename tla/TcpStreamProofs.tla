---------------------------- MODULE TcpStreamProofs ----------------------------
(***************************************************************************)
(* Who sends the FIN of a TCP flow: poll_shutdown, the main loop when the  *)
(* peer's FIN arrives or the buffer empties, or the timer that gives up    *)
(* waiting for that.  The state behind the mutex makes it one of them, for *)
(* any number of segments and any size of the buffers.                     *)
(***************************************************************************)
EXTENDS TcpStream, TLAPS

\* The FIN is sent by the step that leaves the states in which it has not been.
Open == {"SynReceived", "Established", "CloseWait"}

IInv ==
  /\ state \in States
  /\ fins \in {0, 1}
  /\ state \in Open => fins = 0

\* Every step that moves neither keeps it.
LEMMA Untouched ==
  ASSUME IInv, UNCHANGED <<state, fins>>
  PROVE  IInv'
BY DEF IInv

\* So does one that closes the session...
LEMMA Closing ==
  ASSUME IInv, state' = "Closed", UNCHANGED fins
  PROVE  IInv'
BY DEF IInv, States, Open

\* ...and one that sends the FIN from a state where it has not been sent.
LEMMA Finishing ==
  ASSUME IInv, state \in Open, fins' = fins + 1, state' \in {"LastAck", "FinWait1"}
  PROVE  IInv'
BY DEF IInv, States, Open

\* A packet.
LEMMA ReceivesKeeps ==
  ASSUME IInv, NEW kind \in {"ack", "data", "push", "fin", "rst"}, NEW a \in 0..(MaxReplies + 1),
         Receives(kind, a)
  PROVE  IInv'
<1>1. CASE state = "Closed"
  BY <1>1, Untouched DEF Receives
<1>2. CASE state # "Closed" /\ kind = "rst"
  BY <1>2, Closing DEF Receives
<1>3. CASE state # "Closed" /\ kind # "rst"
  <2>1. Handles(kind, InFlight(a))
    BY <1>3 DEF Receives
  <2>2. CASE state \in Open /\ LastFin
    BY <2>2, Finishing DEF LastFin, Moves
  <2>3. CASE Stay
    BY <2>3, Untouched DEF Stay
  <2>a. fins + 0 = fins
    BY DEF IInv
  <2>4. CASE state \in Open /\ ~LastFin /\ ~Stay
    <3>1. CASE state = "SynReceived"
      <4>1. Moves("Established", 0, {})
        BY <2>1, <3>1 DEF Handles
      <4> QED BY <2>a, <4>1, <2>4 DEF Moves, IInv, States, Open
    <3>2. CASE state = "Established"
      <4>1. FinArrives(InFlight(a))
        BY <2>1, <2>4, <3>2 DEF Handles
      <4>2. Moves("CloseWait", 0, {"close wait"})
        BY <4>1, <2>4 DEF FinArrives
      <4> QED BY <2>a, <4>2, <2>4 DEF Moves, IInv, States, Open
    <3>3. CASE state = "CloseWait"
      BY <2>1, <2>4, <3>3 DEF Handles
    <3> QED BY <2>4, <3>1, <3>2, <3>3 DEF Open
  <2>5. CASE state \notin Open /\ ~Stay
    <3>1. CASE state = "LastAck"
      <4>1. Moves("Closed", 0, {})
        BY <2>1, <3>1 DEF Handles
      <4> QED BY <2>a, <4>1 DEF Moves, IInv, States, Open
    <3>2. CASE state \in {"FinWait1", "FinWait2"}
      <4>1. Moves("FinWait2", 0, {}) \/ Moves("TimeWait", 0, {"two msl"})
        BY <2>1, <2>5, <3>2 DEF Handles
      <4> QED BY <2>a, <4>1 DEF Moves, IInv, States, Open
    <3>3. CASE state \in {"TimeWait", "Closed"}
      BY <2>1, <2>5, <3>3 DEF Handles
    <3> QED BY <2>5, <3>1, <3>2, <3>3 DEF IInv, States, Open
  <2> QED BY <2>2, <2>3, <2>4, <2>5
<1> QED BY <1>1, <1>2, <1>3

\* The timers of the close handshake.
LEMMA TimersKeep ==
  ASSUME IInv, CloseWaitEnds \/ LastAckEnds \/ TwoMslEnds
  PROVE  IInv'
<1>1. CASE CloseWaitEnds
  <2>1. CASE state = "CloseWait"
    BY <1>1, <2>1, Finishing DEF CloseWaitEnds, Open
  <2>2. CASE state # "CloseWait"
    BY <1>1, <2>2, Untouched DEF CloseWaitEnds
  <2> QED BY <2>1, <2>2
<1>2. CASE LastAckEnds
  BY <1>2, Closing DEF LastAckEnds
<1>3. CASE TwoMslEnds
  BY <1>3, Closing DEF TwoMslEnds
<1> QED BY <1>1, <1>2, <1>3

\* The flow task: only an expired read and a shutdown move the state.
LEMMA CopyKeeps ==
  ASSUME IInv, Copy
  PROVE  IInv'
<1>1. CASE ReadBegins
  <2>1. UNCHANGED fins /\ (UNCHANGED state \/ state' = "Closed")
    BY <1>1 DEF ReadBegins, Eof
  <2> QED BY <2>1, Untouched, Closing
<1>2. CASE ShutActs
  <2>1. CASE seen = "clear" /\ state = "Established" /\ InFlight(acked) = 0
    BY <1>2, <2>1, Finishing DEF ShutActs, Open
  <2>2. CASE ~(seen = "clear" /\ state = "Established" /\ InFlight(acked) = 0)
    BY <1>2, <2>2, Untouched DEF ShutActs
  <2> QED BY <2>1, <2>2
<1>3. CASE DialEnds \/ Poll \/ ReadChannel \/ ReadRegisters \/ ReadLooks \/ UpIsDone
  BY <1>3, Untouched DEF DialEnds, Poll, ReadChannel, ReadRegisters, ReadLooks, UpIsDone, stream
<1>4. CASE WritesRemote \/ ReadsRemote \/ Writes \/ DownIsDone
  BY <1>4, Untouched DEF WritesRemote, ReadsRemote, Writes, DownIsDone, stream
<1>5. CASE ShutLooks \/ ShutRegisters \/ Drops \/ DropReturns
  BY <1>5, Untouched DEF ShutLooks, ShutRegisters, Drops, DropReturns, stream
<1> QED BY <1>1, <1>2, <1>3, <1>4, <1>5 DEF Copy

\* Every step keeps the invariant.
LEMMA NextKeepsIInv == IInv /\ [Next]_vars => IInv'
<1> SUFFICES ASSUME IInv, [Next]_vars
             PROVE  IInv'
  OBVIOUS
<1>1. CASE \E kind \in {"ack", "data", "push", "fin", "rst"}, a \in 0..(MaxReplies + 1) : Receives(kind, a)
  BY <1>1, ReceivesKeeps
<1>2. CASE CloseWaitEnds \/ LastAckEnds \/ TwoMslEnds
  BY <1>2, TimersKeep
<1>3. CASE Copy
  BY <1>3, CopyKeeps
<1>4. CASE ExitSignal \/ TimeoutFires
  BY <1>4, Untouched DEF ExitSignal, TimeoutFires, stream
<1>5. CASE RemoteTakes \/ RemoteSends \/ RemoteEnds("eof") \/ RemoteEnds("reset")
  BY <1>5, Untouched DEF RemoteTakes, RemoteSends, RemoteEnds, stream
<1>6. CASE UNCHANGED vars
  BY <1>6, Untouched DEF vars, stream
<1> QED BY <1>1, <1>2, <1>3, <1>4, <1>5, <1>6 DEF Next

\* The FIN of a flow takes one sequence number, and none before the session
\* leaves the open states, whoever sends it (tcp.rs:432, 614, 759, 808).
THEOREM OneFinSent == Spec => []OneFin
<1>1. Init => IInv
  BY DEF Init, IInv, States, Open
<1>2. IInv => OneFin
  BY DEF IInv, OneFin, Open
<1> QED BY <1>1, <1>2, NextKeepsIInv, PTL DEF Spec

-----------------------------------------------------------------------------

\* What the enumerated variables of the stream hold...
StreamKinds ==
  /\ main \in {"run", "ended"} /\ exit \in BOOLEAN
  /\ timers \subseteq {"close wait", "last ack", "two msl"} /\ wakers \subseteq Places
  /\ ready \in BOOLEAN /\ woken \in BOOLEAN /\ timeout \in {"new", "armed", "fired"}

\* ...and those of the relay.  The shutdown is polled only once the remote is at
\* its end, and the channel only by the read.
RelayKinds ==
  /\ up \in {"read", "write", "done"} /\ down \in {"read", "write", "shut", "done"}
  /\ remote \in {"open", "eof", "reset"}
  /\ pc \in {"shut", "sleepy"} => down = "shut"
  /\ pc \in {"channel", "register", "look"} => up = "read"

Kinds == StreamKinds /\ RelayKinds

\* A piece read from the remote and not yet written to the peer.
Held == IF down = "write" THEN 1 ELSE 0

\* What the counters hold: nothing is written that the remote has not sent,
\* read that the peer has not sent, or acknowledged that has not been written.
Counts ==
  /\ sent \in Nat /\ fromRemote \in Nat /\ sent + fromRemote + Held <= MaxReplies
  /\ peer.data \in 0..MaxData /\ peer.ack \in Int
  /\ data \in Nat /\ data <= peer.data
  /\ acked \in Nat /\ acked <= sent + fins
  /\ toRemote \in 0..RemoteBuf

\* Together they are the types.
LEMMA KindsAndCounts ==
  ASSUME IInv, Kinds, Counts
  PROVE  TypeOK
<1> USE TcpAssumption
<1>1. sent \in 0..MaxReplies
  BY DEF Counts, Held
<1>2. acked \in 0..sent + 1 /\ data \in 0..MaxData /\ toRemote \in 0..RemoteBuf
  BY DEF Counts, IInv
<1> QED BY <1>1, <1>2 DEF TypeOK, Kinds, StreamKinds, RelayKinds, IInv

\* A waker that is taken wakes, and no other goes.
LEMMA WakeKinds ==
  ASSUME StreamKinds, NEW places, Wake(places)
  PROVE  woken' \in BOOLEAN /\ wakers' \subseteq Places
BY DEF StreamKinds, Wake

\* The helpers a packet starts are known ones.
LEMMA HandlesTimers ==
  ASSUME StreamKinds, NEW kind, NEW n, Handles(kind, n)
  PROVE  timers' \subseteq {"close wait", "last ack", "two msl"}
BY DEF StreamKinds, Handles, FinArrives, LastFin, Moves, Stay

\* A packet keeps the kinds of the stream.
LEMMA ReceivesKinds ==
  ASSUME StreamKinds, NEW kind, NEW a, Receives(kind, a)
  PROVE  StreamKinds'
<1>1. UNCHANGED timeout
  BY DEF Receives
<1>2. CASE state = "Closed"
  <2>1. MainEnds /\ UNCHANGED timers
    BY <1>2 DEF Receives
  <2> QED BY <1>1, <2>1, WakeKinds DEF MainEnds, StreamKinds
<1>3. CASE state # "Closed" /\ kind = "rst"
  <2>1. UNCHANGED <<timers, main, exit, ready, wakers, woken>>
    BY <1>3 DEF Receives
  <2> QED BY <1>1, <2>1 DEF StreamKinds
<1>4. CASE state # "Closed" /\ kind # "rst"
  <2>1. /\ Handles(kind, InFlight(a)) /\ Wake(Wakes(kind, InFlight(a)))
        /\ exit' = (exit \/ state = "LastAck") /\ UNCHANGED <<main, ready>>
    BY <1>4 DEF Receives
  <2>2. exit' \in BOOLEAN
    BY <2>1 DEF StreamKinds
  <2> QED BY <1>1, <2>1, <2>2, HandlesTimers, WakeKinds DEF StreamKinds
<1> QED BY <1>2, <1>3, <1>4

\* The copy touches the stream's main loop only when it drops it.
LEMMA CopyOfStream ==
  ASSUME Copy
  PROVE  UNCHANGED <<main, timers>> /\ (UNCHANGED exit \/ exit' = TRUE)
<1>1. CASE DialEnds \/ Poll \/ ReadChannel \/ ReadRegisters \/ ReadLooks \/ UpIsDone
  BY <1>1 DEF DialEnds, Poll, ReadChannel, ReadRegisters, ReadLooks, UpIsDone, stream
<1>2. CASE ReadBegins \/ ShutActs
  BY <1>2 DEF ReadBegins, ShutActs
<1>3. CASE WritesRemote \/ ReadsRemote \/ Writes \/ DownIsDone
  BY <1>3 DEF WritesRemote, ReadsRemote, Writes, DownIsDone, stream
<1>4. CASE ShutLooks \/ ShutRegisters \/ DropReturns
  BY <1>4 DEF ShutLooks, ShutRegisters, DropReturns, stream
<1>5. CASE Drops
  BY <1>5 DEF Drops
<1> QED BY <1>1, <1>2, <1>3, <1>4, <1>5 DEF Copy

\* What it may do with the wakers.
LEMMA CopyOfShared ==
  ASSUME StreamKinds, Copy
  PROVE  /\ wakers' \subseteq Places /\ woken' \in BOOLEAN
         /\ ready' \in {ready, TRUE, FALSE} /\ timeout' \in {timeout, "armed"}
<1> USE DEF StreamKinds
<1>1. CASE DialEnds \/ Poll \/ ReadLooks \/ UpIsDone
  BY <1>1 DEF DialEnds, Poll, ReadLooks, UpIsDone, shared
<1>2. CASE ReadChannel \/ ReadRegisters
  BY <1>2 DEF ReadChannel, ReadRegisters, Places
<1>3. CASE ReadBegins
  BY <1>3, WakeKinds DEF ReadBegins
<1>4. CASE WritesRemote \/ ReadsRemote \/ DownIsDone \/ Drops
  BY <1>4 DEF WritesRemote, ReadsRemote, DownIsDone, Drops, shared
<1>5. CASE Writes
  BY <1>5, WakeKinds DEF Writes, Places
<1>6. CASE ShutLooks
  BY <1>6 DEF ShutLooks, shared
<1>7. CASE ShutRegisters \/ ShutActs
  BY <1>7 DEF ShutRegisters, ShutActs, Places
<1>8. CASE DropReturns
  BY <1>8 DEF DropReturns
<1> QED BY <1>1, <1>2, <1>3, <1>4, <1>5, <1>6, <1>7, <1>8 DEF Copy

\* Every step keeps the kinds of the stream.
LEMMA NextKeepsStreamKinds ==
  ASSUME StreamKinds, [Next]_vars
  PROVE  StreamKinds'
<1>1. CASE \E kind \in {"ack", "data", "push", "fin", "rst"}, a \in 0..(MaxReplies + 1) : Receives(kind, a)
  BY <1>1, ReceivesKinds
<1>2. CASE ExitSignal
  BY <1>2, WakeKinds DEF ExitSignal, MainEnds, StreamKinds
<1>3. CASE CloseWaitEnds \/ LastAckEnds \/ TwoMslEnds
  <2>1. UNCHANGED <<main, shared, woken>>
    BY <1>3 DEF CloseWaitEnds, LastAckEnds, TwoMslEnds, Sleeper
  <2>2. exit' \in BOOLEAN
    BY <1>3 DEF CloseWaitEnds, LastAckEnds, TwoMslEnds, StreamKinds
  <2>3. timers' \subseteq {"close wait", "last ack", "two msl"}
    BY <1>3 DEF CloseWaitEnds, LastAckEnds, TwoMslEnds, StreamKinds
  <2> QED BY <2>1, <2>2, <2>3 DEF shared, StreamKinds
<1>4. CASE TimeoutFires
  BY <1>4 DEF TimeoutFires, stream, StreamKinds
<1>5. CASE Copy
  <2>1. exit' \in BOOLEAN
    BY <1>5, CopyOfStream DEF StreamKinds
  <2> QED BY <1>5, <2>1, CopyOfStream, CopyOfShared DEF StreamKinds
<1>6. CASE RemoteTakes \/ RemoteSends \/ RemoteEnds("eof") \/ RemoteEnds("reset")
  <2>1. UNCHANGED <<stream, shared>>
    BY <1>6 DEF RemoteTakes, RemoteSends, RemoteEnds
  <2>2. woken' \in BOOLEAN
    BY <1>6 DEF RemoteTakes, RemoteSends, RemoteEnds, StreamKinds
  <2> QED BY <2>1, <2>2 DEF stream, shared, StreamKinds
<1>7. CASE UNCHANGED vars
  BY <1>7 DEF vars, stream, shared, StreamKinds
<1> QED BY <1>1, <1>2, <1>3, <1>4, <1>5, <1>6, <1>7 DEF Next

\* Every step keeps the kinds of the relay.
LEMMA NextKeepsRelayKinds ==
  ASSUME RelayKinds, [Next]_vars
  PROVE  RelayKinds'
<1>a. UNCHANGED <<relay, sockets>> => RelayKinds'
  BY DEF RelayKinds, relay, sockets
<1>1. CASE \E kind \in {"ack", "data", "push", "fin", "rst"}, a \in 0..(MaxReplies + 1) : Receives(kind, a)
  BY <1>1, <1>a DEF Receives
<1>2. CASE ExitSignal \/ CloseWaitEnds \/ LastAckEnds \/ TwoMslEnds \/ TimeoutFires \/ UNCHANGED vars
  BY <1>2, <1>a DEF ExitSignal, CloseWaitEnds, LastAckEnds, TwoMslEnds, Sleeper, TimeoutFires, vars
<1>3. CASE DialEnds \/ Poll
  BY <1>3 DEF DialEnds, Poll, sockets, RelayKinds
<1>4. CASE ReadBegins
  BY <1>4 DEF ReadBegins, Eof, sockets, RelayKinds
<1>5. CASE ReadChannel \/ ReadRegisters
  BY <1>5 DEF ReadChannel, ReadRegisters, sockets, RelayKinds
<1>6. CASE ReadLooks \/ UpIsDone
  BY <1>6 DEF ReadLooks, Eof, UpIsDone, FinSeen, sockets, RelayKinds
<1>7. CASE WritesRemote
  BY <1>7 DEF WritesRemote, RelayKinds
<1>8. CASE ReadsRemote
  BY <1>8 DEF ReadsRemote, RelayKinds
<1>9. CASE Writes
  BY <1>9 DEF Writes, sockets, RelayKinds
<1>10. CASE ShutLooks
  BY <1>10 DEF ShutLooks, sockets, RelayKinds
<1>11. CASE ShutRegisters \/ ShutActs
  BY <1>11 DEF ShutRegisters, ShutActs, sockets, RelayKinds
<1>12. CASE DownIsDone \/ Drops \/ DropReturns
  BY <1>12 DEF DownIsDone, Drops, DropReturns, sockets, RelayKinds
<1>13. CASE RemoteTakes \/ RemoteSends \/ RemoteEnds("eof") \/ RemoteEnds("reset")
  BY <1>13 DEF RemoteTakes, RemoteSends, RemoteEnds, relay, RelayKinds
<1> QED BY <1>1, <1>2, <1>3, <1>4, <1>5, <1>6, <1>7, <1>8, <1>9, <1>10, <1>11, <1>12, <1>13 DEF Next, Copy

\* Every step keeps the kinds.
LEMMA NextKeepsKinds ==
  ASSUME Kinds, [Next]_vars
  PROVE  Kinds'
BY NextKeepsStreamKinds, NextKeepsRelayKinds DEF Kinds

\* Steps that move none of the counters.
LEMMA CountsStay ==
  ASSUME Counts, fins \in Nat, fins' = fins \/ fins' = fins + 1,
         UNCHANGED <<sent, acked, data, sockets, peer>>, Held' = Held
  PROVE  Counts'
<1>1. Held \in {0, 1}
  BY DEF Held
<1>2. acked <= sent + fins'
  BY DEF Counts
<1>3. /\ sent' = sent /\ acked' = acked /\ data' = data /\ peer' = peer
      /\ toRemote' = toRemote /\ fromRemote' = fromRemote
  BY DEF sockets
<1> QED BY <1>1, <1>2, <1>3 DEF Counts

\* A packet keeps the counts: it acknowledges no more than has been sent.
LEMMA ReceivesCounts ==
  ASSUME IInv, Counts, NEW kind \in {"ack", "data", "push", "fin", "rst"}, NEW a \in 0..(MaxReplies + 1),
         Receives(kind, a)
  PROVE  Counts'
<1> USE TcpAssumption
<1>1. /\ Held' = Held /\ UNCHANGED <<sent, sockets>> /\ a <= sent + fins
      /\ peer'.ack = a
      /\ peer'.data = (IF kind \in {"data", "push"} THEN peer.data + 1 ELSE peer.data)
      /\ kind \in {"data", "push"} => peer.data < MaxData
  BY DEF Receives, MaySend, Held, relay, IInv, Counts
<1>2. peer'.data \in 0..MaxData /\ peer.data <= peer'.data
  BY <1>1 DEF Counts
<1>3. fins' = fins \/ fins' = fins + 1
  <2>1. Handles(kind, InFlight(a)) \/ UNCHANGED fins
    BY DEF Receives
  <2>2. fins \in {0, 1} /\ fins + 0 = fins
    BY DEF IInv
  <2>3. \A s, h : Moves(s, 0, h) => fins' = fins
    BY <2>2 DEF Moves
  <2>4. LastFin => fins' = fins + 1
    BY DEF LastFin, Moves
  <2>5. Stay => fins' = fins
    BY DEF Stay
  <2>6. Handles(kind, InFlight(a)) => (\E s, h : Moves(s, 0, h)) \/ LastFin \/ Stay
    BY DEF Handles, FinArrives
  <2> QED BY <2>1, <2>3, <2>4, <2>5, <2>6
<1>4. \/ UNCHANGED <<acked, data>>
      \/ acked' = a /\ data' = data + (IF kind \in {"data", "push"} THEN 1 ELSE 0)
  BY DEF Receives
<1> QED BY <1>1, <1>2, <1>3, <1>4 DEF Counts, IInv, sockets

\* Every step keeps the counts.
LEMMA NextKeepsCounts ==
  ASSUME IInv, Kinds, Counts, [Next]_vars
  PROVE  Counts'
<1> USE TcpAssumption DEF Counts, Held
<1>f. fins \in Nat
  BY DEF IInv
<1>1. CASE \E kind \in {"ack", "data", "push", "fin", "rst"}, a \in 0..(MaxReplies + 1) : Receives(kind, a)
  BY <1>1, ReceivesCounts
<1>2. CASE ExitSignal \/ TimeoutFires \/ CloseWaitEnds \/ LastAckEnds \/ TwoMslEnds
  BY <1>2, <1>f, CountsStay DEF ExitSignal, TimeoutFires, CloseWaitEnds, LastAckEnds, TwoMslEnds, Sleeper,
     stream, shared, relay
<1>3. CASE DialEnds \/ Poll \/ ReadRegisters \/ ReadLooks \/ UpIsDone
  BY <1>3, <1>f, CountsStay DEF DialEnds, Poll, ReadRegisters, ReadLooks, Eof, UpIsDone, stream, shared
<1>4. CASE ReadBegins \/ ShutRegisters
  BY <1>4, <1>f, CountsStay DEF ReadBegins, Eof, ShutRegisters, stream, shared
<1>13. CASE ShutLooks
  BY <1>13, <1>f, CountsStay DEF ShutLooks, stream, shared
<1>14. CASE ShutActs
  <2>1. /\ UNCHANGED <<sent, acked, data, sockets, peer>>
        /\ fins' = fins \/ fins' = fins + 1
    BY <1>14 DEF ShutActs
  <2>2. down = "shut" /\ down' \in {"shut", "done"}
    BY <1>14 DEF ShutActs, Kinds, RelayKinds
  <2> QED BY <2>1, <2>2, <1>f, CountsStay
<1>5. CASE ReadChannel
  BY <1>5 DEF ReadChannel, stream, sockets
<1>6. CASE WritesRemote
  BY <1>6 DEF WritesRemote, stream, shared
<1>7. CASE ReadsRemote
  BY <1>7 DEF ReadsRemote, stream, shared
<1>8. CASE Writes
  BY <1>8, <1>f DEF Writes, sockets
<1>9. CASE DownIsDone \/ Drops
  BY <1>9, <1>f, CountsStay DEF DownIsDone, Drops, stream, shared
<1>10. CASE DropReturns
  BY <1>10 DEF DropReturns, stream, sockets
<1>11. CASE RemoteTakes \/ RemoteSends \/ RemoteEnds("eof") \/ RemoteEnds("reset")
  BY <1>11 DEF RemoteTakes, RemoteSends, RemoteEnds, stream, shared, relay
<1>12. CASE UNCHANGED vars
  BY <1>12, <1>f, CountsStay DEF vars, stream, shared, relay
<1> QED BY <1>1, <1>2, <1>3, <1>4, <1>5, <1>6, <1>7, <1>8, <1>9, <1>10, <1>11, <1>12, <1>13, <1>14 DEF Next, Copy

\* They hold at first.
LEMMA InitKeeps ==
  ASSUME Init
  PROVE  IInv /\ Kinds /\ Counts
<1>1. IInv
  BY DEF Init, IInv, States, Open
<1>2. Kinds
  BY DEF Init, Kinds, StreamKinds, RelayKinds
<1>3. Counts
  BY TcpAssumption DEF Init, Counts, Held
<1> QED BY <1>1, <1>2, <1>3

\* Every value stays within its type and its bound, among them the data that
\* waits for the relay and what the peer may acknowledge.
THEOREM TcpTypes == Spec => []TypeOK
<1>1. Init => IInv /\ Kinds /\ Counts
  BY InitKeeps
<1>2. IInv /\ Kinds /\ Counts /\ [Next]_vars => (IInv /\ Kinds /\ Counts)'
  BY NextKeepsIInv, NextKeepsKinds, NextKeepsCounts
<1>3. IInv /\ Kinds /\ Counts => TypeOK
  BY KindsAndCounts
<1> QED BY <1>1, <1>2, <1>3, PTL DEF Spec

-----------------------------------------------------------------------------

\* Who sleeps in poll_read or poll_write has left a waker and has then looked,
\* so that what arrives between the two is either seen or wakes it.  A flow that
\* is idle and not due to be polled has nothing to read or write:
\*  - the copy from the peer waits for data or the remote's socket, and there is
\*    no data, no FIN it has not been told of, and no room in the socket;
\*  - the copy back waits for the remote or the window, and the remote has sent
\*    nothing; nor is there room, while the session is established.
\* The code makes three exceptions, and so does this: a reset wakes nobody; nor
\* does an acknowledgement after the peer's FIN always wake a writer; and one
\* that rides on pushed data wakes the reader only, which polls the writer as
\* well, unless it is itself waiting for the remote.  Of poll_shutdown it says
\* nothing: there the code leaves its waker too late, and can miss its wake-up.
NobodySleepsOnWork ==
  pc = "idle" /\ ~woken =>
    /\ up = "read" => data = 0 /\ (FinSeen => state = "Closed")
    /\ up = "write" => toRemote = RemoteBuf /\ remote # "reset"
    /\ down = "read" => fromRemote = 0 /\ remote = "open"
    /\ down = "write" /\ state \in {"SynReceived", "Established"} =>
         InFlight(acked) >= Window \/ up = "write"

\* Where the flow task is after the reader has looked at the state; after it has
\* left its waker; after it has found the channel empty.
Later == {"down", "shut", "sleepy", "idle"}
PastLook == pc \in Later /\ up = "read"
PastRegister == pc = "look" \/ PastLook
PastChannel == pc \in {"register", "look"} \/ PastLook

\* A FIN that the reader has not been told of.
FinUnread == FinSeen /\ state # "Closed"

ReaderWaits ==
  ~woken =>
    /\ PastChannel => "data" \in wakers /\ data = 0
    /\ PastRegister => "read" \in wakers
    /\ PastLook => ~FinUnread

RemoteWaits ==
  ~woken =>
    /\ pc \in Later /\ up = "write" => toRemote = RemoteBuf /\ remote # "reset"
    /\ pc = "idle" /\ down = "read" => fromRemote = 0 /\ remote = "open"

\* Nothing is acknowledged before the session is established, and it does not go
\* back there once the reader is done.
BeforeFin ==
  /\ up = "done" => FinSeen
  /\ state = "SynReceived" => acked = 0 /\ peer.ack = -1

WriterWaits ==
  pc = "idle" /\ down = "write" /\ ~woken /\ state \in {"SynReceived", "Established"} =>
    "write" \in wakers /\ (InFlight(acked) >= Window \/ up = "write")

\* A step that leaves the flow asleep has taken no waker.
LEMMA WakeAsleep ==
  ASSUME NEW places, Wake(places), ~woken'
  PROVE  ~woken /\ wakers' = wakers /\ wakers \cap places = {}
BY DEF Wake

\* So it is for every step but a poll, and the end.
LEMMA StaysAsleep ==
  ASSUME [Next]_vars, ~woken'
  PROVE  Poll \/ DropReturns \/ (~woken /\ wakers \subseteq wakers')
<1>1. CASE \E kind \in {"ack", "data", "push", "fin", "rst"}, a \in 0..(MaxReplies + 1) : Receives(kind, a)
  <2> PICK kind \in {"ack", "data", "push", "fin", "rst"}, a \in 0..(MaxReplies + 1) : Receives(kind, a)
    BY <1>1
  <2>1. UNCHANGED <<wakers, woken>> \/ \E places : Wake(places)
    BY DEF Receives, MainEnds
  <2> QED BY <2>1, WakeAsleep
<1>2. CASE ExitSignal
  BY <1>2, WakeAsleep DEF ExitSignal, MainEnds
<1>3. CASE CloseWaitEnds \/ LastAckEnds \/ TwoMslEnds \/ TimeoutFires
  BY <1>3 DEF CloseWaitEnds, LastAckEnds, TwoMslEnds, TimeoutFires, Sleeper, shared
<1>4. CASE DialEnds \/ ReadChannel \/ ReadRegisters \/ ReadLooks \/ UpIsDone
  BY <1>4 DEF DialEnds, ReadChannel, ReadRegisters, ReadLooks, UpIsDone, shared
<1>5. CASE ReadBegins
  BY <1>5, WakeAsleep DEF ReadBegins
<1>6. CASE WritesRemote \/ ReadsRemote
  BY <1>6 DEF WritesRemote, ReadsRemote, shared
<1>7. CASE Writes
  BY <1>7, WakeAsleep DEF Writes
<1>8. CASE ShutLooks \/ ShutRegisters \/ ShutActs \/ DownIsDone \/ Drops
  BY <1>8 DEF ShutLooks, ShutRegisters, ShutActs, DownIsDone, Drops, shared
<1>9. CASE RemoteTakes \/ RemoteSends \/ RemoteEnds("eof") \/ RemoteEnds("reset")
  BY <1>9 DEF RemoteTakes, RemoteSends, RemoteEnds, shared
<1>10. CASE UNCHANGED vars
  BY <1>10 DEF vars, shared
<1> QED BY <1>1, <1>2, <1>3, <1>4, <1>5, <1>6, <1>7, <1>8, <1>9, <1>10 DEF Next, Copy

\* A packet that leaves the flow asleep has brought nothing to a reader that has
\* left its wakers.
LEMMA PacketForReader ==
  ASSUME NEW kind \in {"ack", "data", "push", "fin", "rst"}, NEW a \in 0..(MaxReplies + 1),
         Counts, Receives(kind, a), ~woken'
  PROVE  /\ "data" \in wakers => data' = data
         /\ "read" \in wakers => (FinUnread' => FinUnread)
<1>1. CASE state = "Closed"
  BY <1>1 DEF Receives, FinUnread
<1>2. CASE state # "Closed" /\ kind = "rst"
  BY <1>2 DEF Receives, FinUnread
<1>3. CASE state # "Closed" /\ kind # "rst"
  <2>1. /\ Handles(kind, InFlight(a)) /\ Wake(Wakes(kind, InFlight(a)))
        /\ data' = data + (IF kind \in {"data", "push"} THEN 1 ELSE 0)
    BY <1>3 DEF Receives
  <2>2. wakers \cap Wakes(kind, InFlight(a)) = {}
    BY <2>1, WakeAsleep
  <2>3. kind \in {"data", "push"} => "data" \notin wakers /\ "read" \notin wakers
    BY <2>2 DEF Wakes
  <2>4. kind = "fin" => "read" \notin wakers
    BY <2>2 DEF Wakes
  <2>5. kind \notin {"data", "push"} => data' = data
    BY <2>1 DEF Counts
  <2>6. ASSUME kind = "ack" PROVE FinUnread' => FinUnread
    <3>1. CASE state \in {"SynReceived", "Established"}
      <4>1. state' = "Established"
        BY <2>1, <2>6, <3>1 DEF Handles, Moves, Stay
      <4> QED BY <4>1 DEF FinUnread, FinSeen
    <3>2. CASE state \in {"FinWait1", "FinWait2"}
      <4>1. state' = "FinWait2"
        BY <2>1, <2>6, <3>2 DEF Handles, Moves, Stay
      <4> QED BY <4>1 DEF FinUnread, FinSeen
    <3>3. CASE state \in {"CloseWait", "LastAck", "TimeWait"}
      BY <1>3, <3>3 DEF FinUnread, FinSeen
    <3>4. CASE state \notin {"SynReceived", "Established", "FinWait1", "FinWait2", "CloseWait", "LastAck", "TimeWait"}
      <4>1. state' = state
        BY <2>1, <3>4 DEF Handles, Stay
      <4> QED BY <4>1, <3>4, <1>3 DEF FinUnread, FinSeen
    <3> QED BY <3>1, <3>2, <3>3, <3>4
  <2> QED BY <1>3, <2>3, <2>4, <2>5, <2>6
<1> QED BY <1>1, <1>2, <1>3

\* What keeps a reader's sleep sound: it gets no further than it was, and
\* nothing arrives for the wakers it has left.
LEMMA ReaderSleepsOn ==
  ASSUME ReaderWaits, ~woken, wakers \subseteq wakers',
         PastLook' => PastLook, PastRegister' => PastRegister, PastChannel' => PastChannel,
         "data" \in wakers => data' = data,
         "read" \in wakers => (FinUnread' => FinUnread)
  PROVE  ReaderWaits'
<1>1. PastRegister => PastChannel
  BY DEF PastRegister, PastChannel
<1>2. PastLook => PastRegister
  BY DEF PastRegister
<1> QED BY <1>1, <1>2 DEF ReaderWaits

\* Every step keeps the reader from sleeping on data or on a FIN.
LEMMA NextKeepsReader ==
  ASSUME Kinds, Counts, ReaderWaits, [Next]_vars
  PROVE  ReaderWaits'
<1> DEFINE Past == UNCHANGED <<PastLook, PastRegister, PastChannel>>
<1> SUFFICES ASSUME ~woken' PROVE ReaderWaits'
  BY DEF ReaderWaits
<1>a. Poll \/ DropReturns \/ (~woken /\ wakers \subseteq wakers')
  BY StaysAsleep
<1>b. UNCHANGED <<pc, up>> => Past
  BY DEF PastLook, PastRegister, PastChannel
<1>c. pc' \notin Later \cup {"register", "look"} => ReaderWaits'
  BY DEF ReaderWaits, PastLook, PastRegister, PastChannel
<1>d. pc' \in Later /\ up' # "read" => ReaderWaits'
  BY DEF ReaderWaits, PastLook, PastRegister, PastChannel, Later
<1>1. CASE \E kind \in {"ack", "data", "push", "fin", "rst"}, a \in 0..(MaxReplies + 1) : Receives(kind, a)
  <2> PICK kind \in {"ack", "data", "push", "fin", "rst"}, a \in 0..(MaxReplies + 1) : Receives(kind, a)
    BY <1>1
  <2>1. UNCHANGED <<pc, up>>
    BY DEF Receives, relay
  <2>2. ~Poll /\ ~DropReturns
    BY <2>1 DEF Poll, DropReturns
  <2> QED BY <1>a, <1>b, <2>1, <2>2, PacketForReader, ReaderSleepsOn
<1>2. CASE ExitSignal \/ CloseWaitEnds \/ LastAckEnds \/ TwoMslEnds \/ TimeoutFires
  <2>1. UNCHANGED <<pc, up, data>>
    BY <1>2 DEF ExitSignal, CloseWaitEnds, LastAckEnds, TwoMslEnds, TimeoutFires, Sleeper, relay, shared
  <2>2. state' = state \/ state' = "Closed" \/ (state = "CloseWait" /\ state' = "LastAck")
    BY <1>2 DEF ExitSignal, CloseWaitEnds, LastAckEnds, TwoMslEnds, TimeoutFires, stream
  <2>3. FinUnread' => FinUnread
    BY <2>2 DEF FinUnread, FinSeen
  <2>4. ~Poll /\ ~DropReturns
    BY <2>1 DEF Poll, DropReturns
  <2> QED BY <1>a, <1>b, <2>1, <2>3, <2>4, ReaderSleepsOn
<1>3. CASE DialEnds \/ Poll
  BY <1>3, <1>c DEF DialEnds, Poll, Later
<1>4. CASE ReadBegins
  BY <1>4, <1>c, <1>d DEF ReadBegins, Eof, Later
<1>5. CASE ReadChannel
  <2>1. CASE data > 0
    BY <1>5, <2>1, <1>c DEF ReadChannel, Later
  <2>2. CASE ~(data > 0)
    <3>1. data' = 0 /\ "data" \in wakers' /\ pc' = "register"
      BY <1>5, <2>2 DEF ReadChannel, Counts
    <3> QED BY <3>1 DEF ReaderWaits, PastLook, PastRegister, PastChannel, Later
  <2> QED BY <2>1, <2>2
<1>6. CASE ReadRegisters
  <2>1. data' = data /\ wakers' = wakers \cup {"read"} /\ pc' = "look" /\ ~woken /\ pc = "register"
    BY <1>6 DEF ReadRegisters
  <2> QED BY <2>1 DEF ReaderWaits, PastLook, PastRegister, PastChannel, Later
<1>7. CASE ReadLooks
  <2>1. CASE FinSeen
    BY <1>7, <2>1, <1>d DEF ReadLooks, Eof, Later
  <2>2. CASE ~FinSeen
    <3>1. UNCHANGED <<state, data, wakers, woken>> /\ pc = "look" /\ pc' = "down"
      BY <1>7, <2>2 DEF ReadLooks, stream, shared
    <3> QED BY <2>2, <3>1 DEF ReaderWaits, PastLook, PastRegister, PastChannel, Later, FinUnread, FinSeen
  <2> QED BY <2>1, <2>2
<1>8. CASE WritesRemote \/ UpIsDone
  <2>1. CASE WritesRemote
    <3>1. pc' \in {"drop", "up"} \/ (pc' = "down" /\ up' = "write")
      BY <2>1 DEF WritesRemote
    <3> QED BY <3>1, <1>c, <1>d DEF Later
  <2>2. CASE UpIsDone
    BY <2>2, <1>d DEF UpIsDone, Later
  <2> QED BY <1>8, <2>1, <2>2
<1>9. CASE ReadsRemote \/ Writes \/ ShutLooks \/ ShutRegisters \/ ShutActs \/ DownIsDone
  <2>1. pc \in Later \ {"idle"}
    BY <1>9 DEF ReadsRemote, Writes, ShutLooks, ShutRegisters, ShutActs, DownIsDone, Later
  <2>2. UNCHANGED <<up, data>>
    BY <1>9 DEF ReadsRemote, Writes, ShutLooks, ShutRegisters, ShutActs, DownIsDone, shared
  <2>3. pc' \in Later \cup {"drop"}
    <3>1. CASE ReadsRemote \/ Writes \/ DownIsDone
      BY <3>1 DEF ReadsRemote, Writes, DownIsDone, Later
    <3>2. CASE ShutLooks
      BY <3>2 DEF ShutLooks, Later
    <3>3. CASE ShutRegisters \/ ShutActs
      BY <3>3 DEF ShutRegisters, ShutActs, Later
    <3> QED BY <1>9, <3>1, <3>2, <3>3
  <2>4. state' = state \/ state' = "FinWait1"
    BY <1>9 DEF ReadsRemote, Writes, ShutLooks, ShutRegisters, ShutActs, DownIsDone, stream
  <2>5. FinUnread' => FinUnread
    BY <2>4 DEF FinUnread, FinSeen
  <2>6. ~Poll /\ ~DropReturns
    BY <2>1 DEF Poll, DropReturns, Later
  <2>7. CASE pc' \in Later
    <3>1. Past
      BY <2>1, <2>2, <2>7 DEF PastLook, PastRegister, PastChannel, Later
    <3> QED BY <1>a, <2>2, <2>5, <2>6, <3>1, ReaderSleepsOn
  <2>8. CASE pc' = "drop"
    BY <2>8, <1>c DEF Later
  <2> QED BY <2>3, <2>7, <2>8
<1>10. CASE Drops \/ DropReturns
  BY <1>10, <1>c DEF Drops, DropReturns, Later
<1>11. CASE RemoteTakes \/ RemoteSends \/ RemoteEnds("eof") \/ RemoteEnds("reset") \/ UNCHANGED vars
  <2>1. UNCHANGED <<pc, up, data, state>>
    BY <1>11 DEF RemoteTakes, RemoteSends, RemoteEnds, vars, stream, shared, relay
  <2>2. FinUnread' => FinUnread
    BY <2>1 DEF FinUnread, FinSeen
  <2>3. ~Poll /\ ~DropReturns
    BY <2>1 DEF Poll, DropReturns
  <2> QED BY <1>a, <1>b, <2>1, <2>2, <2>3, ReaderSleepsOn
<1> QED BY <1>1, <1>2, <1>3, <1>4, <1>5, <1>6, <1>7, <1>8, <1>9, <1>10, <1>11 DEF Next, Copy

\* Every step keeps both directions from sleeping on the remote's socket.
LEMMA NextKeepsRemote ==
  ASSUME Kinds, Counts, RemoteWaits, [Next]_vars
  PROVE  RemoteWaits'
<1> SUFFICES ASSUME ~woken' PROVE RemoteWaits'
  BY DEF RemoteWaits
<1>a. Poll \/ DropReturns \/ ~woken
  BY StaysAsleep
<1>b. ~woken /\ UNCHANGED <<pc, up, down, sockets>> => RemoteWaits'
  BY DEF RemoteWaits, sockets
<1>c. pc' \notin Later => RemoteWaits'
  BY DEF RemoteWaits, Later
<1>d. pc' \in Later /\ up' # "write" /\ (pc' # "idle" \/ down' # "read") => RemoteWaits'
  BY DEF RemoteWaits
<1>e. ASSUME pc \in Later, ~woken, UNCHANGED <<up, toRemote, remote>>, pc' # "idle" \/ down' # "read"
      PROVE  RemoteWaits'
  BY <1>e DEF RemoteWaits
<1>1. CASE \E kind \in {"ack", "data", "push", "fin", "rst"}, a \in 0..(MaxReplies + 1) : Receives(kind, a)
  <2>1. UNCHANGED <<pc, up, down, sockets>>
    BY <1>1 DEF Receives, relay
  <2>2. ~Poll /\ ~DropReturns
    BY <2>1 DEF Poll, DropReturns
  <2> QED BY <1>a, <1>b, <2>1, <2>2
<1>2. CASE ExitSignal \/ CloseWaitEnds \/ LastAckEnds \/ TwoMslEnds \/ TimeoutFires \/ UNCHANGED vars
  <2>1. UNCHANGED <<pc, up, down, sockets>>
    BY <1>2 DEF ExitSignal, CloseWaitEnds, LastAckEnds, TwoMslEnds, TimeoutFires, Sleeper, relay, vars
  <2>2. ~Poll /\ ~DropReturns
    BY <2>1 DEF Poll, DropReturns
  <2> QED BY <1>a, <1>b, <2>1, <2>2
<1>3. CASE DialEnds \/ Poll \/ ReadRegisters
  BY <1>3, <1>c DEF DialEnds, Poll, ReadRegisters, Later
<1>4. CASE ReadBegins
  BY <1>4, <1>c, <1>d DEF ReadBegins, Eof, Later
<1>5. CASE ReadChannel
  BY <1>5, <1>c DEF ReadChannel, Later
<1>6. CASE ReadLooks
  <2>1. pc' = "down" /\ up' \in {"read", "done"}
    BY <1>6 DEF ReadLooks, Eof, Kinds, RelayKinds
  <2> QED BY <2>1, <1>d DEF Later
<1>7. CASE WritesRemote
  <2>1. CASE remote = "reset" \/ toRemote < RemoteBuf
    <3>1. pc' \in {"drop", "up"}
      BY <1>7, <2>1 DEF WritesRemote
    <3> QED BY <3>1, <1>c DEF Later
  <2>2. CASE ~(remote = "reset" \/ toRemote < RemoteBuf)
    <3>1. toRemote' = toRemote /\ remote' = remote /\ pc' = "down"
      BY <1>7, <2>2 DEF WritesRemote
    <3>2. toRemote = RemoteBuf
      BY <2>2, TcpAssumption DEF Counts
    <3> QED BY <2>2, <3>1, <3>2 DEF RemoteWaits
  <2> QED BY <2>1, <2>2
<1>8. CASE UpIsDone
  BY <1>8, <1>d DEF UpIsDone, Later
<1>9. CASE ReadsRemote
  <2>1. pc \in Later /\ ~woken /\ UNCHANGED <<up, toRemote, remote>>
    BY <1>9 DEF ReadsRemote, Later
  <2>2. CASE remote \in {"reset", "eof"} \/ fromRemote > 0
    <3>1. pc' # "idle"
      BY <1>9, <2>2 DEF ReadsRemote
    <3> QED BY <2>1, <3>1, <1>e
  <2>3. CASE remote = "open" /\ ~(fromRemote > 0)
    <3>1. fromRemote' = 0
      BY <1>9, <2>3 DEF ReadsRemote, Counts
    <3> QED BY <2>1, <2>3, <3>1 DEF RemoteWaits
  <2> QED BY <2>2, <2>3 DEF Kinds, RelayKinds
<1>10. CASE Writes
  <2>1. pc \in Later /\ UNCHANGED <<up, toRemote, remote>> /\ (pc' # "idle" \/ down' # "read")
    BY <1>10 DEF Writes, Later, sockets
  <2>2. ~Poll /\ ~DropReturns
    BY <1>10 DEF Writes, Poll, DropReturns
  <2> QED BY <1>a, <1>e, <2>1, <2>2
<1>11. CASE ShutLooks \/ ShutRegisters \/ ShutActs
  <2>1. pc \in Later /\ UNCHANGED <<up, toRemote, remote>> /\ ~woken
    <3>1. CASE ShutLooks
      BY <1>a, <3>1 DEF ShutLooks, Later, sockets
    <3>2. CASE ShutRegisters \/ ShutActs
      BY <3>2 DEF ShutRegisters, ShutActs, Later, sockets
    <3> QED BY <1>11, <3>1, <3>2
  <2>2. down = "shut"
    BY <1>11 DEF ShutLooks, ShutRegisters, ShutActs, Kinds, RelayKinds
  <2>3. down' \in {"shut", "done"}
    BY <1>11, <2>2 DEF ShutLooks, ShutRegisters, ShutActs
  <2> QED BY <1>e, <2>1, <2>3
<1>12. CASE DownIsDone
  <2>1. pc \in Later /\ UNCHANGED <<up, toRemote, remote>> /\ ~woken /\ down' # "read"
    BY <1>12 DEF DownIsDone, Later, sockets
  <2> QED BY <1>e, <2>1
<1>13. CASE Drops \/ DropReturns
  BY <1>13, <1>c DEF Drops, DropReturns, Later
<1>14. CASE RemoteTakes
  <2>1. ~woken /\ up # "write" /\ UNCHANGED <<pc, up, down, fromRemote, remote>>
    BY <1>14 DEF RemoteTakes, relay
  <2> QED BY <2>1 DEF RemoteWaits
<1>15. CASE RemoteSends
  <2>1. ~woken /\ down # "read" /\ UNCHANGED <<pc, up, down, toRemote, remote>>
    BY <1>15 DEF RemoteSends, relay
  <2> QED BY <2>1 DEF RemoteWaits
<1>16. CASE \E how \in {"eof", "reset"} : RemoteEnds(how)
  <2> PICK how \in {"eof", "reset"} : RemoteEnds(how)
    BY <1>16
  <2>1. ~woken /\ down # "read" /\ (how = "reset" => up # "write")
    BY DEF RemoteEnds
  <2>2. UNCHANGED <<pc, up, down, toRemote, fromRemote>> /\ remote' = how
    BY DEF RemoteEnds, relay
  <2> QED BY <2>1, <2>2 DEF RemoteWaits
<1> QED BY <1>1, <1>2, <1>3, <1>4, <1>5, <1>6, <1>7, <1>8, <1>9, <1>10, <1>11, <1>12, <1>13, <1>14,
           <1>15, <1>16 DEF Next, Copy

\* What a packet makes of the state.
LEMMA PacketStates ==
  ASSUME NEW kind, NEW n, state # "Closed", Handles(kind, n)
  PROVE  /\ state' # "SynReceived" /\ (FinSeen => FinSeen')
         /\ state' = "Established" => state \in {"SynReceived", "Established"} /\ (state = "Established" => kind # "fin")
<1>1. CASE state = "SynReceived"
  BY <1>1 DEF Handles, Moves, FinSeen
<1>2. CASE state = "Established"
  <2>1. CASE kind = "fin"
    BY <1>2, <2>1 DEF Handles, FinArrives, LastFin, Moves, FinSeen
  <2>2. CASE kind # "fin"
    BY <1>2, <2>2 DEF Handles, Stay, FinSeen
  <2> QED BY <2>1, <2>2
<1>3. CASE state \in {"CloseWait", "LastAck"}
  BY <1>3 DEF Handles, LastFin, Moves, Stay, FinSeen
<1>4. CASE state \in {"FinWait1", "FinWait2"}
  BY <1>4 DEF Handles, Moves, Stay, FinSeen
<1>5. CASE state \notin {"SynReceived", "Established", "CloseWait", "LastAck", "FinWait1", "FinWait2"}
  BY <1>5 DEF Handles, Stay, FinSeen
<1> QED BY <1>1, <1>2, <1>3, <1>4, <1>5

\* Every step but a packet leaves what is acknowledged, and the state where it is
\* or moves it towards the end.
LEMMA OtherStates ==
  ASSUME [Next]_vars
  PROVE  \/ \E kind \in {"ack", "data", "push", "fin", "rst"}, a \in 0..(MaxReplies + 1) : Receives(kind, a)
         \/ /\ UNCHANGED <<acked, peer>>
            /\ \/ state' \in {state, "Closed"}
               \/ state = "CloseWait" /\ state' = "LastAck"
               \/ state = "Established" /\ state' = "FinWait1"
<1>1. CASE ExitSignal \/ CloseWaitEnds \/ LastAckEnds \/ TwoMslEnds \/ TimeoutFires
  BY <1>1 DEF ExitSignal, CloseWaitEnds, LastAckEnds, TwoMslEnds, TimeoutFires, Sleeper, stream
<1>2. CASE DialEnds \/ Poll \/ ReadChannel \/ ReadRegisters \/ ReadLooks \/ UpIsDone
  BY <1>2 DEF DialEnds, Poll, ReadChannel, ReadRegisters, ReadLooks, UpIsDone, stream
<1>3. CASE ReadBegins
  BY <1>3 DEF ReadBegins
<1>4. CASE WritesRemote \/ ReadsRemote \/ Writes \/ DownIsDone
  BY <1>4 DEF WritesRemote, ReadsRemote, Writes, DownIsDone, stream
<1>5. CASE ShutLooks \/ ShutRegisters \/ Drops \/ DropReturns
  BY <1>5 DEF ShutLooks, ShutRegisters, Drops, DropReturns, stream
<1>6. CASE ShutActs
  BY <1>6 DEF ShutActs
<1>7. CASE RemoteTakes \/ RemoteSends \/ RemoteEnds("eof") \/ RemoteEnds("reset") \/ UNCHANGED vars
  BY <1>7 DEF RemoteTakes, RemoteSends, RemoteEnds, vars, stream
<1> QED BY <1>1, <1>2, <1>3, <1>4, <1>5, <1>6, <1>7 DEF Next, Copy

\* The reader is done only when it has seen the FIN, or the end.
LEMMA ReaderIsDone ==
  ASSUME [Next]_vars, up' = "done"
  PROVE  up = "done" \/ FinSeen
<1>1. CASE UNCHANGED up
  BY <1>1
<1>2. CASE ReadBegins
  BY <1>2 DEF ReadBegins, Eof, FinSeen
<1>3. CASE ReadLooks
  BY <1>3 DEF ReadLooks, Eof
<1>4. CASE ReadChannel \/ WritesRemote
  BY <1>4 DEF ReadChannel, WritesRemote
<1>5. CASE \E kind \in {"ack", "data", "push", "fin", "rst"}, a \in 0..(MaxReplies + 1) : Receives(kind, a)
  BY <1>1, <1>5 DEF Receives, relay
<1>6. CASE ExitSignal \/ CloseWaitEnds \/ LastAckEnds \/ TwoMslEnds \/ TimeoutFires
  BY <1>1, <1>6 DEF ExitSignal, CloseWaitEnds, LastAckEnds, TwoMslEnds, TimeoutFires, Sleeper, relay
<1>7. CASE DialEnds \/ Poll \/ ReadRegisters \/ UpIsDone \/ ReadsRemote \/ Writes
  BY <1>1, <1>7 DEF DialEnds, Poll, ReadRegisters, UpIsDone, ReadsRemote, Writes
<1>8. CASE ShutLooks \/ ShutRegisters \/ ShutActs \/ DownIsDone \/ Drops \/ DropReturns
  BY <1>1, <1>8 DEF ShutLooks, ShutRegisters, ShutActs, DownIsDone, Drops, DropReturns
<1>9. CASE RemoteTakes \/ RemoteSends \/ RemoteEnds("eof") \/ RemoteEnds("reset") \/ UNCHANGED vars
  BY <1>1, <1>9 DEF RemoteTakes, RemoteSends, RemoteEnds, relay, vars
<1> QED BY <1>2, <1>3, <1>4, <1>5, <1>6, <1>7, <1>8, <1>9 DEF Next, Copy

\* Every step keeps what holds before the FIN.
LEMMA NextKeepsBeforeFin ==
  ASSUME BeforeFin, [Next]_vars
  PROVE  BeforeFin'
<1>1. FinSeen => FinSeen'
  <2>1. CASE \E kind \in {"ack", "data", "push", "fin", "rst"}, a \in 0..(MaxReplies + 1) : Receives(kind, a)
    <3> PICK kind \in {"ack", "data", "push", "fin", "rst"}, a \in 0..(MaxReplies + 1) : Receives(kind, a)
      BY <2>1
    <3>1. state' \in {state, "Closed"} \/ (state # "Closed" /\ Handles(kind, InFlight(a)))
      BY DEF Receives
    <3> QED BY <3>1, PacketStates DEF FinSeen
  <2>2. CASE state' \in {state, "Closed"} \/ state' = "LastAck" \/ state = "Established"
    BY <2>2 DEF FinSeen
  <2> QED BY <2>1, <2>2, OtherStates
<1>2. state' = "SynReceived" => state = "SynReceived" /\ UNCHANGED <<acked, peer>>
  <2>1. CASE \E kind \in {"ack", "data", "push", "fin", "rst"}, a \in 0..(MaxReplies + 1) : Receives(kind, a)
    <3> PICK kind \in {"ack", "data", "push", "fin", "rst"}, a \in 0..(MaxReplies + 1) : Receives(kind, a)
      BY <2>1
    <3>1. (state = "Closed" /\ state' = state) \/ state' = "Closed" \/ (state # "Closed" /\ Handles(kind, InFlight(a)))
      BY DEF Receives
    <3> QED BY <3>1, PacketStates
  <2> QED BY <2>1, OtherStates
<1> QED BY <1>1, <1>2, ReaderIsDone DEF BeforeFin

\* A packet keeps a writer from sleeping on room in the window.
LEMMA ReceivesWriter ==
  ASSUME Kinds, BeforeFin, ReaderWaits, WriterWaits,
         NEW kind \in {"ack", "data", "push", "fin", "rst"}, NEW a \in 0..(MaxReplies + 1), Receives(kind, a)
  PROVE  WriterWaits'
<1> SUFFICES ASSUME pc' = "idle", down' = "write", ~woken', state' \in {"SynReceived", "Established"}
             PROVE  "write" \in wakers' /\ (InFlight(acked)' >= Window \/ up' = "write")
  BY DEF WriterWaits
<1>1. UNCHANGED <<pc, down, up, sent>> /\ ~Poll /\ ~DropReturns
  BY DEF Receives, relay, Poll, DropReturns
<1>2. ~woken /\ wakers \subseteq wakers'
  BY <1>1, StaysAsleep DEF Next
<1>3. state # "Closed" /\ kind # "rst"
  BY DEF Receives
<1>4. /\ Handles(kind, InFlight(a)) /\ Wake(Wakes(kind, InFlight(a))) /\ acked' = a /\ MaySend(kind, a)
  BY <1>3 DEF Receives
<1>5. wakers \cap Wakes(kind, InFlight(a)) = {}
  BY <1>4, WakeAsleep
<1>6. state \in {"SynReceived", "Established"} /\ (state = "Established" => kind # "fin")
  BY <1>3, <1>4, PacketStates
<1>7. "write" \in wakers /\ (InFlight(acked) >= Window \/ up = "write")
  BY <1>1, <1>2, <1>6 DEF WriterWaits
<1>8. CASE up = "write"
  BY <1>1, <1>2, <1>7, <1>8
<1>9. CASE up # "write"
  <2>1. up = "read"
    BY <1>6, <1>9 DEF Kinds, RelayKinds, BeforeFin, FinSeen
  <2>2. "data" \in wakers
    BY <1>1, <1>2, <2>1 DEF ReaderWaits, PastChannel, PastLook, Later
  <2>3. state = "SynReceived"
    <3> SUFFICES ASSUME state = "Established" PROVE FALSE
      BY <1>6
    <3>1. kind = "push" => "data" \in Wakes(kind, InFlight(a))
      BY DEF Wakes
    <3>2. kind = "ack" => Wakes(kind, InFlight(a)) = {"write"}
      BY DEF Wakes
    <3>3. kind = "data" => Wakes(kind, InFlight(a)) = {"data", "read", "write"}
      BY DEF Wakes
    <3> QED BY <1>3, <1>5, <1>6, <1>7, <2>2, <3>1, <3>2, <3>3
  <2>4. acked' = acked
    BY <1>4, <2>3 DEF BeforeFin, MaySend
  <2>5. InFlight(acked)' = InFlight(acked)
    BY <1>1, <2>4 DEF InFlight
  <2> QED BY <1>2, <1>7, <1>9, <2>5
<1> QED BY <1>8, <1>9

\* So does every other step: what the writer waits for moves only in a packet,
\* and the writer registers while it holds the mutex.
LEMMA NextKeepsWriter ==
  ASSUME Kinds, BeforeFin, ReaderWaits, WriterWaits, [Next]_vars
  PROVE  WriterWaits'
<1>a. ASSUME UNCHANGED <<pc, up, down, sent, acked>>, pc = "idle" => ~woken /\ wakers \subseteq wakers',
             state' \in {"SynReceived", "Established"} => state' = state
      PROVE  WriterWaits'
  <2>1. InFlight(acked)' = InFlight(acked)
    BY <1>a DEF InFlight
  <2> QED BY <1>a, <2>1 DEF WriterWaits
<1>b. woken' \/ pc' # "idle" \/ down' # "write" => WriterWaits'
  BY DEF WriterWaits
<1>1. CASE \E kind \in {"ack", "data", "push", "fin", "rst"}, a \in 0..(MaxReplies + 1) : Receives(kind, a)
  BY <1>1, ReceivesWriter
<1>2. CASE ExitSignal \/ CloseWaitEnds \/ LastAckEnds \/ TwoMslEnds \/ TimeoutFires
  <2>1. UNCHANGED <<pc, up, down, sent, acked>>
    BY <1>2 DEF ExitSignal, CloseWaitEnds, LastAckEnds, TwoMslEnds, TimeoutFires, Sleeper, relay, stream
  <2>2. state' \in {"SynReceived", "Established"} => state' = state
    BY <1>2 DEF ExitSignal, CloseWaitEnds, LastAckEnds, TwoMslEnds, TimeoutFires, stream
  <2>3. ~Poll /\ ~DropReturns
    BY <2>1 DEF Poll, DropReturns
  <2> QED BY <1>a, <1>b, <2>1, <2>2, <2>3, StaysAsleep
<1>3. CASE DialEnds \/ Poll \/ ReadChannel \/ ReadRegisters \/ ReadLooks \/ UpIsDone
  BY <1>3, <1>b DEF DialEnds, Poll, ReadChannel, ReadRegisters, ReadLooks, Eof, UpIsDone
<1>4. CASE ReadBegins \/ WritesRemote
  BY <1>4, <1>b DEF ReadBegins, Eof, WritesRemote
<1>5. CASE ReadsRemote
  BY <1>5, <1>b DEF ReadsRemote
<1>6. CASE Writes
  <2>1. CASE state # "Closed" /\ InFlight(acked) >= Window
    <3>1. "write" \in wakers' /\ sent' = sent /\ acked' = acked
      BY <1>6, <2>1 DEF Writes
    <3>2. InFlight(acked)' = InFlight(acked)
      BY <3>1 DEF InFlight
    <3> QED BY <2>1, <3>1, <3>2 DEF WriterWaits
  <2>2. CASE ~(state # "Closed" /\ InFlight(acked) >= Window)
    <3>1. pc' # "idle"
      BY <1>6, <2>2 DEF Writes
    <3> QED BY <3>1, <1>b
  <2> QED BY <2>1, <2>2
<1>7. CASE ShutLooks \/ ShutRegisters \/ ShutActs \/ DownIsDone
  <2>1. down \in {"shut", "done"}
    BY <1>7 DEF ShutLooks, ShutRegisters, ShutActs, DownIsDone, Kinds, RelayKinds
  <2>2. down' \in {down, "done"}
    BY <1>7 DEF ShutLooks, ShutRegisters, ShutActs, DownIsDone
  <2> QED BY <2>1, <2>2, <1>b
<1>8. CASE Drops \/ DropReturns
  BY <1>8, <1>b DEF Drops, DropReturns
<1>9. CASE RemoteTakes \/ RemoteSends \/ RemoteEnds("eof") \/ RemoteEnds("reset") \/ UNCHANGED vars
  <2>1. UNCHANGED <<pc, up, down, sent, acked, state>>
    BY <1>9 DEF RemoteTakes, RemoteSends, RemoteEnds, relay, stream, vars
  <2>2. ~Poll /\ ~DropReturns
    BY <2>1 DEF Poll, DropReturns
  <2> QED BY <1>a, <1>b, <2>1, <2>2, StaysAsleep
<1> QED BY <1>1, <1>2, <1>3, <1>4, <1>5, <1>6, <1>7, <1>8, <1>9 DEF Next, Copy

\* The invariant of the sleepers.
Sleepers == ReaderWaits /\ RemoteWaits /\ BeforeFin /\ WriterWaits

\* A flow that sleeps in poll_read or poll_write has nothing to read or write,
\* but for the exceptions above, whichever way its task, the main loop, the
\* helper tasks and the remote take turns (tcp.rs poll_read, poll_write and
\* tcp_main_logic_loop, where wakers are left and taken).
THEOREM SleepersHaveNothingToDo == Spec => []NobodySleepsOnWork
<1>1. Init => IInv /\ Kinds /\ Counts /\ Sleepers
  <2> SUFFICES ASSUME Init PROVE IInv /\ Kinds /\ Counts /\ Sleepers
    OBVIOUS
  <2>1. IInv /\ Kinds /\ Counts
    BY InitKeeps
  <2>2. ReaderWaits /\ RemoteWaits
    BY DEF Init, ReaderWaits, PastChannel, PastRegister, PastLook, RemoteWaits, Later
  <2>3. BeforeFin /\ WriterWaits
    BY DEF Init, BeforeFin, WriterWaits
  <2> QED BY <2>1, <2>2, <2>3 DEF Sleepers
<1>2. IInv /\ Kinds /\ Counts /\ Sleepers /\ [Next]_vars => (IInv /\ Kinds /\ Counts /\ Sleepers)'
  BY NextKeepsIInv, NextKeepsKinds, NextKeepsCounts, NextKeepsReader, NextKeepsRemote, NextKeepsBeforeFin,
     NextKeepsWriter DEF Sleepers
<1>3. Sleepers => NobodySleepsOnWork
  <2> SUFFICES ASSUME Sleepers, pc = "idle", ~woken
               PROVE  NobodySleepsOnWork
    BY DEF NobodySleepsOnWork
  <2>1. up = "read" => data = 0 /\ (FinSeen => state = "Closed")
    BY DEF Sleepers, ReaderWaits, PastChannel, PastLook, Later, FinUnread
  <2>2. /\ up = "write" => toRemote = RemoteBuf /\ remote # "reset"
        /\ down = "read" => fromRemote = 0 /\ remote = "open"
    BY DEF Sleepers, RemoteWaits, Later
  <2>3. down = "write" /\ state \in {"SynReceived", "Established"} => InFlight(acked) >= Window \/ up = "write"
    BY DEF Sleepers, WriterWaits
  <2> QED BY <2>1, <2>2, <2>3 DEF NobodySleepsOnWork
<1> QED BY <1>1, <1>2, <1>3, PTL DEF Spec

\* Who drops the stream, and blocks its thread until the main loop is over, has
\* told it to exit: the message is there until the main loop takes it and ends.
DropIsTold == pc = "wait" => main = "ended" \/ exit

\* Every step keeps that: only the end of the main loop takes the message.
LEMMA NextKeepsTold ==
  ASSUME Kinds, DropIsTold, [Next]_vars
  PROVE  DropIsTold'
<1>a. (pc' = "wait" => pc = "wait") /\ (main' = main \/ main' = "ended") /\ (exit => exit' \/ main' = "ended")
      => DropIsTold'
  BY DEF DropIsTold
<1>1. CASE \E kind \in {"ack", "data", "push", "fin", "rst"}, a \in 0..(MaxReplies + 1) : Receives(kind, a)
  <2> PICK kind \in {"ack", "data", "push", "fin", "rst"}, a \in 0..(MaxReplies + 1) : Receives(kind, a)
    BY <1>1
  <2>1. pc' = pc
    BY DEF Receives, relay
  <2>2. main' = "ended" \/ (main' = main /\ (exit => exit'))
    BY DEF Receives, MainEnds
  <2> QED BY <1>a, <2>1, <2>2
<1>2. CASE ExitSignal \/ CloseWaitEnds \/ LastAckEnds \/ TwoMslEnds \/ TimeoutFires
  <2>1. pc' = pc
    BY <1>2 DEF ExitSignal, CloseWaitEnds, LastAckEnds, TwoMslEnds, TimeoutFires, Sleeper, relay
  <2>2. main' = "ended" \/ (main' = main /\ (exit => exit'))
    BY <1>2 DEF ExitSignal, MainEnds, CloseWaitEnds, LastAckEnds, TwoMslEnds, TimeoutFires, Sleeper, stream
  <2> QED BY <1>a, <2>1, <2>2
<1>3. CASE DialEnds \/ Poll \/ ReadChannel \/ ReadRegisters \/ ReadLooks \/ UpIsDone
  BY <1>3, <1>a DEF DialEnds, Poll, ReadChannel, ReadRegisters, ReadLooks, Eof, UpIsDone, stream
<1>4. CASE ReadBegins
  BY <1>4, <1>a DEF ReadBegins, Eof
<1>5. CASE WritesRemote \/ ReadsRemote \/ Writes \/ DownIsDone
  BY <1>5, <1>a DEF WritesRemote, ReadsRemote, Writes, DownIsDone, stream
<1>6. CASE ShutLooks
  BY <1>6, <1>a DEF ShutLooks, stream
<1>7. CASE ShutRegisters \/ ShutActs \/ DropReturns
  BY <1>7, <1>a DEF ShutRegisters, ShutActs, DropReturns, stream
<1>8. CASE Drops
  BY <1>8 DEF Drops, DropIsTold, Kinds, StreamKinds
<1>9. CASE RemoteTakes \/ RemoteSends \/ RemoteEnds("eof") \/ RemoteEnds("reset") \/ UNCHANGED vars
  BY <1>9, <1>a DEF RemoteTakes, RemoteSends, RemoteEnds, relay, stream, vars
<1> QED BY <1>1, <1>2, <1>3, <1>4, <1>5, <1>6, <1>7, <1>8, <1>9 DEF Next, Copy

\* The drop, which blocks its thread (tcp.rs:442), never waits for a main loop
\* that does not know it should end.
THEOREM DropNeverWaitsInVain == Spec => []DropIsTold
<1>1. Init => Kinds /\ DropIsTold
  BY InitKeeps DEF Init, DropIsTold
<1>2. Kinds /\ DropIsTold /\ [Next]_vars => (Kinds /\ DropIsTold)'
  BY NextKeepsKinds, NextKeepsTold
<1> QED BY <1>1, <1>2, PTL DEF Spec
================================================================================
