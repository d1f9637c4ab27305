--------------------------------- MODULE Engine --------------------------------
(***************************************************************************)
(* The client's tunnel engine, Tunnel::connect_to and Tunnel::close in     *)
(* crates/wgclient/src/lib.rs, on top of the Adapter whose device it       *)
(* pumps, in the order `dial` and `disconnect` of client-win use the two:  *)
(* open, connect_to, close, drop.                                          *)
(*                                                                         *)
(* Two threads block on the device, up to four tasks on the socket; two    *)
(* channels lie between them.  WireGuard and the relay are kept to whether *)
(* a handshake completes and that packets arrive.                          *)
(***************************************************************************)
EXTENDS Adapter

CONSTANT MaxPackets  \* model bound: packets in each direction
ASSUME EngineAssumption == MaxPackets \in Nat

Tasks == {"bridge", "recv", "send", "timers"}

VARIABLES
  main,      \* connect_to and what follows it
  ws,        \* whether the endpoint is a WebSocket
  reader,    \* the thread in tun.recv: "off", "recv", "push", "done"
  writer,    \* the thread in blocking_recv: "off", "wait", "send", "done"
  tasks,     \* "off", "run", "abort" (asked to stop), "done"
  fromTun,   \* packets from the device in their channel
  toTun,     \* packets for the device in theirs
  shutdown,  \* the flag
  ioError,   \* the open device has refused a packet
  read,      \* packets the device has delivered
  written    \* packets that have arrived for it

engineVars == <<main, ws, reader, writer, tasks, fromTun, toTun, shutdown, ioError, read, written>>
vars == <<adapterVars, engineVars>>

EngineTypeOK ==
  /\ conf \in Confs /\ phase \in {"opening", "open", "dropping", "closed"}
  /\ at \in 1..(Len(Script(conf)) + 1) /\ dns \in BOOLEAN
  /\ undo \in Seq({Script(conf)[i].effect : i \in DOMAIN Script(conf)})
  /\ main \in {"idle", "bind", "first", "wait", "up", "closing", "closed", "refused", "timeout"}
  /\ reader \in {"off", "recv", "push", "done"}
  /\ writer \in {"off", "wait", "send", "done"}
  /\ tasks \in [Tasks -> {"off", "run", "abort", "done"}]
  /\ fromTun \in 0..MaxPackets /\ toTun \in 0..MaxPackets
  /\ shutdown \in BOOLEAN /\ ioError \in BOOLEAN /\ ws \in BOOLEAN

EngineInit ==
  /\ main = "idle" /\ ws \in BOOLEAN
  /\ reader = "off" /\ writer = "off" /\ tasks = [t \in Tasks |-> "off"]
  /\ fromTun = 0 /\ toTun = 0 /\ shutdown = FALSE /\ ioError = FALSE
  /\ read = 0 /\ written = 0

Init == AdapterInit /\ EngineInit

\* Tunnel and connect_to's frame hold a sender of to_tun, and so does the
\* receiving task.  The senders of from_tun are the reader alone.
Running(t) == tasks[t] \in {"run", "abort"}
Senders == main \in {"first", "wait", "up"} \/ Running("recv")

Aborted == [t \in Tasks |-> IF tasks[t] = "run" THEN "abort" ELSE tasks[t]]

\* What is moved when only one variable of the engine's is.
Idle(x) == UNCHANGED <<adapterVars, ws, x>>

-----------------------------------------------------------------------------

\* connect_to, once the adapter is open: the bridge is spawned first...
BridgeStarts ==
  /\ main = "idle" /\ phase = "open"
  /\ main' = "bind"
  /\ tasks' = IF ws THEN [tasks EXCEPT !["bridge"] = "run"] ELSE tasks
  /\ Idle(<<reader, writer, fromTun, toTun, shutdown, ioError, read, written>>)

\* ...a key, a bind, a connect or later the first send may fail: `?` drops the
\* handles of what has been spawned, which goes on...
Refused ==
  /\ main \in {"bind", "first"} \/ (main = "idle" /\ phase = "open")
  /\ main' = "refused"
  /\ Idle(<<reader, writer, tasks, fromTun, toTun, shutdown, ioError, read, written>>)

\* ...then both threads and the tasks, and the first handshake message.
Spawns ==
  /\ main = "bind"
  /\ main' = "first" /\ reader' = "recv" /\ writer' = "wait"
  /\ tasks' = [t \in Tasks |-> IF t = "bridge" THEN tasks[t] ELSE "run"]
  /\ Idle(<<fromTun, toTun, shutdown, ioError, read, written>>)

SendsFirst ==
  /\ main = "first"
  /\ main' = "wait"
  /\ Idle(<<reader, writer, tasks, fromTun, toTun, shutdown, ioError, read, written>>)

HandshakeDone ==
  /\ main = "wait"
  /\ main' = "up"
  /\ Idle(<<reader, writer, tasks, fromTun, toTun, shutdown, ioError, read, written>>)

\* Mutant of TimesOut: the tasks are left running.
TimesOutDetached ==
  /\ main = "wait"
  /\ main' = "timeout" /\ shutdown' = TRUE
  /\ Idle(<<reader, writer, tasks, fromTun, toTun, ioError, read, written>>)

\* No handshake: the tasks are told to stop, and nobody waits for them.
TimesOut ==
  /\ main = "wait"
  /\ main' = "timeout" /\ shutdown' = TRUE /\ tasks' = Aborted
  /\ Idle(<<reader, writer, fromTun, toTun, ioError, read, written>>)

\* Tunnel::close asks, drops its sender, and waits.
CloseBegins ==
  /\ main = "up"
  /\ main' = "closing" /\ shutdown' = TRUE /\ tasks' = Aborted
  /\ Idle(<<reader, writer, fromTun, toTun, ioError, read, written>>)

CloseEnds ==
  /\ main = "closing" /\ \A t \in Tasks : tasks[t] \in {"off", "done"}
  /\ main' = "closed"
  /\ Idle(<<reader, writer, tasks, fromTun, toTun, shutdown, ioError, read, written>>)

TaskStops(t) ==
  /\ tasks[t] = "abort"
  /\ tasks' = [tasks EXCEPT ![t] = "done"]
  /\ Idle(<<main, reader, writer, fromTun, toTun, shutdown, ioError, read, written>>)

-----------------------------------------------------------------------------

\* The read thread: tun.recv returns a packet, or an error; after shutdown of
\* the session always an error.
Reads ==
  /\ reader = "recv"
  /\ \/ phase # "closed" /\ read < MaxPackets /\ reader' = "push" /\ read' = read + 1 /\ UNCHANGED ioError
     \/ phase # "closed" /\ reader' = "done" /\ ioError' = TRUE /\ UNCHANGED read
     \/ phase = "closed" /\ reader' = "done" /\ UNCHANGED <<read, ioError>>
  /\ Idle(<<main, writer, tasks, fromTun, toTun, shutdown, written>>)

\* The packet goes to the channel unless its receiver is gone; then the flag is
\* looked at.
Pushes ==
  /\ reader = "push"
  /\ IF tasks["send"] = "done" THEN reader' = "done" /\ UNCHANGED fromTun
     ELSE reader' = (IF shutdown THEN "done" ELSE "recv") /\ fromTun' = fromTun + 1
  /\ Idle(<<main, writer, tasks, toTun, shutdown, ioError, read, written>>)

\* The task that takes it encrypts and sends it, or drops it as IPv6; without a
\* reader and a packet it ends.  A task asked to stop may go on until it waits.
Takes ==
  /\ Running("send")
  /\ IF fromTun > 0 THEN fromTun' = fromTun - 1 /\ UNCHANGED tasks
     ELSE reader = "done" /\ tasks' = [tasks EXCEPT !["send"] = "done"] /\ UNCHANGED fromTun
  /\ Idle(<<main, reader, writer, toTun, shutdown, ioError, read, written>>)

\* A datagram decrypts to a packet; if the writer is gone the task returns.
Receives ==
  /\ Running("recv") /\ written < MaxPackets
  /\ written' = written + 1
  /\ IF writer = "done" THEN tasks' = [tasks EXCEPT !["recv"] = "done"] /\ UNCHANGED toTun
     ELSE toTun' = toTun + 1 /\ UNCHANGED tasks
  /\ Idle(<<main, reader, writer, fromTun, shutdown, ioError, read>>)

\* Mutant of WriterTakes: it leaves when its channel is empty.
WriterLeavesEarly ==
  /\ writer = "wait"
  /\ IF toTun > 0 THEN writer' = "send" /\ toTun' = toTun - 1
     ELSE writer' = "done" /\ UNCHANGED toTun
  /\ Idle(<<main, reader, tasks, fromTun, shutdown, ioError, read, written>>)

\* The write thread drains its channel and ends when no sender is left.
WriterTakes ==
  /\ writer = "wait"
  /\ IF toTun > 0 THEN writer' = "send" /\ toTun' = toTun - 1
     ELSE ~Senders /\ writer' = "done" /\ UNCHANGED toTun
  /\ Idle(<<main, reader, tasks, fromTun, shutdown, ioError, read, written>>)

\* tun.send; one failure, such as a full ring, ends the thread.
Writes ==
  /\ writer = "send"
  /\ \/ writer' = "wait" /\ UNCHANGED ioError
     \/ writer' = "done" /\ ioError' = (ioError \/ phase # "closed")
  /\ Idle(<<main, reader, tasks, fromTun, toTun, shutdown, read, written>>)

-----------------------------------------------------------------------------

\* The adapter is dropped when the dial has failed or the tunnel is closed.
DropsAdapter ==
  /\ main \in {"refused", "timeout", "closed"}
  /\ Dropped
  /\ UNCHANGED engineVars

\* Both threads hold the device, and with it the adapter's session.
Holders == {x \in {"reader", "writer"} : (IF x = "reader" THEN reader ELSE writer) \in {"recv", "push", "wait", "send"}}

Releases ==
  /\ phase = "closed" /\ Holders = {}
  /\ \E e \in inPlace : OnAdapter(e)
  /\ Released
  /\ UNCHANGED engineVars

Connecting ==
  BridgeStarts \/ Refused \/ Spawns \/ SendsFirst \/ HandshakeDone \/ TimesOut \/ CloseEnds

Next ==
  \/ Opening /\ UNCHANGED engineVars
  \/ Dropping /\ UNCHANGED engineVars
  \/ Connecting \/ CloseBegins \/ DropsAdapter \/ Releases
  \/ \E t \in Tasks : TaskStops(t)
  \/ Reads \/ Pushes \/ Takes \/ Receives \/ WriterTakes \/ Writes

\* Commands return, threads and tasks run, the handshake has its deadline;
\* nobody has to disconnect, and neither packets nor errors have to come.
Fairness ==
  /\ WF_vars((Opening \/ Dropping) /\ UNCHANGED engineVars)
  /\ WF_vars(Connecting) /\ WF_vars(DropsAdapter) /\ WF_vars(Releases)
  /\ \A t \in Tasks : WF_vars(TaskStops(t))
  /\ WF_vars(phase = "closed" /\ Reads) /\ WF_vars(Pushes) /\ WF_vars(Takes)
  /\ WF_vars(WriterTakes) /\ WF_vars(Writes)

Spec == Init /\ [][Next]_vars /\ Fairness

-----------------------------------------------------------------------------

\* While the tunnel is up and the device has refused nothing, both directions
\* are pumped: neither thread and no task has ended.
UpMeansPumping ==
  main = "up" /\ ~ioError =>
    /\ reader # "done" /\ writer # "done"
    /\ \A t \in Tasks : tasks[t] = (IF t = "bridge" /\ ~ws THEN "off" ELSE "run")

\* A tunnel that is closed, or whose handshake timed out, ends: its threads and
\* tasks stop, and the adapter goes with everything that is on it.  (After a
\* failed first send the receiving task keeps the writer, and the adapter.)
EngineEnds ==
  main \in {"closing", "timeout"} ~>
    /\ Holders = {} /\ \A t \in Tasks : tasks[t] \in {"off", "done"}
    /\ \A e \in inPlace : ~OnAdapter(e)

=============================================================================
