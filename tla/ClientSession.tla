---------------------------- MODULE ClientSession ----------------------------
(***************************************************************************)
(* The session of the Windows client (crates/client-win main.rs): what     *)
(* `connect`, `disconnect`, `install_update` and the Quit entry of the     *)
(* tray do to the one Session behind the async mutex, to the adapter and   *)
(* its routes, and to the tasks of the tunnel (wgclient connect_to).       *)
(*                                                                         *)
(* Every command is a task of its own.  `connect` gives up the mutex for   *)
(* as long as it dials; `disconnect` keeps it across close().await; the    *)
(* install looks at the session first and disconnects in a second lock     *)
(* section.  The window (ui/app.js) starts one command at a time, Quit and *)
(* the install do not ask it.                                              *)
(***************************************************************************)
EXTENDS Naturals, FiniteSets

CONSTANT MaxDials  \* model bound: dials in a run of the client

ASSUME ClientAssumption == MaxDials \in Nat \ {0}

VARIABLES
  lock,      \* the task holding the session mutex across an await, or "free"
  state,     \* Session.state
  tunnel,    \* Session.tunnel: the dial it came from, 0 for None
  adapter,   \* Session.adapter, likewise
  ui,        \* the command the window awaits: its `busy`
  last,      \* the state the window painted last
  conn,      \* the connect command: where its dial is
  dials,     \* dials started so far; the one in progress has this number
  disc,      \* the disconnect of each task that may run one
  closing,   \* the tunnel a disconnect took out of the session
  install,   \* the install_update command
  inPlace,   \* adapters whose address, routes and dns are applied
  running,   \* dials whose tunnel tasks run
  detached,  \* those nobody holds a handle of since a first send failed
  atQuit,    \* history: the tunnels up or closing when Quit was chosen
  exited     \* the process is gone

vars == <<lock, state, tunnel, adapter, ui, last, conn, dials, disc, closing,
          install, inPlace, running, detached, atQuit, exited>>

session == <<lock, state, tunnel, adapter>>

None == 0
Dials == 1..MaxDials
Callers == {"window", "quit", "install"}
States == {"disconnected", "connecting", "connected", "error"}

TypeOK ==
  /\ lock \in Callers \cup {"free"}
  /\ state \in States /\ last \in States
  /\ {tunnel, adapter, closing} \subseteq Dials \cup {None}
  /\ ui \in {"idle", "connect", "disconnect"}
  /\ conn \in {"idle", "start", "resolving", "opening", "handshake", "dialed", "failed"}
  /\ dials \in 0..MaxDials
  /\ disc \in [Callers -> {"idle", "begin", "closing", "done"}]
  /\ install \in {"idle", "look", "disconnect", "download"}
  /\ \A s \in {inPlace, running, detached, atQuit} : s \subseteq Dials
  /\ exited \in BOOLEAN

Init ==
  /\ lock = "free" /\ state = "disconnected" /\ last = "disconnected"
  /\ tunnel = None /\ adapter = None /\ closing = None /\ atQuit = {}
  /\ ui = "idle" /\ conn = "idle" /\ dials = 0
  /\ disc = [c \in Callers |-> "idle"]
  /\ install = "idle"
  /\ inPlace = {} /\ running = {} /\ detached = {}
  /\ exited = FALSE

-----------------------------------------------------------------------------

\* The window asks for the status (poll, tick) and paints it.
Paint ==
  /\ lock = "free"
  /\ last' = state
  /\ UNCHANGED <<session, ui, conn, dials, disc, closing, install, inPlace, running, detached, atQuit, exited>>

\* onAction while nothing is awaited; the button follows the painted state.
ClickConnect ==
  /\ ui = "idle" /\ last \in {"disconnected", "error"} /\ dials < MaxDials
  /\ ui' = "connect" /\ conn' = "start" /\ last' = "connecting"
  /\ UNCHANGED <<session, dials, disc, closing, install, inPlace, running, detached, atQuit, exited>>

ClickDisconnect ==
  /\ ui = "idle" /\ last = "connected"
  /\ ui' = "disconnect" /\ disc' = [disc EXCEPT !["window"] = "begin"]
  /\ UNCHANGED <<session, last, conn, dials, closing, install, inPlace, running, detached, atQuit, exited>>

-----------------------------------------------------------------------------

\* Mutant of ConnectStarts: it trusts the window, which painted a stale state.
ConnectUnchecked ==
  /\ conn = "start" /\ lock = "free"
  /\ conn' = "resolving" /\ state' = "connecting" /\ dials' = dials + 1
  /\ UNCHANGED <<lock, tunnel, adapter, ui, last, disc, closing, install, inPlace, running, detached, atQuit, exited>>

\* The first lock section of connect: refused when a tunnel is up.
ConnectStarts ==
  /\ conn = "start" /\ lock = "free"
  /\ IF tunnel # None
     THEN conn' = "idle" /\ ui' = "idle" /\ UNCHANGED <<state, dials>>
     ELSE conn' = "resolving" /\ state' = "connecting" /\ dials' = dials + 1 /\ UNCHANGED ui
  /\ UNCHANGED <<lock, tunnel, adapter, last, disc, closing, install, inPlace, running, detached, atQuit, exited>>

\* dial, with the mutex free: parse and resolve...
Resolves ==
  /\ conn = "resolving"
  /\ conn' \in {"opening", "failed"}
  /\ UNCHANGED <<session, ui, last, dials, disc, closing, install, inPlace, running, detached, atQuit, exited>>

\* ...open the adapter, which applies the routes (a failure undoes them)...
Opens ==
  /\ conn = "opening"
  /\ \/ conn' = "failed" /\ UNCHANGED <<inPlace, running>>
     \/ conn' = "handshake" /\ inPlace' = inPlace \cup {dials} /\ running' = running \cup {dials}
  /\ UNCHANGED <<session, ui, last, dials, disc, closing, install, detached, atQuit, exited>>

\* ...and wait for the handshake.
Handshakes ==
  /\ conn = "handshake"
  /\ conn' = "dialed"
  /\ UNCHANGED <<session, ui, last, dials, disc, closing, install, inPlace, running, detached, atQuit, exited>>

\* Mutant of HandshakeTimesOut: the tasks are left to themselves.
TimeoutLeaksTasks ==
  /\ conn = "handshake"
  /\ conn' = "failed"
  /\ inPlace' = inPlace \ {dials}
  /\ UNCHANGED <<session, ui, last, dials, disc, closing, install, running, detached, atQuit, exited>>

\* No handshake in time: the tasks are aborted, the adapter of dial is dropped.
HandshakeTimesOut ==
  /\ conn = "handshake"
  /\ conn' = "failed"
  /\ inPlace' = inPlace \ {dials}
  /\ running' = running \ {dials}
  /\ UNCHANGED <<session, ui, last, dials, disc, closing, install, detached, atQuit, exited>>

\* A bind, a connect or the first send fails: connect_to returns with `?` and
\* drops the handles of the tasks it has spawned, which detaches them.
FirstSendFails ==
  /\ conn = "handshake"
  /\ conn' = "failed"
  /\ inPlace' = inPlace \ {dials}
  /\ detached' = detached \cup {dials}
  /\ UNCHANGED <<session, ui, last, dials, disc, closing, install, running, atQuit, exited>>

\* The last lock section of connect.  Assigning the session's fields drops what
\* they held: an adapter undoes its routes, a tunnel just detaches its tasks.
ConnectSucceeds ==
  /\ conn = "dialed" /\ lock = "free"
  /\ state' = "connected" /\ tunnel' = dials /\ adapter' = dials
  /\ inPlace' = inPlace \ ({adapter} \ {dials})
  /\ conn' = "idle" /\ ui' = "idle"
  /\ UNCHANGED <<lock, last, dials, disc, closing, install, running, detached, atQuit, exited>>

ConnectFails ==
  /\ conn = "failed" /\ lock = "free"
  /\ state' = "error"
  /\ conn' = "idle" /\ ui' = "idle"
  /\ UNCHANGED <<lock, tunnel, adapter, last, dials, disc, closing, install, inPlace, running, detached, atQuit, exited>>

-----------------------------------------------------------------------------

\* Mutant of DisconnectTakes: the tunnel is closed after the mutex is let go.
DisconnectUnlocked(c) ==
  /\ disc[c] = "begin" /\ lock = "free"
  /\ closing' = tunnel /\ tunnel' = None
  /\ disc' = [disc EXCEPT ![c] = "closing"]
  /\ UNCHANGED <<lock, state, adapter, ui, last, conn, dials, install, inPlace, running, detached, atQuit, exited>>

\* disconnect, run by caller c: the mutex is taken, and the tunnel with it.
\* With a tunnel to close the mutex stays taken across the await.
DisconnectTakes(c) ==
  /\ disc[c] = "begin" /\ lock = "free"
  /\ lock' = c
  /\ closing' = tunnel /\ tunnel' = None
  /\ disc' = [disc EXCEPT ![c] = "closing"]
  /\ UNCHANGED <<state, adapter, ui, last, conn, dials, install, inPlace, running, detached, atQuit, exited>>

\* What disconnect leaves, whoever runs it; its caller carries on.
SessionCleared(c) ==
  /\ closing' = None /\ adapter' = None
  /\ state' = "disconnected"
  /\ disc' = [disc EXCEPT ![c] = IF c = "quit" THEN "done" ELSE "idle"]
  /\ ui' = IF c = "window" THEN "idle" ELSE ui
  /\ install' = IF c = "install" THEN "download" ELSE install
  /\ UNCHANGED <<tunnel, last, conn, dials, detached, atQuit, exited>>

\* Mutants of DisconnectEnds: the adapter is kept for the next dial...
DisconnectKeepsAdapter(c) ==
  /\ disc[c] = "closing"
  /\ running' = running \ {closing}
  /\ lock' = "free"
  /\ SessionCleared(c)
  /\ UNCHANGED inPlace

\* ...the tunnel is dropped, not closed...
DisconnectKeepsTasks(c) ==
  /\ disc[c] = "closing"
  /\ inPlace' = inPlace \ {adapter}
  /\ lock' = "free"
  /\ SessionCleared(c)
  /\ UNCHANGED running

\* ...the mutex is never let go...
DisconnectKeepsLock(c) ==
  /\ disc[c] = "closing"
  /\ running' = running \ {closing}
  /\ inPlace' = inPlace \ {adapter}
  /\ SessionCleared(c)
  /\ UNCHANGED lock

\* The tasks have stopped; the adapter is dropped, which restores the routes.
DisconnectEnds(c) ==
  /\ disc[c] = "closing"
  /\ running' = running \ {closing}
  /\ inPlace' = inPlace \ {adapter}
  /\ lock' = "free"
  /\ SessionCleared(c)

-----------------------------------------------------------------------------

\* Quit in the tray menu: disconnect, then exit.
ChooseQuit ==
  /\ disc["quit"] = "idle"
  /\ disc' = [disc EXCEPT !["quit"] = "begin"]
  /\ atQuit' = {tunnel, closing} \ {None}
  /\ UNCHANGED <<session, ui, last, conn, dials, closing, install, inPlace, running, detached, exited>>

Exit ==
  /\ disc["quit"] = "done"
  /\ exited' = TRUE
  /\ UNCHANGED <<session, ui, last, conn, dials, disc, closing, install, inPlace, running, detached, atQuit>>

\* install_update: an update exists...
ChooseInstall ==
  /\ install = "idle"
  /\ install' = "look"
  /\ UNCHANGED <<session, ui, last, conn, dials, disc, closing, inPlace, running, detached, atQuit, exited>>

\* ...is a tunnel up? if so it is disconnected, in lock sections of its own...
InstallLooks ==
  /\ install = "look" /\ lock = "free"
  /\ IF tunnel # None
     THEN install' = "disconnect" /\ disc' = [disc EXCEPT !["install"] = "begin"]
     ELSE install' = "download" /\ UNCHANGED disc
  /\ UNCHANGED <<session, ui, last, conn, dials, closing, inPlace, running, detached, atQuit, exited>>

\* ...and the app restarts behind the installer, or the download fails.
InstallRestarts ==
  /\ install = "download"
  /\ exited' = TRUE
  /\ UNCHANGED <<session, ui, last, conn, dials, disc, closing, install, inPlace, running, detached, atQuit>>

InstallFails ==
  /\ install = "download"
  /\ install' = "idle"
  /\ UNCHANGED <<session, ui, last, conn, dials, disc, closing, inPlace, running, detached, atQuit, exited>>

-----------------------------------------------------------------------------

\* Steps the runtime and the operating system bring about by themselves.
Connecting ==
  \/ ConnectStarts \/ Resolves \/ Opens \/ Handshakes \/ HandshakeTimesOut
  \/ FirstSendFails \/ ConnectSucceeds \/ ConnectFails

Disconnecting(c) == DisconnectTakes(c) \/ DisconnectEnds(c)

Next ==
  /\ ~exited
  /\ \/ Paint \/ ClickConnect \/ ClickDisconnect
     \/ Connecting
     \/ \E c \in Callers : Disconnecting(c)
     \/ ChooseQuit \/ Exit
     \/ ChooseInstall \/ InstallLooks \/ InstallRestarts \/ InstallFails

\* Commands make progress (the handshake has its timeout, aborted tasks end,
\* tokio's mutex is granted in order); nobody has to click anything.
Fairness ==
  /\ SF_vars(~exited /\ Connecting)
  /\ \A c \in Callers : SF_vars(~exited /\ Disconnecting(c))
  /\ WF_vars(~exited /\ Exit)

Spec == Init /\ [][Next]_vars

FairSpec == Spec /\ Fairness

-----------------------------------------------------------------------------

\* The dial in progress holds an adapter in a local variable.
Dialing == IF conn \in {"handshake", "dialed"} THEN {dials} ELSE {}

\* Routes are applied by one adapter at a time, and by one that somebody will
\* drop: the session or the dial in progress.  Two at once would undo each
\* other's identical routes.
OneAdapter ==
  /\ inPlace = Dialing \cup ({adapter} \ {None})
  /\ Cardinality(inPlace) <= 1

\* Whoever gets the mutex finds a session that adds up: a tunnel, its own
\* adapter and the state "connected" go together.
SessionAddsUp ==
  lock = "free" => /\ tunnel = adapter
                   /\ state = "connected" <=> tunnel # None

\* The tasks of a tunnel run only while somebody can stop them, except those
\* that a failed first send has detached.
EnginesOwned ==
  running = Dialing \cup ({tunnel, closing} \ {None}) \cup detached

\* By the time Quit exits, a tunnel that was up or being closed when it was
\* chosen has left nothing behind, whatever the window and the installer did
\* in between.
QuitRestoresTunnel ==
  disc["quit"] = "done" => atQuit \cap (inPlace \cup running) = {}

\* A connect always comes to an answer, and the window is free again.
ConnectSettles == (conn # "idle") ~> (conn = "idle" \/ exited)

\* A tunnel being closed takes its routes and its tasks with it.
DisconnectRestores ==
  \A n \in Dials : (closing = n) ~> (exited \/ (n \notin inPlace /\ n \notin running))

\* "Tear the tunnel down first so routes and dns are restored before the
\* process goes away" (main.rs:306), and the same before the installer
\* restarts the app (main.rs:230).
ExitRestores == exited => inPlace = {}

=============================================================================
