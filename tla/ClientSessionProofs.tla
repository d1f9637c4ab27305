-------------------------- MODULE ClientSessionProofs --------------------------
(***************************************************************************)
(* What the session mutex and the guards of connect and disconnect keep in *)
(* order, for any number of dials: one adapter, a session that adds up, no *)
(* tasks without an owner, and a Quit that leaves nothing of the tunnel it *)
(* was asked to end.                                                       *)
(***************************************************************************)
EXTENDS ClientSession, FiniteSetTheorems, TLAPS

\* A dial in progress, from its number being taken to its answer.
Trying == conn \in {"resolving", "opening", "handshake", "dialed"}

\* The window has one command in hand: that is why there is one dial.
WindowBusy ==
  /\ conn # "idle" => ui = "connect"
  /\ disc["window"] # "idle" => ui = "disconnect"

\* Who holds the mutex across an await is the one disconnect that closes.
OneCloser ==
  /\ \A c \in Callers : disc[c] = "closing" <=> lock = c
  /\ lock = "free" => closing = None
  /\ lock # "free" => tunnel = None /\ closing = adapter

\* While a connect has an answer to come, the session is empty.
NoTunnelYet == conn \notin {"idle", "start"} => tunnel = None /\ adapter = None

\* Numbers are used once.
Numbered ==
  /\ \A n \in {tunnel, adapter, closing} \cup detached \cup atQuit : n <= dials
  /\ conn = "start" => dials < MaxDials
  /\ Trying => dials > 0 /\ dials \notin detached \cup atQuit
  /\ tunnel \notin detached /\ closing \notin detached

\* Of what Quit was asked to end, only what a disconnect still has to take or
\* to end is left.
QuitPending ==
  /\ disc["quit"] = "idle" => atQuit = {}
  /\ atQuit \cap (inPlace \cup running) \subseteq {tunnel, closing}
  /\ atQuit \cap detached = {}

Applied == inPlace = Dialing \cup ({adapter} \ {None})

IInv ==
  /\ TypeOK /\ WindowBusy /\ OneCloser /\ NoTunnelYet /\ Numbered
  /\ Applied /\ SessionAddsUp /\ EnginesOwned
  /\ QuitPending /\ QuitRestoresTunnel

-----------------------------------------------------------------------------

\* The invariant holds at first.
LEMMA InitIInv == Init => IInv
<1> SUFFICES ASSUME Init PROVE IInv
  OBVIOUS
<1>a. disc \in [Callers -> {"idle", "begin", "closing", "done"}]
  BY DEF Init
<1>b. lock \in Callers \cup {"free"} /\ state \in States /\ last \in States
  BY DEF Init, States
<1>c. {tunnel, adapter, closing} \subseteq Dials \cup {None} /\ dials \in 0..MaxDials
  BY ClientAssumption DEF Init, None
<1>d. \A s \in {inPlace, running, detached, atQuit} : s \subseteq Dials
  BY DEF Init
<1>e. exited \in BOOLEAN
  BY DEF Init
<1>1. TypeOK
  BY <1>a, <1>b, <1>c, <1>d, <1>e DEF Init, TypeOK
<1>2. WindowBusy /\ OneCloser /\ NoTunnelYet /\ SessionAddsUp
  BY DEF Init, WindowBusy, OneCloser, NoTunnelYet, SessionAddsUp, Callers, None
<1>3. Numbered
  BY DEF Init, Numbered, Trying, None
<1>4. Applied /\ EnginesOwned /\ QuitPending /\ QuitRestoresTunnel
  BY DEF Init, Applied, EnginesOwned, Dialing, QuitPending, QuitRestoresTunnel, Callers, None
<1> QED BY <1>1, <1>2, <1>3, <1>4 DEF IInv

\* What the invariant is about stays as it is: a status painted, an install
\* waiting its turn, the end of the process.
LEMMA QuietKeeps ==
  ASSUME IInv, TypeOK',
         UNCHANGED <<session, ui, conn, dials, disc, closing, inPlace, running, detached, atQuit>>
  PROVE  IInv'
<1>1. WindowBusy' /\ OneCloser' /\ NoTunnelYet' /\ SessionAddsUp'
  BY DEF IInv, WindowBusy, OneCloser, NoTunnelYet, SessionAddsUp, session
<1>2. Numbered' /\ Applied' /\ EnginesOwned'
  BY DEF IInv, Numbered, Trying, Applied, Dialing, EnginesOwned, session
<1>3. QuitPending' /\ QuitRestoresTunnel'
  BY DEF IInv, QuitPending, QuitRestoresTunnel, session
<1> QED BY <1>1, <1>2, <1>3 DEF IInv

\* Such steps.
LEMMA QuietStepsKeep ==
  ASSUME IInv, Paint \/ Exit \/ ChooseInstall \/ InstallRestarts \/ InstallFails
  PROVE  IInv'
<1>1. CASE Paint
  <2>1. TypeOK'
    BY <1>1 DEF IInv, Paint, TypeOK, session
  <2> QED BY <1>1, <2>1, QuietKeeps DEF Paint
<1>2. CASE Exit
  <2>1. TypeOK'
    BY <1>2 DEF IInv, Exit, TypeOK, session
  <2> QED BY <1>2, <2>1, QuietKeeps DEF Exit
<1>3. CASE ChooseInstall
  <2>1. TypeOK'
    BY <1>3 DEF IInv, ChooseInstall, TypeOK, session
  <2> QED BY <1>3, <2>1, QuietKeeps DEF ChooseInstall
<1>4. CASE InstallRestarts
  <2>1. TypeOK'
    BY <1>4 DEF IInv, InstallRestarts, TypeOK, session
  <2> QED BY <1>4, <2>1, QuietKeeps DEF InstallRestarts
<1>5. CASE InstallFails
  <2>1. TypeOK'
    BY <1>5 DEF IInv, InstallFails, TypeOK, session
  <2> QED BY <1>5, <2>1, QuietKeeps DEF InstallFails
<1> QED BY <1>1, <1>2, <1>3, <1>4, <1>5

-----------------------------------------------------------------------------
(* The window.  It starts a command only when it awaits none.               *)

LEMMA ClickConnectKeeps ==
  ASSUME IInv, ClickConnect
  PROVE  IInv'
<1>1. TypeOK'
  BY DEF IInv, ClickConnect, TypeOK, session, States
<1>2. WindowBusy'
  BY DEF IInv, ClickConnect, WindowBusy
<1>3. NoTunnelYet'
  BY DEF IInv, ClickConnect, NoTunnelYet
<1>4. Numbered'
  BY DEF IInv, ClickConnect, Numbered, Trying, session
<1>5. Applied'
  BY DEF IInv, ClickConnect, WindowBusy, Applied, Dialing, session
<1>6. EnginesOwned'
  BY DEF IInv, ClickConnect, WindowBusy, Dialing, EnginesOwned, session
<1>7. OneCloser' /\ SessionAddsUp' /\ QuitPending' /\ QuitRestoresTunnel'
  BY DEF IInv, ClickConnect, OneCloser, SessionAddsUp, QuitPending, QuitRestoresTunnel, session
<1> QED BY <1>1, <1>2, <1>3, <1>4, <1>5, <1>6, <1>7 DEF IInv

\* A disconnect begins.
LEMMA ClickDisconnectKeeps ==
  ASSUME IInv, ClickDisconnect
  PROVE  IInv'
<1>1. TypeOK'
  BY DEF IInv, ClickDisconnect, TypeOK, session
<1>2. WindowBusy'
  BY DEF IInv, ClickDisconnect, WindowBusy
<1>3. OneCloser'
  BY DEF IInv, ClickDisconnect, WindowBusy, OneCloser, session
<1>4. QuitPending'
  BY DEF IInv, ClickDisconnect, QuitPending, session
<1>5. QuitRestoresTunnel'
  BY DEF IInv, ClickDisconnect, QuitRestoresTunnel
<1>6. NoTunnelYet' /\ Numbered' /\ Applied' /\ SessionAddsUp' /\ EnginesOwned'
  BY DEF IInv, ClickDisconnect, NoTunnelYet, Numbered, Trying, Applied, Dialing, SessionAddsUp,
         EnginesOwned, session
<1> QED BY <1>1, <1>2, <1>3, <1>4, <1>5, <1>6 DEF IInv

-----------------------------------------------------------------------------
(* connect: the session is empty until its dial has an answer.              *)

LEMMA ConnectStartsKeeps ==
  ASSUME IInv, ConnectStarts
  PROVE  IInv'
<1>1. TypeOK'
  BY ClientAssumption DEF IInv, ConnectStarts, TypeOK, Numbered, States
<1>2. WindowBusy'
  BY DEF IInv, ConnectStarts, WindowBusy
<1>3. NoTunnelYet'
  BY DEF IInv, ConnectStarts, NoTunnelYet, SessionAddsUp
<1>4. Numbered'
  BY DEF IInv, ConnectStarts, TypeOK, Numbered, Trying, Dials, None
<1>5. Applied'
  BY DEF IInv, ConnectStarts, Applied, Dialing
<1>6. SessionAddsUp'
  BY DEF IInv, ConnectStarts, SessionAddsUp
<1>7. EnginesOwned'
  BY DEF IInv, ConnectStarts, Dialing, EnginesOwned
<1>8. OneCloser' /\ QuitPending' /\ QuitRestoresTunnel'
  BY DEF IInv, ConnectStarts, OneCloser, QuitPending, QuitRestoresTunnel
<1> QED BY <1>1, <1>2, <1>3, <1>4, <1>5, <1>6, <1>7, <1>8 DEF IInv

\* The name is resolved, or is not.
LEMMA ResolvesKeeps ==
  ASSUME IInv, Resolves
  PROVE  IInv'
<1>1. TypeOK'
  BY DEF IInv, Resolves, TypeOK, session
<1>2. WindowBusy'
  BY DEF IInv, Resolves, WindowBusy
<1>3. NoTunnelYet'
  BY DEF IInv, Resolves, NoTunnelYet, session
<1>4. Numbered'
  BY DEF IInv, Resolves, Numbered, Trying, session
<1>5. Applied'
  BY DEF IInv, Resolves, Applied, Dialing, session
<1>6. EnginesOwned'
  BY DEF IInv, Resolves, Dialing, EnginesOwned, session
<1>7. OneCloser' /\ SessionAddsUp' /\ QuitPending' /\ QuitRestoresTunnel'
  BY DEF IInv, Resolves, OneCloser, SessionAddsUp, QuitPending, QuitRestoresTunnel, session
<1> QED BY <1>1, <1>2, <1>3, <1>4, <1>5, <1>6, <1>7 DEF IInv

\* The adapter is opened with its routes, or is not.
LEMMA OpensKeeps ==
  ASSUME IInv, Opens
  PROVE  IInv'
<1>1. TypeOK'
  BY DEF IInv, Opens, TypeOK, Numbered, Trying, Applied, session, Dials
<1>2. WindowBusy'
  BY DEF IInv, Opens, WindowBusy
<1>3. NoTunnelYet'
  BY DEF IInv, Opens, NoTunnelYet, session
<1>4. Numbered'
  BY DEF IInv, Opens, Numbered, Trying, session
<1>5. Applied'
  BY DEF IInv, Opens, Applied, Dialing, session
<1>6. EnginesOwned'
  BY DEF IInv, Opens, Dialing, EnginesOwned, session
<1>7. QuitPending'
  BY DEF IInv, Opens, Numbered, Trying, QuitPending, session
<1>8. QuitRestoresTunnel'
  BY DEF IInv, Opens, Numbered, Trying, QuitRestoresTunnel
<1>9. OneCloser' /\ SessionAddsUp'
  BY DEF IInv, Opens, OneCloser, SessionAddsUp, session
<1> QED BY <1>1, <1>2, <1>3, <1>4, <1>5, <1>6, <1>7, <1>8, <1>9 DEF IInv

\* The handshake is answered.
LEMMA HandshakesKeeps ==
  ASSUME IInv, Handshakes
  PROVE  IInv'
<1>1. TypeOK'
  BY DEF IInv, Handshakes, TypeOK, session
<1>2. WindowBusy'
  BY DEF IInv, Handshakes, WindowBusy
<1>3. NoTunnelYet'
  BY DEF IInv, Handshakes, NoTunnelYet, session
<1>4. Numbered'
  BY DEF IInv, Handshakes, Numbered, Trying, session
<1>5. Applied'
  BY DEF IInv, Handshakes, Applied, Dialing, session
<1>6. EnginesOwned'
  BY DEF IInv, Handshakes, Dialing, EnginesOwned, session
<1>7. OneCloser' /\ SessionAddsUp' /\ QuitPending' /\ QuitRestoresTunnel'
  BY DEF IInv, Handshakes, OneCloser, SessionAddsUp, QuitPending, QuitRestoresTunnel, session
<1> QED BY <1>1, <1>2, <1>3, <1>4, <1>5, <1>6, <1>7 DEF IInv

\* It is not: adapter and tasks go.
LEMMA HandshakeTimesOutKeeps ==
  ASSUME IInv, HandshakeTimesOut
  PROVE  IInv'
<1>1. TypeOK'
  BY DEF IInv, HandshakeTimesOut, TypeOK, Applied, session
<1>2. WindowBusy'
  BY DEF IInv, HandshakeTimesOut, WindowBusy
<1>3. NoTunnelYet'
  BY DEF IInv, HandshakeTimesOut, NoTunnelYet, session
<1>4. Numbered'
  BY DEF IInv, HandshakeTimesOut, Numbered, Trying, session
<1>5. Applied'
  BY DEF IInv, HandshakeTimesOut, NoTunnelYet, Applied, Dialing, session
<1>6. EnginesOwned'
  BY DEF IInv, HandshakeTimesOut, OneCloser, NoTunnelYet, Numbered, Trying, Dialing,
         EnginesOwned, session
<1>7. QuitPending'
  BY DEF IInv, HandshakeTimesOut, QuitPending, session
<1>8. QuitRestoresTunnel'
  BY DEF IInv, HandshakeTimesOut, QuitRestoresTunnel
<1>9. OneCloser' /\ SessionAddsUp'
  BY DEF IInv, HandshakeTimesOut, OneCloser, SessionAddsUp, session
<1> QED BY <1>1, <1>2, <1>3, <1>4, <1>5, <1>6, <1>7, <1>8, <1>9 DEF IInv

\* The tasks outlive their handles, which the dial has dropped.
LEMMA FirstSendFailsKeeps ==
  ASSUME IInv, FirstSendFails
  PROVE  IInv'
<1>1. TypeOK'
  BY DEF IInv, FirstSendFails, TypeOK, Applied, Dialing, session
<1>2. WindowBusy'
  BY DEF IInv, FirstSendFails, WindowBusy
<1>3. NoTunnelYet'
  BY DEF IInv, FirstSendFails, NoTunnelYet, session
<1>4. Numbered'
  BY DEF IInv, FirstSendFails, TypeOK, OneCloser, NoTunnelYet, Numbered, Trying, session, None
<1>5. Applied'
  BY DEF IInv, FirstSendFails, NoTunnelYet, Applied, Dialing, session
<1>6. EnginesOwned'
  BY DEF IInv, FirstSendFails, Dialing, EnginesOwned, session
<1>7. QuitPending'
  BY DEF IInv, FirstSendFails, Numbered, Trying, QuitPending, session
<1>8. QuitRestoresTunnel'
  BY DEF IInv, FirstSendFails, QuitRestoresTunnel
<1>9. OneCloser' /\ SessionAddsUp'
  BY DEF IInv, FirstSendFails, OneCloser, SessionAddsUp, session
<1> QED BY <1>1, <1>2, <1>3, <1>4, <1>5, <1>6, <1>7, <1>8, <1>9 DEF IInv

\* The session takes the tunnel and its adapter.
LEMMA ConnectSucceedsKeeps ==
  ASSUME IInv, ConnectSucceeds
  PROVE  IInv'
<1>1. TypeOK'
  BY DEF IInv, ConnectSucceeds, TypeOK, Applied, Dials, States, None
<1>2. WindowBusy'
  BY DEF IInv, ConnectSucceeds, WindowBusy
<1>3. OneCloser'
  BY DEF IInv, ConnectSucceeds, OneCloser
<1>4. NoTunnelYet'
  BY DEF IInv, ConnectSucceeds, NoTunnelYet
<1>5. Numbered'
  BY DEF IInv, ConnectSucceeds, TypeOK, Numbered, Trying
<1>6. Applied'
  BY DEF IInv, ConnectSucceeds, Numbered, Trying, Applied, Dialing, None
<1>7. SessionAddsUp'
  BY DEF IInv, ConnectSucceeds, Numbered, Trying, SessionAddsUp, None
<1>8. EnginesOwned'
  BY DEF IInv, ConnectSucceeds, NoTunnelYet, Numbered, Trying, Dialing, EnginesOwned, None
<1>9. QuitPending'
  BY DEF IInv, ConnectSucceeds, NoTunnelYet, Dialing, EnginesOwned, QuitPending
<1>10. QuitRestoresTunnel'
  BY DEF IInv, ConnectSucceeds, QuitRestoresTunnel
<1> QED BY <1>1, <1>2, <1>3, <1>4, <1>5, <1>6, <1>7, <1>8, <1>9, <1>10 DEF IInv

\* The session takes the error.
LEMMA ConnectFailsKeeps ==
  ASSUME IInv, ConnectFails
  PROVE  IInv'
<1>1. TypeOK'
  BY DEF IInv, ConnectFails, TypeOK, States
<1>2. WindowBusy'
  BY DEF IInv, ConnectFails, WindowBusy
<1>3. NoTunnelYet'
  BY DEF IInv, ConnectFails, NoTunnelYet
<1>4. Numbered'
  BY DEF IInv, ConnectFails, Numbered, Trying
<1>5. Applied'
  BY DEF IInv, ConnectFails, Applied, Dialing
<1>6. SessionAddsUp'
  BY DEF IInv, ConnectFails, NoTunnelYet, SessionAddsUp
<1>7. EnginesOwned'
  BY DEF IInv, ConnectFails, Dialing, EnginesOwned
<1>8. OneCloser' /\ QuitPending' /\ QuitRestoresTunnel'
  BY DEF IInv, ConnectFails, OneCloser, QuitPending, QuitRestoresTunnel
<1> QED BY <1>1, <1>2, <1>3, <1>4, <1>5, <1>6, <1>7, <1>8 DEF IInv

-----------------------------------------------------------------------------
(* disconnect, by any of its callers: what it takes it ends before it lets go. *)

LEMMA DisconnectTakesKeeps ==
  ASSUME IInv, NEW c \in Callers, DisconnectTakes(c)
  PROVE  IInv'
<1>1. TypeOK'
  BY DEF IInv, DisconnectTakes, TypeOK
<1>2. WindowBusy'
  BY DEF IInv, DisconnectTakes, WindowBusy
<1>3. OneCloser'
  BY DEF IInv, DisconnectTakes, TypeOK, OneCloser, SessionAddsUp, Callers
<1>4. NoTunnelYet'
  BY DEF IInv, DisconnectTakes, NoTunnelYet
<1>5. Numbered'
  BY DEF IInv, DisconnectTakes, OneCloser, Numbered, Trying
<1>6. SessionAddsUp'
  BY DEF IInv, DisconnectTakes, SessionAddsUp, Callers
<1>7. EnginesOwned'
  BY DEF IInv, DisconnectTakes, OneCloser, Dialing, EnginesOwned
<1>8. QuitPending'
  BY DEF IInv, DisconnectTakes, OneCloser, QuitPending
<1>9. QuitRestoresTunnel'
  BY DEF IInv, DisconnectTakes, QuitRestoresTunnel
<1>10. Applied'
  BY DEF IInv, DisconnectTakes, Applied, Dialing
<1> QED BY <1>1, <1>2, <1>3, <1>4, <1>5, <1>6, <1>7, <1>8, <1>9, <1>10 DEF IInv

\* The tasks are over, the adapter is dropped, the mutex let go.
LEMMA DisconnectEndsKeeps ==
  ASSUME IInv, NEW c \in Callers, DisconnectEnds(c)
  PROVE  IInv'
<1>1. TypeOK'
  BY DEF IInv, DisconnectEnds, SessionCleared, TypeOK, Applied, States
<1>2. WindowBusy'
  BY DEF IInv, DisconnectEnds, SessionCleared, TypeOK, WindowBusy
<1>3. OneCloser'
  BY DEF IInv, DisconnectEnds, SessionCleared, TypeOK, OneCloser, Callers
<1>4. NoTunnelYet'
  BY DEF IInv, DisconnectEnds, SessionCleared, NoTunnelYet
<1>5. Numbered'
  BY DEF IInv, DisconnectEnds, SessionCleared, OneCloser, Numbered, Trying
<1>6. Applied'
  BY DEF IInv, DisconnectEnds, SessionCleared, NoTunnelYet, Numbered, Trying, Applied, Dialing, None
<1>7. SessionAddsUp'
  BY DEF IInv, DisconnectEnds, SessionCleared, OneCloser, SessionAddsUp, Callers
<1>8. EnginesOwned'
  BY DEF IInv, DisconnectEnds, SessionCleared, OneCloser, NoTunnelYet, Numbered, Trying, Dialing,
         EnginesOwned, None
<1>9. QuitPending'
  BY DEF IInv, DisconnectEnds, SessionCleared, Numbered, Trying, Applied, Dialing, QuitPending
<1>10. QuitRestoresTunnel'
  BY DEF IInv, DisconnectEnds, SessionCleared, OneCloser, Numbered, Trying, Applied, Dialing,
         EnginesOwned, QuitPending, QuitRestoresTunnel
<1> QED BY <1>1, <1>2, <1>3, <1>4, <1>5, <1>6, <1>7, <1>8, <1>9, <1>10 DEF IInv

-----------------------------------------------------------------------------
(* Quit and the install.                                                    *)

LEMMA ChooseQuitKeeps ==
  ASSUME IInv, ChooseQuit
  PROVE  IInv'
<1>1. TypeOK'
  BY DEF IInv, ChooseQuit, TypeOK, session, Callers
<1>2. WindowBusy'
  BY DEF IInv, ChooseQuit, WindowBusy
<1>3. OneCloser'
  BY DEF IInv, ChooseQuit, OneCloser, session
<1>4. Numbered'
  BY DEF IInv, ChooseQuit, OneCloser, NoTunnelYet, Numbered, Trying, session
<1>5. QuitPending'
  BY DEF IInv, ChooseQuit, TypeOK, Numbered, QuitPending, session, Callers
<1>6. QuitRestoresTunnel'
  BY DEF IInv, ChooseQuit, QuitRestoresTunnel
<1>7. NoTunnelYet' /\ Applied' /\ SessionAddsUp' /\ EnginesOwned'
  BY DEF IInv, ChooseQuit, NoTunnelYet, Applied, Dialing, SessionAddsUp, EnginesOwned, session
<1> QED BY <1>1, <1>2, <1>3, <1>4, <1>5, <1>6, <1>7 DEF IInv

\* The install looks at the session, and disconnects if there is a tunnel.
LEMMA InstallLooksKeeps ==
  ASSUME IInv, InstallLooks
  PROVE  IInv'
<1>1. TypeOK'
  BY DEF IInv, InstallLooks, TypeOK, session
<1>2. WindowBusy'
  BY DEF IInv, InstallLooks, TypeOK, WindowBusy, Callers
<1>3. OneCloser'
  BY DEF IInv, InstallLooks, TypeOK, OneCloser, session
<1>4. QuitPending'
  BY DEF IInv, InstallLooks, TypeOK, QuitPending, session, Callers
<1>5. QuitRestoresTunnel'
  BY DEF IInv, InstallLooks, TypeOK, QuitRestoresTunnel, Callers
<1>6. NoTunnelYet' /\ Numbered' /\ Applied' /\ SessionAddsUp' /\ EnginesOwned'
  BY DEF IInv, InstallLooks, NoTunnelYet, Numbered, Trying, Applied, Dialing, SessionAddsUp,
         EnginesOwned, session
<1> QED BY <1>1, <1>2, <1>3, <1>4, <1>5, <1>6 DEF IInv

-----------------------------------------------------------------------------

\* Every step keeps the invariant.
LEMMA NextKeepsIInv == IInv /\ [Next]_vars => IInv'
<1> SUFFICES ASSUME IInv, [Next]_vars
             PROVE  IInv'
  OBVIOUS
<1>1. CASE Paint \/ Exit \/ ChooseInstall \/ InstallRestarts \/ InstallFails
  BY <1>1, QuietStepsKeep
<1>2. CASE ClickConnect \/ ClickDisconnect
  BY <1>2, ClickConnectKeeps, ClickDisconnectKeeps
<1>3. CASE Connecting
  <2>1. CASE ConnectStarts \/ Resolves \/ Opens \/ Handshakes
    BY <2>1, ConnectStartsKeeps, ResolvesKeeps, OpensKeeps, HandshakesKeeps
  <2>2. CASE HandshakeTimesOut \/ FirstSendFails \/ ConnectSucceeds \/ ConnectFails
    BY <2>2, HandshakeTimesOutKeeps, FirstSendFailsKeeps, ConnectSucceedsKeeps, ConnectFailsKeeps
  <2> QED BY <1>3, <2>1, <2>2 DEF Connecting
<1>4. CASE \E c \in Callers : Disconnecting(c)
  BY <1>4, DisconnectTakesKeeps, DisconnectEndsKeeps DEF Disconnecting
<1>5. CASE ChooseQuit \/ InstallLooks
  BY <1>5, ChooseQuitKeeps, InstallLooksKeeps
<1>6. CASE UNCHANGED vars
  <2>1. TypeOK'
    BY <1>6 DEF IInv, TypeOK, vars
  <2> QED BY <1>6, <2>1, QuietKeeps DEF vars, session
<1> QED BY <1>1, <1>2, <1>3, <1>4, <1>5, <1>6 DEF Next

\* The invariant of the session, for any number of dials (main.rs, connect to
\* install_update).
THEOREM InvariantHolds == Spec => []IInv
BY InitIInv, NextKeepsIInv, PTL DEF Spec

\* At most one adapter has its routes applied, and the session or the dial in
\* progress holds it (main.rs:110-150).
THEOREM OneAdapterOnly == Spec => []OneAdapter
<1>1. IInv => OneAdapter
  <2> SUFFICES ASSUME IInv PROVE OneAdapter
    OBVIOUS
  <2>1. inPlace = {} \/ \E n : inPlace = {n}
    <3>1. CASE conn \in {"handshake", "dialed"}
      BY <3>1 DEF IInv, Applied, NoTunnelYet, Dialing
    <3>2. CASE conn \notin {"handshake", "dialed"}
      BY <3>2 DEF IInv, Applied, Dialing
    <3> QED BY <3>1, <3>2
  <2>2. Cardinality(inPlace) \in {0, 1}
    BY <2>1, FS_EmptySet, FS_Singleton
  <2> QED BY <2>2 DEF IInv, Applied, OneAdapter
<1> QED BY <1>1, InvariantHolds, PTL

\* Whoever takes the mutex finds tunnel, adapter and state in agreement
\* (main.rs:110-150).
THEOREM SessionAgrees == Spec => []SessionAddsUp
<1>1. IInv => SessionAddsUp
  BY DEF IInv
<1> QED BY <1>1, InvariantHolds, PTL

\* The tasks of a tunnel have an owner, except those a failed first send has
\* detached (wgclient/src/lib.rs, connect_to).
THEOREM TasksHaveOwners == Spec => []EnginesOwned
<1>1. IInv => EnginesOwned
  BY DEF IInv
<1> QED BY <1>1, InvariantHolds, PTL

\* When Quit is done, nothing is left of the tunnel it was asked to end
\* (main.rs:306).
THEOREM QuitLeavesNothing == Spec => []QuitRestoresTunnel
<1>1. IInv => QuitRestoresTunnel
  BY DEF IInv
<1> QED BY <1>1, InvariantHolds, PTL
=============================================================================
