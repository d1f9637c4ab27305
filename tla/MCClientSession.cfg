\* Three dials, so that a dial can follow a failure and a disconnect.  The
\* process exits: the end of a behaviour is not a deadlock.
CONSTANT MaxDials = 3
SPECIFICATION FairSpec
INVARIANTS
  OneAdapter
  SessionAddsUp
  EnginesOwned
  QuitRestoresTunnel
PROPERTIES
  ConnectSettles
  DisconnectRestores
CHECK_DEADLOCK FALSE
