\* A source that outlives its first client_peer, two permits at the relay.
CONSTANTS
  Sources = {s1}
  Peers = {w1, w2}
  None = none
  Conns = {c1, c2}
  Queue = 1
  Buffer = 1
  MaxSent = 2
SPECIFICATION FairSpec
INVARIANTS
  OnePeerPerSource
  OrderOnConnection
PROPERTIES
  LinkSpec
  Reconnects
  BridgeStops
CHECK_DEADLOCK FALSE
