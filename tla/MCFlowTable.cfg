\* Two peers sharing four permits, at most one flow each, two threads.
CONSTANTS
  Peers = {p1, p2}
  Nobody = nobody
  Flows = {f1, f2, f3, f4}
  MaxFlows = 4
  MaxFlowsPerPeer = 1
  Threads = 2
  MaxBacklog = 1
SPECIFICATION FairSpec
INVARIANTS
  TypeOK
  CountsExact
  PermitsBalance
  PeerShare
PROPERTIES
  CapRefusalsAreDue
  OnlyRunningFlowsCount
