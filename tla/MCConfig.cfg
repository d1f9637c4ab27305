\* Two peers with two keys and two upstreams, up to three networks.  A refused
\* file and a serving process take no further step.
CONSTANTS
  Width = 3
  AsV4 <- MCAsV4
  Special <- MCSpecial
  Private <- MCPrivate
  Tunnels <- MCTunnels
  FileNets <- MCFileNets
  Resolvers <- MCResolvers
  Keys = {"k1", "k2"}
  Upstreams = {"u0", "u1"}
  Global = "u0"
  None = None
  MaxPeers = 2
  MaxNets = 3
SPECIFICATION Spec
INVARIANTS
  PeersUnreachable
  OwnerAndUpstream
  RefusalsAreDue
CHECK_DEADLOCK FALSE
