\* Two peers, one of which roams; isolation, routing and roaming.  Each makes a handshake and a data message.
CONSTANTS
  Peers <- MCPeers
  NoPeer = "nobody"
  Addrs <- MCAddrs
  NoAddr = "unknown"
  IPs <- MCIPs
  MaxSent = 2
  Owner <- MCOwner
  AllowedDst <- MCAllowedDst
  AddrsOf <- MCAddrsOf
  Loads = {"none", "outer", "inner"}
  Queue = 1
SPECIFICATION Spec
INVARIANTS
  TypeOK
  AnswersOwnPackets
  StackSeesOwnedPackets
  RepliesFindEndpoint
  SendsToUsedAddress
PROPERTY EndpointMovesUnlessLimited
