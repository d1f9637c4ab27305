------------------------------ MODULE MCDatapath ------------------------------
(* A TLC instance of Datapath: two peers, an address each inside the tunnel,  *)
(* one of them roaming between two outside, and one host on the internet.    *)
EXTENDS Datapath

MCPeers == {"A", "B"}
MCIPs == {"ipA", "ipB", "host"}
MCOwner == [ip \in MCIPs |-> CASE ip = "ipA" -> "A" [] ip = "ipB" -> "B" [] OTHER -> "nobody"]
MCAllowedDst == {"host"}
MCAddrs == {"a1", "a2", "b1"}
MCAddrsOf == [p \in MCPeers |-> IF p = "A" THEN {"a1", "a2"} ELSE {"b1"}]
=============================================================================
