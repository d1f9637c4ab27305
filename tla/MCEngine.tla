------------------------------ MODULE MCEngine ------------------------------
(* A TLC instance of Engine.  The computer has two links, eth with the best   *)
(* default route and wifi, each with a LAN.  On eth there are also an IPv6    *)
(* prefix and a route to a network behind another gateway.                    *)
EXTENDS Engine

Row(d, g, l, m) == [dest |-> d, gw |-> g, link |-> l, metric |-> m]
MCTable == <<Row("0/0", "gw2", "wifi", 50), Row("0/0", "gw", "eth", 25),
             Row("lan", OnLink, "eth", 281), Row("self", OnLink, "eth", 281), Row("lan2", OnLink, "wifi", 300),
             Row("corp", "gw3", "eth", 26)>>
MCV6Rows == {"::/0", "prefix6"}

\* A full tunnel; one whose network is the LAN itself, with IPv6 routed and
\* one resolver twice; a split one without resolvers.
MCConfs ==
  {[net |-> "tun", dns |-> <<"dns", "dns6">>, allowed |-> <<"0/0">>],
   [net |-> "lan", dns |-> <<"dns", "dns">>, allowed |-> <<"0/0", "::/1">>],
   [net |-> "tun", dns |-> <<>>, allowed |-> <<"tun">>]}

\* gw and a printer on the LAN, a disk on the other, an office behind gw3, a host
\* of the prefix, the server, the resolvers, one host beyond in each family, one
\* in the tunnel.
MCWithin ==
  [gw |-> {"0/0", "0/1", "lan", "gw"}, printer |-> {"0/0", "0/1", "lan"}, disk |-> {"0/0", "0/1", "lan2"},
   office |-> {"0/0", "0/1", "corp"},
   near6 |-> {"::/0", "::/1", "prefix6"}, srv |-> {"0/0", "128/1", "srv"}, dns |-> {"0/0", "0/1", "dns"},
   dns6 |-> {"::/0", "::/1", "dns6"}, web |-> {"0/0", "128/1"}, web6 |-> {"::/0", "8000::/1"},
   inner |-> {"0/0", "0/1", "tun"}]
MCRank ==
  [d \in {"0/0", "::/0", "0/1", "128/1", "::/1", "8000::/1", "lan", "lan2", "corp", "tun", "prefix6", "self", "gw", "srv", "dns", "dns6"} |->
     CASE d \in {"0/0", "::/0"} -> 0
       [] d \in {"0/1", "128/1", "::/1", "8000::/1"} -> 1
       [] d \in {"lan", "lan2", "corp", "tun", "prefix6"} -> 24
       [] OTHER -> 32]
=============================================================================
