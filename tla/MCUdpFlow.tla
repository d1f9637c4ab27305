------------------------------ MODULE MCUdpFlow ------------------------------
(* TLC instances of UdpFlow: a plain flow and one to port 53, which share an *)
(* upstream that relays UDP but may fail to, each time it is asked.          *)
EXTENDS UdpFlow

UpInstance == [f \in Flows |-> "proxy"]
KindInstance == [f \in Flows |-> IF f = "other" THEN "udp" ELSE "dns"]
=============================================================================
