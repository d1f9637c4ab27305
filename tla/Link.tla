--------------------------------- MODULE Link ---------------------------------
(***************************************************************************)
(* What the WebSocket detour promises to WireGuard (crates/wsrelay): it is *)
(* a datagram link.  A datagram may be lost or overtaken, but it arrives   *)
(* at most once, and only if its source has sent it.                       *)
(***************************************************************************)
EXTENDS Naturals

CONSTANT Sources  \* local UDP addresses that use the bridge

VARIABLES
  sent,     \* how many datagrams each source has sent; they are numbered
  waiting,  \* those still on their way
  arrived   \* those that reached the target

Init ==
  /\ sent = [s \in Sources |-> 0]
  /\ waiting = [s \in Sources |-> {}]
  /\ arrived = [s \in Sources |-> {}]

Send(s) ==
  /\ sent' = [sent EXCEPT ![s] = @ + 1]
  /\ waiting' = [waiting EXCEPT ![s] = @ \cup {sent[s] + 1}]
  /\ UNCHANGED arrived

Deliver(s, n) ==
  /\ n \in waiting[s]
  /\ waiting' = [waiting EXCEPT ![s] = @ \ {n}]
  /\ arrived' = [arrived EXCEPT ![s] = @ \cup {n}]
  /\ UNCHANGED sent

Lose(s) ==
  /\ \E lost \in SUBSET waiting[s] : waiting' = [waiting EXCEPT ![s] = @ \ lost]
  /\ UNCHANGED <<sent, arrived>>

Next == \E s \in Sources :
  \/ Send(s)
  \/ \E n \in waiting[s] : Deliver(s, n)
  \/ Lose(s)

Spec == Init /\ [][Next]_<<sent, waiting, arrived>>
=============================================================================
