---------------------------- MODULE MCFlowTable ----------------------------
(* TLC instance of FlowTable: two peers, four permits, a cap of one. *)
EXTENDS FlowTable
=============================================================================
