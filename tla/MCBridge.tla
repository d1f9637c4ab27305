------------------------------- MODULE MCBridge -------------------------------
(* TLC instance of Bridge; its constants are given by the .cfg.              *)
EXTENDS Bridge
=============================================================================
