--------------------------- MODULE MCClientSession ---------------------------
(* TLC instance of ClientSession; its only constant is given by the .cfg.    *)
EXTENDS ClientSession
=============================================================================
