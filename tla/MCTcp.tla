-------------------------------- MODULE MCTcp --------------------------------
(* A TLC instance of TcpStream: the constants are in the .cfg files.         *)
EXTENDS TcpStream
=============================================================================
