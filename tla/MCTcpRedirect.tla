--------------------------- MODULE MCTcpRedirect ---------------------------
(***************************************************************************)
(* Instances of TcpRedirect for TLC.                                       *)
(***************************************************************************)
EXTENDS TcpRedirect

CONSTANTS n1, n2
=============================================================================
