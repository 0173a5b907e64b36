---------------------------- MODULE MCTcpProbe ------------------------------
(***************************************************************************)
(* Module TcpProbe for TLC: two socks, some of them older than the probe,  *)
(* two processes, one of which the probe ignores, and the client ports     *)
(* switched on.                                                            *)
(***************************************************************************)
EXTENDS TcpProbe
=============================================================================
