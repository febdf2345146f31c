----------------------------- MODULE MCTcpServer -----------------------------
(* Instance of TcpServer for TLC.  Connections and subloops are numbers    *)
(* with an order, so there is no symmetry.                                 *)
EXTENDS TcpServer
==============================================================================
