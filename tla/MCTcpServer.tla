---------------------------- MODULE MCTcpServer ----------------------------
(* Connections are interchangeable: no constant or initial state tells them *)
(* apart.  Used by the runs that check no liveness property.                *)
EXTENDS TcpServer

Symmetry == Permutations(Conns)
=============================================================================
