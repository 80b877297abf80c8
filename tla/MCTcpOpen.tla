----------------------------- MODULE MCTcpOpen -----------------------------
(* TcpOpen for TLC. *)
EXTENDS TcpOpen

NoClient == {}
AllClients == Clients
=============================================================================
