------------------------------ MODULE MCTcpRelay ------------------------------
(***************************************************************************)
(* Connections on which the client pipelines queries and the upstream      *)
(* connection is reused, dies and is replaced.                             *)
(***************************************************************************)
EXTENDS TcpRelay
===============================================================================
