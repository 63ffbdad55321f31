---------------------------- MODULE MCRpcQueries ----------------------------
(***************************************************************************)
(* Small instances of RpcQueries for TLC: two queries, so that one can be  *)
(* sent by the method of the other and the two share a connection.         *)
(***************************************************************************)
EXTENDS RpcQueries
=============================================================================
