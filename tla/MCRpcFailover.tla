--------------------------- MODULE MCRpcFailover ---------------------------
(* Small instances of RpcFailover for TLC. *)
EXTENDS RpcFailover
=============================================================================
