---------------------------- MODULE MCRpcClient -----------------------------
(* Three calls over two connections of one client.                         *)
EXTENDS RpcClient
=============================================================================
