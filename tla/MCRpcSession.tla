---------------------------- MODULE MCRpcSession ----------------------------
(* The instances of RpcSession that TLC checks. *)
EXTENDS RpcSession
=============================================================================
