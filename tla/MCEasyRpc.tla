------------------------------ MODULE MCEasyRpc ------------------------------
(* The instance of EasyRpc that TLC checks. *)
EXTENDS EasyRpc
=============================================================================
