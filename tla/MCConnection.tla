---------------------------- MODULE MCConnection ----------------------------
(* The instances of Connection that TLC checks.  Connections do not touch    *)
(* one another's state: one with and one without a timeout are enough.       *)
EXTENDS Connection
=============================================================================
