------------------------------ MODULE MCFraming ------------------------------
(* The instance of Framing that TLC checks: words of 4 bits instead of 32,   *)
(* so that lengths on both sides of every limit are a few numbers.           *)
EXTENDS Framing

MCSize == 0..17
=============================================================================
