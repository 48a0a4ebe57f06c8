------------------------------ MODULE MCRouter ------------------------------
(* The instances of Router that TLC checks: one protocol name bound in both  *)
(* modes, which is what README.md:206 warns of, with two handlers to bind in *)
(* turn in one of them.                                                      *)
EXTENDS Router

CONSTANTS p, raw_p, call_p, call_p2

MCKey     == {<<"raw", p>>, <<"non_raw", p>>}
MCHandler == {raw_p, call_p, call_p2}
MCServes  == [h \in MCHandler |-> IF h = raw_p THEN <<"raw", p>> ELSE <<"non_raw", p>>]
MCVoid    == {raw_p, call_p2}
=============================================================================
