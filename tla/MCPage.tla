------------------------------- MODULE MCPage -------------------------------
(* Two nodes, one of which the second revision of the Map does not have.   *)
EXTENDS Page, TLC

CONSTANTS a, b

SecondWithoutB == [r \in 0..MaxChanges |-> IF r = 1 THEN {a} ELSE {a, b}]
=============================================================================
