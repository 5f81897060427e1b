---------------------------- MODULE MCViewServer ----------------------------
(* Three or four requests for two projects, and room for two sessions.     *)
EXTENDS ViewServer, TLC

CONSTANTS p1, p2, r1, r2, r3, r4

ThreeOfTwo == (r1 :> p1) @@ (r2 :> p1) @@ (r3 :> p2)
FourOfTwo  == ThreeOfTwo @@ (r4 :> p2)
=============================================================================
