------------------------- MODULE MCObsidianAdapter --------------------------
(* Two projects whose directories have the same name; one has a config.    *)
EXTENDS ObsidianAdapter, TLC

CONSTANTS p, q, v, w, a, b

SameName == [x \in Projects |-> a]

EitherVault == Permutations({v, w})
=============================================================================
