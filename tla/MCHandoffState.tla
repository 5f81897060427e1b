--------------------------- MODULE MCHandoffState ---------------------------
(* Two labels, one section of each kind, and a few edits between saves.    *)
EXTENDS HandoffState, TLC

Status == {"status"}
Lists  == {"tasks"}
Kept   == {"decisions"}

SameLabels == Permutations(Labels)
=============================================================================
