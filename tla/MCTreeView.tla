----------------------------- MODULE MCTreeView -----------------------------
(* Two revisions of a tree: x over y over z, then y is gone and z moves up.*)
EXTENDS TreeView, TLC

CONSTANTS r, x, y, z, one, two, b1, b2

EitherBinding == Permutations({b1, b2})
TwoTrees ==
  {[order |-> <<r, x, y, z>>, parent |-> [n \in {x, y, z} |-> CASE n = x -> r [] n = y -> x [] OTHER -> y]],
   [order |-> <<r, x, z>>, parent |-> [n \in {x, z} |-> r]]}
SomeWords == [n \in {r, x, y, z} |-> CASE n = x -> {one} [] n = z -> {two} [] OTHER -> {}]
SomeQueries == {{}, {two}, {one, two}}
=============================================================================
