--------------------------- MODULE MCAtomicWrite ---------------------------
(* AtomicWrite for TLC, and the mutants its properties are tried against.  *)
EXTENDS AtomicWrite
=============================================================================
