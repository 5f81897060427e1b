----------------------------- MODULE MCStorage ------------------------------
(* Both runtimes, a new project and a clone, two notes.                    *)
EXTENDS Storage

CONSTANTS n1, n2
=============================================================================
