---------------------------- MODULE MCContextStore --------------------------
(* Two jobs at once over a project that changes twice, its bodies too.        *)
EXTENDS ContextStore, TLC
=============================================================================
