------------------------- MODULE MCDaemonLifecycle -------------------------
(* Two callers, and what an earlier daemon may have left behind.          *)
EXTENDS DaemonLifecycle, TLC

\* Everywhere.
AllKillPoints == (CallerPC \ Ended) \cup (DaemonPC \ {"off", "dead"})

SameCallers == Permutations(Callers)
=============================================================================
