-------------------------- MODULE MCTaskOrchestrator --------------------------
(* Small instances of TaskOrchestrator for TLC. *)
EXTENDS TaskOrchestrator

\* Workers are interchangeable, and so are the tasks that are not singled out.
Symmetry ==
  Permutations(Workers) \cup Permutations(Tasks \ (GateChildren \cup Monitors))
===============================================================================
