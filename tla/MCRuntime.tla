------------------------------ MODULE MCRuntime ------------------------------
(***************************************************************************)
(* One instance of Runtime, for the runs about progress and about what the *)
(* documents say of the fan-out graph.                                     *)
(***************************************************************************)
EXTENDS Runtime, WorkflowGraphs, TLC

CONSTANTS s1, s2, e1, e2

MCSymmetry == Permutations(Scheduler) \cup Permutations(Slot)
=============================================================================
