---------------------------- MODULE MCSupervision ----------------------------
(* Constants and symmetry for the runs of Supervision.                     *)
EXTENDS SupervisionRefinement, TLC

Symmetry == Permutations(Groups) \cup Permutations(Faculty) \cup Permutations(Procs)
=============================================================================
