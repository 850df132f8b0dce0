----------------------------- MODULE MCDocuments -----------------------------
(* Symmetry for the runs of Documents.                                     *)
EXTENDS DocumentsRefinement, TLC

Symmetry == Permutations(Users) \cup Permutations(Edits) \cup Permutations(Procs)
=============================================================================
