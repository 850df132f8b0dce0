--------------------------- MODULE MCGroupMembership ---------------------------
(* Constants and symmetry for the runs of GroupMembership.                 *)
EXTENDS GroupMembership, TLC

CONSTANTS FirstCohort, SecondCohort, Newcomers, Unregistered

(* Newcomers belong to the second cohort, the unregistered have no intake, *)
(* and everybody else belongs to the first.                                *)
MCCohortOf ==
    [s \in Students |-> CASE s \in Newcomers -> SecondCohort
                         [] s \in Unregistered -> NoCohort
                         [] OTHER -> FirstCohort]

Symmetry == Permutations(Groups) \cup Permutations(Procs)
            \cup Permutations(Newcomers) \cup Permutations(Unregistered)
            \cup Permutations(Students \ (Newcomers \cup Unregistered))
=============================================================================
