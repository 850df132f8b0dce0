------------------------------ MODULE MCProgress ------------------------------
(* Instances of Progress: the board, then the evaluations.                    *)
EXTENDS Progress, TLC

MCOpSets ==
    {{"create_sprint", "update_sprint", "delete_sprint", "create_task"},
     {"create_sprint", "delete_sprint", "create_task", "update_task"},
     {"create_sprint", "delete_sprint", "create_task", "attach"},
     {"create_task", "update_task", "delete_task", "attach", "abort"},
     {"create_milestone", "patch", "evaluate"},
     {"create_milestone", "evaluate", "own_total"},
     {"create_milestone", "patch", "activate", "delete_milestone"},
     {"create_milestone", "evaluate", "reassign", "delete_milestone", "activate"}}

MCSymmetry == Permutations(Procs) \cup Permutations(Sprints) \cup Permutations(Tasks)
=============================================================================
