---------------------------- MODULE MCSubmissions -----------------------------
(* Submissions with one group of each cycle, and one that is made later.   *)
EXTENDS Submissions, TLC

CONSTANTS G1, G2, G3

MCGroups == {G1, G2, G3}
(* Editing the targets by either role, groups that come and move, the      *)
(* files of announcements by either role, and the work of a group.         *)
MCOpSets ==
    {{"post", "task", "notice", "edit", "update", "group"},
     {"post", "admin_task", "admin_edit", "admin_update"},
     {"post", "task", "admin_task", "newgroup", "move", "group"},
     {"post", "task", "update", "withdraw", "upload"},
     {"post", "admin_notice", "admin_update", "withdraw", "upload", "crash"},
     {"post", "task", "submit", "create", "delete", "grade", "admin_grade",
      "upload", "group", "crash"}}

Symmetry == Permutations(Procs)
MCCycleOf == (G1 :> "fyp1") @@ (G2 :> "fyp2") @@ (G3 :> None)
=============================================================================
