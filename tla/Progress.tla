------------------------------- MODULE Progress -------------------------------
(***************************************************************************)
(* The progress of one group: the sprints and tasks its members plan by    *)
(* (SprintBoard) and the milestones it is evaluated for (Evaluations).     *)
(* Both are served by the same handlers and share no row.                  *)
(***************************************************************************)
EXTENDS SprintBoard, Evaluations

vars == <<requests, board, evaluations>>

Init == HandlersInit /\ BoardInit /\ EvaluationsInit

Next ==
    \/ BoardNext /\ UNCHANGED evaluations
    \/ EvaluationsNext /\ UNCHANGED board

Spec == Init /\ [][Next]_vars
=============================================================================
