---------------------------- MODULE ProgressProofs ----------------------------
(***************************************************************************)
(* What holds of sprints, evaluations and attachments for any number of    *)
(* handlers, sprints, tasks, milestones and faculty, as long as two        *)
(* requests of the kind that must not meet do not overlap.                 *)
(***************************************************************************)
EXTENDS Progress, FiniteSetTheorems, TLAPS

-----------------------------------------------------------------------------
(* Requests: what a step does to the handlers in flight.                   *)

TaskOps == {"create_task", "update_task", "delete_task"}
OtherOps == TaskOps \cup {"delete_sprint", "idle"}

Shape(t) ==
    /\ {"op", "phase", "on"} \subseteq DOMAIN t
    /\ t.phase \in {"flush", "files"} => t.op \in TaskOps

RequestsType ==
    /\ txn = [p \in Procs |-> txn[p]]
    /\ \A p \in Procs : Shape(txn[p])

(* A step in which p goes on to t.                                         *)
Turns(p, t) ==
    /\ txn' = [txn EXCEPT ![p] = t]
    /\ Shape(t)
    /\ clash \subseteq clash'

(* A step in which nobody begins what must not meet its like.              *)
Quiet == UNCHANGED requests \/ \E p \in Procs : \E t : Turns(p, t) /\ t.op \in OtherOps

LEMMA Started ==
    ASSUME NEW p, NEW t, Start(p, t), Shape(t)
    PROVE  Turns(p, t) /\ clash' = clash \cup UNION {txn[q].on \cap t.on : q \in Procs}
BY DEF Start, Turns

LEMMA Finished == ASSUME NEW p \in Procs, Done(p) PROVE Quiet
<1>1. Turns(p, Idle) /\ Idle.op \in OtherOps
  BY DEF Done, Goto, Turns, Idle, Shape, OtherOps
<1>. QED
  BY <1>1 DEF Quiet

(* A handler of a task that goes on is still one.                          *)
LEMMA Continued ==
    ASSUME RequestsType, NEW p \in Procs, NEW t, Goto(p, t),
           DOMAIN t = DOMAIN txn[p], t.op = txn[p].op, t.op \in OtherOps,
           t.phase \in {"flush", "files"} => t.op \in TaskOps
    PROVE  Quiet
BY DEF Goto, Turns, RequestsType, Shape, Quiet

LEMMA EvaluationTurns ==
    ASSUME EvaluationsNext,
           \A p \in Procs, m \in Milestones :
              /\ ~PatchLoad(p, m)
              /\ \A f \in Faculty : ~EvaluateGroup(p, m, f) /\ ~EvaluateAsJury(p, m, f)
    PROVE  Quiet
<1>1. ASSUME NEW m \in Milestones, NEW e, NEW f, NEW a, CreateMilestone(m, e, f, a) PROVE Quiet
  BY <1>1 DEF CreateMilestone, AtOnce, Quiet
<1>2. ASSUME NEW m \in Milestones, DeleteMilestone(m) PROVE Quiet
  BY <1>2 DEF DeleteMilestone, AtOnce, Quiet
<1>3. CASE Reassign
  BY <1>3 DEF Reassign, AtOnce, Quiet
<1>4. ASSUME NEW p \in Procs, PatchCommit(p) \/ EvaluateCommit(p) PROVE Quiet
  BY <1>4, Finished DEF PatchCommit, EvaluateCommit
<1>. QED
  BY <1>1, <1>2, <1>3, <1>4 DEF EvaluationsNext

(* A handler that begins to patch a milestone.                             *)
LEMMA Patched ==
    ASSUME NEW p, NEW m, PatchLoad(p, m)
    PROVE  \E t : Turns(p, t) /\ t.op = "patch"
BY Started DEF PatchLoad, Shape

(* A handler that begins to evaluate.                                      *)
LEMMA Evaluated ==
    ASSUME NEW p, NEW m, NEW f, NEW table, NEW v, NEW about, Evaluate(p, m, f, table, v, about)
    PROVE  \E t : Turns(p, t) /\ t.op = "evaluate"
BY Started DEF Evaluate, Shape

LEMMA EvaluationOps ==
    ASSUME EvaluationsNext
    PROVE  \/ UNCHANGED requests
           \/ \E p \in Procs : \E t : Turns(p, t) /\ t.op # "update_sprint"
<1>1. ASSUME NEW p \in Procs, NEW m \in Milestones, NEW f \in Faculty,
             EvaluateGroup(p, m, f) \/ EvaluateAsJury(p, m, f)
      PROVE  \E t : Turns(p, t) /\ t.op = "evaluate"
  BY <1>1, Evaluated DEF EvaluateGroup, EvaluateAsJury
<1>2. ASSUME NEW p \in Procs, NEW m \in Milestones, PatchLoad(p, m)
      PROVE  \E t : Turns(p, t) /\ t.op = "patch"
  BY <1>2, Patched
<1>. QED
  BY <1>1, <1>2, EvaluationTurns DEF Quiet, OtherOps, TaskOps

LEMMA BoardTurns ==
    ASSUME RequestsType, BoardNext,
           \A p \in Procs, s \in Sprints, to \in Statuses : ~UpdateSprintLoad(p, s, to)
    PROVE  Quiet
<1>1. ASSUME NEW s \in Sprints, CreateSprint(s) PROVE Quiet
  BY <1>1 DEF CreateSprint, AtOnce, Quiet
<1>2. ASSUME NEW p \in Procs,
             \/ UpdateSprintCommit(p) \/ DeleteSprint(p) \/ TaskCommit(p)
             \/ DeleteTaskCommit(p) \/ BoardAbort(p)
      PROVE  Quiet
  BY <1>2, Finished
  DEF UpdateSprintCommit, DeleteSprint, TaskCommit, DeleteTaskCommit, BoardAbort, Fail
<1>3. ASSUME NEW p \in Procs, NEW s \in Sprints, DeleteSprintLoad(p, s) PROVE Quiet
  BY <1>3, Started DEF DeleteSprintLoad, Shape, Quiet, OtherOps
<1>4. ASSUME NEW p \in Procs, Unlink(p) PROVE Quiet
  <2>1. Goto(p, [txn[p] EXCEPT !.phase = "delete"]) /\ txn[p].op = "delete_sprint"
    BY <1>4 DEF Unlink, At
  <2>. QED
    BY <2>1, Continued DEF RequestsType, Shape, OtherOps
<1>5. ASSUME NEW p \in Procs, NEW t \in Tasks, NEW s \in Sprints \cup {Backlog},
             CreateTaskLoad(p, t, s)
      PROVE  Quiet
  BY <1>5, Started DEF CreateTaskLoad, Began, Shape, Quiet, OtherOps, TaskOps
<1>6. ASSUME NEW p \in Procs, NEW t \in Tasks, DeleteTaskLoad(p, t) PROVE Quiet
  BY <1>6, Started DEF DeleteTaskLoad, Began, Shape, Quiet, OtherOps, TaskOps
<1>7. ASSUME NEW p \in Procs, NEW t \in Tasks, NEW s \in Sprints \cup {Backlog},
             NEW edit \in BOOLEAN, UpdateTaskLoad(p, t, s, edit)
      PROVE  Quiet
  <2>. DEFINE new == [Began("update_task", t, "flush")
                        EXCEPT !.to = s, !.seen = task[t], !.edit = edit]
  <2>1. Shape(new) /\ new.op \in OtherOps
    BY DEF Began, Shape, OtherOps, TaskOps
  <2>. QED
    BY <1>7, <2>1, Started DEF UpdateTaskLoad, Quiet
<1>8. ASSUME NEW p \in Procs, Flush(p) PROVE Quiet
  <2>1. txn[p].op \in TaskOps
    BY <1>8 DEF Flush, RequestsType, Shape
  <2>2. CASE ~Done(p)
    <3>1. PICK d : Goto(p, [txn[p] EXCEPT !.phase = "files",
                                   !.edit = @ \/ txn[p].op = "create_task", !.drop = d])
      BY <2>2, <1>8 DEF Flush
    <3>. QED
      BY <3>1, <2>1, Continued DEF RequestsType, Shape, OtherOps
  <2>. QED
    BY <2>2, Finished
<1>9. ASSUME NEW p \in Procs, DropFile(p) PROVE Quiet
  <2>1. PICK a \in txn[p].drop : Goto(p, [txn[p] EXCEPT !.drop = @ \ {a}, !.gone = @ \cup {a}])
    BY <1>9 DEF DropFile
  <2>2. txn[p].op \in TaskOps
    BY <1>9 DEF DropFile, RequestsType, Shape
  <2>. QED
    BY <2>1, <2>2, Continued DEF RequestsType, Shape, OtherOps
<1>10. ASSUME NEW p \in Procs, NEW f \in Files, Upload(p, f) PROVE Quiet
  <2>1. txn[p].op \in TaskOps
    BY <1>10 DEF Upload, MayUpload, RequestsType, Shape
  <2>2. CASE ~Done(p)
    <3>1. PICK a : Goto(p, [txn[p] EXCEPT !.new = @ \cup {a}])
      BY <2>2, <1>10 DEF Upload, Fail
    <3>. QED
      BY <3>1, <2>1, Continued DEF RequestsType, Shape, OtherOps
  <2>. QED
    BY <2>2, Finished
<1>. QED
  BY <1>1, <1>2, <1>3, <1>4, <1>5, <1>6, <1>7, <1>8, <1>9, <1>10 DEF BoardNext

LEMMA QuietType == ASSUME RequestsType, Quiet PROVE RequestsType'
BY DEF RequestsType, Quiet, Turns, requests

-----------------------------------------------------------------------------
(* Sprints.                                                                *)

Activating(p) == txn[p].op = "update_sprint" /\ txn[p].to = "Active"

(* As long as no two activations have overlapped: one sprint is active, an *)
(* activation in flight has seen that no other is, and it is the only one. *)
ActiveInv ==
    Activation \notin clash =>
        /\ \A s, o \in Sprints : sprint[s] = "Active" /\ sprint[o] = "Active" => s = o
        /\ \A p \in Procs : Activating(p) =>
              /\ Activation \in txn[p].on
              /\ \A o \in Sprints \ {txn[p].s} : sprint[o] # "Active"
              /\ \A q \in Procs : Activating(q) => q = p

SprintsType == RequestsType /\ sprint = [s \in Sprints |-> sprint[s]]
SprintInv == SprintsType /\ ActiveInv

LEMMA SprintStarts == Init => SprintInv
BY DEF Init, HandlersInit, BoardInit, SprintInv, SprintsType, RequestsType, Shape, ActiveInv,
       Activating, Idle

(* Whatever is not an update of a sprint activates none.                   *)
LEMMA SprintsRest ==
    ASSUME SprintsType, BoardNext \/ UNCHANGED board,
           \A p \in Procs : ~UpdateSprintCommit(p)
    PROVE  /\ sprint' = [s \in Sprints |-> sprint'[s]]
           /\ \A s \in Sprints : sprint'[s] = "Active" => sprint[s] = "Active"
<1>1. ASSUME NEW s \in Sprints, CreateSprint(s)
      PROVE  sprint' = [sprint EXCEPT ![s] = "Planned"]
  BY <1>1 DEF CreateSprint
<1>2. ASSUME NEW p \in Procs, DeleteSprint(p)
      PROVE  sprint' \in {sprint, [sprint EXCEPT ![txn[p].s] = "deleted"]}
  BY <1>2 DEF DeleteSprint
<1>3. ASSUME BoardNext, \A s \in Sprints : ~CreateSprint(s), \A p \in Procs : ~DeleteSprint(p)
      PROVE  sprint' = sprint
  BY <1>3 DEF BoardNext, UpdateSprintLoad, DeleteSprintLoad, Unlink, CreateTaskLoad,
     UpdateTaskLoad, DeleteTaskLoad, Flush, DropFile, Upload, TaskCommit, DeleteTaskCommit,
     BoardAbort, board
<1>. QED
  BY <1>1, <1>2, <1>3 DEF SprintsType, board

LEMMA SprintSteps == SprintInv /\ [Next]_vars => SprintInv'
<1> SUFFICES ASSUME SprintInv, [Next]_vars PROVE SprintInv'
  OBVIOUS
<1>0. SprintsType /\ RequestsType
  BY DEF SprintInv, SprintsType
<1>1. ASSUME NEW p \in Procs, NEW s \in Sprints, NEW to \in Statuses, UpdateSprintLoad(p, s, to)
      PROVE  SprintInv'
  <2>. DEFINE t == [op |-> "update_sprint", phase |-> "commit", s |-> s, to |-> to,
                    seen |-> sprint[s], on |-> IF to = "Active" THEN {Activation} ELSE {}]
  <2>1. /\ MayTurn(s, to) /\ sprint' = sprint /\ txn' = [txn EXCEPT ![p] = t]
        /\ clash' = clash \cup UNION {txn[q].on \cap t.on : q \in Procs}
    BY <1>1, Started DEF UpdateSprintLoad, Turns, Shape, board
  <2>2. SprintsType'
    BY <2>1, <1>0 DEF SprintsType, RequestsType, Shape
  <2>3. ASSUME to = "Active", Activation \notin clash'
        PROVE  \A q \in Procs : ~Activating(q)
    BY <2>1, <2>3 DEF SprintInv, ActiveInv
  <2>4. \A q \in Procs : Activating(q)' =>
           IF q = p THEN to = "Active" ELSE Activating(q) /\ txn'[q] = txn[q]
    BY <2>1, <1>0 DEF RequestsType, Activating
  <2>. QED
    BY <2>1, <2>2, <2>3, <2>4, <1>0 DEF SprintInv, ActiveInv, MayTurn, RequestsType
<1>2. ASSUME NEW p \in Procs, UpdateSprintCommit(p) PROVE SprintInv'
  <2>1. /\ txn[p].op = "update_sprint" /\ txn' = [txn EXCEPT ![p] = Idle] /\ clash' = clash
        /\ sprint' \in {sprint, [sprint EXCEPT ![txn[p].s] = txn[p].to]}
    BY <1>2 DEF UpdateSprintCommit, At, Done, Goto
  <2>2. SprintsType'
    BY <2>1, <1>0 DEF SprintsType, RequestsType, Idle, Shape
  <2>3. \A q \in Procs : Activating(q)' => q # p /\ Activating(q) /\ txn'[q] = txn[q]
    BY <2>1, <1>0 DEF RequestsType, Activating, Idle
  <2>. QED
    BY <2>1, <2>2, <2>3, <1>0 DEF SprintInv, ActiveInv, Activating, SprintsType
<1>3. ASSUME \A p \in Procs : ~UpdateSprintCommit(p),
             \A p \in Procs, s \in Sprints, to \in Statuses : ~UpdateSprintLoad(p, s, to)
      PROVE  SprintInv'
  <2>1. /\ sprint' = [s \in Sprints |-> sprint'[s]]
        /\ \A s \in Sprints : sprint'[s] = "Active" => sprint[s] = "Active"
    BY <1>0, <1>3, SprintsRest DEF Next, vars
  <2>. DEFINE Calm == /\ RequestsType' /\ clash \subseteq clash'
                      /\ \A q \in Procs : Activating(q)' => Activating(q) /\ txn'[q] = txn[q]
  <2>2. Calm
    <3>1. CASE UNCHANGED requests
      BY <3>1, <1>0, QuietType DEF Quiet, requests, Activating
    <3>2. ASSUME NEW p \in Procs, NEW t, Turns(p, t), t.op # "update_sprint" PROVE Calm
      BY <3>2, <1>0 DEF Turns, RequestsType, Activating
    <3>3. CASE BoardNext
      BY <3>1, <3>2, <3>3, <1>0, <1>3, BoardTurns DEF Quiet, OtherOps, TaskOps
    <3>4. CASE EvaluationsNext
      BY <3>1, <3>2, <3>4, <1>0, EvaluationOps
    <3>. QED
      BY <3>1, <3>3, <3>4 DEF Next, vars
  <2>. QED
    BY <2>1, <2>2 DEF SprintInv, SprintsType, ActiveInv
<1>. QED
  BY <1>1, <1>2, <1>3

\* "Another sprint is already active" (student_progress.py:489), for any number of
\* sprints, tasks and handlers: two are active only after two activations overlapped.
THEOREM OneSprintActive == Spec => []OneActiveSprint
<1>1. ASSUME SprintInv PROVE OneActiveSprint
  <2>. DEFINE A == {s \in Sprints : sprint[s] = "Active"}
  <2>1. CASE A = {}
    BY <2>1, FS_EmptySet DEF OneActiveSprint
  <2>2. ASSUME Activation \notin clash, NEW s \in A PROVE Cardinality(A) <= 1
    <3>1. A = {s}
      BY <2>2, <1>1 DEF SprintInv, ActiveInv
    <3>. QED
      BY <3>1, FS_Singleton
  <2>. QED
    BY <2>1, <2>2 DEF OneActiveSprint
<1>. QED
  BY SprintStarts, SprintSteps, <1>1, PTL DEF Spec

-----------------------------------------------------------------------------
(* Milestones.                                                             *)

Row == [evaluator : Evaluators, form : Forms \cup {None}, active : BOOLEAN, dated : BOOLEAN]

MilestonesType ==
    /\ mil \in [Milestones -> Row \cup {None, Deleted}]
    /\ \A p \in Procs : txn[p].op = "patch" => txn[p].seen \in Row /\ txn[p].to \in Row

MilestonesInv == RequestsType /\ MilestonesType

LEMMA MilestonesStart == Init => MilestonesInv
BY DEF Init, HandlersInit, EvaluationsInit, MilestonesInv, MilestonesType, RequestsType, Shape, Idle

LEMMA RuledRow == \A row \in Row : Ruled(row) \in Row
BY DEF Row, Ruled

LEMMA AskedRow == ASSUME NEW seen \in Row, NEW row \in Asked(seen) PROVE row \in Row
<1>1. \/ \E e \in Evaluators, f \in Forms \cup {seen.form} : row = Handed(seen, e, f)
      \/ \E active \in BOOLEAN : row = Dated(seen, active)
  BY DEF Asked
<1>2. ASSUME NEW e \in Evaluators, NEW f \in Forms \cup {seen.form} PROVE Handed(seen, e, f) \in Row
  BY DEF Row, Handed
<1>3. ASSUME NEW active \in BOOLEAN PROVE Dated(seen, active) \in Row
  BY DEF Row, Dated
<1>. QED
  BY <1>1, <1>2, <1>3

(* Evaluations leave the milestones alone.                                 *)
LEMMA MarksLeaveMilestones ==
    /\ \A p \in Procs : EvaluateCommit(p) => mil' = mil
    /\ \A p \in Procs, m \in Milestones, f \in Faculty :
          EvaluateGroup(p, m, f) \/ EvaluateAsJury(p, m, f) => mil' = mil
<1>1. ASSUME NEW p, NEW m, NEW f, NEW table, NEW v, NEW about, Evaluate(p, m, f, table, v, about)
      PROVE  mil' = mil
  BY <1>1 DEF Evaluate, evaluations
<1>2. ASSUME NEW p \in Procs, EvaluateCommit(p) PROVE mil' = mil
  BY <1>2 DEF EvaluateCommit
<1>. QED
  BY <1>1, <1>2 DEF EvaluateGroup, EvaluateAsJury

LEMMA MilestonesSteps == MilestonesInv /\ [Next]_vars => MilestonesInv'
<1> SUFFICES ASSUME MilestonesInv, [Next]_vars PROVE MilestonesInv'
  OBVIOUS
<1>0. RequestsType /\ MilestonesType
  BY DEF MilestonesInv
<1>1. ASSUME NEW p \in Procs, NEW m \in Milestones, PatchLoad(p, m) PROVE MilestonesInv'
  <2>1. mil[m] \in Row
    BY <1>1, <1>0 DEF PatchLoad, MilestonesType, Set
  <2>2. \A row \in Asked(mil[m]) : Ruled(row) \in Row
    <3>3. ASSUME NEW row \in Asked(mil[m]) PROVE row \in Row
      BY <2>1, <3>3, AskedRow
    <3>. QED
      BY <3>3, RuledRow
  <2>3. PICK row \in Asked(mil[m]) :
           Start(p, [op |-> "patch", phase |-> "commit", on |-> {m}, m |-> m,
                     seen |-> mil[m], to |-> Ruled(row)])
    BY <1>1 DEF PatchLoad
  <2>. QED
    <3>. DEFINE t == [op |-> "patch", phase |-> "commit", on |-> {m}, m |-> m,
                      seen |-> mil[m], to |-> Ruled(row)]
    <3>1. Shape(t) /\ t.seen \in Row /\ t.to \in Row
      BY <2>1, <2>2, <2>3 DEF Shape
    <3>2. txn' = [txn EXCEPT ![p] = t] /\ mil' = mil
      BY <1>1, <2>3 DEF PatchLoad, Start, evaluations
    <3>. QED
      BY <1>0, <3>1, <3>2 DEF MilestonesInv, MilestonesType, RequestsType
<1>2. ASSUME NEW p \in Procs, PatchCommit(p) PROVE MilestonesInv'
  <2>1. txn[p].seen \in Row /\ txn[p].to \in Row
    BY <1>2, <1>0 DEF PatchCommit, At, MilestonesType
  <2>2. mil' \in [Milestones -> Row \cup {None, Deleted}]
    <3>. DEFINE t == txn[p]
                new == [c \in DOMAIN t.seen |->
                          IF t.to[c] # t.seen[c] THEN t.to[c] ELSE mil[t.m][c]]
    <3>1. \/ mil' = mil
          \/ mil[t.m] \notin {None, Deleted} /\ mil' = [mil EXCEPT ![t.m] = new]
      BY <1>2 DEF PatchCommit, Set
    <3>2. ASSUME mil[t.m] \in Row PROVE new \in Row
      BY <2>1, <3>2 DEF Row
    <3>3. t.m \in Milestones /\ mil[t.m] \notin {None, Deleted} => mil[t.m] \in Row
      BY <1>0 DEF MilestonesType
    <3>. QED
      BY <1>0, <3>1, <3>2, <3>3 DEF MilestonesType
  <2>. QED
    BY <1>0, <1>2, <2>2, Finished DEF PatchCommit, Done, Goto, MilestonesInv, MilestonesType,
       RequestsType, Shape, Idle
<1>3. ASSUME NEW m \in Milestones, NEW e \in Evaluators, NEW f \in Forms \cup {None},
             NEW a \in BOOLEAN, CreateMilestone(m, e, f, a)
      PROVE  mil' \in [Milestones -> Row \cup {None, Deleted}]
  <2>. DEFINE row == [evaluator |-> e, form |-> f, active |-> a, dated |-> a]
  <2>1. row \in Row
    BY DEF Row
  <2>2. mil' = [mil EXCEPT ![m] = Ruled(row)]
    BY <1>3 DEF CreateMilestone
  <2>. QED
    BY <2>1, <2>2, <1>0, RuledRow DEF MilestonesType
<1>4. ASSUME NEW m \in Milestones, DeleteMilestone(m)
      PROVE  mil' \in [Milestones -> Row \cup {None, Deleted}]
  BY <1>4, <1>0 DEF DeleteMilestone, MilestonesType
<1>5. ASSUME \A p \in Procs : ~PatchCommit(p) /\ \A m \in Milestones : ~PatchLoad(p, m)
      PROVE  MilestonesInv'
  <2>1. mil' \in [Milestones -> Row \cup {None, Deleted}]
    <3>1. CASE mil' = mil
      BY <3>1, <1>0 DEF MilestonesType
    <3>2. CASE mil' # mil
      BY <3>2, <1>3, <1>4, <1>5, MarksLeaveMilestones DEF Next, EvaluationsNext, Reassign, evaluations,
         vars
    <3>. QED
      BY <3>1, <3>2
  <2>2. RequestsType' /\ \A q \in Procs : txn'[q].op = "patch" => txn'[q] = txn[q]
    <3>1. CASE Quiet
      BY <3>1, <1>0, QuietType DEF Quiet, Turns, requests, RequestsType, OtherOps, TaskOps
    <3>2. ASSUME NEW p \in Procs, NEW t, Turns(p, t), t.op # "patch"
          PROVE  RequestsType' /\ \A q \in Procs : txn'[q].op = "patch" => txn'[q] = txn[q]
      BY <3>2, <1>0 DEF Turns, RequestsType
    <3>3. ASSUME NEW p \in Procs, NEW s \in Sprints, NEW to \in Statuses,
                 UpdateSprintLoad(p, s, to)
          PROVE  \E t : Turns(p, t) /\ t.op # "patch"
      BY <3>3, Started DEF UpdateSprintLoad, Shape
    <3>4. ASSUME NEW p \in Procs, NEW m \in Milestones, NEW f \in Faculty,
                 EvaluateGroup(p, m, f) \/ EvaluateAsJury(p, m, f)
          PROVE  \E t : Turns(p, t) /\ t.op # "patch"
      BY <3>4, Evaluated DEF EvaluateGroup, EvaluateAsJury
    <3>5. CASE BoardNext
      BY <3>1, <3>2, <3>3, <3>5, <1>0, BoardTurns
    <3>6. CASE EvaluationsNext
      <4>1. CASE \A p \in Procs, m \in Milestones, f \in Faculty :
                    ~EvaluateGroup(p, m, f) /\ ~EvaluateAsJury(p, m, f)
        BY <3>1, <3>6, <4>1, <1>5, EvaluationTurns
      <4>. QED
        BY <3>2, <3>4, <4>1
    <3>7. CASE UNCHANGED vars
      BY <3>1, <3>7 DEF vars, Quiet
    <3>. QED
      BY <3>5, <3>6, <3>7 DEF Next
  <2>. QED
    BY <1>0, <2>1, <2>2 DEF MilestonesInv, MilestonesType
<1>. QED
  BY <1>1, <1>2, <1>5

-----------------------------------------------------------------------------
(* Proposal evaluations.                                                   *)

Columns == {"first", "second", "total"}

(* A row whose total is what the lines come to, in tenths; s is what the   *)
(* history says of the request it is from.                                 *)
Sums(v, s) ==
    /\ v = [c \in Columns |-> v[c]]
    /\ "total" \notin s =>
          /\ 2 * Dist(v.total, v.first + v.second) <= 3
          /\ "parts" \notin s => v.total = v.first + v.second

Keys == Tables \X Milestones \X Faculty
Proposals == {k \in Keys : k[1] = "proposal"}
Evaluating(p, k) == txn[p].op = "evaluate" /\ txn[p].k = k
Noted(k) == {s \in {"total", "parts"} : <<k, s>> \in sent}

(* As long as no two requests for an evaluation have overlapped: its total *)
(* is what its lines come to; so is the one a request is about to store;   *)
(* and the row is the one the request has seen, or gone with its milestone.*)
SumsInv ==
    \A k \in Proposals \ clash :
        /\ given[k] # None => Sums(given[k], Noted(k))
        /\ \A p \in Procs : Evaluating(p, k) =>
              /\ k \in txn[p].on
              /\ Sums(txn[p].to, txn[p].sent)
              /\ given[k] \in {None, txn[p].seen}
              /\ \A q \in Procs : Evaluating(q, k) => q = p

GivenType == RequestsType /\ given = [k \in Keys |-> given[k]]
GivenInv == GivenType /\ SumsInv

(* Two numbers rounded, and their sum rounded on its own.                  *)
LEMMA Difference == \A i, j \in Nat : i <= j => \E d \in Nat : j = i + d
<1>1. ASSUME NEW i \in Nat, NEW j \in Nat, i <= j PROVE j - i \in Nat /\ j = i + (j - i)
  BY <1>1
<1>. QED
  BY <1>1

LEMMA Multiple == ASSUME NEW t \in Nat, NEW d \in Nat \ {0} PROVE t * d >= t
<1>1. PICK e \in Nat : d = 1 + e
  BY Difference
<1>2. t * d = t + t * e /\ t * e \in Nat
  BY <1>1
<1>. QED
  BY <1>2

LEMMA Closer ==
    ASSUME NEW t \in Nat \ {0}, NEW d \in Nat, 2 * (t * d) <= 3 * t PROVE d <= 1
<1>1. CASE d >= 2
  <2>1. PICK e \in Nat : d = 2 + e
    BY <1>1, Difference
  <2>2. t * d = 2 * t + t * e /\ t * e \in Nat
    BY <2>1
  <2>. QED
    BY <2>2
<1>. QED
  BY <1>1

LEMMA RoundedApart ==
    ASSUME NEW x \in Nat, NEW y \in Nat,
           NEW a \in Roundings(x), NEW b \in Roundings(y), NEW c \in Roundings(x + y)
    PROVE  /\ 2 * Dist(c, a + b) <= 3
           /\ Whole(x) /\ Whole(y) => c = a + b
<1>0. /\ Tenth \in Nat \ {0} /\ a \in Nat /\ b \in Nat /\ c \in Nat
      /\ Tenth * a \in Nat /\ Tenth * b \in Nat /\ Tenth * c \in Nat
  BY EvaluationAssumptions DEF Roundings
<1>1. /\ 2 * Dist(Tenth * a, x) <= Tenth /\ 2 * Dist(Tenth * b, y) <= Tenth
      /\ 2 * Dist(Tenth * c, x + y) <= Tenth
  BY DEF Roundings
<1>2. Tenth * (a + b) = Tenth * a + Tenth * b
  BY <1>0
<1>3. 2 * Dist(Tenth * c, Tenth * (a + b)) <= 3 * Tenth
  BY <1>0, <1>1, <1>2 DEF Dist
<1>4. \A d \in Nat : 2 * (Tenth * d) <= 3 * Tenth => d <= 1
  BY <1>0, Closer
<1>5. Dist(c, a + b) <= 1
  <2>1. CASE c <= a + b
    <3>1. PICK d \in Nat : a + b = c + d
      BY <1>0, <2>1, Difference
    <3>2. Tenth * (a + b) = Tenth * c + Tenth * d /\ Tenth * d \in Nat
      BY <1>0, <3>1
    <3>3. 2 * (Tenth * d) <= 3 * Tenth
      BY <1>0, <1>3, <3>2 DEF Dist
    <3>. QED
      BY <1>0, <1>4, <3>1, <3>3 DEF Dist
  <2>2. CASE a + b <= c
    <3>1. PICK d \in Nat : c = (a + b) + d
      BY <1>0, <2>2, Difference
    <3>2. Tenth * c = Tenth * (a + b) + Tenth * d /\ Tenth * d \in Nat
      BY <1>0, <3>1
    <3>3. 2 * (Tenth * d) <= 3 * Tenth
      BY <1>0, <1>2, <1>3, <3>2 DEF Dist
    <3>. QED
      BY <1>0, <1>4, <3>1, <3>3 DEF Dist
  <2>. QED
    BY <1>0, <2>1, <2>2
<1>6. ASSUME NEW i \in Nat, NEW n \in Nat, NEW k \in Nat, i = Tenth * k,
             2 * Dist(Tenth * n, i) <= Tenth
      PROVE  n = k
  <2>1. CASE n < k
    <3>1. PICK d \in Nat : k = n + d
      BY <2>1, Difference
    <3>2. d # 0 /\ Tenth * k = Tenth * n + Tenth * d /\ Tenth * d >= Tenth /\ Tenth * n \in Nat
      BY <1>0, <2>1, <3>1, Multiple
    <3>. QED
      BY <1>0, <1>6, <3>2 DEF Dist
  <2>2. CASE k < n
    <3>1. PICK d \in Nat : n = k + d
      BY <2>2, Difference
    <3>2. d # 0 /\ Tenth * n = Tenth * k + Tenth * d /\ Tenth * d >= Tenth /\ Tenth * k \in Nat
      BY <1>0, <2>2, <3>1, Multiple
    <3>. QED
      BY <1>0, <1>6, <3>2 DEF Dist
  <2>. QED
    BY <2>1, <2>2
<1>7. ASSUME Whole(x), Whole(y) PROVE c = a + b
  <2>1. PICK i \in Nat, j \in Nat : x = Tenth * i /\ y = Tenth * j
    BY <1>7 DEF Whole
  <2>2. a = i /\ b = j
    BY <1>0, <1>1, <1>6, <2>1
  <2>3. x + y = Tenth * (a + b) /\ a + b \in Nat /\ x + y \in Nat
    BY <1>0, <1>2, <2>1, <2>2
  <2>. QED
    BY <1>0, <1>1, <1>6, <2>3
<1>. QED
  BY <1>0, <1>5, <1>7 DEF Dist

LEMMA ScoredSums ==
    ASSUME NEW seen, NEW r \in Rubric, NEW total, NEW v \in Scored(seen, r, total)
    PROVE  Sums(v, About(seen, r, total))
<1>1. /\ r.first \in Nat /\ r.second \in Nat
      /\ v.first \in Roundings(r.first) /\ v.second \in Roundings(r.second)
      /\ v = [c \in Columns |-> v[c]]
  BY EvaluationAssumptions DEF Rubric, Scored, Columns
<1>2. ASSUME "total" \notin About(seen, r, total) PROVE v.total \in Roundings(r.first + r.second)
  BY <1>2 DEF About, Scored, Totalled
<1>3. "parts" \notin About(seen, r, total) => Whole(r.first) /\ Whole(r.second)
  BY DEF About
<1>. QED
  BY <1>1, <1>2, <1>3, RoundedApart DEF Sums

LEMMA GivenStarts == Init => GivenInv
BY DEF Init, HandlersInit, EvaluationsInit, GivenInv, GivenType, RequestsType, Shape, SumsInv,
       Keys, Proposals, Evaluating, Idle

(* A step in which nobody evaluates, and rows at most go.                  *)
LEMMA GivenRest ==
    ASSUME GivenInv, RequestsType', clash \subseteq clash', sent' = sent,
           given' = [k \in Keys |-> given'[k]],
           \A k \in Keys : given'[k] \in {None, given[k]},
           \A p \in Procs, k \in Keys : Evaluating(p, k)' => Evaluating(p, k) /\ txn'[p] = txn[p]
    PROVE  GivenInv'
BY DEF GivenInv, GivenType, SumsInv, Proposals, Noted

LEMMA QuietEvaluations ==
    ASSUME RequestsType, Quiet
    PROVE  /\ RequestsType' /\ clash \subseteq clash'
           /\ \A p \in Procs, k \in Keys :
                 Evaluating(p, k)' => Evaluating(p, k) /\ txn'[p] = txn[p]
<1>1. CASE UNCHANGED requests
  BY <1>1, QuietType DEF requests, Evaluating
<1>2. ASSUME NEW p \in Procs, NEW t, Turns(p, t), t.op \in OtherOps
      PROVE  \A q \in Procs, k \in Keys :
                Evaluating(q, k)' => Evaluating(q, k) /\ txn'[q] = txn[q]
  BY <1>2 DEF Turns, RequestsType, Evaluating, OtherOps, TaskOps
<1>. QED
  BY <1>1, <1>2, QuietType DEF Quiet, Turns

(* An evaluation begins with the row it has loaded.                        *)
LEMMA EvaluationBegins ==
    ASSUME GivenInv, NEW p \in Procs, NEW m \in Milestones, NEW f \in Faculty,
           NEW table \in Tables, NEW v, NEW about, table = "proposal" => Sums(v, about),
           Evaluate(p, m, f, table, v, about)
    PROVE  GivenInv'
<1>. DEFINE k == <<table, m, f>>
            t == [op |-> "evaluate", phase |-> "commit", on |-> {k}, k |-> k,
                  seen |-> given[k], to |-> v, sent |-> about]
<1>1. /\ given' = given /\ sent' = sent /\ txn' = [txn EXCEPT ![p] = t]
      /\ clash' = clash \cup UNION {txn[q].on \cap t.on : q \in Procs}
  BY Started DEF Evaluate, Turns, Shape, evaluations
<1>2. GivenType'
  BY <1>1 DEF GivenInv, GivenType, RequestsType, Shape
<1>3. ASSUME NEW j \in Proposals, j \notin clash', NEW q \in Procs, Evaluating(q, j)'
      PROVE  \/ q # p /\ Evaluating(q, j) /\ txn'[q] = txn[q] /\ (j = k => FALSE)
             \/ q = p /\ j = k /\ txn'[q] = t
  <2>1. CASE q = p
    BY <1>1, <1>3, <2>1 DEF GivenInv, GivenType, RequestsType, Evaluating
  <2>2. CASE q # p
    <3>1. Evaluating(q, j) /\ txn'[q] = txn[q]
      BY <1>1, <1>3, <2>2 DEF GivenInv, GivenType, RequestsType, Evaluating
    <3>2. j \in txn[q].on /\ (j = k => j \in clash')
      BY <1>1, <1>3, <3>1 DEF GivenInv, SumsInv
    <3>. QED
      BY <2>2, <3>1, <3>2, <1>3
  <2>. QED
    BY <2>1, <2>2
<1>4. \A j \in Keys : Noted(j)' = Noted(j)
  BY <1>1 DEF Noted
<1>. QED
  BY <1>1, <1>2, <1>3, <1>4 DEF GivenInv, SumsInv, Proposals

(* The row it leaves is the one it was to store, or as it was.             *)
LEMMA EvaluationEnds ==
    ASSUME GivenInv, NEW p \in Procs, EvaluateCommit(p)
    PROVE  GivenInv'
<1>t. PICK t : t = txn[p]
  OBVIOUS
<1>0. GivenType /\ RequestsType /\ t = txn[p]
  BY <1>t DEF GivenInv, GivenType
<1>1. /\ t.op = "evaluate" /\ txn' = [txn EXCEPT ![p] = Idle] /\ clash' = clash
      /\ given' = [given EXCEPT ![t.k] = given'[t.k]]
      /\ \A k \in Keys : k # t.k => \A s : <<k, s>> \in sent' <=> <<k, s>> \in sent
  BY <1>0 DEF EvaluateCommit, At, Done, Goto, GivenType
<1>2. GivenType'
  BY <1>1, <1>0 DEF GivenType, RequestsType, Shape, Idle
<1>3. \A q \in Procs, k \in Keys :
        Evaluating(q, k)' => q # p /\ Evaluating(q, k) /\ txn'[q] = txn[q]
  BY <1>1, <1>0 DEF RequestsType, Evaluating, Idle
<1>4. ASSUME t.k \in Proposals \ clash, given'[t.k] # None PROVE Sums(given'[t.k], Noted(t.k)')
  <2>1. /\ given[t.k] # None => Sums(given[t.k], Noted(t.k))
        /\ Sums(t.to, t.sent) /\ given[t.k] \in {None, t.seen}
    BY <1>0, <1>1, <1>4 DEF GivenInv, SumsInv, Evaluating
  <2>2. CASE ~Accepted(t)
    <3>1. given' = given /\ sent' = sent
      BY <1>0, <2>2 DEF EvaluateCommit
    <3>. QED
      BY <1>4, <2>1, <3>1 DEF Noted
  <2>3. CASE Accepted(t)
    <3>1. PICK row \in IF t.seen = None THEN {t.to} ELSE Merged(t.k, t.seen, t.to) :
             given' = [given EXCEPT ![t.k] = row]
      BY <1>0, <2>3 DEF EvaluateCommit
    <3>2. given'[t.k] = row
      BY <1>0, <1>4, <3>1 DEF GivenType, Proposals
    <3>3. row = t.to
      <4>1. CASE t.seen = None
        BY <3>1, <4>1
      <4>2. CASE t.seen # None
        <5>1. given[t.k] = t.seen
          BY <2>1, <2>3, <4>2 DEF Accepted
        <5>2. PICK kept \in SUBSET {c \in DOMAIN t.to : t.to[c] = t.seen[c]} :
                 row = [c \in DOMAIN t.to |-> IF c \in kept THEN given[t.k][c] ELSE t.to[c]]
          BY <1>4, <3>1, <4>2 DEF Merged, Proposals
        <5>3. row = [c \in DOMAIN t.to |-> t.to[c]]
          BY <5>1, <5>2
        <5>. QED
          BY <2>1, <5>3 DEF Sums
      <4>. QED
        BY <4>1, <4>2
    <3>4. Noted(t.k)' = t.sent \cap {"total", "parts"}
      <4>1. sent' = (sent \ ({t.k} \X {"total", "parts"})) \cup ({t.k} \X t.sent)
        BY <1>0, <2>3 DEF EvaluateCommit
      <4>. QED
        BY <4>1 DEF Noted
    <3>. QED
      BY <2>1, <3>2, <3>3, <3>4 DEF Sums
  <2>. QED
    BY <2>2, <2>3
<1>5. \A k \in Keys : k # t.k => Noted(k)' = Noted(k)
  BY <1>1 DEF Noted
<1>. QED
  BY <1>1, <1>2, <1>3, <1>4, <1>5, <1>0 DEF GivenInv, SumsInv, GivenType, Proposals, Evaluating

LEMMA GivenSteps == GivenInv /\ MilestonesInv /\ [Next]_vars => GivenInv'
<1> SUFFICES ASSUME GivenInv, MilestonesInv, [Next]_vars PROVE GivenInv'
  OBVIOUS
<1>0. GivenType /\ RequestsType
  BY DEF GivenInv, GivenType
<1>1. ASSUME NEW p \in Procs, NEW m \in Milestones, NEW f \in Faculty, EvaluateGroup(p, m, f)
      PROVE  GivenInv'
  BY <1>1, EvaluationBegins DEF EvaluateGroup, Tables
<1>2. ASSUME NEW p \in Procs, NEW m \in Milestones, NEW f \in Faculty, EvaluateAsJury(p, m, f)
      PROVE  GivenInv'
  <2>1. CASE Table(mil[m]) = "normal"
    BY <1>2, <2>1, EvaluationBegins DEF EvaluateAsJury, Tables
  <2>2. Table(mil[m]) \in Tables
    BY <1>2
       DEF EvaluateAsJury, Judges, Table, Tables, MilestonesInv, MilestonesType, Set, Row, Forms
  <2>3. CASE Table(mil[m]) # "normal"
    <3>0. PICK seen : seen = given[<<Table(mil[m]), m, f>>]
      OBVIOUS
    <3>1. PICK r \in Rubric, total \in Totals \cup {None, Omitted} :
             \E v \in Scored(seen, r, total) :
                Evaluate(p, m, f, Table(mil[m]), v, About(seen, r, total))
      BY <1>2, <2>3, <3>0 DEF EvaluateAsJury
    <3>3. PICK v \in Scored(seen, r, total) :
             Evaluate(p, m, f, Table(mil[m]), v, About(seen, r, total))
      BY <3>1
    <3>2. Sums(v, About(seen, r, total))
      BY ScoredSums
    <3>. QED
      BY <3>3, <3>2, <2>2, EvaluationBegins
  <2>. QED
    BY <2>1, <2>3
<1>3. ASSUME NEW p \in Procs, EvaluateCommit(p) PROVE GivenInv'
  BY <1>3, EvaluationEnds
<1>4. CASE EvaluationsNext /\ \A p \in Procs :
                  /\ ~EvaluateCommit(p)
                  /\ \A m \in Milestones :
                        /\ ~PatchLoad(p, m)
                        /\ \A f \in Faculty : ~EvaluateGroup(p, m, f) /\ ~EvaluateAsJury(p, m, f)
  <2>1. ASSUME NEW m \in Milestones, DeleteMilestone(m)
        PROVE  given' = [k \in Keys |-> IF k[2] = m THEN None ELSE given[k]]
    BY <2>1, <1>0 DEF DeleteMilestone, GivenType
  <2>2. ASSUME \A m \in Milestones : ~DeleteMilestone(m) PROVE given' = given
    BY <2>2, <1>4 DEF EvaluationsNext, CreateMilestone, PatchCommit, Reassign
  <2>4. sent' = sent
    BY <1>4 DEF EvaluationsNext, CreateMilestone, PatchCommit, DeleteMilestone, Reassign
  <2>3. /\ given' = [k \in Keys |-> given'[k]]
        /\ \A k \in Keys : given'[k] \in {None, given[k]}
    BY <2>1, <2>2, <1>0 DEF GivenType
  <2>. QED
    BY <1>0, <1>4, <2>3, <2>4, EvaluationTurns, QuietEvaluations, GivenRest
<1>5. CASE BoardNext /\ UNCHANGED evaluations
  <2>1. ASSUME NEW p \in Procs, NEW s \in Sprints, NEW to \in Statuses, UpdateSprintLoad(p, s, to)
        PROVE  /\ RequestsType' /\ clash \subseteq clash'
               /\ \A q \in Procs, k \in Keys :
                     Evaluating(q, k)' => Evaluating(q, k) /\ txn'[q] = txn[q]
    BY <2>1, <1>0, Started DEF UpdateSprintLoad, Turns, Shape, RequestsType, Evaluating
  <2>. QED
    BY <1>0, <1>5, <2>1, BoardTurns, QuietEvaluations, GivenRest DEF evaluations, GivenType
<1>6. CASE UNCHANGED vars
  <2>1. Quiet /\ given' = given /\ sent' = sent
    BY <1>6 DEF vars, Quiet, evaluations
  <2>. QED
    BY <1>0, <2>1, QuietEvaluations, GivenRest DEF GivenType
<1>7. ASSUME NEW p \in Procs, NEW m \in Milestones, PatchLoad(p, m) PROVE GivenInv'
  <2>1. PICK t : Turns(p, t) /\ t.op = "patch"
    BY <1>7, Patched
  <2>2. /\ RequestsType' /\ clash \subseteq clash'
        /\ \A q \in Procs, k \in Keys : Evaluating(q, k)' => Evaluating(q, k) /\ txn'[q] = txn[q]
    BY <2>1, <1>0 DEF Turns, RequestsType, Evaluating
  <2>. QED
    BY <1>7, <2>2, <1>0, GivenRest DEF PatchLoad, evaluations, GivenType
<1>. QED
  BY <1>1, <1>2, <1>3, <1>4, <1>5, <1>6, <1>7 DEF Next, EvaluationsNext

\* "auto-calculated when omitted" (jury_evaluation_schema.py:70), for any number of
\* milestones, faculty and handlers and any points: students are shown what the lines of
\* the rubric come to, up to the roundings, unless two requests for the evaluation
\* overlapped or the last one gave a total of its own.
THEOREM ShownTotalsAreSums == Spec => []ShownMatchesRubric
<1>1. ASSUME GivenInv PROVE ShownMatchesRubric
  <2>1. ASSUME NEW m \in Milestones, NEW k \in Stored("proposal", m) \ clash,
               <<k, "total">> \notin sent
        PROVE  /\ 2 * Dist(Mark(k), Lines(k)) <= 3
               /\ <<k, "parts">> \notin sent => Mark(k) = Lines(k)
    <3>1. k \in Proposals \ clash /\ given[k] # None /\ Mark(k) = given[k].total
      BY <1>1, <2>1 DEF Stored, GivenInv, GivenType, Proposals, Mark
    <3>2. Sums(given[k], Noted(k))
      BY <1>1, <3>1 DEF GivenInv, SumsInv
    <3>. QED
      BY <2>1, <3>1, <3>2 DEF Sums, Noted, Lines
  <2>. QED
    BY <2>1 DEF ShownMatchesRubric
<1>. QED
  BY GivenStarts, GivenSteps, MilestonesStart, MilestonesSteps, <1>1, PTL DEF Spec

-----------------------------------------------------------------------------
(* Attachments: what a handler of a task holds.                            *)
Att == [n : Nat, task : Tasks, file : Files]
Homes == Sprints \cup {Backlog}
TaskTxn == [op : TaskOps, phase : {"flush", "files"}, on : SUBSET Tasks, t : Tasks, to : Homes,
            seen : Homes, edit : BOOLEAN, drop : SUBSET Att, gone : SUBSET Att, new : SUBSET Att]

Serves(p, t) == txn[p].op \in TaskOps /\ txn[p].t = t

Careful(t) ==
    /\ t.on = {t.t}
    /\ \A a \in t.drop \cup t.gone \cup t.new : a.task = t.t
    /\ t.phase = "flush" => t.gone = {} /\ t.drop = {} /\ t.new = {}
    /\ t.drop # {} \/ t.op = "delete_task" => t.new = {}
    /\ t.op = "update_task" /\ t.new # {} => Exists(t.t)

AttType ==
    /\ RequestsType
    /\ att \subseteq Att /\ made \in Nat
    /\ task \in [Tasks -> Homes \cup {"none", "deleted"}]
    /\ \A a \in att : Exists(a.task)
    /\ \A p \in Procs : txn[p].op \in TaskOps => txn[p] \in TaskTxn /\ Careful(txn[p])

(* The files a task has once its handler has committed.                    *)
Outcome(t, gone, new) == (FilesOf(t) \ gone) \cup new

(* Files that are in storage or were removed by a handler that failed;     *)
(* rows of one key are such that a handler of one does no harm to another. *)
Sound(S) == \A a \in S : /\ Key(a) \in blobs \cup lost
                         /\ \A b \in S : Key(a) = Key(b) => a = b \/ Key(a) \in lost

AloneOn(t) ==
    /\ \A p, q \in Procs : Serves(p, t) /\ Serves(q, t) => p = q
    /\ (\A p \in Procs : ~Serves(p, t)) => Sound(FilesOf(t))
    /\ \A p \in Procs : Serves(p, t) =>
          /\ Sound(Outcome(t, txn[p].gone, txn[p].new))
          /\ txn[p].drop \subseteq FilesOf(t) \ txn[p].gone \/ FilesOf(t) = {}

AttInv == AttType /\ \A t \in Tasks \ clash : AloneOn(t)


LEMMA KeyOf == \A a \in Att : a.task \in Tasks /\ Key(a)[1] = a.task
BY DEF Att, Key

LEMMA FilesAre ==
    ASSUME AttType, NEW t \in Tasks
    PROVE  /\ FilesOf(t) \subseteq Att /\ FilesOf(t) \subseteq att
           /\ \A a \in FilesOf(t) : a.task = t
BY DEF FilesOf, AttType

(* Fewer files, or more in storage or lost.                                *)
LEMMA SoundKept ==
    ASSUME NEW S, NEW T \in SUBSET S, Sound(S), lost \subseteq lost',
           \A a \in T : Key(a) \in blobs => Key(a) \in blobs' \cup lost'
    PROVE  Sound(T)'
BY DEF Sound, Key

(* The other tasks, when one handler of a task goes on.                    *)
LEMMA ElsewhereKept ==
    ASSUME AttInv, NEW u \in Tasks \ clash, NEW t, u # t, lost \subseteq lost',
           FilesOf(u)' \in {FilesOf(u), {}},
           \A k \in blobs : k[1] # t => k \in blobs',
           \A q \in Procs : Serves(q, u)' => Serves(q, u),
           \A q \in Procs : Serves(q, u) => Serves(q, u)' /\ txn'[q] = txn[q]
    PROVE  AloneOn(u)'
<1>1. AloneOn(u) /\ AttType
  BY DEF AttInv
<1>2. PICK F \in SUBSET FilesOf(u) : F = FilesOf(u)'
  OBVIOUS
<1>3. \A a \in FilesOf(u) : a.task = u /\ a \in Att
  BY <1>1, FilesAre
<1>4. ASSUME \A q \in Procs : ~Serves(q, u)' PROVE Sound(FilesOf(u))'
  <2>1. Sound(FilesOf(u))
    BY <1>1, <1>4 DEF AloneOn
  <2>2. \A a \in F : Key(a) \in blobs => Key(a) \in blobs' \cup lost'
    BY <1>3, KeyOf
  <2>3. Sound(F)'
    BY <2>1, <2>2, SoundKept
  <2>. QED
    BY <1>2, <2>3 DEF Sound
<1>5. ASSUME NEW p \in Procs, Serves(p, u)'
      PROVE  /\ Sound(Outcome(u, txn[p].gone, txn[p].new))'
             /\ (txn[p].drop \subseteq FilesOf(u) \ txn[p].gone \/ FilesOf(u) = {})'
  <2>1. Serves(p, u) /\ txn'[p] = txn[p]
    BY <1>5
  <2>2. PICK gone, new : gone = txn[p].gone /\ new = txn[p].new
    OBVIOUS
  <2>3. Sound(Outcome(u, gone, new))
    BY <1>1, <2>1, <2>2 DEF AloneOn
  <2>4. PICK S : S = Outcome(u, gone, new)
    OBVIOUS
  <2>5. PICK T \in SUBSET S : T = (F \ gone) \cup new
    BY <2>4 DEF Outcome
  <2>6. \A a \in S : a.task = u /\ a \in Att
    <3>1. \A a \in new : a.task = u /\ a \in Att
      BY <1>1, <2>1, <2>2 DEF AttType, Careful, Serves, TaskTxn
    <3>. QED
      BY <1>3, <2>4, <3>1 DEF Outcome
  <2>7. \A a \in T : Key(a) \in blobs => Key(a) \in blobs' \cup lost'
    BY <2>6, KeyOf
  <2>8. Sound(T)'
    BY <2>3, <2>4, <2>7, SoundKept
  <2>9. Sound(Outcome(u, txn[p].gone, txn[p].new))'
    BY <1>2, <2>1, <2>2, <2>5, <2>8 DEF Sound, Outcome
  <2>10. (txn[p].drop \subseteq FilesOf(u) \ txn[p].gone \/ FilesOf(u) = {})'
    BY <1>1, <2>1 DEF AloneOn
  <2>. QED
    BY <2>9, <2>10
<1>6. \A p, q \in Procs : Serves(p, u)' /\ Serves(q, u)' => p = q
  BY <1>1 DEF AloneOn
<1>. QED
  BY <1>4, <1>5, <1>6 DEF AloneOn

(* A step of no handler of a task: tasks and rows of files at most go.     *)
LEMMA AsideKeeps ==
    ASSUME AttInv, RequestsType', clash \subseteq clash', UNCHANGED <<blobs, made, lost>>,
           \A q \in Procs : txn[q].op \in TaskOps \/ txn'[q].op \in TaskOps => txn'[q] = txn[q],
           att' \subseteq att, \A t \in Tasks : FilesOf(t)' \in {FilesOf(t), {}},
           task' \in [Tasks -> Homes \cup {"none", "deleted"}],
           \A a \in att' : Exists(a.task)',
           \A q \in Procs : txn[q].op = "update_task" /\ txn[q].new # {} => Exists(txn[q].t)'
    PROVE  AttInv'
<1>1. ASSUME NEW q \in Procs, txn'[q].op \in TaskOps
      PROVE  txn'[q] \in TaskTxn /\ Careful(txn[q])'
  <2>1. txn'[q] = txn[q] /\ txn[q] \in TaskTxn /\ Careful(txn[q])
    BY <1>1 DEF AttInv, AttType
  <2>. QED
    BY <2>1 DEF Careful
<1>2. AttType'
  BY <1>1 DEF AttInv, AttType
<1>3. ASSUME NEW u \in Tasks, u \notin clash' PROVE AloneOn(u)'
  <2>1. \A q \in Procs : Serves(q, u)' => Serves(q, u)
    BY DEF Serves
  <2>2. \A q \in Procs : Serves(q, u) => Serves(q, u)' /\ txn'[q] = txn[q]
    BY DEF Serves
  <2>3. PICK t : t # u
    BY <1>3
  <2>. QED
    BY <1>3, <2>1, <2>2, <2>3, ElsewhereKept
<1>. QED
  BY <1>2, <1>3 DEF AttInv

(* A handler of a task goes on or ends.                                    *)
LEMMA TurnKeeps ==
    ASSUME AttInv, RequestsType', NEW p \in Procs, NEW t \in Tasks, Serves(p, t),
           NEW x, Goto(p, x), x.op \in TaskOps => x \in TaskTxn /\ Careful(x)' /\ x.t = t,
           lost \subseteq lost', made' \in Nat, att' \subseteq Att, \A a \in att' : Exists(a.task)',
           task' \in [Tasks -> Homes \cup {"none", "deleted"}],
           \A a \in Att : a.task # t => (a \in att' <=> a \in att),
           \A k \in blobs : k[1] # t => k \in blobs',
           \A q \in Procs \ {p} :
              txn[q].op = "update_task" /\ txn[q].new # {} => Exists(txn[q].t)',
           t \notin clash =>
              IF x.op \in TaskOps
              THEN /\ Sound(Outcome(t, x.gone, x.new))'
                   /\ (x.drop \subseteq FilesOf(t) \ x.gone \/ FilesOf(t) = {})'
              ELSE Sound(FilesOf(t))'
    PROVE  AttInv'
<1>1. /\ txn' = [txn EXCEPT ![p] = x] /\ clash' = clash
      /\ txn'[p] = x /\ \A q \in Procs \ {p} : txn'[q] = txn[q]
  BY DEF Goto, AttInv, AttType, RequestsType
<1>2. ASSUME NEW q \in Procs, txn'[q].op \in TaskOps
      PROVE  txn'[q] \in TaskTxn /\ Careful(txn[q])'
  <2>1. CASE q = p
    BY <1>1, <1>2, <2>1 DEF Careful
  <2>2. CASE q # p
    <3>1. txn'[q] = txn[q] /\ txn[q] \in TaskTxn /\ Careful(txn[q])
      BY <1>1, <1>2, <2>2 DEF AttInv, AttType
    <3>. QED
      BY <2>2, <3>1 DEF Careful
  <2>. QED
    BY <2>1, <2>2
<1>3. AttType'
  BY <1>2 DEF AttInv, AttType
<1>4. ASSUME NEW u \in Tasks \ clash, u # t PROVE AloneOn(u)'
  <2>1. FilesOf(u)' = FilesOf(u)
    <3>1. att \subseteq Att
      BY DEF AttInv, AttType
    <3>. QED
      BY <1>4, <3>1 DEF FilesOf
  <2>2. \A q \in Procs : Serves(q, u)' => Serves(q, u)
    BY <1>1, <1>4 DEF Serves
  <2>3. \A q \in Procs : Serves(q, u) => Serves(q, u)' /\ txn'[q] = txn[q]
    BY <1>1, <1>4 DEF Serves
  <2>. QED
    BY <1>4, <2>1, <2>2, <2>3, ElsewhereKept
<1>5. ASSUME t \notin clash PROVE AloneOn(t)'
  <2>1. \A q \in Procs : Serves(q, t) => q = p
    BY <1>5 DEF AttInv, AloneOn
  <2>2. \A q \in Procs : Serves(q, t)' => q = p /\ x.op \in TaskOps
    BY <1>1, <2>1 DEF Serves
  <2>3. CASE x.op \in TaskOps
    <3>1. Serves(p, t)'
      BY <1>1, <2>3 DEF Serves
    <3>2. Sound(Outcome(t, txn[p].gone, txn[p].new))'
      BY <1>1, <1>5, <2>3 DEF Sound, Outcome
    <3>3. (txn[p].drop \subseteq FilesOf(t) \ txn[p].gone \/ FilesOf(t) = {})'
      BY <1>1, <1>5, <2>3
    <3>. QED
      BY <2>2, <3>1, <3>2, <3>3 DEF AloneOn
  <2>4. CASE x.op \notin TaskOps
    BY <1>5, <2>2, <2>4 DEF AloneOn
  <2>. QED
    BY <2>3, <2>4
<1>. QED
  BY <1>1, <1>3, <1>4, <1>5 DEF AttInv

(* A handler of a task begins.                                             *)
LEMMA BeginKeeps ==
    ASSUME AttInv, RequestsType', NEW p \in Procs, NEW x \in TaskTxn, Start(p, x), Careful(x),
           x.gone = {}, x.new = {}, x.drop \subseteq FilesOf(x.t), UNCHANGED board
    PROVE  AttInv'
<1>1. /\ txn[p] = Idle /\ txn'[p] = x /\ \A q \in Procs \ {p} : txn'[q] = txn[q]
      /\ clash' = clash \cup UNION {txn[q].on \cap x.on : q \in Procs}
      /\ UNCHANGED <<task, att, blobs, made, lost>>
  BY DEF Start, Free, AttInv, AttType, RequestsType, board
<1>2. Idle.op \notin TaskOps
  BY DEF Idle, TaskOps
<1>3. ASSUME NEW q \in Procs, txn'[q].op \in TaskOps
      PROVE  txn'[q] \in TaskTxn /\ Careful(txn[q])'
  <2>1. txn'[q] \in TaskTxn /\ Careful(x) /\ (q # p => Careful(txn[q]))
    BY <1>1, <1>3 DEF AttInv, AttType
  <2>. QED
    BY <1>1, <2>1 DEF Careful, Exists
<1>4. AttType'
  BY <1>1, <1>3 DEF AttInv, AttType, Exists
<1>5. ASSUME NEW u \in Tasks, u \notin clash', u # x.t PROVE AloneOn(u)'
  <2>1. FilesOf(u)' = FilesOf(u)
    BY <1>1 DEF FilesOf
  <2>2. \A q \in Procs : Serves(q, u)' => Serves(q, u)
    BY <1>1, <1>5 DEF Serves
  <2>3. \A q \in Procs : Serves(q, u) => Serves(q, u)' /\ txn'[q] = txn[q]
    BY <1>1, <1>2, <1>5 DEF Serves
  <2>. QED
    BY <1>1, <1>5, <2>1, <2>2, <2>3, ElsewhereKept
<1>6. ASSUME NEW u \in Tasks, u \notin clash', u = x.t PROVE AloneOn(u)'
  <2>1. \A q \in Procs : ~Serves(q, u)
    <3> SUFFICES ASSUME NEW q \in Procs, Serves(q, u) PROVE FALSE
      OBVIOUS
    <3>1. u \in txn[q].on
      BY DEF AttInv, AttType, Careful, Serves
    <3>2. u \in x.on
      BY <1>6 DEF Careful
    <3>. QED
      BY <1>1, <1>6, <3>1, <3>2
  <2>2. Sound(FilesOf(u))
    BY <1>1, <1>6, <2>1 DEF AttInv, AloneOn
  <2>3. \A q \in Procs : Serves(q, u)' => q = p
    BY <1>1, <2>1 DEF Serves
  <2>4. Serves(p, u)'
    BY <1>1, <1>6 DEF Serves, TaskTxn
  <2>5. Sound(Outcome(u, txn[p].gone, txn[p].new))'
    BY <1>1, <2>2 DEF Sound, Outcome, FilesOf, Key
  <2>6. (txn[p].drop \subseteq FilesOf(u) \ txn[p].gone)'
    BY <1>1, <1>6 DEF FilesOf
  <2>. QED
    BY <2>3, <2>4, <2>5, <2>6 DEF AloneOn
<1>. QED
  BY <1>4, <1>5, <1>6 DEF AttInv


(* What is done to handlers that are none of a task.                       *)
Aside ==
    /\ clash \subseteq clash'
    /\ \A q \in Procs :
          txn[q].op \in TaskOps \/ txn'[q].op \in TaskOps => txn'[q] = txn[q]

LEMMA AsideSteps ==
    ASSUME RequestsType
    PROVE  /\ UNCHANGED requests => Aside
           /\ \A p \in Procs : txn[p].op \notin TaskOps /\ Done(p) => Aside
           /\ \A p \in Procs : \A t : t.op \notin TaskOps /\ Start(p, t) => Aside
<1>1. Idle.op \notin TaskOps
  BY DEF Idle, TaskOps
<1>2. UNCHANGED requests => Aside
  BY DEF requests, Aside
<1>3. ASSUME NEW p \in Procs, NEW t, t.op \notin TaskOps, Start(p, t) PROVE Aside
  BY <1>1, <1>3 DEF Start, Free, Aside, RequestsType
<1>4. ASSUME NEW p \in Procs, txn[p].op \notin TaskOps, Done(p) PROVE Aside
  BY <1>1, <1>4 DEF Done, Goto, Aside, RequestsType
<1>. QED
  BY <1>2, <1>3, <1>4

LEMMA EvaluationsAside == ASSUME RequestsType, EvaluationsNext PROVE Aside
<1>1. ASSUME NEW m \in Milestones, NEW e, NEW f, NEW a, CreateMilestone(m, e, f, a) PROVE Aside
  BY <1>1, AsideSteps DEF CreateMilestone, AtOnce
<1>2. ASSUME NEW m \in Milestones, DeleteMilestone(m) PROVE Aside
  BY <1>2, AsideSteps DEF DeleteMilestone, AtOnce
<1>3. CASE Reassign
  BY <1>3, AsideSteps DEF Reassign, AtOnce
<1>4. ASSUME NEW p \in Procs, PatchCommit(p) \/ EvaluateCommit(p) PROVE Aside
  <2>1. txn[p].op \notin TaskOps /\ Done(p)
    BY <1>4 DEF PatchCommit, EvaluateCommit, At, TaskOps
  <2>. QED
    BY <2>1, AsideSteps
<1>5. ASSUME NEW p \in Procs, NEW m \in Milestones, PatchLoad(p, m) PROVE Aside
  <2>1. PICK t : Start(p, t) /\ t.op = "patch"
    BY <1>5 DEF PatchLoad
  <2>. QED
    BY <2>1, AsideSteps DEF TaskOps
<1>6. ASSUME NEW p \in Procs, NEW m, NEW f, NEW table, NEW v, NEW about,
             Evaluate(p, m, f, table, v, about)
      PROVE  Aside
  <2>1. PICK t : Start(p, t) /\ t.op = "evaluate"
    BY <1>6 DEF Evaluate
  <2>. QED
    BY <2>1, AsideSteps DEF TaskOps
<1>7. ASSUME NEW p \in Procs, NEW m \in Milestones, NEW f \in Faculty,
             EvaluateGroup(p, m, f) \/ EvaluateAsJury(p, m, f)
      PROVE  Aside
  BY <1>6, <1>7 DEF EvaluateGroup, EvaluateAsJury
<1>. QED
  BY <1>1, <1>2, <1>3, <1>4, <1>5, <1>7 DEF EvaluationsNext

LEMMA AttStarts == Init => AttInv
BY DEF Init, HandlersInit, BoardInit, AttInv, AttType, RequestsType, Shape, Idle, TaskOps,
       AloneOn, Serves, Sound, FilesOf

(* The handlers of sprints, and all others that are none of a task.        *)
LEMMA StillKeeps ==
    ASSUME AttInv, RequestsType', Aside, UNCHANGED <<task, att, blobs, made, lost>>
    PROVE  AttInv'
<1>1. AttType
  BY DEF AttInv
<1>2. \A a \in att' : Exists(a.task)'
  BY <1>1 DEF AttType, Exists
<1>3. \A t \in Tasks : FilesOf(t)' = FilesOf(t)
  BY DEF FilesOf
<1>4. ASSUME NEW q \in Procs, txn[q].op = "update_task", txn[q].new # {}
      PROVE  Exists(txn[q].t)'
  <2>1. txn'[q] = txn[q]
    BY <1>4 DEF Aside, TaskOps
  <2>2. Exists(txn[q].t)
    BY <1>1, <1>4 DEF AttType, Careful, TaskOps
  <2>. QED
    BY <2>1, <2>2 DEF Exists
<1>. QED
  BY <1>1, <1>2, <1>3, <1>4, AsideKeeps DEF Aside, AttType

LEMMA UnlinkKeeps ==
    ASSUME AttInv, RequestsType', NEW p \in Procs, Unlink(p)
    PROVE  AttInv'
<1>1. AttType /\ RequestsType
  BY DEF AttInv, AttType
<1>2. Aside
  <2>1. txn[p].op = "delete_sprint" /\ Goto(p, [txn[p] EXCEPT !.phase = "delete"])
    BY DEF Unlink, At
  <2>2. txn'[p].op = txn[p].op /\ \A q \in Procs \ {p} : txn'[q] = txn[q]
    BY <1>1, <2>1 DEF Goto, RequestsType, Shape
  <2>. QED
    BY <2>1, <2>2 DEF Aside, Goto, TaskOps
<1>3. PICK s : task' = [t \in Tasks |-> IF task[t] = s THEN Backlog ELSE task[t]]
  BY DEF Unlink
<1>4. UNCHANGED <<att, blobs, made, lost>>
  BY DEF Unlink
<1>5. task' \in [Tasks -> Homes \cup {"none", "deleted"}]
  BY <1>1, <1>3 DEF AttType, Homes
<1>6. \A t \in Tasks : Exists(t) => Exists(t)'
  BY <1>3 DEF Exists
<1>7. \A a \in att' : Exists(a.task)'
  BY <1>1, <1>4, <1>6 DEF AttType, Att
<1>8. \A t \in Tasks : FilesOf(t)' = FilesOf(t)
  BY <1>4 DEF FilesOf
<1>9. ASSUME NEW q \in Procs, txn[q].op = "update_task", txn[q].new # {}
      PROVE  Exists(txn[q].t)'
  <2>1. Exists(txn[q].t) /\ txn[q].t \in Tasks /\ txn'[q] = txn[q]
    BY <1>1, <1>2, <1>9 DEF AttType, Careful, TaskTxn, TaskOps, Aside
  <2>. QED
    BY <1>6, <2>1
<1>. QED
  BY <1>2, <1>4, <1>5, <1>7, <1>8, <1>9, AsideKeeps DEF Aside

LEMMA DeleteSprintKeeps ==
    ASSUME AttInv, RequestsType', NEW p \in Procs, DeleteSprint(p)
    PROVE  AttInv'
<1>1. AttType /\ RequestsType
  BY DEF AttInv, AttType
<1>2. Aside
  BY <1>1, AsideSteps DEF DeleteSprint, At, TaskOps
<1>3. CASE UNCHANGED <<task, att>>
  BY <1>2, <1>3, StillKeeps DEF DeleteSprint
<1>4. ASSUME NEW in, NEW s,
             task' = [t \in Tasks |-> IF t \in in THEN "deleted"
                                      ELSE IF task[t] = s THEN Backlog ELSE task[t]],
             att' = {a \in att : a.task \notin in},
             \A q \in Procs \ {p} : \A t \in in : ~Holds(q, t)
      PROVE  AttInv'
  <2>1. UNCHANGED <<blobs, made, lost>>
    BY DEF DeleteSprint
  <2>2. task' \in [Tasks -> Homes \cup {"none", "deleted"}]
    BY <1>1, <1>4 DEF AttType, Homes
  <2>3. \A t \in Tasks \ in : Exists(t) => Exists(t)'
    BY <1>4 DEF Exists
  <2>4. att' \subseteq att /\ \A a \in att' : Exists(a.task)'
    BY <1>1, <1>4, <2>3 DEF AttType, Att
  <2>5. \A t \in Tasks : FilesOf(t)' \in {FilesOf(t), {}}
    <3>1. ASSUME NEW t \in in PROVE FilesOf(t)' = {}
      BY <1>4, <3>1 DEF FilesOf
    <3>2. ASSUME NEW t \in Tasks \ in PROVE FilesOf(t)' = FilesOf(t)
      BY <1>4, <3>2 DEF FilesOf
    <3>. QED
      BY <3>1, <3>2
  <2>6. ASSUME NEW q \in Procs, txn[q].op = "update_task", txn[q].new # {}
        PROVE  Exists(txn[q].t)'
    <3>1. Exists(txn[q].t) /\ txn[q].t \in Tasks /\ txn'[q] = txn[q]
      BY <1>1, <1>2, <2>6 DEF AttType, Careful, TaskTxn, TaskOps, Aside
    <3>2. q # p
      BY <2>6 DEF DeleteSprint, At
    <3>3. txn[q].t \notin in
      BY <1>4, <2>6, <3>2 DEF Holds
    <3>. QED
      BY <2>3, <3>1, <3>3
  <2>. QED
    BY <1>2, <2>1, <2>2, <2>4, <2>5, <2>6, AsideKeeps DEF Aside
<1>5. ASSUME ~UNCHANGED <<task, att>>
      PROVE  \E in, s :
                /\ task' = [t \in Tasks |-> IF t \in in THEN "deleted"
                                          ELSE IF task[t] = s THEN Backlog ELSE task[t]]
                /\ att' = {a \in att : a.task \notin in}
                /\ \A q \in Procs \ {p} : \A t \in in : ~Holds(q, t)
  <2>. DEFINE in == {t \in txn[p].in : Exists(t)}
              s == txn[p].s
  <2>1. /\ task' = [t \in Tasks |-> IF t \in in THEN "deleted"
                                    ELSE IF task[t] = s THEN Backlog ELSE task[t]]
        /\ att' = {a \in att : a.task \notin in}
    BY <1>5 DEF DeleteSprint
  <2>2. \A q \in Procs \ {p} : \A t \in in : ~Holds(q, t)
    BY <1>5 DEF DeleteSprint, Others
  <2>. HIDE DEF in, s
  <2>. QED
    BY <2>1, <2>2
<1>6. CASE ~UNCHANGED <<task, att>>
  <2>1. PICK in, s :
           /\ task' = [t \in Tasks |-> IF t \in in THEN "deleted"
                                     ELSE IF task[t] = s THEN Backlog ELSE task[t]]
           /\ att' = {a \in att : a.task \notin in}
           /\ \A q \in Procs \ {p} : \A t \in in : ~Holds(q, t)
    BY <1>5, <1>6
  <2>. QED
    BY <2>1, <1>4
<1>. QED
  BY <1>3, <1>6

LEMMA BeginsKeep ==
    ASSUME AttInv, RequestsType', NEW p \in Procs, NEW t \in Tasks,
           NEW s \in Sprints \cup {Backlog}, NEW edit \in BOOLEAN,
           CreateTaskLoad(p, t, s) \/ UpdateTaskLoad(p, t, s, edit) \/ DeleteTaskLoad(p, t)
    PROVE  AttInv'
<1>1. AttType
  BY DEF AttInv
<1>2. FilesOf(t) \in SUBSET Att /\ \A a \in FilesOf(t) : a.task = t
  BY <1>1, FilesAre
<1>3. CASE CreateTaskLoad(p, t, s)
  <2>. DEFINE x == [Began("create_task", t, "flush") EXCEPT !.to = s]
  <2>1. x \in TaskTxn /\ x.op = "create_task"
    BY DEF Began, TaskTxn, TaskOps, Homes
  <2>2. x.gone = {} /\ x.new = {} /\ x.drop = {} /\ x.on = {t} /\ x.t = t /\ x.phase = "flush"
    BY DEF Began
  <2>3. Careful(x)
    BY <2>1, <2>2 DEF Careful
  <2>. QED
    BY <1>3, <2>1, <2>2, <2>3, BeginKeeps DEF CreateTaskLoad
<1>4. CASE UpdateTaskLoad(p, t, s, edit)
  <2>. DEFINE x == [Began("update_task", t, "flush")
                      EXCEPT !.to = s, !.seen = task[t], !.edit = edit]
  <2>0. task[t] \in Homes
    BY <1>4 DEF UpdateTaskLoad, Exists, Homes
  <2>1. x \in TaskTxn /\ x.op = "update_task"
    BY <2>0 DEF Began, TaskTxn, TaskOps, Homes
  <2>2. x.gone = {} /\ x.new = {} /\ x.drop = {} /\ x.on = {t} /\ x.t = t /\ x.phase = "flush"
    BY DEF Began
  <2>3. Careful(x)
    BY <2>1, <2>2 DEF Careful
  <2>. QED
    BY <1>4, <2>1, <2>2, <2>3, BeginKeeps DEF UpdateTaskLoad
<1>5. CASE DeleteTaskLoad(p, t)
  <2>. DEFINE x == [Began("delete_task", t, "files") EXCEPT !.drop = FilesOf(t)]
  <2>1. x \in TaskTxn /\ x.op = "delete_task"
    BY <1>2 DEF Began, TaskTxn, TaskOps, Homes
  <2>2. /\ x.gone = {} /\ x.new = {} /\ x.drop = FilesOf(t) /\ x.on = {t} /\ x.t = t
        /\ x.phase = "files"
    BY DEF Began
  <2>3. Careful(x)
    BY <1>2, <2>1, <2>2 DEF Careful
  <2>. QED
    BY <1>5, <2>1, <2>2, <2>3, BeginKeeps DEF DeleteTaskLoad
<1>. QED
  BY <1>3, <1>4, <1>5


(* A handler of a task that goes on, and what is to be shown of it.        *)
LEMMA Serving ==
    ASSUME AttInv, NEW p \in Procs, txn[p].op \in TaskOps
    PROVE  /\ txn[p] \in TaskTxn /\ Careful(txn[p]) /\ Serves(p, txn[p].t)
           /\ \A q \in Procs : txn[q].op = "update_task" /\ txn[q].new # {} =>
                 Exists(txn[q].t) /\ txn[q].t \in Tasks
           /\ txn[p].t \notin clash =>
                 /\ Sound(Outcome(txn[p].t, txn[p].gone, txn[p].new))
                 /\ \/ txn[p].drop \subseteq FilesOf(txn[p].t) \ txn[p].gone
                    \/ FilesOf(txn[p].t) = {}
<1>1. txn[p] \in TaskTxn /\ Careful(txn[p]) /\ Serves(p, txn[p].t)
  BY DEF AttInv, AttType, Serves
<1>2. txn[p].t \in Tasks
  BY <1>1 DEF TaskTxn
<1>3. ASSUME NEW q \in Procs, txn[q].op = "update_task", txn[q].new # {}
      PROVE  Exists(txn[q].t) /\ txn[q].t \in Tasks
  BY <1>3 DEF AttInv, AttType, Careful, TaskTxn, TaskOps
<1>4. ASSUME txn[p].t \notin clash PROVE AloneOn(txn[p].t)
  BY <1>2, <1>4 DEF AttInv
<1>. QED
  BY <1>1, <1>3, <1>4 DEF AloneOn

(* One that fails has lost the files it removed; all else is stored.       *)
LEMMA FailSound ==
    ASSUME NEW t, NEW gone, NEW new, Sound(Outcome(t, gone, new)),
           att' = att, blobs \subseteq blobs', lost' = lost \cup {Key(a) : a \in gone}
    PROVE  Sound(FilesOf(t))'
<1>1. FilesOf(t)' = FilesOf(t)
  BY DEF FilesOf
<1>2. \A a \in FilesOf(t) : a \in Outcome(t, gone, new) \/ Key(a) \in lost'
  BY DEF Outcome
<1>3. PICK F : F = FilesOf(t)
  OBVIOUS
<1>4. \A a \in F : /\ Key(a) \in blobs' \cup lost'
                   /\ \A b \in F : Key(a) = Key(b) => a = b \/ Key(a) \in lost'
  BY <1>2, <1>3 DEF Sound
<1>. QED
  BY <1>1, <1>3, <1>4 DEF Sound, Key

LEMMA FailKeeps ==
    ASSUME AttInv, RequestsType', NEW p \in Procs, txn[p].op \in TaskOps, Fail(p),
           UNCHANGED <<task, att>>, made' \in Nat, blobs \subseteq blobs'
    PROVE  AttInv'
<1>1. PICK t \in Tasks : t = txn[p].t
  BY Serving DEF TaskTxn
<1>2. PICK gone, new : gone = txn[p].gone /\ new = txn[p].new
  OBVIOUS
<1>3. /\ Serves(p, t) /\ (t \notin clash => Sound(Outcome(t, gone, new)))
      /\ \A q \in Procs : txn[q].op = "update_task" /\ txn[q].new # {} => Exists(txn[q].t)
  BY <1>1, <1>2, Serving
<1>4. Goto(p, Idle) /\ lost' = lost \cup {Key(a) : a \in gone}
  BY <1>2 DEF Fail, Done
<1>5. t \notin clash => Sound(FilesOf(t))'
  BY <1>3, <1>4, FailSound
<1>6. Idle.op \notin TaskOps
  BY DEF Idle, TaskOps
<1>7. att' \subseteq Att /\ task' \in [Tasks -> Homes \cup {"none", "deleted"}]
      /\ \A a \in att' : Exists(a.task)'
  BY DEF AttInv, AttType, Exists
<1>8. ASSUME NEW q \in Procs \ {p}, txn[q].op = "update_task", txn[q].new # {}
      PROVE  Exists(txn[q].t)'
  <2>1. txn'[q] = txn[q] /\ Exists(txn[q].t)
    BY <1>3, <1>4, <1>8 DEF Goto, AttInv, AttType, RequestsType
  <2>. QED
    BY <2>1 DEF Exists
<1>. QED
  BY <1>3, <1>4, <1>5, <1>6, <1>7, <1>8, TurnKeeps

LEMMA FlushKeeps ==
    ASSUME AttInv, RequestsType', NEW p \in Procs, Flush(p)
    PROVE  AttInv'
<1>1. txn[p].op \in TaskOps /\ txn[p].phase = "flush"
  BY DEF Flush, AttInv, AttType, RequestsType, Shape
<1>2. PICK t \in Tasks : t = txn[p].t
  BY <1>1, Serving DEF TaskTxn
<1>3. /\ txn[p] \in TaskTxn /\ Careful(txn[p]) /\ Serves(p, t)
      /\ txn[p].gone = {} /\ txn[p].new = {} /\ txn[p].on = {t}
  BY <1>1, <1>2, Serving DEF Careful
<1>4. ASSUME t \notin clash PROVE Sound(FilesOf(t))
  BY <1>1, <1>2, <1>3, <1>4, Serving DEF Outcome
<1>5. UNCHANGED <<task, att, blobs, made, lost>>
  BY DEF Flush, board
<1>6. /\ att' \subseteq Att /\ task' \in [Tasks -> Homes \cup {"none", "deleted"}]
      /\ \A a \in att' : Exists(a.task)'
      /\ made' \in Nat
  BY <1>5 DEF AttInv, AttType, Exists
<1>7. ASSUME NEW q \in Procs \ {p}, txn[q].op = "update_task", txn[q].new # {}
      PROVE  Exists(txn[q].t)'
  <2>1. txn'[q] = txn[q]
    BY <1>7 DEF Flush, Done, Goto, AttInv, AttType, RequestsType
  <2>2. Exists(txn[q].t)
    BY <1>1, <1>7, Serving
  <2>. QED
    BY <1>5, <2>1, <2>2 DEF Exists
<1>8. t \notin clash => Sound(FilesOf(t))'
  BY <1>4, <1>5 DEF Sound, FilesOf, Key
<1>9. CASE Done(p)
  <2>1. Idle.op \notin TaskOps
    BY DEF Idle, TaskOps
  <2>. QED
    BY <1>3, <1>5, <1>6, <1>7, <1>8, <1>9, <2>1, TurnKeeps DEF Done
<1>10. ASSUME NEW d \in SUBSET FilesOf(t), NEW edit \in BOOLEAN,
              Goto(p, [txn[p] EXCEPT !.phase = "files", !.edit = edit, !.drop = d])
       PROVE  AttInv'
  <2>0. PICK x : x = [txn[p] EXCEPT !.phase = "files", !.edit = edit, !.drop = d]
    OBVIOUS
  <2>1. d \in SUBSET Att /\ \A a \in d : a.task = t
    BY <1>10, FilesAre DEF AttInv
  <2>2. /\ x \in TaskTxn /\ x.gone = {} /\ x.new = {} /\ x.drop = d /\ x.t = t /\ x.on = {t}
        /\ x.phase = "files"
    BY <1>2, <1>3, <2>0, <2>1 DEF TaskTxn
  <2>3. Careful(x)'
    BY <2>1, <2>2 DEF Careful
  <2>4. FilesOf(t)' = FilesOf(t)
    BY <1>5 DEF FilesOf
  <2>5. ASSUME t \notin clash
        PROVE  /\ Sound(Outcome(t, x.gone, x.new))'
               /\ (x.drop \subseteq FilesOf(t) \ x.gone)'
    <3>1. Sound(FilesOf(t))'
      BY <1>8, <2>5
    <3>2. Outcome(t, {}, {})' = FilesOf(t)'
      BY DEF Outcome
    <3>3. Sound(Outcome(t, {}, {}))'
      BY <3>1, <3>2 DEF Sound
    <3>. QED
      BY <3>3, <2>2, <2>4
  <2>6. Goto(p, x)
    BY <1>10, <2>0
  <2>7. x.op \in TaskOps
    BY <2>2 DEF TaskTxn
  <2>. QED
    BY <1>3, <1>5, <1>6, <1>7, <2>2, <2>3, <2>5, <2>6, <2>7, TurnKeeps
<1>11. CASE ~Done(p)
  <2>1. PICK d \in SUBSET FilesOf(t) :
           Goto(p, [txn[p] EXCEPT !.phase = "files",
                                  !.edit = @ \/ txn[p].op = "create_task", !.drop = d])
    BY <1>2, <1>11 DEF Flush
  <2>2. PICK edit \in BOOLEAN : edit = (txn[p].edit \/ txn[p].op = "create_task")
    BY <1>3 DEF TaskTxn
  <2>3. Goto(p, [txn[p] EXCEPT !.phase = "files", !.edit = edit, !.drop = d])
    BY <2>1, <2>2
  <2>. QED
    BY <1>10, <2>3
<1>. QED
  BY <1>9, <1>11


LEMMA DropFileKeeps ==
    ASSUME AttInv, RequestsType', NEW p \in Procs, DropFile(p)
    PROVE  AttInv'
<1>1. txn[p].op \in TaskOps /\ txn[p].phase = "files"
  BY DEF DropFile, AttInv, AttType, RequestsType, Shape
<1>2. PICK t \in Tasks : t = txn[p].t
  BY <1>1, Serving DEF TaskTxn
<1>3. PICK a \in txn[p].drop :
         /\ Goto(p, [txn[p] EXCEPT !.drop = @ \ {a}, !.gone = @ \cup {a}])
         /\ blobs' = blobs \ {Key(a)}
  BY DEF DropFile
<1>4. PICK drop, gone : drop = txn[p].drop /\ gone = txn[p].gone
  OBVIOUS
<1>5. /\ txn[p] \in TaskTxn /\ Careful(txn[p]) /\ Serves(p, t)
      /\ txn[p].new = {} /\ txn[p].on = {t} /\ a \in Att /\ a.task = t /\ a \in drop
      /\ \A b \in drop \cup gone : b \in Att /\ b.task = t
  BY <1>1, <1>2, <1>3, <1>4, Serving DEF Careful, TaskTxn
<1>6. PICK x : x = [txn[p] EXCEPT !.drop = @ \ {a}, !.gone = @ \cup {a}]
  OBVIOUS
<1>7. /\ x \in TaskTxn /\ x.gone = gone \cup {a} /\ x.new = {} /\ x.drop = drop \ {a}
      /\ x.t = t /\ x.on = {t} /\ x.phase = "files" /\ x.op \in TaskOps
  BY <1>1, <1>2, <1>4, <1>5, <1>6 DEF TaskTxn
<1>8. Careful(x)'
  BY <1>5, <1>7 DEF Careful
<1>9. UNCHANGED <<task, att, made, lost>>
  BY DEF DropFile
<1>10. /\ att' \subseteq Att /\ task' \in [Tasks -> Homes \cup {"none", "deleted"}]
       /\ \A b \in att' : Exists(b.task)'
       /\ made' \in Nat
  BY <1>9 DEF AttInv, AttType, Exists
<1>11. ASSUME NEW q \in Procs \ {p}, txn[q].op = "update_task", txn[q].new # {}
       PROVE  Exists(txn[q].t)'
  <2>1. txn'[q] = txn[q]
    BY <1>3, <1>11 DEF Goto, AttInv, AttType, RequestsType
  <2>2. Exists(txn[q].t)
    BY <1>1, <1>11, Serving
  <2>. QED
    BY <1>9, <2>1, <2>2 DEF Exists
<1>12. \A k \in blobs : k[1] # t => k \in blobs'
  BY <1>3, <1>5 DEF Key
<1>13. FilesOf(t)' = FilesOf(t)
  BY <1>9 DEF FilesOf
<1>14. ASSUME t \notin clash
       PROVE  /\ Sound(Outcome(t, x.gone, x.new))'
              /\ (x.drop \subseteq FilesOf(t) \ x.gone \/ FilesOf(t) = {})'
  <2>1. /\ Sound(Outcome(t, gone, {}))
        /\ drop \subseteq FilesOf(t) \ gone \/ FilesOf(t) = {}
    BY <1>1, <1>2, <1>4, <1>5, <1>14, Serving
  <2>2. PICK F : F = FilesOf(t)
    OBVIOUS
  <2>3. ASSUME NEW b \in (F \ gone) \ {a}
        PROVE  Key(b) \in blobs' \cup lost
    <3>1. a \in F \ gone
      BY <1>5, <2>1, <2>2, <2>3
    <3>2. Key(b) \in blobs \cup lost /\ (Key(b) = Key(a) => Key(b) \in lost)
      BY <2>1, <2>2, <2>3, <3>1 DEF Sound, Outcome
    <3>. QED
      BY <1>3, <3>2
  <2>4. \A b \in (F \ gone) \ {a} : \A c \in (F \ gone) \ {a} :
           Key(b) = Key(c) => b = c \/ Key(b) \in lost
    BY <2>1, <2>2 DEF Sound, Outcome
  <2>5. Outcome(t, x.gone, x.new)' = (F \ gone) \ {a}
    BY <1>7, <1>13, <2>2 DEF Outcome
  <2>6. Sound(Outcome(t, x.gone, x.new))'
    BY <1>9, <2>3, <2>4, <2>5 DEF Sound, Key
  <2>7. (x.drop \subseteq FilesOf(t) \ x.gone \/ FilesOf(t) = {})'
    BY <1>7, <1>13, <2>1
  <2>. QED
    BY <2>6, <2>7
<1>15. Goto(p, x) /\ lost \subseteq lost'
  BY <1>3, <1>6, <1>9
<1>. QED
  BY <1>5, <1>7, <1>8, <1>9, <1>10, <1>11, <1>12, <1>14, <1>15, TurnKeeps

LEMMA UploadKeeps ==
    ASSUME AttInv, RequestsType', NEW p \in Procs, NEW f \in Files, Upload(p, f)
    PROVE  AttInv'
<1>1. /\ txn[p].op \in TaskOps /\ txn[p].phase = "files" /\ txn[p].op # "delete_task"
      /\ txn[p].drop = {}
  BY DEF Upload, MayUpload, AttInv, AttType, RequestsType, Shape
<1>2. PICK t \in Tasks : t = txn[p].t
  BY <1>1, Serving DEF TaskTxn
<1>3. PICK a : a = [n |-> made, task |-> t, file |-> f]
  OBVIOUS
<1>4. made \in Nat /\ a \in Att /\ a.task = t
  BY <1>3 DEF AttInv, AttType, Att
<1>5. CASE Fail(p)
  <2>1. made' \in Nat /\ blobs \subseteq blobs' /\ UNCHANGED <<task, att>>
    BY <1>4 DEF Upload
  <2>. QED
    BY <1>1, <1>5, <2>1, FailKeeps
<1>6. CASE ~Fail(p)
  <2>1. /\ Key(a) \notin blobs /\ blobs' = blobs \cup {Key(a)} /\ made' = made + 1
        /\ txn[p].op = "create_task" \/ Exists(t)
        /\ Goto(p, [txn[p] EXCEPT !.new = @ \cup {a}])
        /\ UNCHANGED <<task, att, lost>>
    BY <1>2, <1>3, <1>6 DEF Upload, Refused
  <2>2. PICK gone, new : gone = txn[p].gone /\ new = txn[p].new
    OBVIOUS
  <2>3. PICK x : x = [txn[p] EXCEPT !.new = @ \cup {a}]
    OBVIOUS
  <2>4. /\ txn[p] \in TaskTxn /\ Careful(txn[p]) /\ Serves(p, t) /\ txn[p].on = {t}
        /\ \A b \in gone \cup new : b \in Att /\ b.task = t
    BY <1>1, <1>2, <2>2, Serving DEF Careful, TaskTxn
  <2>5. /\ x \in TaskTxn /\ x.gone = gone /\ x.new = new \cup {a} /\ x.drop = {}
        /\ x.t = t /\ x.on = {t} /\ x.phase = "files" /\ x.op = txn[p].op
    BY <1>1, <1>2, <1>4, <2>2, <2>3, <2>4 DEF TaskTxn
  <2>6. Exists(t) => Exists(t)'
    BY <2>1 DEF Exists
  <2>7. Careful(x)'
    BY <1>1, <1>4, <2>1, <2>4, <2>5, <2>6 DEF Careful
  <2>8. /\ att' \subseteq Att /\ task' \in [Tasks -> Homes \cup {"none", "deleted"}]
        /\ \A b \in att' : Exists(b.task)'
        /\ made' \in Nat
    BY <1>4, <2>1 DEF AttInv, AttType, Exists
  <2>9. ASSUME NEW q \in Procs \ {p}, txn[q].op = "update_task", txn[q].new # {}
        PROVE  Exists(txn[q].t)'
    <3>1. txn'[q] = txn[q]
      BY <2>1, <2>9 DEF Goto, AttInv, AttType, RequestsType
    <3>2. Exists(txn[q].t)
      BY <1>1, <2>9, Serving
    <3>. QED
      BY <2>1, <3>1, <3>2 DEF Exists
  <2>10. ASSUME t \notin clash PROVE Sound(Outcome(t, x.gone, x.new))'
    <3>1. Sound(Outcome(t, gone, new))
      BY <1>1, <1>2, <2>2, <2>10, Serving
    <3>2. PICK S : S = Outcome(t, gone, new)
      OBVIOUS
    <3>3. Outcome(t, x.gone, x.new)' = S \cup {a}
      BY <2>1, <2>5, <3>2 DEF Outcome, FilesOf
    <3>4. \A b \in S : Key(b) \in blobs' \cup lost /\ (Key(b) = Key(a) => Key(b) \in lost)
      BY <2>1, <3>1, <3>2 DEF Sound
    <3>5. \A b \in S : \A c \in S : Key(b) = Key(c) => b = c \/ Key(b) \in lost
      BY <3>1, <3>2 DEF Sound
    <3>. QED
      BY <2>1, <3>3, <3>4, <3>5 DEF Sound, Key
  <2>11. (x.drop \subseteq FilesOf(t) \ x.gone \/ FilesOf(t) = {})'
    BY <2>5
  <2>12. Goto(p, x) /\ lost \subseteq lost' /\ x.op \in TaskOps
    BY <1>1, <2>1, <2>3, <2>5
  <2>13. \A k \in blobs : k \in blobs'
    BY <2>1
  <2>. QED
    BY <2>1, <2>4, <2>5, <2>7, <2>8, <2>9, <2>10, <2>11, <2>12, <2>13, TurnKeeps
<1>. QED
  BY <1>5, <1>6

LEMMA TaskCommitKeeps ==
    ASSUME AttInv, RequestsType', NEW p \in Procs, TaskCommit(p)
    PROVE  AttInv'
<1>1. /\ txn[p].op \in TaskOps /\ txn[p].phase = "files" /\ txn[p].op # "delete_task"
      /\ Goto(p, Idle) /\ UNCHANGED <<blobs, made, lost>>
  BY DEF TaskCommit, Done, AttInv, AttType, RequestsType, Shape
<1>2. PICK t \in Tasks : t = txn[p].t
  BY <1>1, Serving DEF TaskTxn
<1>3. PICK gone, new, to : gone = txn[p].gone /\ new = txn[p].new /\ to = txn[p].to
  OBVIOUS
<1>4. /\ Serves(p, t) /\ to \in Homes
      /\ \A b \in gone \cup new : b \in Att /\ b.task = t
      /\ txn[p].op = "create_task" \/ new = {} \/ Exists(t)
  BY <1>1, <1>2, <1>3, Serving DEF Careful, TaskTxn, TaskOps
<1>5. /\ task' \in {task, [task EXCEPT ![t] = to]}
      /\ txn[p].op = "create_task" => task' = [task EXCEPT ![t] = to]
      /\ att' = (att \ gone) \cup new
  BY <1>2, <1>3 DEF TaskCommit
<1>6. AttType
  BY DEF AttInv
<1>7. task' \in [Tasks -> Homes \cup {"none", "deleted"}]
  BY <1>4, <1>5, <1>6 DEF AttType
<1>8. /\ \A u \in Tasks : Exists(u) => Exists(u)'
      /\ txn[p].op = "create_task" => Exists(t)'
  BY <1>4, <1>5, <1>6 DEF AttType, Exists, Homes
<1>9. att' \subseteq Att /\ \A b \in att' : Exists(b.task)'
  <2>1. ASSUME NEW b \in att' PROVE b \in Att /\ Exists(b.task)'
    <3>1. CASE b \in att
      <4>1. b \in Att /\ b.task \in Tasks /\ Exists(b.task)
        BY <3>1, <1>6 DEF AttType, Att
      <4>. QED
        BY <4>1, <1>8
    <3>2. CASE b \in new
      <4>1. b \in Att /\ b.task = t /\ Exists(t)'
        BY <1>4, <1>8, <3>2
      <4>. QED
        BY <4>1
    <3>. QED
      BY <1>5, <3>1, <3>2
  <2>. QED
    BY <2>1
<1>10. ASSUME NEW q \in Procs \ {p}, txn[q].op = "update_task", txn[q].new # {}
       PROVE  Exists(txn[q].t)'
  <2>1. txn'[q] = txn[q]
    BY <1>1, <1>6, <1>10 DEF Goto, AttType, RequestsType
  <2>2. Exists(txn[q].t) /\ txn[q].t \in Tasks
    BY <1>1, <1>10, Serving
  <2>. QED
    BY <1>8, <2>1, <2>2
<1>11. ASSUME t \notin clash PROVE Sound(FilesOf(t))'
  <2>1. Sound(Outcome(t, gone, new))
    BY <1>1, <1>2, <1>3, <1>11, Serving
  <2>2. FilesOf(t)' = Outcome(t, gone, new)
    BY <1>4, <1>5 DEF FilesOf, Outcome
  <2>. QED
    BY <1>1, <2>1, <2>2 DEF Sound, Key
<1>12. Idle.op \notin TaskOps
  BY DEF Idle, TaskOps
<1>13. \A a \in Att : a.task # t => (a \in att' <=> a \in att)
  BY <1>4, <1>5
<1>14. made' \in Nat /\ lost \subseteq lost' /\ \A k \in blobs : k \in blobs'
  BY <1>1, <1>6 DEF AttType
<1>. QED
  BY <1>1, <1>4, <1>7, <1>9, <1>10, <1>11, <1>12, <1>13, <1>14, TurnKeeps

LEMMA DeleteTaskCommitKeeps ==
    ASSUME AttInv, RequestsType', NEW p \in Procs, DeleteTaskCommit(p)
    PROVE  AttInv'
<1>1. txn[p].op \in TaskOps /\ Goto(p, Idle) /\ UNCHANGED <<blobs, made, lost>>
  BY DEF DeleteTaskCommit, At, Done, TaskOps
<1>2. PICK t \in Tasks : t = txn[p].t
  BY <1>1, Serving DEF TaskTxn
<1>3. /\ UNCHANGED <<task, att>> /\ ~Exists(t)
      \/ /\ task' = [task EXCEPT ![t] = "deleted"] /\ att' = att \ FilesOf(t)
         /\ \A q \in Procs \ {p} : ~Holds(q, t)
  BY <1>2 DEF DeleteTaskCommit, Others
<1>4. AttType
  BY DEF AttInv
<1>5. task' \in [Tasks -> Homes \cup {"none", "deleted"}]
  BY <1>3, <1>4 DEF AttType
<1>6. /\ \A u \in Tasks \ {t} : Exists(u) => Exists(u)'
      /\ att' \subseteq att /\ FilesOf(t)' = {}
  BY <1>3, <1>4 DEF AttType, Exists, FilesOf
<1>7. \A b \in att' : b \in Att /\ Exists(b.task)'
  <2>1. ASSUME NEW b \in att' PROVE b \in Att /\ b.task # t /\ Exists(b.task)
    BY <2>1, <1>4, <1>6 DEF AttType, FilesOf
  <2>. QED
    BY <2>1, <1>6 DEF Att
<1>8. ASSUME NEW q \in Procs \ {p}, txn[q].op = "update_task", txn[q].new # {}
      PROVE  Exists(txn[q].t)'
  <2>1. txn'[q] = txn[q]
    BY <1>1, <1>4, <1>8 DEF Goto, AttType, RequestsType
  <2>2. Exists(txn[q].t) /\ txn[q].t \in Tasks
    BY <1>1, <1>8, Serving
  <2>3. txn[q].t # t
    BY <1>3, <1>8, <2>2 DEF Holds
  <2>. QED
    BY <1>6, <2>1, <2>2, <2>3
<1>9. Sound(FilesOf(t))'
  BY <1>6 DEF Sound
<1>10. Idle.op \notin TaskOps
  BY DEF Idle, TaskOps
<1>11. \A a \in Att : a.task # t => (a \in att' <=> a \in att)
  BY <1>3 DEF FilesOf
<1>12. /\ made' \in Nat /\ lost \subseteq lost' /\ att' \subseteq Att
       /\ \A k \in blobs : k \in blobs'
  BY <1>1, <1>4, <1>7 DEF AttType
<1>13. Serves(p, t)
  BY <1>1, <1>2, Serving
<1>. QED
  BY <1>1, <1>5, <1>7, <1>8, <1>9, <1>10, <1>11, <1>12, <1>13, TurnKeeps

LEMMA AttSteps == SprintInv /\ AttInv /\ [Next]_vars => AttInv'
<1> SUFFICES ASSUME SprintInv, AttInv, [Next]_vars PROVE AttInv'
  OBVIOUS
<1>0. RequestsType /\ RequestsType'
  BY SprintSteps DEF SprintInv, SprintsType
<1>1. ASSUME NEW s \in Sprints, CreateSprint(s) PROVE AttInv'
  BY <1>0, <1>1, AsideSteps, StillKeeps DEF CreateSprint, AtOnce
<1>2. ASSUME NEW p \in Procs, UpdateSprintCommit(p) PROVE AttInv'
  <2>1. Done(p) /\ txn[p].op \notin TaskOps /\ UNCHANGED <<task, att, blobs, made, lost>>
    BY <1>2 DEF UpdateSprintCommit, At, TaskOps
  <2>. QED
    BY <1>0, <2>1, AsideSteps, StillKeeps
<1>3. ASSUME NEW p \in Procs, NEW s \in Sprints, NEW to \in Statuses,
             UpdateSprintLoad(p, s, to) \/ DeleteSprintLoad(p, s)
      PROVE  AttInv'
  <2>1. PICK t : Start(p, t) /\ t.op \in {"update_sprint", "delete_sprint"}
    BY <1>3 DEF UpdateSprintLoad, DeleteSprintLoad
  <2>2. Aside
    BY <1>0, <2>1, AsideSteps DEF TaskOps
  <2>. QED
    BY <1>0, <1>3, <2>2, StillKeeps DEF UpdateSprintLoad, DeleteSprintLoad, board
<1>4. ASSUME NEW p \in Procs, NEW s \in Sprints, DeleteSprintLoad(p, s) PROVE AttInv'
  <2>1. "Active" \in Statuses
    BY DEF Statuses
  <2>. QED
    BY <1>3, <1>4, <2>1
<1>5. ASSUME NEW p \in Procs, NEW t \in Tasks, DeleteTaskLoad(p, t) PROVE AttInv'
  BY <1>0, <1>5, BeginsKeep
<1>6. ASSUME NEW p \in Procs, NEW t \in Tasks, NEW s \in Sprints \cup {Backlog},
             \/ CreateTaskLoad(p, t, s)
             \/ \E edit \in BOOLEAN : UpdateTaskLoad(p, t, s, edit)
      PROVE  AttInv'
  BY <1>0, <1>6, BeginsKeep
<1>7. ASSUME NEW p \in Procs,
             \/ Unlink(p) \/ DeleteSprint(p) \/ Flush(p) \/ DropFile(p) \/ TaskCommit(p)
             \/ DeleteTaskCommit(p)
      PROVE  AttInv'
  BY <1>0, <1>7, UnlinkKeeps, DeleteSprintKeeps, FlushKeeps, DropFileKeeps, TaskCommitKeeps,
     DeleteTaskCommitKeeps
<1>8. ASSUME NEW p \in Procs, BoardAbort(p) PROVE AttInv'
  <2>1. txn[p].op \in TaskOps /\ Fail(p) /\ UNCHANGED <<task, att>>
    BY <1>0, <1>8 DEF BoardAbort, RequestsType, Shape
  <2>2. made' \in Nat /\ blobs \subseteq blobs'
    BY <1>8 DEF BoardAbort, AttInv, AttType
  <2>. QED
    BY <1>0, <2>1, <2>2, FailKeeps
<1>9. ASSUME NEW p \in Procs, NEW f \in Files, Upload(p, f) PROVE AttInv'
  BY <1>0, <1>9, UploadKeeps
<1>10. CASE BoardNext
  BY <1>1, <1>2, <1>3, <1>4, <1>5, <1>6, <1>7, <1>8, <1>9, <1>10 DEF BoardNext
<1>11. CASE EvaluationsNext /\ UNCHANGED board
  BY <1>0, <1>11, EvaluationsAside, StillKeeps DEF board
<1>12. CASE UNCHANGED vars
  BY <1>0, <1>12, AsideSteps, StillKeeps DEF vars, board
<1>. QED
  BY <1>10, <1>11, <1>12 DEF Next

\* Storage takes part in no transaction: for any number of handlers, tasks and
\* uploads, a task's attachments have their files once its handlers have ended, unless
\* two of them overlapped, but for files removed by a handler that then failed.
THEOREM FilesStayStored == Spec => []AttachmentsStored
<1>1. ASSUME AttInv PROVE AttachmentsStored
  <2>1. ASSUME NEW a \in att, a.task \notin clash,
               \A p \in Procs : a.task \notin txn[p].on
        PROVE  Key(a) \in blobs \cup lost
    <3>1. a.task \in Tasks /\ a \in FilesOf(a.task)
      BY <1>1, <2>1 DEF AttInv, AttType, Att, FilesOf
    <3>2. \A p \in Procs : ~Serves(p, a.task)
      BY <1>1, <2>1 DEF AttInv, AttType, Careful, Serves
    <3>3. Sound(FilesOf(a.task))
      BY <1>1, <2>1, <3>1, <3>2 DEF AttInv, AloneOn
    <3>. QED
      BY <3>1, <3>3 DEF Sound
  <2>. QED
    BY <2>1 DEF AttachmentsStored
<1>. QED
  BY SprintStarts, SprintSteps, AttStarts, AttSteps, <1>1, PTL DEF Spec
=============================================================================
