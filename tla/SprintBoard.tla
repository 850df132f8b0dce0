------------------------------ MODULE SprintBoard ------------------------------
(***************************************************************************)
(* A group's sprints and tasks, and the tasks' attachments in storage.     *)
(*                                                                         *)
(* Sprints are rows of group_milestones; a task's milestone_id names one   *)
(* or is null (the backlog).  An attachment's storage key is made of the   *)
(* task and the file name, and storage refuses a key it holds.  Titles,    *)
(* assignees, priorities and links are data no property tells apart.       *)
(***************************************************************************)
EXTENDS Handlers

CONSTANTS
    Sprints, Tasks,     \* rows ever made
    Files,              \* file names
    MaxUploads,         \* bound: attachments ever made
    Backlog             \* milestone_id IS NULL

ASSUME BoardAssumptions == MaxUploads \in Nat /\ Backlog \notin Sprints

VARIABLES
    sprint,     \* group_milestones.status, "none" or "deleted"
    task,       \* tasks.milestone_id, "none" or "deleted"
    att,        \* task_attachments
    blobs,      \* objects in the task_attachments bucket
    made,       \* attachments made so far
    lost        \* history: keys removed by handlers that did not commit

board == <<sprint, task, att, blobs, made, lost>>

Statuses == {"Planned", "Active", "Completed"}
Live(s) == sprint[s] \in Statuses
Exists(t) == task[t] \in Sprints \cup {Backlog}
Linkable == {s \in Sprints : Live(s)} \cup {Backlog}
FilesOf(t) == {a \in att : a.task = t}
Key(a) == <<a.task, a.file>>

BoardInit ==
    /\ sprint = [s \in Sprints |-> "none"]
    /\ task = [t \in Tasks |-> "none"]
    /\ att = {} /\ blobs = {} /\ made = 0 /\ lost = {}

(* Rows a handler has written or refers to by a key, until it commits: the *)
(* task it edits or attaches to, the sprint it links a task to.            *)
Edits(q, t) == /\ txn[q].op \in {"create_task", "update_task"} /\ txn[q].t = t
               /\ txn[q].phase = "files" /\ txn[q].edit
Holds(q, t) == \/ Edits(q, t)
               \/ /\ txn[q].op = "update_task" /\ txn[q].t = t
                  /\ txn[q].new # {}
Links(q, s) == \E t \in Tasks : Edits(q, t) /\ txn[q].to = s /\ txn[q].seen # s

Others(p) == Procs \ {p}

-----------------------------------------------------------------------------
(* Sprints.                                                                *)

CreateSprint(s) ==
    /\ AtOnce("create_sprint") /\ sprint[s] = "none"
    /\ sprint' = [sprint EXCEPT ![s] = "Planned"]
    /\ UNCHANGED <<task, att, blobs, made, lost>>

(* What two activations of sprints of a group meet in.                     *)
Activation == <<"activation">>

(* get_active_sprint: "Another sprint is already active".                  *)
BugMayTurn(s, to) == to = "Active" => sprint[s] # "Completed"
MayTurn(s, to) == to = "Active" => \A o \in Sprints \ {s} : sprint[o] # "Active"

UpdateSprintLoad(p, s, to) ==
    /\ Live(s) /\ MayTurn(s, to)
    /\ Start(p, [op |-> "update_sprint", phase |-> "commit", s |-> s, to |-> to,
                 seen |-> sprint[s],
                 on |-> IF to = "Active" THEN {Activation} ELSE {}])
    /\ UNCHANGED board

(* Only a changed status is written; a sprint gone by then is an error.    *)
UpdateSprintCommit(p) ==
    /\ At(p, "update_sprint", "commit")
    /\ LET t == txn[p] IN
       sprint' = IF Live(t.s) /\ t.to # t.seen
                 THEN [sprint EXCEPT ![t.s] = t.to] ELSE sprint
    /\ Done(p)
    /\ UNCHANGED <<task, att, blobs, made, lost>>

DeleteSprintLoad(p, s) ==
    /\ Live(s)
    /\ LET in == {t \in Tasks : task[t] = s} IN
       Start(p, [op |-> "delete_sprint", s |-> s, in |-> in, on |-> {},
                 phase |-> IF in = {} THEN "delete" ELSE "unlink"])
    /\ UNCHANGED board

(* A transaction of its own moves the sprint's tasks to the backlog.       *)
Unlink(p) ==
    /\ At(p, "delete_sprint", "unlink")
    /\ LET s == txn[p].s IN
       /\ \A t \in Tasks, q \in Others(p) : task[t] = s => ~Edits(q, t)
       /\ task' = [t \in Tasks |-> IF task[t] = s THEN Backlog ELSE task[t]]
    /\ Goto(p, [txn[p] EXCEPT !.phase = "delete"])
    /\ UNCHANGED <<sprint, att, blobs, made, lost>>

(* The second transaction.  GroupMilestone.tasks cascades deletes, and the *)
(* collection loaded at the start still holds the tasks it held then; the  *)
(* foreign key moves tasks linked since to the backlog.                    *)
DeleteSprint(p) ==
    /\ At(p, "delete_sprint", "delete")
    /\ LET s == txn[p].s   in == {t \in txn[p].in : Exists(t)} IN
       IF ~Live(s) THEN UNCHANGED <<sprint, task, att>> ELSE
       /\ \A q \in Others(p) : ~Links(q, s) /\ \A t \in in : ~Holds(q, t)
       /\ sprint' = [sprint EXCEPT ![s] = "deleted"]
       /\ task' = [t \in Tasks |-> IF t \in in THEN "deleted"
                                   ELSE IF task[t] = s THEN Backlog ELSE task[t]]
       /\ att' = {a \in att : a.task \notin in}
    /\ Done(p)
    /\ UNCHANGED <<blobs, made, lost>>

-----------------------------------------------------------------------------
(* Tasks.                                                                  *)

Began(op, t, phase) ==
    [op |-> op, phase |-> phase, on |-> {t}, t |-> t, to |-> Backlog,
     seen |-> Backlog, edit |-> FALSE, drop |-> {}, gone |-> {}, new |-> {}]

Fail(p) == Done(p) /\ lost' = lost \cup {Key(a) : a \in txn[p].gone}

CreateTaskLoad(p, t, s) ==
    /\ task[t] = "none" /\ \A q \in Procs : t \notin txn[q].on
    /\ s \in Linkable
    /\ Start(p, [Began("create_task", t, "flush") EXCEPT !.to = s])
    /\ UNCHANGED board

UpdateTaskLoad(p, t, s, edit) ==
    /\ Exists(t)
    /\ s \in {task[t]} \cup (Linkable \ {Backlog})
    /\ s # task[t] => edit
    /\ Start(p, [Began("update_task", t, "flush")
                   EXCEPT !.to = s, !.seen = task[t], !.edit = edit])
    /\ UNCHANGED board

(* The row is inserted or updated: its sprint must exist, and so must the  *)
(* row.  An update then lists the attachments and picks those not kept.    *)
Flush(p) ==
    /\ txn[p].phase = "flush"
    /\ LET t == txn[p]   new == t.op = "create_task" IN
       IF (t.to \in Sprints /\ t.to # t.seen /\ ~Live(t.to))
            \/ (t.edit /\ ~Exists(t.t))
       THEN Done(p)
       ELSE /\ \A q \in Others(p) : t.edit => ~Edits(q, t.t)
            /\ \E d \in SUBSET FilesOf(t.t) :
                  Goto(p, [t EXCEPT !.phase = "files", !.edit = @ \/ new, !.drop = d])
    /\ UNCHANGED board

DeleteTaskLoad(p, t) ==
    /\ Exists(t)
    /\ Start(p, [Began("delete_task", t, "files") EXCEPT !.drop = FilesOf(t)])
    /\ UNCHANGED board

(* One attachment's blob is removed, before its row.                       *)
DropFile(p) ==
    /\ txn[p].phase = "files"
    /\ \E a \in txn[p].drop :
          /\ Goto(p, [txn[p] EXCEPT !.drop = @ \ {a}, !.gone = @ \cup {a}])
          /\ blobs' = blobs \ {Key(a)}
    /\ UNCHANGED <<sprint, task, att, made, lost>>

(* Uploads do not overwrite: storage refuses a key it holds.               *)
BugRefused(k) == FALSE
Refused(k) == k \in blobs

MayUpload(p) == /\ "attach" \in ops /\ made < MaxUploads                      \* bound
                /\ txn[p].phase = "files" /\ txn[p].op # "delete_task" /\ txn[p].drop = {}

(* The blob, then the row, which needs its task.                           *)
Upload(p, f) ==
    /\ MayUpload(p)
    /\ LET a == [n |-> made, task |-> txn[p].t, file |-> f] IN
       IF Refused(Key(a)) THEN Fail(p) /\ UNCHANGED <<blobs, made>>
       ELSE /\ blobs' = blobs \cup {Key(a)} /\ made' = made + 1
            /\ IF txn[p].op = "create_task" \/ Exists(txn[p].t)
               THEN Goto(p, [txn[p] EXCEPT !.new = @ \cup {a}]) /\ UNCHANGED lost
               ELSE Fail(p)
    /\ UNCHANGED <<sprint, task, att>>

TaskCommit(p) ==
    /\ txn[p].phase = "files" /\ txn[p].op # "delete_task" /\ txn[p].drop = {}
    /\ LET t == txn[p] IN
       /\ task' = IF t.op = "create_task" \/ t.to # t.seen
                  THEN [task EXCEPT ![t.t] = t.to] ELSE task
       /\ att' = (att \ t.gone) \cup t.new
    /\ Done(p)
    /\ UNCHANGED <<sprint, blobs, made, lost>>

DeleteTaskCommit(p) ==
    /\ At(p, "delete_task", "files") /\ txn[p].drop = {}
    /\ LET t == txn[p].t IN
       IF ~Exists(t) THEN UNCHANGED <<task, att>> ELSE
       /\ \A q \in Others(p) : ~Holds(q, t)
       /\ task' = [task EXCEPT ![t] = "deleted"]
       /\ att' = att \ FilesOf(t)
    /\ Done(p)
    /\ UNCHANGED <<sprint, blobs, made, lost>>

(* Storage or the database fails; an upload may have been stored.          *)
BoardAbort(p) ==
    /\ "abort" \in ops /\ txn[p].phase = "files"
    /\ Fail(p)
    /\ \/ UNCHANGED <<blobs, made>>
       \/ \E f \in Files : /\ MayUpload(p) /\ made' = made + 1
                           /\ blobs' = blobs \cup {<<txn[p].t, f>>}
    /\ UNCHANGED <<sprint, task, att>>

BoardNext ==
    \/ \E s \in Sprints : CreateSprint(s)
    \/ \E p \in Procs : \/ UpdateSprintCommit(p) \/ Unlink(p) \/ DeleteSprint(p)
                        \/ Flush(p) \/ DropFile(p) \/ TaskCommit(p)
                        \/ DeleteTaskCommit(p) \/ BoardAbort(p)
    \/ \E p \in Procs, s \in Sprints, to \in Statuses : UpdateSprintLoad(p, s, to)
    \/ \E p \in Procs, s \in Sprints : DeleteSprintLoad(p, s)
    \/ \E p \in Procs, t \in Tasks : DeleteTaskLoad(p, t)
    \/ \E p \in Procs, t \in Tasks, s \in Sprints \cup {Backlog} :
          \/ CreateTaskLoad(p, t, s)
          \/ \E edit \in BOOLEAN : UpdateTaskLoad(p, t, s, edit)
    \/ \E p \in Procs, f \in Files : Upload(p, f)

-----------------------------------------------------------------------------
(* Properties.                                                             *)

\* "Another sprint is already active" (student_progress.py:489): two sprints are
\* active only after two activations overlapped, whatever else overlaps them.
OneActiveSprint ==
    Activation \notin clash =>
        Cardinality({s \in Sprints : sprint[s] = "Active"}) <= 1

\* Storage takes part in no transaction, and keys are made of file names: when no
\* handler works on a task and no two ever did at once, its attachments have their
\* files, but for those a handler removed that then failed.
AttachmentsStored ==
    \A a \in att :
        \/ a.task \in clash \/ \E p \in Procs : a.task \in txn[p].on
        \/ Key(a) \in blobs \cup lost

\* "Ab tasks delete nahi honge kyunke unka link toot chuka hai": tasks are not
\* deleted with their sprint (student_progress.py:528); only delete_task does it.
TasksOutliveSprints ==
    [][\A t \in Tasks : Exists(t) /\ task'[t] = "deleted" =>
          \E p \in Procs : At(p, "delete_task", "files") /\ txn[p].t = t]_<<requests, board>>
=============================================================================
