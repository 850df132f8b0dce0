------------------------------ MODULE Submissions ------------------------------
(***************************************************************************)
(* Announcements and submission tasks, the submission rows of the groups   *)
(* they address, grading, and the files of both in object storage.         *)
(*                                                                         *)
(* A handler loads rows (a ...Load step), removes blobs from storage and   *)
(* uploads new ones while its transaction is open (Drop, Upload), and      *)
(* commits.  Storage takes part in no transaction: what a handler removed  *)
(* stays removed when it fails.  The ORM writes only attributes that       *)
(* differ from the loaded ones; an UPDATE that finds no row is refused, a  *)
(* DELETE that finds none is not.                                          *)
(***************************************************************************)
EXTENDS Integers, FiniteSets

CONSTANTS
    Groups,     \* groups ever made, all of one supervisor
    CycleOf,    \* groups.fyp_cycle at the start; None: made later
    Anns,       \* announcements ever made
    Own,        \* in place of an announcement: an unofficial submission
    Files,      \* storage keys ever generated (each holds a fresh UUID)
    Procs,      \* handlers in flight
    OpSets,     \* bound: operations, and kinds posted, of a behaviour (one set of them)
    Writers,    \* bound: groups whose work is submitted and graded; others are deleted
    Copies,     \* bound: rows of one group for one announcement
    TargetCopies, \* bound: rows of one target of an announcement
    None

Cycles == {"fyp1", "fyp2"}

(* TargetRoleEnum, as far as it addresses students.                        *)
Roles == Cycles \cup {"all"}

ASSUME SubmissionAssumptions ==
    /\ CycleOf \in [Groups -> Cycles \cup {None}]
    /\ Own \notin Anns /\ None \notin Files \cup Groups \cup Roles
    /\ Groups \cap Roles = {}
    /\ Copies \in Nat \ {0}
    /\ TargetCopies \in Nat \ {0}

(* A submission row is named by its announcement (Own: none), its group    *)
(* and n; announcements and rows own files.                                *)
Rows == [ann : Anns \cup {Own}, g : Groups, n : 1..Copies]
Owners == Anns \cup Rows

ASSUME TablesApart == \A a \in Anns, r \in Rows : a # r

(* A target row is named by what it first addressed and a number: nothing  *)
(* keeps an announcement from having two rows for one group.               *)
TargetRows == (Groups \cup Roles) \X (1..TargetCopies)

(* "task" and "notice" are a supervisor's announcements, with and without  *)
(* is_submission_request; "admin_task" and "admin_notice" an admin's.      *)
Tasks == {"task", "admin_task"}
Kinds == Tasks \cup {"notice", "admin_notice"}

VARIABLES
    ops,        \* the operations of this behaviour
    alive,      \* groups that exist
    cycle,      \* groups.fyp_cycle; None: not made yet
    kind,       \* announcements: Kinds, "absent" or "deleted"
    targets,    \* announcement_targets: group_id or target_role; None: no row
    row,        \* submissions.status, "absent" or "deleted"
    files,      \* announcement_files and submission_files, by owner
    blobs,      \* objects in storage
    used,       \* storage keys generated so far
    txn,        \* what each handler is doing, and what it has read
    placed,     \* history: announcements and targets a task handler gave rows
    newcomers,  \* history: announcements and groups made, or moved to another
                \* cycle, after the announcement's rows were placed
    lost        \* history: keys removed by handlers that did not commit

tables == <<alive, cycle, kind, targets, row, files>>
history == <<placed, newcomers, lost>>
vars == <<ops, tables, blobs, used, txn, history>>

Made(a) == kind[a] \in Kinds
Exists(r) == row[r] \in {"pending", "submitted", "graded"}
Present(o) == IF o \in Anns THEN Made(o) ELSE Exists(o)
RowsOf(a, g) == {r \in Rows : r.ann = a /\ r.g = g /\ Exists(r)}

(* The rows of an announcement's targets, whom they address, and the       *)
(* groups a set of targets addresses.                                      *)
Listed(a) == {k \in TargetRows : targets[a][k] # None}
Aim(a) == {targets[a][k] : k \in Listed(a)}
Reaches(v, g) == v \in {g, cycle[g], "all"}
Audience(to) == {g \in alive : \E v \in to : Reaches(v, g)}

-----------------------------------------------------------------------------
Began(op, o, phase) ==
    [op |-> op, o |-> o, phase |-> phase, seen |-> "none", drop |-> {}, gone |-> {},
     up |-> {}, to |-> {None}, new |-> {}, cut |-> {}]
Idle == Began("idle", None, "idle")

Init ==
    /\ ops \in OpSets
    /\ alive = {g \in Groups : CycleOf[g] # None}
    /\ cycle = CycleOf
    /\ kind = [a \in Anns |-> "absent"]
    /\ targets = [a \in Anns |-> [k \in TargetRows |-> None]]
    /\ row = [r \in Rows |-> "absent"]
    /\ files = [o \in Owners |-> {}]
    /\ blobs = {} /\ used = {}
    /\ txn = [p \in Procs |-> Idle]
    /\ placed = {} /\ newcomers = {} /\ lost = {}

Start(p, t) ==
    /\ t.op \in ops /\ txn[p] = Idle
    /\ txn' = [txn EXCEPT ![p] = t]
    /\ UNCHANGED <<ops, tables, blobs, used, history>>

At(p, phase) == txn[p].phase = phase
Goto(p, t) == txn' = [txn EXCEPT ![p] = t] /\ UNCHANGED ops
Retargets(t) == None \notin t.to

(* The group row a flushed INSERT of an unofficial submission refers to.   *)
GroupHeld(g) == \E q \in Procs : txn[q].op = "create" /\ txn[q].new = {g}

(* Target rows deleted by a transaction of ps that has not committed.      *)
Deleting(t) == IF t.op # "admin_update" /\ t.phase = "sync" THEN t.cut ELSE {}
HeldTargets(ps, a) ==
    Listed(a) \cap UNION {Deleting(txn[q]) : q \in {q \in ps : txn[q].o = a}}
Others(p) == Procs \ {p}

-----------------------------------------------------------------------------
(* Object storage, inside a handler.                                       *)

(* One file the client did not ask to keep; a refused removal is ignored.  *)
Drop(p) ==
    /\ At(p, "sync")
    /\ \E k \in txn[p].drop :
          /\ Goto(p, [txn[p] EXCEPT !.drop = @ \ {k}, !.gone = @ \cup {k}])
          /\ blobs' \in {blobs, blobs \ {k}}
    /\ UNCHANGED <<tables, used, history>>

MayUpload(t) ==
    /\ "upload" \in ops
    /\ t.phase = "sync" /\ t.drop = {} /\ t.up = {}
    /\ t.op \notin {"delete", "withdraw"}

Upload(p) ==
    /\ MayUpload(txn[p])
    /\ \E k \in Files \ used :
          /\ Goto(p, [txn[p] EXCEPT !.up = {k}])
          /\ blobs' = blobs \cup {k}
          /\ used' = used \cup {k}
    /\ UNCHANGED <<tables, history>>

Forget(p) ==
    /\ Goto(p, Idle)
    /\ lost' = lost \cup txn[p].gone
    /\ UNCHANGED <<placed, newcomers>>

(* Storage refuses or does not answer in time, perhaps after storing it.   *)
UploadFail(p) ==
    /\ MayUpload(txn[p])
    /\ \E k \in Files \ used :
          /\ blobs' \in {blobs, blobs \cup {k}}
          /\ used' = used \cup {k}
    /\ Forget(p)
    /\ UNCHANGED tables

(* The file rows of owner o after a commit of p.                           *)
BugSynced(p) == files[txn[p].o] \cup txn[p].up
Synced(p) == (files[txn[p].o] \ txn[p].gone) \cup txn[p].up

Ready(p, op) == txn[p].op = op /\ At(p, "sync") /\ txn[p].drop = {}

-----------------------------------------------------------------------------
(* Students.                                                               *)

(* What the lists of a student's group show: the rows placed for it, and   *)
(* the ones its members made.                                              *)
OfficialOf(g) == {r \in Rows : r.g = g /\ r.ann \in Anns /\ Exists(r)}
UnofficialOf(g) == {r \in Rows : r.g = g /\ r.ann = Own /\ Exists(r)}

(* The files the pages of an announcement or a row name and link to.       *)
FilesShown(o) == files[o]

(* submit_official_submission: drop are the files not asked to be kept.    *)
SubmitLoad(p, r, drop) ==
    /\ r \in OfficialOf(r.g) /\ drop \subseteq files[r]
    /\ r.g \in Writers                                            \* bound
    /\ Start(p, [Began("submit", r, "sync") EXCEPT !.seen = row[r], !.drop = drop])

(* edit_unofficial_submission                                              *)
ReviseLoad(p, r, drop) ==
    /\ r \in UnofficialOf(r.g) /\ drop \subseteq files[r]
    /\ Start(p, [Began("submit", r, "sync") EXCEPT !.seen = row[r], !.drop = drop])

(* The status is written unless the row was loaded as submitted.           *)
BugResubmitted(t) == IF t.seen = "pending" THEN "submitted" ELSE row[t.o]
Resubmitted(t) == IF t.seen = "submitted" THEN row[t.o] ELSE "submitted"

SubmitCommit(p) ==
    /\ Ready(p, "submit")
    /\ Exists(txn[p].o)
    /\ row' = [row EXCEPT ![txn[p].o] = Resubmitted(txn[p])]
    /\ files' = [files EXCEPT ![txn[p].o] = Synced(p)]
    /\ Goto(p, Idle)
    /\ UNCHANGED <<alive, cycle, kind, targets, blobs, used, history>>

(* create_unofficial_submission flushes its row before it uploads.         *)
CreateLoad(p, g) ==
    /\ g \in alive \cap Writers
    /\ \E r \in Rows :
          /\ r.ann = Own /\ r.g = g /\ row[r] = "absent"
          /\ r.n = 1                                              \* bound
          /\ \A q \in Procs : txn[q].o # r
          /\ Start(p, [Began("create", r, "sync") EXCEPT !.new = {g}])

CreateCommit(p) ==
    /\ Ready(p, "create")
    /\ row' = [row EXCEPT ![txn[p].o] = "submitted"]
    /\ files' = [files EXCEPT ![txn[p].o] = txn[p].up]
    /\ Goto(p, Idle)
    /\ UNCHANGED <<alive, cycle, kind, targets, blobs, used, history>>

DeleteLoad(p, r) ==
    /\ r \in UnofficialOf(r.g)
    /\ Start(p, [Began("delete", r, "sync") EXCEPT !.drop = files[r]])

(* The cascade also takes the file rows of an edit committed meanwhile.    *)
DeleteCommit(p) ==
    /\ Ready(p, "delete")
    /\ row' = [row EXCEPT ![txn[p].o] = "deleted"]
    /\ files' = [files EXCEPT ![txn[p].o] = {}]
    /\ Goto(p, Idle)
    /\ UNCHANGED <<alive, cycle, kind, targets, blobs, used, history>>

-----------------------------------------------------------------------------
(* Grading.                                                                *)

(* Read by both: the row, its files and the marks.                         *)
GradeLoad(p, r, who) ==
    /\ Exists(r)
    /\ r.g \in Writers                                            \* bound
    /\ Start(p, [Began(who, r, "commit") EXCEPT !.seen = row[r]])

SupervisorGradeLoad(p, r) == GradeLoad(p, r, "grade")
AdminGradeLoad(p, r) == GradeLoad(p, r, "admin_grade")

(* A supervisor grades what was loaded as submitted, an admin anything;    *)
(* the status is written only where it changes.                            *)
Graded(t) ==
    IF t.seen = "submitted" \/ (t.op = "admin_grade" /\ t.seen # "graded")
    THEN "graded" ELSE row[t.o]

GradeCommit(p) ==
    /\ txn[p].op \in {"grade", "admin_grade"}
    /\ Exists(txn[p].o)
    /\ row' = [row EXCEPT ![txn[p].o] = Graded(txn[p])]
    /\ Goto(p, Idle)
    /\ UNCHANGED <<alive, cycle, kind, targets, files, blobs, used, history>>

-----------------------------------------------------------------------------
(* Announcements and tasks.                                                *)

(* One or all of the supervisor's groups; the roles of an administrator.   *)
GroupChoices == {alive} \cup {{g} : g \in alive}
RoleChoices == {{role} : role \in Roles}

PostLoad(p, a, k, to) ==
    /\ kind[a] = "absent" /\ \A q \in Procs : txn[q].o # a
    /\ to # {}
    /\ k \in ops                                                  \* bound
    /\ Start(p, [Began("post", a, "sync") EXCEPT !.seen = k, !.to = to])

SupervisorTaskLoad(p, a) == \E to \in GroupChoices : PostLoad(p, a, "task", to)
SupervisorPostLoad(p, a) == \E to \in GroupChoices : PostLoad(p, a, "notice", to)
AdminTaskLoad(p, a) == \E to \in RoleChoices : PostLoad(p, a, "admin_task", to)
AdminPostLoad(p, a) == \E to \in RoleChoices : PostLoad(p, a, "admin_notice", to)

(* The groups that get a placeholder row, unless they have one.            *)
BugPlaceable(a, gs) == gs \ Aim(a)
Placeable(a, gs) == {g \in gs : RowsOf(a, g) = {}}

(* A supervisor's task names its groups, an admin's selects them by cycle. *)
PostPlace(p) ==
    LET t == txn[p] IN
    /\ Ready(p, "post")
    /\ Goto(p, [t EXCEPT !.phase = "commit",
                         !.new = IF t.seen = "task" THEN t.to
                                 ELSE IF t.seen = "admin_task" THEN Audience(t.to)
                                 ELSE {}])
    /\ UNCHANGED <<tables, blobs, used, history>>

(* The first free copy of the placeholder of announcement a for group g.   *)
Free(a, g) == {n \in 1..Copies : row[[ann |-> a, g |-> g, n |-> n]] = "absent"}
Places(a, gs) ==
    [r \in Rows |-> IF r.ann = a /\ r.g \in gs /\ r.n \in Free(a, r.g)
                       /\ \A n \in Free(a, r.g) : r.n <= n
                    THEN "pending" ELSE row[r]]
Insertable(t) == t.new \subseteq alive /\ (Retargets(t) => t.to \cap Groups \subseteq alive)

(* The target rows after p commits: those its DELETE saw go, those others  *)
(* committed since stay.                                                   *)
Unused(p) ==
    {k \in TargetRows :
        /\ targets[txn[p].o][k] = None \/ k \in txn[p].cut
        /\ \A q \in Others(p) : txn[q].o = txn[p].o => k \notin txn[q].cut}
Inserted(p) ==
    {k \in Unused(p) : k[1] \in txn[p].to /\ \A j \in Unused(p) : j[1] = k[1] => k[2] <= j[2]}
Retargeted(p) ==
    [k \in TargetRows |-> IF Retargets(txn[p]) /\ k \in Inserted(p) THEN k[1]
                          ELSE IF Retargets(txn[p]) /\ k \in txn[p].cut THEN None
                          ELSE targets[txn[p].o][k]]
InBounds(p) ==                                                    \* bound
    Retargets(txn[p]) => \A v \in txn[p].to : \E k \in Unused(p) : k[1] = v

(* The task routes that place rows for the targets they set.               *)
NotePlaced(t, k) ==
    /\ placed' = IF k \in Tasks /\ t.op \in {"post", "edit"}
                 THEN placed \cup ({t.o} \X (t.to \ {None})) ELSE placed
    /\ UNCHANGED <<newcomers, lost>>

PostCommit(p) ==
    LET t == txn[p] IN
    /\ t.op = "post" /\ t.phase = "commit"
    /\ Insertable(t) /\ InBounds(p)
    /\ kind' = [kind EXCEPT ![t.o] = t.seen]
    /\ targets' = [targets EXCEPT ![t.o] = Retargeted(p)]
    /\ row' = Places(t.o, t.new)
    /\ files' = [files EXCEPT ![t.o] = t.up]
    /\ Goto(p, Idle)
    /\ NotePlaced(t, t.seen)
    /\ UNCHANGED <<alive, cycle, blobs, used>>

EditLoad(p, op, a, drop, to) ==
    /\ drop \subseteq files[a]
    /\ Start(p, [Began(op, a, IF to = {None} THEN "sync" ELSE "delete")
                 EXCEPT !.drop = drop, !.to = to])

(* The task route of a supervisor takes a post as well, the announcements  *)
(* routes take tasks.                                                      *)
SupervisorTaskEdit(p, a, drop) ==
    /\ kind[a] \in {"task", "notice"}
    /\ \E to \in {{None}} \cup GroupChoices : EditLoad(p, "edit", a, drop, to)
AdminTaskEdit(p, a, drop) ==
    /\ kind[a] \in Tasks
    /\ \E to \in {{None}} \cup RoleChoices : EditLoad(p, "admin_edit", a, drop, to)
SupervisorUpdate(p, a, drop) ==
    /\ kind[a] \in {"task", "notice"}
    /\ \E to \in {{None}} \cup GroupChoices : EditLoad(p, "update", a, drop, to)

(* cut are the target rows this request loads and has to change: those     *)
(* that have another role, or a group.                                     *)
AdminUpdate(p, a, drop) ==
    /\ Made(a) /\ drop \subseteq files[a]
    /\ \E role \in Roles \cup {"none"} :
          Start(p, [Began("admin_update", a, "sync") EXCEPT
                    !.drop = drop, !.seen = role,
                    !.cut = IF role = "none" THEN {}
                            ELSE {k \in Listed(a) : targets[a][k] # role}])

(* DELETE FROM announcement_targets: the rows it saw when it began and     *)
(* that are still there, and a wait while others have deleted some.        *)
Sees(t) == Listed(t.o) \cap IF t.phase = "delete" THEN TargetRows ELSE t.cut
RetargetWait(p) ==
    /\ At(p, "delete") /\ HeldTargets(Others(p), txn[p].o) # {}
    /\ Goto(p, [txn[p] EXCEPT !.phase = "waiting", !.cut = Listed(txn[p].o)])
    /\ UNCHANGED <<tables, blobs, used, history>>

(* It has run: the task handler looks for groups without a row.            *)
MayRetarget(p) == HeldTargets(Others(p), txn[p].o) \cap Sees(txn[p]) = {}

Retarget(p) ==
    LET t == txn[p] IN
    /\ t.phase \in {"delete", "waiting"} /\ MayRetarget(p)
    /\ Goto(p, [t EXCEPT !.phase = "sync", !.cut = Sees(t),
                         !.new = IF t.op = "edit" THEN Placeable(t.o, t.to) ELSE {}])
    /\ UNCHANGED <<tables, blobs, used, history>>

Editing(t) == t.op \in {"edit", "admin_edit", "update"}

EditCommit(p) ==
    LET t == txn[p] IN
    /\ Editing(t) /\ t.phase = "sync" /\ t.drop = {}
    /\ Made(t.o) /\ Insertable(t) /\ InBounds(p)
    /\ targets' = [targets EXCEPT ![t.o] = Retargeted(p)]
    /\ row' = Places(t.o, t.new)
    /\ files' = [files EXCEPT ![t.o] = Synced(p)]
    /\ Goto(p, Idle)
    /\ NotePlaced(t, kind[t.o])
    /\ UNCHANGED <<alive, cycle, kind, blobs, used>>

(* target_role by primary key, when rows others are deleting are settled.  *)
Reroled(t) ==
    [k \in TargetRows |-> IF k \in t.cut \cap Listed(t.o) THEN t.seen ELSE targets[t.o][k]]

(* Refused: the only row to change is gone (rows changed together are not  *)
(* counted), or one names a group (check_target_exclusivity).              *)
Unreroled(t) ==
    \/ \E k \in TargetRows : t.cut = {k} /\ k \notin Listed(t.o)
    \/ \E k \in t.cut : targets[t.o][k] \in Groups

Settled(p) == HeldTargets(Others(p), txn[p].o) \cap txn[p].cut = {}

AdminUpdateCommit(p) ==
    LET t == txn[p] IN
    /\ Ready(p, "admin_update")
    /\ Made(t.o) /\ Settled(p) /\ ~Unreroled(t)
    /\ targets' = [targets EXCEPT ![t.o] = Reroled(t)]
    /\ files' = [files EXCEPT ![t.o] = Synced(p)]
    /\ Goto(p, Idle)
    /\ UNCHANGED <<alive, cycle, kind, row, blobs, used, history>>

(* Deleting an announcement: its author, or any administrator.             *)
WithdrawLoad(p, a) ==
    /\ Made(a)
    /\ Start(p, [Began("withdraw", a, "sync") EXCEPT !.drop = files[a]])

(* Target and file rows go with it; submissions keep their files.          *)
WithdrawCommit(p) ==
    LET a == txn[p].o IN
    /\ Ready(p, "withdraw")
    /\ HeldTargets(Others(p), a) = {}
    /\ kind' = [kind EXCEPT ![a] = "deleted"]
    /\ targets' = [targets EXCEPT ![a] = [k \in TargetRows |-> None]]
    /\ files' = [files EXCEPT ![a] = {}]
    /\ Goto(p, Idle)
    /\ UNCHANGED <<alive, cycle, row, blobs, used, history>>

-----------------------------------------------------------------------------
(* Groups.  A deleted group takes its rows, their files and its targets    *)
(* with it; the blobs stay.                                                *)
GroupDelete(g) ==
    /\ "group" \in ops
    /\ g \in alive /\ ~GroupHeld(g)
    /\ \A a \in Anns : \A k \in HeldTargets(Procs, a) : targets[a][k] # g
    /\ g \notin Writers                                            \* bound
    /\ alive' = alive \ {g}
    /\ row' = [r \in Rows |-> IF r.g = g /\ Exists(r) THEN "deleted" ELSE row[r]]
    /\ files' = [o \in Owners |-> IF o \in Rows /\ o.g = g THEN {} ELSE files[o]]
    /\ targets' = [a \in Anns |-> [k \in TargetRows |->
                     IF targets[a][k] = g THEN None ELSE targets[a][k]]]
    /\ UNCHANGED <<ops, cycle, kind, blobs, used, txn, history>>

(* Announcements whose groups have been selected.                          *)
Selected(a) == Made(a) \/ \E q \in Procs : txn[q].op = "post" /\ txn[q].o = a /\ At(q, "commit")
Comes(g, c) ==
    /\ cycle' = [cycle EXCEPT ![g] = c]
    /\ newcomers' = newcomers \cup ({a \in Anns : Selected(a)} \X {g})
    /\ UNCHANGED <<ops, kind, targets, row, files, blobs, used, txn, placed, lost>>

GroupCreate(g) ==
    /\ "newgroup" \in ops
    /\ cycle[g] = None
    /\ alive' = alive \cup {g}
    /\ Comes(g, "fyp1")

(* An administrator moves the groups of a cohort, here one by one.         *)
GroupMove(g, c) ==
    /\ "move" \in ops
    /\ g \in alive /\ Comes(g, c)
    /\ UNCHANGED alive

(* A row to update, or the parent of a row to insert, is gone.             *)
Refused(p) ==
    LET t == txn[p] IN
    \/ t.op = "submit" /\ t.phase = "sync" /\ t.drop = {} /\ ~Exists(t.o)
    \/ t.op \in {"grade", "admin_grade"} /\ ~Exists(t.o)
    \/ t.op = "post" /\ t.phase = "commit" /\ ~Insertable(t)
    \/ /\ Editing(t) /\ t.phase = "sync" /\ t.drop = {}
       /\ ~Made(t.o) \/ ~Insertable(t)
    \/ /\ t.op = "admin_update" /\ t.drop = {}
       /\ ~Made(t.o) \/ (Settled(p) /\ Unreroled(t))

Abort(p) ==
    /\ Refused(p)
    /\ Forget(p)
    /\ UNCHANGED <<tables, blobs, used>>

Crash ==
    /\ "crash" \in ops
    /\ \E p \in Procs : txn[p] # Idle
    /\ txn' = [p \in Procs |-> Idle]
    /\ lost' = lost \cup UNION {txn[p].gone : p \in Procs}
    /\ UNCHANGED <<ops, tables, blobs, used, placed, newcomers>>

-----------------------------------------------------------------------------
Call(p) ==
    \/ \E r \in Rows : \E drop \in SUBSET files[r] :
          SubmitLoad(p, r, drop) \/ ReviseLoad(p, r, drop)
    \/ \E r \in Rows : DeleteLoad(p, r) \/ SupervisorGradeLoad(p, r) \/ AdminGradeLoad(p, r)
    \/ \E g \in Groups : CreateLoad(p, g)
    \/ \E a \in Anns :
          \/ SupervisorTaskLoad(p, a) \/ SupervisorPostLoad(p, a)
          \/ AdminTaskLoad(p, a) \/ AdminPostLoad(p, a)
          \/ WithdrawLoad(p, a)
    \/ \E a \in Anns : \E drop \in SUBSET files[a] :
          \/ SupervisorTaskEdit(p, a, drop) \/ AdminTaskEdit(p, a, drop)
          \/ SupervisorUpdate(p, a, drop) \/ AdminUpdate(p, a, drop)

Proceed(p) ==
    \/ Drop(p) \/ Upload(p) \/ UploadFail(p)
    \/ SubmitCommit(p) \/ CreateCommit(p) \/ DeleteCommit(p) \/ GradeCommit(p)
    \/ PostPlace(p) \/ PostCommit(p)
    \/ RetargetWait(p) \/ Retarget(p) \/ EditCommit(p) \/ AdminUpdateCommit(p)
    \/ WithdrawCommit(p)
    \/ Abort(p)

Next ==
    \/ \E p \in Procs : Call(p) \/ Proceed(p)
    \/ \E g \in Groups : GroupDelete(g) \/ GroupCreate(g) \/ \E c \in Cycles : GroupMove(g, c)
    \/ Crash

Spec == Init /\ [][Next]_vars
-----------------------------------------------------------------------------
(* What the response lists of a task show as "Missing": for a supervisor,  *)
(* groups the targets name; for an administrator, groups of their cycles.  *)
SupervisorMisses(a) == {g \in Aim(a) \cap alive : RowsOf(a, g) = {}}
AdminMisses(a) == {g \in Audience(Aim(a)) : RowsOf(a, g) = {}}

(* Removed from storage by a handler still running, or by one that failed. *)
Explained(k) == k \in lost \/ \E p \in Procs : k \in txn[p].gone

-----------------------------------------------------------------------------
(* Properties.                                                             *)

(* A file the database names is in storage, unless a handler removed it    *)
(* and has not committed: handlers keep and drop files of one submission   *)
(* at the same time, each from the list it loaded.                         *)
NamedFilesExist ==
    \A o \in Owners : \A k \in FilesShown(o) : k \in blobs \/ Explained(k)

(* A group a task is for has a row, without which its students do not see  *)
(* the task and the response lists show it as "Missing", if a task route   *)
(* that places rows has set the target - whatever it raced with, and       *)
(* whatever other routes made of the targets since.  Groups that come      *)
(* after an administrator's task was posted have none.                     *)
TargetsHaveRows ==
    \A a \in Anns :
        /\ kind[a] = "task" => \A g \in SupervisorMisses(a) : <<a, g>> \notin placed
        /\ kind[a] = "admin_task" => \A g \in AdminMisses(a) :
              \/ <<a, g>> \in newcomers
              \/ \A v \in Aim(a) : Reaches(v, g) => <<a, v>> \notin placed

(* Work that stays graded changes its files only under a student who       *)
(* loaded it before it was graded: submitting again takes the grade off.   *)
GradedWorkStands ==
    [][\A r \in Rows :
         row[r] = "graded" /\ row'[r] = "graded" /\ files'[r] # files[r] =>
            \E p \in Procs : txn[p].o = r /\ txn[p].seen = "submitted"]_vars
=============================================================================
