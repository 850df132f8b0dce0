------------------------------ MODULE BulkImport ------------------------------
(***************************************************************************)
(* Bulk registration of users (app/services/bulk_import_service.py,        *)
(* app/api/http/bulk_import.py).  An upload stores a job and one item per  *)
(* row, and a background task of the same handler works through the items, *)
(* one transaction each.  Administrators may run the pending items of all  *)
(* jobs in one batch, retry failed items, resume a job and register single *)
(* users meanwhile.  A server restart loses the tasks and keeps the rows.  *)
(*                                                                         *)
(* Sessions are made with autoflush=False (app/db.py:116), at the READ     *)
(* COMMITTED level: a transaction reads what is committed and what it has  *)
(* itself flushed, not the attributes it has only assigned.                *)
(***************************************************************************)
EXTENDS Naturals, FiniteSets, FiniteSetsExt

CONSTANTS
    Jobs,       \* files an administrator may upload
    Items,      \* rows of the files, numbered in (job_id, row_number) order
    JobOf,      \* the file of a row
    Emails, EmailOf,    \* addresses, and the one in a row
    Rolls, RollOf,      \* roll numbers, and the one in a row (NoRoll: faculty)
    Invalid,    \* rows validate_row rejects
    Procs,      \* handlers, and background tasks of handlers, in flight
    OpSets,     \* for each kind of behaviour, the operations it uses
    BatchSize,  \* settings.bulk_import_batch_size
    None, Other, NoRoll

ASSUME BulkAssumptions ==
    /\ Items \subseteq Nat /\ IsFiniteSet(Items)
    /\ JobOf \in [Items -> Jobs]
    /\ EmailOf \in [Items -> Emails]
    /\ RollOf \in [Items -> Rolls \cup {NoRoll}] /\ NoRoll \notin Rolls
    /\ Invalid \subseteq Items
    /\ BatchSize \in Nat \ {0}
    /\ None \notin Items /\ Other \notin Items /\ None # Other

VARIABLES
    ops,     \* the operations of this behaviour
    job,     \* bulk_import_jobs.status; "none" before the upload
    item,    \* bulk_import_items.status; "none" before the upload
    tally,   \* the job's success_count, failed_count, skipped_count
    owner,   \* users by email: the row that created the account, Other, None
    rolls,   \* students by roll_number, in the same way
    txn,     \* what each handler or task is doing, and what it has read
    lone     \* history: handlers, tasks and registrations never overlapped

vars == <<ops, job, item, tally, owner, rolls, txn, lone>>

Verdicts == {"success", "failed", "skipped"}

RowsOf(j) == {i \in Items : JobOf[i] = j}

\* update_job_counters: one count for each final status of the rows it sees.
Counted(seen, j) ==
    [v \in Verdicts |-> Cardinality({i \in RowsOf(j) : seen[i] = v})]

\* processed_rows.
Processed(c) == c["success"] + c["failed"] + c["skipped"]

Zero == [v \in Verdicts |-> 0]

Began(op, j, stage) ==
    [op |-> op, job |-> j, stage |-> stage, todo |-> {}, verdict |-> <<>>,
     mine |-> {}, goal |-> "none", counts |-> [k \in Jobs |-> Zero]]

Idle == Began("none", None, "idle")

Init ==
    /\ ops \in OpSets
    /\ job = [j \in Jobs |-> "none"]
    /\ item = [i \in Items |-> "none"]
    /\ tally = [j \in Jobs |-> Zero]
    /\ owner = [e \in Emails |-> None]
    /\ rolls = [r \in Rolls |-> None]
    /\ txn = [p \in Procs |-> Idle]
    /\ lone = TRUE

-----------------------------------------------------------------------------
(* What a transaction holds and waits for.                                  *)

At(p, op, stage) == txn[p].op = op /\ txn[p].stage = stage

First(p) == Min(txn[p].todo)

\* The last account flushed: its student row is still only in the session.
Latest(p) == IF txn[p].mine = {} THEN {} ELSE {Max(txn[p].mine)}

\* The batch of a run: SELECT ... FOR UPDATE locks its rows until the commit.
Locked(p) ==
    IF txn[p].op = "run" /\ txn[p].stage # "close"
    THEN txn[p].todo \cup DOMAIN txn[p].verdict ELSE {}

\* The query joins the job, so the job rows are locked with the items.
LockedJobs(p) == {JobOf[i] : i \in Locked(p)}

HeldEmails(p) == {EmailOf[i] : i \in txn[p].mine}

HeldRolls(p) == {RollOf[i] : i \in txn[p].mine \ Latest(p)} \ {NoRoll}

RollsToInsert(p) == {RollOf[i] : i \in Latest(p)} \ {NoRoll}

\* The jobs a run has just counted to the last row.
Completed(p) == {j \in Jobs :
    /\ RowsOf(j) # {}
    /\ Processed(txn[p].counts[j]) >= Cardinality(RowsOf(j))}

WaitsFor(p, q) ==
    /\ p # q
    /\ \/ txn[p].stage = "flush" /\ EmailOf[First(p)] \in HeldEmails(q)
       \/ txn[p].stage \in {"flush", "save", "commit"}
          /\ RollsToInsert(p) \cap HeldRolls(q) # {}
       \/ txn[p].stage = "save" /\ First(p) \in Locked(q)
       \/ At(p, "task", "mark") /\ txn[p].goal = "pending"
          /\ txn[p].job \in LockedJobs(q)
       \/ txn[p].stage = "finish" /\ txn[p].job \in LockedJobs(q)
       \/ txn[p].stage = "close" /\ Completed(p) \cap LockedJobs(q) # {}

Unblocked(p) == \A q \in Procs : ~WaitsFor(p, q)

\* Transactions that wait for each other in a cycle.
Deadlocked(p) ==
    \E S \in SUBSET Procs :
        /\ p \in S
        /\ \A q \in S : /\ \E r \in S : WaitsFor(q, r)
                        /\ \E r \in S : WaitsFor(r, q)

EmailTaken(e) == owner[e] # None

RollTaken(r) == r # NoRoll /\ rolls[r] # None

EmailSeen(p, e) == EmailTaken(e) \/ e \in HeldEmails(p)

RollSeen(p, r) == RollTaken(r) \/ r \in HeldRolls(p)

\* The verdicts so far, with the one on row i.
Ruled(verdict, i, v) == [k \in DOMAIN verdict \cup {i} |-> IF k = i THEN v ELSE verdict[k]]

\* process_single_item, up to the account it would create.
Verdict(p, i) ==
    IF i \in Invalid THEN "failed"
    ELSE IF EmailSeen(p, EmailOf[i]) \/ RollSeen(p, RollOf[i]) THEN "skipped"
    ELSE "success"

\* The flush or the commit breaks the unique constraint on roll numbers.
\* Mutant: no unique constraint on students.roll_number.
BugRollClash(p) == FALSE

RollClash(p) == \E r \in RollsToInsert(p) : RollSeen(p, r)

\* The rows `is` get their accounts.
Owned(is) == [e \in Emails |->
    IF \E i \in is : EmailOf[i] = e
    THEN CHOOSE i \in is : EmailOf[i] = e ELSE owner[e]]

Enrolled(is) == [r \in Rolls |->
    IF \E i \in is : RollOf[i] = r
    THEN CHOOSE i \in is : RollOf[i] = r ELSE rolls[r]]

Goto(p, t) ==
    /\ txn' = [txn EXCEPT ![p] = t]
    /\ lone' = (lone /\ \A q \in Procs \ {p} : txn[q] = Idle)
    /\ UNCHANGED ops

-----------------------------------------------------------------------------
(* Upload, and the background task it leaves behind.                        *)

\* create_bulk_import_job commits the job with its rows; the task follows.
Upload(p, j) ==
    /\ "upload" \in ops /\ txn[p] = Idle
    /\ job[j] = "none" /\ RowsOf(j) # {}
    /\ job' = [job EXCEPT ![j] = "pending"]
    /\ item' = [i \in Items |-> IF JobOf[i] = j THEN "pending" ELSE item[i]]
    /\ Goto(p, Began("task", j, "open"))
    /\ UNCHANGED <<tally, owner, rolls>>

\* process_job_inline reads the job and drops out if it is done or failed.
TaskOpen(p) ==
    /\ At(p, "task", "open")
    /\ LET seen == job[txn[p].job] IN
       IF seen \in {"pending", "processing"}
       THEN Goto(p, [txn[p] EXCEPT !.stage = "mark", !.goal = seen])
       ELSE Goto(p, Idle)
    /\ UNCHANGED <<job, item, tally, owner, rolls>>

\* The assignment of "processing" is an UPDATE unless the job was read so.
TaskMark(p) ==
    /\ At(p, "task", "mark") /\ Unblocked(p)
    /\ job' = IF txn[p].goal = "pending"
              THEN [job EXCEPT ![txn[p].job] = "processing"] ELSE job
    /\ Goto(p, [txn[p] EXCEPT !.stage = "load", !.goal = "done"])
    /\ UNCHANGED <<item, tally, owner, rolls>>

\* All pending rows are loaded once: the list is not read again.
TaskLoad(p) ==
    /\ At(p, "task", "load")
    /\ LET rows == {i \in RowsOf(txn[p].job) : item[i] = "pending"} IN
       Goto(p, [txn[p] EXCEPT !.todo = rows,
                              !.stage = IF rows = {} THEN "count" ELSE "check"])
    /\ UNCHANGED <<job, item, tally, owner, rolls>>

\* The row is validated and its email and roll number are looked up.
TaskCheck(p) ==
    /\ At(p, "task", "check")
    /\ LET v == Verdict(p, First(p)) IN
       Goto(p, [txn[p] EXCEPT !.verdict = Ruled(<<>>, First(p), v),
                              !.stage = IF v = "success" THEN "flush" ELSE "save"])
    /\ UNCHANGED <<job, item, tally, owner, rolls>>

\* Mutant: the error ends the task and leaves the job as it is.
BugFailing(p) == Idle

\* An error of the database leaves the session unusable, so the handler of
\* the row's error fails too and the job is marked failed.
Failing(p) == [txn[p] EXCEPT !.stage = "count", !.goal = "failed",
                             !.todo = {}, !.verdict = <<>>, !.mine = {}]

\* The account is inserted, its student row not yet.
TaskFlush(p) ==
    /\ At(p, "task", "flush") /\ Unblocked(p)
    /\ IF EmailTaken(EmailOf[First(p)])
       THEN Goto(p, Failing(p))
       ELSE Goto(p, [txn[p] EXCEPT !.mine = {First(p)}, !.stage = "save"])
    /\ UNCHANGED <<job, item, tally, owner, rolls>>

\* The commit of one row: its status is written over whatever is there now.
TaskSave(p) ==
    /\ At(p, "task", "save") /\ Unblocked(p)
    /\ IF RollClash(p)
       THEN Goto(p, Failing(p)) /\ UNCHANGED <<item, owner, rolls>>
       ELSE /\ item' = [item EXCEPT ![First(p)] = txn[p].verdict[First(p)]]
            /\ owner' = Owned(txn[p].mine)
            /\ rolls' = Enrolled(txn[p].mine)
            /\ LET rest == txn[p].todo \ {First(p)} IN
               Goto(p, [txn[p] EXCEPT !.todo = rest, !.verdict = <<>>, !.mine = {},
                            !.stage = IF rest = {} THEN "count" ELSE "check"])
    /\ UNCHANGED <<job, tally>>

TaskCount(p) ==
    /\ At(p, "task", "count")
    /\ Goto(p, [txn[p] EXCEPT !.stage = "finish",
                              !.counts[txn[p].job] = Counted(item, txn[p].job)])
    /\ UNCHANGED <<job, item, tally, owner, rolls>>

\* The counters and the final status, whatever the job's status is now.
TaskFinish(p) ==
    /\ At(p, "task", "finish") /\ Unblocked(p)
    /\ tally' = [tally EXCEPT ![txn[p].job] = txn[p].counts[txn[p].job]]
    /\ job' = [job EXCEPT ![txn[p].job] = txn[p].goal]
    /\ Goto(p, Idle)
    /\ UNCHANGED <<item, owner, rolls>>

-----------------------------------------------------------------------------
(* The manual run over the pending rows of all jobs.                        *)

\* Rows no other run holds, of jobs that are open.
Available ==
    {i \in Items : /\ item[i] = "pending"
                   /\ job[JobOf[i]] \in {"pending", "processing"}
                   /\ \A q \in Procs : JobOf[i] \notin LockedJobs(q)}

\* FOR UPDATE SKIP LOCKED, the first BatchSize rows.
RunLoad(p) ==
    /\ "run" \in ops /\ txn[p] = Idle
    /\ Available # {}
    /\ LET batch == {i \in Available :
                        Cardinality({k \in Available : k < i}) < BatchSize} IN
       Goto(p, [Began("run", None, "check") EXCEPT !.todo = batch])
    /\ UNCHANGED <<job, item, tally, owner, rolls>>

RunCheck(p) ==
    /\ At(p, "run", "check")
    /\ LET v == Verdict(p, First(p))
           rest == txn[p].todo \ {First(p)} IN
       Goto(p, IF v = "success" THEN [txn[p] EXCEPT !.stage = "flush"]
               ELSE [txn[p] EXCEPT !.todo = rest,
                         !.verdict = Ruled(@, First(p), v),
                         !.stage = IF rest = {} THEN "count" ELSE "check"])
    /\ UNCHANGED <<job, item, tally, owner, rolls>>

\* The flush also inserts the student of the account before, and writes the
\* verdicts so far: they are what RunCount will see.
Flushed(p) == IF txn[p].mine = {} THEN {}
              ELSE {i \in DOMAIN txn[p].verdict : i < Max(txn[p].mine)}

\* An email or roll number taken meanwhile, or a roll number twice in the batch:
\* the error leaves the session unusable and the whole run is undone.
Doomed(p) ==
    \/ txn[p].stage = "flush" /\ EmailTaken(EmailOf[First(p)])
    \/ txn[p].stage \in {"flush", "commit"} /\ RollClash(p)

RunFlush(p) ==
    /\ At(p, "run", "flush") /\ Unblocked(p)
    /\ LET rest == txn[p].todo \ {First(p)} IN
       IF Doomed(p)
       THEN Goto(p, Idle)
       ELSE Goto(p, [txn[p] EXCEPT !.todo = rest, !.mine = @ \cup {First(p)},
                         !.verdict = Ruled(@, First(p), "success"),
                         !.stage = IF rest = {} THEN "count" ELSE "check"])
    /\ UNCHANGED <<job, item, tally, owner, rolls>>

\* update_job_counters reads the rows before the commit flushes the last ones.
RunCount(p) ==
    /\ At(p, "run", "count")
    /\ LET seen == [i \in Items |-> IF i \in Flushed(p) THEN txn[p].verdict[i]
                                    ELSE item[i]] IN
       Goto(p, [txn[p] EXCEPT !.stage = "commit",
                    !.counts = [j \in Jobs |-> IF j \in LockedJobs(p)
                                               THEN Counted(seen, j) ELSE Zero]])
    /\ UNCHANGED <<job, item, tally, owner, rolls>>

RunCommit(p) ==
    /\ At(p, "run", "commit") /\ Unblocked(p)
    /\ IF Doomed(p)
       THEN Goto(p, Idle) /\ UNCHANGED <<job, item, tally, owner, rolls>>
       ELSE /\ item' = [i \in Items |-> IF i \in DOMAIN txn[p].verdict
                                      THEN txn[p].verdict[i] ELSE item[i]]
            /\ owner' = Owned(txn[p].mine)
            /\ rolls' = Enrolled(txn[p].mine)
            /\ job' = [j \in Jobs |-> IF j \in LockedJobs(p) /\ job[j] = "pending"
                                      THEN "processing" ELSE job[j]]
            /\ tally' = [j \in Jobs |-> IF j \in LockedJobs(p)
                                        THEN txn[p].counts[j] ELSE tally[j]]
            /\ Goto(p, [Began("run", None, "close") EXCEPT !.counts = txn[p].counts])

\* A second transaction closes the jobs the first one counted to the end.
RunClose(p) ==
    /\ At(p, "run", "close") /\ Unblocked(p)
    /\ job' = [j \in Jobs |-> IF j \in Completed(p) THEN "done" ELSE job[j]]
    /\ Goto(p, Idle)
    /\ UNCHANGED <<item, tally, owner, rolls>>

-----------------------------------------------------------------------------
(* Retry, resume, single registration, deadlock and restart.                *)

\* Mutant: every settled row is reset.
BugRetryReset(j) ==
    [i \in Items |-> IF JobOf[i] = j /\ item[i] # "none" THEN "pending" ELSE item[i]]

\* retry_failed_items, and the task that follows when it has reset a row.
RetryReset(j) ==
    [i \in Items |-> IF JobOf[i] = j /\ item[i] = "failed" THEN "pending" ELSE item[i]]

MayRetry(j) == \E i \in RowsOf(j) : item[i] = "failed"

\* Mutant: the job keeps its status.
BugRetry(p, j) ==
    /\ "retry" \in ops /\ txn[p] = Idle
    /\ MayRetry(j)
    /\ item' = RetryReset(j)
    /\ tally' = [tally EXCEPT ![j] = Counted(item', j)]
    /\ Goto(p, Began("task", j, "open"))
    /\ UNCHANGED <<job, owner, rolls>>

Retry(p, j) ==
    /\ "retry" \in ops /\ txn[p] = Idle
    /\ MayRetry(j)
    /\ \A q \in Procs : j \notin LockedJobs(q)
    /\ item' = RetryReset(j)
    /\ job' = [job EXCEPT ![j] = "pending"]
    /\ tally' = [tally EXCEPT ![j] = Counted(item', j)]
    /\ Goto(p, Began("task", j, "open"))
    /\ UNCHANGED <<owner, rolls>>

\* resume_job reads the status, and the number of pending rows.
ResumeLoad(p, j) ==
    /\ "resume" \in ops /\ txn[p] = Idle
    /\ job[j] \notin {"none", "done"}
    /\ Goto(p, [Began("resume", j, "finish") EXCEPT !.goal =
                   IF \E i \in RowsOf(j) : item[i] = "pending"
                   THEN "pending" ELSE "done"])
    /\ UNCHANGED <<job, item, tally, owner, rolls>>

ResumeCommit(p) ==
    /\ At(p, "resume", "finish") /\ Unblocked(p)
    /\ job' = [job EXCEPT ![txn[p].job] = txn[p].goal]
    /\ Goto(p, IF txn[p].goal = "pending" THEN Began("task", txn[p].job, "open")
               ELSE Idle)
    /\ UNCHANGED <<item, tally, owner, rolls>>

\* create_single_student and create_single_supervisor (roll number NoRoll):
\* refused when the email or the roll number is taken or being taken.
Register(e, r) ==
    /\ "register" \in ops
    /\ ~EmailTaken(e) /\ ~RollTaken(r)
    /\ \A q \in Procs : e \notin HeldEmails(q) /\ r \notin HeldRolls(q)
    /\ owner' = [owner EXCEPT ![e] = Other]
    /\ rolls' = IF r = NoRoll THEN rolls ELSE [rolls EXCEPT ![r] = Other]
    /\ lone' = (lone /\ \A q \in Procs : txn[q] = Idle)
    /\ UNCHANGED <<ops, job, item, tally, txn>>

\* The database ends a transaction of the cycle: a run is refused, a task fails.
Victim(p) ==
    /\ Deadlocked(p)
    /\ Goto(p, IF txn[p].op = "task" THEN Failing(p) ELSE Idle)
    /\ UNCHANGED <<job, item, tally, owner, rolls>>

\* The process restarts: tasks and open transactions are gone.
Crash ==
    /\ "crash" \in ops
    /\ txn' = [p \in Procs |-> Idle]
    /\ UNCHANGED <<ops, job, item, tally, owner, rolls, lone>>

Task(p) == \/ TaskOpen(p) \/ TaskMark(p) \/ TaskLoad(p) \/ TaskCheck(p)
           \/ TaskFlush(p) \/ TaskSave(p) \/ TaskCount(p) \/ TaskFinish(p)

Run(p) == \/ RunCheck(p) \/ RunFlush(p) \/ RunCount(p) \/ RunCommit(p) \/ RunClose(p)

Next ==
    \/ \E p \in Procs : \/ Task(p) \/ RunLoad(p) \/ Run(p)
                        \/ ResumeCommit(p) \/ Victim(p)
    \/ \E p \in Procs, j \in Jobs : Upload(p, j) \/ Retry(p, j) \/ ResumeLoad(p, j)
    \/ \E e \in Emails, r \in Rolls \cup {NoRoll} : Register(e, r)
    \/ Crash

Spec == Init /\ [][Next]_vars

\* A handler that can take its next step is scheduled in the end.  A task that
\* waits for a row is first in the lock's queue (SKIP LOCKED leaves a row with a
\* queue alone), so endless runs do not keep it out: strong fairness.
FairSpec ==
    Spec /\ \A p \in Procs : /\ WF_vars(Run(p) \/ ResumeCommit(p) \/ Victim(p))
                             /\ SF_vars(Task(p))

-----------------------------------------------------------------------------
(* Properties.                                                              *)

\* A row reported as success has its own account and roll number (the account
\* of no other row or form), and the row of an account is never offered to a
\* retry or left pending: at worst a second task has marked it skipped.
AccountsMatchRows ==
    /\ \A i \in Items : item[i] = "success" =>
        /\ owner[EmailOf[i]] = i
        /\ RollOf[i] # NoRoll => rolls[RollOf[i]] = i
    /\ \A e \in Emails : owner[e] \in Items => item[owner[e]] \in {"success", "skipped"}

\* As long as one handler or task runs at a time, restarts included, a job
\* marked done has no row left pending: neither a resume nor a run nor the task
\* of a retry closes a job with work left.
DoneIsSettled ==
    lone => \A j \in Jobs : job[j] = "done" => \A i \in RowsOf(j) : item[i] # "pending"

\* "Items that were already successfully processed will NOT be reprocessed"
\* (api/http/bulk_import.py:530): as long as one handler or task runs at a time,
\* no retry, resume, run or restart takes a row out of success.
SuccessIsFinal ==
    [][lone' => \A i \in Items : item[i] = "success" => item'[i] = "success"]_vars

\* Unless a restart loses its task, an uploaded job is done or failed in the
\* end, also when rows are retried and runs take rows from its task: the upload's
\* "processing started automatically".
JobsComplete ==
    \A j \in Jobs :
        (job[j] = "pending" /\ "crash" \notin ops) ~> (job[j] \in {"done", "failed"})

-----------------------------------------------------------------------------
(* Tasks, runs and forms implement the register of accounts.               *)
Registry == INSTANCE AccountRegister

(* However tasks, runs, retries, forms and restarts interleave, a row is   *)
(* settled in one step with its account, under an email and a roll number  *)
(* that nobody has, and is skipped only when one of them is in use.        *)
ImplementsAccounts == Registry!Spec
=============================================================================
