----------------------------- MODULE JuryMatching ------------------------------
(***************************************************************************)
(* Jury assignment: the batch an administrator asks for, the background    *)
(* job that clears all jury data, asks the AI service for pairs of faculty *)
(* and their projects, checks the answer and stores it; the manual reset   *)
(* and the exchange of one project's pair.  The job's call passes the      *)
(* circuit breaker the module AiGateway shares with the recommendations.   *)
(*                                                                         *)
(* The DELETEs of a reset hold the rows they found until the commit.  A    *)
(* job adds its pairs unseen by others (flush) and commits them with the   *)
(* batch, completed or failed.                                             *)
(***************************************************************************)
EXTENDS AiGateway

CONSTANTS
    Batches,    \* assignment runs ever asked for
    Projects,   \* projects of the requested cycles
    Combos,     \* unordered pairs of faculty members the AI service proposes
    Answers,    \* bound: what the AI service may answer
    MinGroups,  \* min_groups_per_pair of the request
    MaxGroups,  \* max_groups_per_pair
    Admin       \* the manual reset, among those who clear jury data

ASSUME JuryAssumptions ==
    /\ MinGroups \in Nat \ {0} /\ MaxGroups \in Nat \ {0}
    /\ Admin \notin Batches
    /\ \A a \in Answers : a.pairs \subseteq Combos /\ a.plan \subseteq Projects \X a.pairs

VARIABLES
    status,     \* jury_assignment_batches.status, "absent" or "deleted"
    pairs,      \* jury_pairs: the faculty and the run that stored it
    assigns,    \* jury_assignments: batch, project, pair
    job,        \* run_assignment_job of each batch, and the manual reset
    wiping,     \* pairs whose rows an open reset has deleted
    abandoned   \* history: batches whose job died before it could say so

jury == <<status, pairs, assigns, job, wiping, abandoned>>
vars == <<gateway, jury>>

Pairs == [combo : Combos, by : Batches]
Wipers == Batches \cup {Admin}
Stored(b) == status[b] \in {"processing", "completed", "failed"}

(* A job's part of the answer: pairs, assignments; pair: the row per combo.*)
NoJob == [phase |-> "none", plan |-> {}, pair |-> <<>>, new |-> {}]
InPhase(b, phase) == job[b].phase = phase
Turn(b, j) == job' = [job EXCEPT ![b] = j]
Step(b, phase) == Turn(b, [NoJob EXCEPT !.phase = phase])
Finish(b) == Step(b, "done")

(* Rows an open reset of someone else has deleted.                         *)
HeldFrom(w) == UNION {wiping[v] : v \in Wipers \ {w}}

Init ==
    /\ GatewayInit
    /\ status = [b \in Batches |-> "absent"]
    /\ pairs = {} /\ assigns = {}
    /\ job = [w \in Wipers |-> NoJob]
    /\ wiping = [w \in Wipers |-> {}]
    /\ abandoned = {}

-----------------------------------------------------------------------------
(* The reset: two DELETEs, the third and the commit.                       *)

Wipe(w) ==
    /\ pairs \cap HeldFrom(w) = {}
    /\ wiping' = [wiping EXCEPT ![w] = pairs]

BugCleared(b) == status[b]
Cleared(b) == IF Stored(b) THEN "deleted" ELSE status[b]

(* Batches stored since are deleted too, and with a batch or a pair its    *)
(* assignments (ON DELETE CASCADE).                                        *)
WipeCommit(w) ==
    /\ status' = [b \in Batches |-> Cleared(b)]
    /\ pairs' = pairs \ wiping[w]
    /\ assigns' = {a \in assigns : a.pair \notin wiping[w] /\ status'[a.b] # "deleted"}
    /\ wiping' = [wiping EXCEPT ![w] = {}]

(* The administrator's reset, between the first statement and the commit.  *)
DeleteAll ==
    /\ "reset" \in ops /\ InPhase(Admin, "none")
    /\ Wipe(Admin)
    /\ Step(Admin, "resetting")
    /\ UNCHANGED <<status, pairs, assigns, abandoned>>

DeleteAllCommit ==
    /\ InPhase(Admin, "resetting")
    /\ WipeCommit(Admin)
    /\ Step(Admin, "none")
    /\ UNCHANGED abandoned

-----------------------------------------------------------------------------
(* The assignment run.                                                     *)

Assign(b) ==
    /\ "assign" \in ops /\ status[b] = "absent"
    /\ status' = [status EXCEPT ![b] = "processing"]
    /\ Step(b, "scheduled")
    /\ UNCHANGED <<breaker, pairs, assigns, wiping, abandoned>>

Reset(b) ==
    /\ InPhase(b, "scheduled")
    /\ Wipe(b)
    /\ Step(b, "resetting")
    /\ UNCHANGED <<breaker, status, pairs, assigns, abandoned>>

ResetCommit(b) ==
    /\ InPhase(b, "resetting")
    /\ WipeCommit(b)
    /\ Step(b, "cleared")
    /\ UNCHANGED <<breaker, abandoned>>

(* The reset deleted the job's own batch too.                              *)
Recreate(b) ==
    /\ InPhase(b, "cleared")
    /\ status' = [status EXCEPT ![b] = "processing"]
    /\ Step(b, "asking")
    /\ UNCHANGED <<breaker, pairs, assigns, wiping, abandoned>>

CallAI(b) ==
    /\ InPhase(b, "asking")
    /\ \/ Admit /\ Step(b, "calling")
       \/ Refuse /\ Step(b, "failing")
    /\ UNCHANGED <<status, pairs, assigns, wiping, abandoned>>

(* What the normaliser makes of an answer: pairs, and assignments to them. *)
(* Rows it cannot resolve are skipped, so the assignments may be any.      *)
Answered(b, proposed, plan) ==
    Turn(b, [NoJob EXCEPT !.phase = "answered", !.new = proposed, !.plan = plan])

Answer(b) ==
    /\ InPhase(b, "calling")
    /\ \/ /\ RecordSuccess
          /\ \E a \in Answers : Answered(b, a.pairs, a.plan)
       \/ RecordSuccess /\ Step(b, "failing")      \* no results
       \/ RecordFailure /\ Step(b, "failing")
    /\ UNCHANGED <<status, pairs, assigns, wiping, abandoned>>

(* A known pair of the same faculty is reused, any other is added.         *)
RowsFor(c) == {r \in pairs : r.combo = c}
Flush(b) ==
    /\ InPhase(b, "answered")
    /\ LET proposed == job[b].new
           new == {[combo |-> c, by |-> b] : c \in {c \in proposed : RowsFor(c) = {}}}
       IN \E pair \in [proposed -> pairs \cup new] :
             /\ \A c \in proposed : pair[c].combo = c
             /\ Turn(b, [phase |-> "flushed", plan |-> job[b].plan, pair |-> pair, new |-> new])
    /\ UNCHANGED <<breaker, status, pairs, assigns, wiping, abandoned>>

-----------------------------------------------------------------------------
(* Checking and storing the answer.                                        *)

LoadOf(plan, c) == Cardinality({x \in plan : x[2] = c})
Respected(plan) ==
    /\ plan # {} /\ Projects # {}
    /\ \A x \in plan : LoadOf(plan, x[2]) \in MinGroups..MaxGroups
    /\ \A p \in Projects : \E x \in plan : x[1] = p

RowsOf(b) == {[b |-> b, project |-> x[1], pair |-> job[b].pair[x[2]]] : x \in job[b].plan}
Used(b) == {a.pair : a \in RowsOf(b)} \ job[b].new

(* The batch is gone: nothing is committed, the pairs included.            *)
Missing(b) ==
    /\ InPhase(b, "flushed") /\ ~Stored(b)
    /\ Finish(b)
    /\ UNCHANGED <<breaker, status, pairs, assigns, wiping, abandoned>>

Complete(b) ==
    /\ InPhase(b, "flushed") /\ Stored(b) /\ Respected(job[b].plan)
    /\ Used(b) \subseteq pairs \ HeldFrom(b)
    /\ status' = [status EXCEPT ![b] = "completed"]
    /\ pairs' = pairs \cup job[b].new
    /\ assigns' = assigns \cup RowsOf(b)
    /\ Finish(b)
    /\ UNCHANGED <<breaker, wiping, abandoned>>

(* A reused pair has been deleted: the foreign key refuses.                *)
Refused(b) ==
    /\ InPhase(b, "flushed") /\ Stored(b) /\ Respected(job[b].plan)
    /\ ~(Used(b) \subseteq pairs)
    /\ Step(b, "failing")
    /\ UNCHANGED <<breaker, status, pairs, assigns, wiping, abandoned>>

(* The rows of an answer that is turned down, kept apart from the commit.  *)
BugKept(b) == RowsOf(b)
Kept(b) == {}

(* The commit of the failed batch takes the flushed pairs with it.         *)
TurnDown(b) ==
    /\ InPhase(b, "flushed") /\ Stored(b) /\ ~Respected(job[b].plan)
    /\ status' = [status EXCEPT ![b] = "failed"]
    /\ pairs' = pairs \cup job[b].new
    /\ assigns' = assigns \cup Kept(b)
    /\ Finish(b)
    /\ UNCHANGED <<breaker, wiping, abandoned>>

Running(b) == job[b].phase \notin {"none", "done", "failing"}

(* An exception anywhere in the job: a refused statement, a deadlock, an   *)
(* answer that cannot be read.  The session is rolled back.                *)
BugAfterRaise == "done"
AfterRaise == "failing"
Raise(b) ==
    /\ "raise" \in ops /\ Running(b)
    /\ IF InPhase(b, "calling") THEN Unreported ELSE UNCHANGED breaker
    /\ wiping' = [wiping EXCEPT ![b] = {}]
    /\ Step(b, AfterRaise)
    /\ UNCHANGED <<status, pairs, assigns, abandoned>>

(* _fail_batch after a rollback; a batch that is gone stays gone.          *)
FailBatch(b) ==
    /\ InPhase(b, "failing")
    /\ status' = IF Stored(b) THEN [status EXCEPT ![b] = "failed"] ELSE status
    /\ Finish(b)
    /\ UNCHANGED <<breaker, pairs, assigns, wiping, abandoned>>

(* Marking the batch fails as well and is only logged.                     *)
GiveUp(b) ==
    /\ "raise" \in ops /\ InPhase(b, "failing")
    /\ Finish(b)
    /\ abandoned' = abandoned \cup {b}
    /\ UNCHANGED <<breaker, status, pairs, assigns, wiping>>

(* The administrator gives one project another stored pair.                *)
Patch(a, r) ==
    /\ "patch" \in ops
    /\ a \in assigns /\ r \in pairs \ HeldFrom(None)
    /\ a.pair \notin HeldFrom(None)
    /\ [a EXCEPT !.pair = r] \notin assigns
    /\ assigns' = (assigns \ {a}) \cup {[a EXCEPT !.pair = r]}
    /\ UNCHANGED <<status, pairs, job, wiping, abandoned>>

Crash ==
    /\ "crash" \in ops
    /\ GatewayCrash
    /\ job' = [w \in Wipers |-> IF InPhase(w, "none") \/ w = Admin THEN NoJob
                                ELSE [NoJob EXCEPT !.phase = "done"]]
    /\ abandoned' = abandoned \cup {b \in Batches : job'[b] # job[b]}
    /\ wiping' = [w \in Wipers |-> {}]
    /\ UNCHANGED <<status, pairs, assigns>>

Job(b) ==
    \/ Reset(b) \/ ResetCommit(b) \/ Recreate(b) \/ CallAI(b) \/ Answer(b) \/ Flush(b)
    \/ Missing(b) \/ Complete(b) \/ Refused(b) \/ TurnDown(b) \/ FailBatch(b)

Next ==
    \/ \E b \in Batches : (Job(b) \/ Assign(b) \/ Raise(b) \/ GiveUp(b))
                          /\ UNCHANGED <<ops, req, redis>>
    \/ DeleteAll /\ UNCHANGED gateway
    \/ DeleteAllCommit /\ UNCHANGED gateway
    \/ (\E a \in assigns, r \in pairs : Patch(a, r)) /\ UNCHANGED gateway
    \/ GatewayNext /\ UNCHANGED jury
    \/ Crash

(* A job runs until it ends; Elapse is the passing of time, the other      *)
(* reset commits or is rolled back.                                        *)
Spec ==
    /\ Init /\ [][Next]_vars
    /\ \A b \in Batches : WF_vars(Job(b) /\ UNCHANGED <<ops, req, redis>>)
    /\ WF_vars(DeleteAllCommit /\ UNCHANGED gateway)
-----------------------------------------------------------------------------
(* What a poll of the batch shows: its projects by pair, once completed.   *)
Shown(b) ==
    IF status[b] # "completed" THEN {}
    ELSE {<<a.pair, a.project>> : a \in {a \in assigns : a.b = b /\ a.pair \in pairs}}

(* A completed batch shows, at any time, a stored pair for every project   *)
(* it was asked for, however runs, resets and exchanged pairs interleave   *)
(* (run_assignment_job, reset_all_jury_data, update_assignment_jury).      *)
CompletedIsWhole ==
    \A b \in Batches : status[b] = "completed" =>
        \A p \in Projects : \E r \in pairs : <<r, p>> \in Shown(b)

(* Assignments are those of completed batches: an answer that was turned   *)
(* down leaves none, although its pairs stay (_fail_batch commits the      *)
(* session that flushed them).                                             *)
NoOrphanAssignments ==
    \A a \in assigns : status[a.b] = "completed" /\ a.pair \in pairs

(* The administrator who polls a batch sees it settle, or disappear, also  *)
(* when another run or a reset deletes it on the way; except when the      *)
(* process died or the database refused to store the failure.              *)
BatchSettles ==
    \A b \in Batches :
        status[b] = "processing" ~> (status[b] # "processing" \/ b \in abandoned)

(* Every place a half-open circuit has given away is accounted for: its    *)
(* call has succeeded, is still to report, or ended without a report.      *)
(* Were nothing to go unreported, a half-open circuit would always decide. *)
PlacesAccounted ==
    circuit.state = "half_open" =>
        circuit.calls <= circuit.successes + Cardinality(Pending)
                       + Cardinality({b \in Batches : InPhase(b, "calling")}) + unreported

(* A half-open circuit closes only after half_open_max_calls successes     *)
(* reported in this half-open period, whatever late answers of earlier     *)
(* calls arrive (CircuitBreaker.record_success and record_failure).        *)
RecoveryIsEarned ==
    [][circuit.state = "half_open" /\ circuit'.state = "closed"
       => streak' = MaxProbes \/ GatewayCrash]_vars

-----------------------------------------------------------------------------
(* Runs, resets and exchanges implement the board that polls read.         *)
Board == INSTANCE JuryBoard WITH shown <- [b \in Batches |-> Shown(b)]

(* However runs, resets, exchanges, exceptions and crashes interleave, a   *)
(* result appears whole, stays but for exchanges, and all go at once.      *)
ImplementsBoard == Board!Spec
=============================================================================
