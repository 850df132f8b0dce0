-------------------------- MODULE JuryMatchingProofs --------------------------
(***************************************************************************)
(* What holds of the jury batches and of the circuit breaker for any       *)
(* number of batches, projects, answers, requests and thresholds.          *)
(***************************************************************************)
EXTENDS JuryMatching, FiniteSetTheorems, TLAPS

-----------------------------------------------------------------------------
(* The circuit breaker: a success of the half-open period is counted in    *)
(* the circuit at most as often as it was reported.                        *)

Circuits == [state : {"closed", "open", "half_open"}, failures : Nat, successes : Nat, calls : Nat]

CircuitInv ==
    /\ circuit \in Circuits
    /\ streak \in 0..MaxProbes
    /\ circuit.successes <= streak
    /\ circuit.state # "half_open" => circuit.successes = 0

(* What a step may do to the circuit.                                      *)
BreakerStep ==
    \/ UNCHANGED <<circuit, streak>>
    \/ Admit \/ RecordSuccess \/ RecordFailure
    \/ circuit' = Observed /\ streak' = 0 /\ Observed # circuit
    \/ GatewayCrash

LEMMA RequestsStep == ASSUME NEW q \in Reqs, Request(q) PROVE BreakerStep
<1>1. CASE Recommend(q) \/ Direct(q)
  BY <1>1 DEF Recommend, Direct, BreakerStep
<1>2. CASE CacheHit(q) \/ NoAnswer(q)
  BY <1>2 DEF CacheHit, NoAnswer, Unreported, BreakerStep
<1>3. CASE Acquire(q) \/ TryLock(q) \/ CallAnyway(q) \/ Store(q) \/ Release(q)
  BY <1>3 DEF Acquire, TryLock, CallAnyway, Store, Release, breaker, BreakerStep
<1>4. CASE AnswerOk(q) \/ AnswerError(q)
  BY <1>4 DEF AnswerOk, AnswerError, BreakerStep
<1>5. CASE DirectEnd(q)
  BY <1>5 DEF DirectEnd, Unreported, BreakerStep
<1>. QED
  BY <1>1, <1>2, <1>3, <1>4, <1>5 DEF Request

LEMMA JobsStep ==
    ASSUME NEW b \in Batches, Job(b) \/ Assign(b) \/ Raise(b) \/ GiveUp(b) PROVE BreakerStep
<1>1. CASE Reset(b) \/ ResetCommit(b) \/ Recreate(b) \/ Flush(b) \/ Missing(b) \/ Complete(b)
           \/ Refused(b) \/ TurnDown(b) \/ FailBatch(b) \/ Assign(b) \/ GiveUp(b)
  BY <1>1 DEF Reset, ResetCommit, Recreate, Flush, Missing, Complete, Refused, TurnDown, FailBatch,
              Assign, GiveUp, breaker, BreakerStep
<1>2. CASE CallAI(b)
  BY <1>2 DEF CallAI, Refuse, breaker, BreakerStep
<1>3. CASE Answer(b)
  BY <1>3 DEF Answer, BreakerStep
<1>4. CASE Raise(b)
  BY <1>4 DEF Raise, Unreported, breaker, BreakerStep
<1>. QED
  BY <1>1, <1>2, <1>3, <1>4 DEF Job

LEMMA EveryStep == [Next]_vars => BreakerStep
<1>1. CASE UNCHANGED vars
  BY <1>1 DEF vars, gateway, breaker, BreakerStep
<1>2. CASE \E b \in Batches : Job(b) \/ Assign(b) \/ Raise(b) \/ GiveUp(b)
  BY <1>2, JobsStep
<1>3. CASE UNCHANGED gateway
  BY <1>3 DEF gateway, breaker, BreakerStep
<1>4. CASE GatewayNext
  BY <1>4, RequestsStep
  DEF GatewayNext, LockExpires, CacheExpires, Elapse, Health, breaker, BreakerStep
<1>5. CASE Crash
  BY <1>5 DEF Crash, BreakerStep
<1>. QED
  BY <1>1, <1>2, <1>3, <1>4, <1>5 DEF Next

LEMMA ObservedKeeps ==
    ASSUME CircuitInv
    PROVE  /\ Observed \in Circuits /\ Observed.successes = circuit.successes
           /\ Observed # circuit => circuit.successes = 0 /\ circuit.state = "open"
           /\ Observed.state # "closed" \/ Observed = circuit
           /\ Observed.state # "half_open" => Observed = circuit
<1>1. CASE circuit.state = "open" /\ ~cooling
  <2>. DEFINE half == [circuit EXCEPT !.state = "half_open"]
  <2>1. half \in Circuits /\ half.state = "half_open" /\ half.successes = circuit.successes
    BY DEF CircuitInv, Circuits
  <2>2. Observed = [half EXCEPT !.calls = 0]
    BY <1>1 DEF Observed
  <2>. HIDE DEF half
  <2>. QED
    BY <1>1, <2>1, <2>2 DEF CircuitInv, Circuits
<1>2. CASE ~(circuit.state = "open" /\ ~cooling)
  BY <1>2 DEF Observed, CircuitInv
<1>. QED
  BY <1>1, <1>2

LEMMA FailedIsOpen ==
    ASSUME CircuitInv
    PROVE  /\ Failed(circuit) \in Circuits /\ Failed(circuit).successes = 0
           /\ Failed(circuit).state = "closed" => circuit.state = "closed"
           /\ Failed(circuit).state # "half_open"
<1>. DEFINE n == Counted(circuit.failures)
            open == [circuit EXCEPT !.state = "open"]
            more == [open EXCEPT !.failures = n]
<1>. USE GatewayAssumptions
<1>1. n \in Nat
  BY DEF Counted, CircuitInv, Circuits
<1>2. open \in Circuits /\ open.state = "open" /\ open.successes = circuit.successes
  BY DEF CircuitInv, Circuits
<1>3. /\ more \in Circuits /\ more.state = "open" /\ more.successes = circuit.successes
      /\ more = [circuit EXCEPT !.state = "open", !.failures = n]
  <2>. HIDE DEF open, n
  <2>1. more \in Circuits /\ more.state = "open" /\ more.successes = circuit.successes
    BY <1>1, <1>2 DEF Circuits
  <2>. QED
    BY <2>1 DEF open, n
<1>4. /\ [more EXCEPT !.successes = 0] \in Circuits
      /\ [more EXCEPT !.successes = 0].state = "open"
      /\ [more EXCEPT !.successes = 0].successes = 0
  <2>. HIDE DEF more
  <2>. QED
    BY <1>3 DEF Circuits
<1>5. /\ [circuit EXCEPT !.failures = n] \in Circuits
      /\ [circuit EXCEPT !.failures = n].state = circuit.state
      /\ [circuit EXCEPT !.failures = n].successes = circuit.successes
  <2>. HIDE DEF n
  <2>. QED
    BY <1>1 DEF CircuitInv, Circuits
<1>6. CASE circuit.state = "half_open"
  <2>1. Failed(circuit) = [more EXCEPT !.successes = 0]
    BY <1>6 DEF Failed
  <2>. HIDE DEF more
  <2>. QED
    BY <1>4, <2>1
<1>7. CASE circuit.state # "half_open"
  <2>1. Failed(circuit) = IF n >= Threshold THEN more ELSE [circuit EXCEPT !.failures = n]
    BY <1>7 DEF Failed
  <2>. HIDE DEF more, n
  <2>. QED
    BY <1>3, <1>5, <1>7, <2>1 DEF CircuitInv, Circuits
<1>. QED
  BY <1>6, <1>7

LEMMA SucceededCounts ==
    ASSUME CircuitInv
    PROVE  LET s == Succeeded(circuit) IN
           /\ s \in Circuits
           /\ s.successes <= circuit.successes + 1
           /\ s.successes < MaxProbes \/ s.successes <= circuit.successes
           /\ circuit.state # "half_open" => s.successes = 0 /\ s.state = circuit.state
           /\ s.state # "half_open" => s.successes = 0
           /\ circuit.state = "half_open" /\ s.state = "closed"
                => circuit.successes + 1 >= MaxProbes
<1>. USE GatewayAssumptions
<1>1. CASE circuit.state # "half_open"
  BY <1>1 DEF Succeeded, CircuitInv, Circuits
<1>2. CASE circuit.state = "half_open" /\ circuit.successes + 1 >= MaxProbes
  BY <1>2 DEF Succeeded, CircuitInv, Circuits, Closed
<1>3. CASE circuit.state = "half_open" /\ ~(circuit.successes + 1 >= MaxProbes)
  BY <1>3 DEF Succeeded, CircuitInv, Circuits
<1>. QED
  BY <1>1, <1>2, <1>3

LEMMA AdmitKeeps ==
    ASSUME CircuitInv, Admit
    PROVE  CircuitInv' /\ (circuit'.state = "closed" => circuit' = circuit)
<1>. USE GatewayAssumptions
<1>1. /\ circuit' \in Circuits
      /\ circuit'.state = Observed.state /\ circuit'.successes = Observed.successes
  BY ObservedKeeps DEF Admit, Circuits
<1>2. streak' = StartOver(streak)
  BY DEF Admit
<1>3. circuit'.state = "closed" => circuit' = circuit
  BY <1>1, ObservedKeeps DEF Admit
<1>. QED
  BY <1>1, <1>2, <1>3, ObservedKeeps DEF CircuitInv, StartOver

LEMMA CircuitStarts == Init => CircuitInv
BY GatewayAssumptions DEF Init, GatewayInit, CircuitInv, Circuits, Closed

LEMMA CircuitSteps == CircuitInv /\ [Next]_vars => CircuitInv'
<1> SUFFICES ASSUME CircuitInv, BreakerStep PROVE CircuitInv'
  BY EveryStep
<1>. USE GatewayAssumptions
<1>1. CASE UNCHANGED <<circuit, streak>>
  BY <1>1 DEF CircuitInv
<1>2. CASE Admit
  BY <1>2, AdmitKeeps
<1>3. CASE RecordSuccess
  BY <1>3, SucceededCounts DEF RecordSuccess, CircuitInv, Circuits
<1>4. CASE RecordFailure
  BY <1>4, FailedIsOpen DEF RecordFailure, CircuitInv, Circuits
<1>5. CASE circuit' = Observed /\ streak' = 0 /\ Observed # circuit
  BY <1>5, ObservedKeeps DEF CircuitInv
<1>6. CASE GatewayCrash
  BY <1>6 DEF GatewayCrash, CircuitInv, Circuits, Closed
<1>. QED
  BY <1>1, <1>2, <1>3, <1>4, <1>5, <1>6 DEF BreakerStep

\* CircuitBreaker.record_success and record_failure, for any threshold, any number
\* of probes and of calls in flight: a half-open circuit closes only after
\* half_open_max_calls successes in a row reported in this half-open period.
THEOREM RecoveryNeedsSuccesses == Spec => RecoveryIsEarned
<1>. DEFINE Earned == circuit.state = "half_open" /\ circuit'.state = "closed"
                        => streak' = MaxProbes \/ GatewayCrash
<1>2. CircuitInv /\ [Next]_vars => [Earned]_vars
  <2> SUFFICES ASSUME CircuitInv, BreakerStep,
                      circuit.state = "half_open", circuit'.state = "closed"
               PROVE  streak' = MaxProbes \/ GatewayCrash
    BY EveryStep
  <2>1. CASE Admit
    BY <2>1, AdmitKeeps
  <2>2. CASE RecordSuccess
    BY <2>2, SucceededCounts, GatewayAssumptions DEF RecordSuccess, CircuitInv, Circuits
  <2>3. CASE RecordFailure
    BY <2>3, FailedIsOpen DEF RecordFailure
  <2>4. CASE circuit' = Observed /\ Observed # circuit
    BY <2>4, ObservedKeeps
  <2>. QED
    BY <2>1, <2>2, <2>3, <2>4 DEF BreakerStep
<1>. QED
  BY <1>2, CircuitStarts, CircuitSteps, PTL DEF Spec, RecoveryIsEarned

-----------------------------------------------------------------------------
(* The batches: whatever is assigned belongs to a completed batch, and a   *)
(* job at work has no completed batch.                                     *)

Assignment == [b : Batches, project : Projects, pair : Pairs]
AtWork(b) == job[b].phase \notin {"none", "done"}

JuryType ==
    /\ pairs \subseteq Pairs
    /\ assigns \subseteq Assignment
    /\ DOMAIN status = Batches /\ DOMAIN job = Wipers
    /\ \A b \in Batches : InPhase(b, "answered") =>
          job[b].new \subseteq Combos /\ job[b].plan \subseteq Projects \X job[b].new
    /\ \A b \in Batches : InPhase(b, "flushed") =>
          /\ job[b].new \subseteq Pairs
          /\ job[b].plan \subseteq Projects \X Combos
          /\ \A x \in job[b].plan : job[b].pair[x[2]] \in Pairs

Settled ==
    /\ NoOrphanAssignments
    /\ \A b \in Batches : AtWork(b) => status[b] # "completed"
    /\ \A b \in Batches : status[b] = "completed" =>
          \A p \in Projects : \E a \in assigns : a.b = b /\ a.project = p

JuryInv == JuryType /\ Settled

(* A step that changes neither a status nor an assignment, takes no pair   *)
(* away, and sets no finished job to work.                                 *)
LEMMA JuryKept ==
    ASSUME JuryInv, JuryType', status' = status, assigns' = assigns, pairs \subseteq pairs',
           \A b \in Batches : AtWork(b)' => AtWork(b)
    PROVE  JuryInv'
BY DEF JuryInv, Settled, NoOrphanAssignments

LEMMA WorkKept ==
    ASSUME JuryInv, JuryType', status' = status, assigns' = assigns, pairs \subseteq pairs',
           NEW b \in Batches, AtWork(b), NEW j, Turn(b, j)
    PROVE  JuryInv'
BY JuryKept DEF Turn, AtWork, JuryType, JuryInv

(* After a reset nothing is assigned and nothing is completed.             *)
LEMMA WipeCommitClears ==
    ASSUME JuryInv, NEW w \in Wipers, WipeCommit(w)
    PROVE  /\ assigns' = {} /\ pairs' \subseteq pairs
           /\ DOMAIN status' = Batches
           /\ \A b \in Batches : status'[b] # "completed"
<1>1. \A b \in Batches : status'[b] = Cleared(b)
  BY DEF WipeCommit
<1>2. \A b \in Batches : /\ Cleared(b) # "completed"
                         /\ status[b] = "completed" => Cleared(b) = "deleted"
  BY DEF Cleared, Stored
<1>3. \A a \in assigns : a.b \in Batches /\ status[a.b] = "completed"
  BY DEF JuryInv, JuryType, Settled, NoOrphanAssignments, Assignment
<1>. QED
  BY <1>1, <1>2, <1>3 DEF WipeCommit

(* A job that moves to a phase that carries no answer.                     *)
LEMMA StepTyped ==
    ASSUME JuryType, NEW w \in Wipers, NEW phase, phase \notin {"answered", "flushed"},
           Step(w, phase),
           pairs' \subseteq Pairs, assigns' \subseteq Assignment, DOMAIN status' = Batches
    PROVE  /\ JuryType'
           /\ job'[w].phase = phase
           /\ \A b \in Batches \ {w} : job'[b] = job[b]
<1>1. /\ DOMAIN job' = Wipers /\ job'[w] = [NoJob EXCEPT !.phase = phase]
      /\ \A v \in Wipers \ {w} : job'[v] = job[v]
  BY DEF Step, Turn, JuryType
<1>2. job'[w].phase = phase
  BY <1>1 DEF NoJob
<1>. QED
  BY <1>1, <1>2 DEF JuryType, InPhase, Wipers

LEMMA JuryStarts == Init => JuryInv
BY DEF Init, JuryInv, JuryType, Settled, NoOrphanAssignments, AtWork, InPhase, NoJob, Wipers

LEMMA JuryAtWork ==
    ASSUME JuryInv, NEW w \in Wipers, NEW phase, phase \notin {"answered", "flushed"},
           Step(w, phase), UNCHANGED <<status, pairs, assigns>>,
           w \in Batches => AtWork(w) \/ phase \in {"none", "done"}
    PROVE  JuryInv'
<1>1. JuryType' /\ job'[w].phase = phase /\ \A b \in Batches \ {w} : job'[b] = job[b]
  BY StepTyped DEF JuryInv, JuryType
<1>2. \A b \in Batches : AtWork(b)' => AtWork(b)
  BY <1>1 DEF AtWork
<1>. QED
  BY <1>1, <1>2, JuryKept

LEMMA JurySteps == JuryInv /\ [Next]_vars => JuryInv'
<1> SUFFICES ASSUME JuryInv, [Next]_vars PROVE JuryInv'
  OBVIOUS
<1>0. JuryType /\ Settled
  BY DEF JuryInv
<1>. USE JuryAssumptions
<1>1. CASE UNCHANGED jury
  BY <1>1, <1>0 DEF jury, JuryInv, JuryType, Settled, NoOrphanAssignments, AtWork, InPhase
<1>2. ASSUME NEW w \in Wipers, NEW phase, phase \in {"none", "cleared"},
             WipeCommit(w), Step(w, phase)
      PROVE  JuryInv'
  <2>1. /\ assigns' = {} /\ pairs' \subseteq pairs /\ DOMAIN status' = Batches
        /\ \A b \in Batches : status'[b] # "completed"
    BY <1>2, WipeCommitClears
  <2>2. JuryType'
    BY <1>0, <1>2, <2>1, StepTyped DEF JuryType
  <2>. QED
    BY <2>1, <2>2 DEF JuryInv, Settled, NoOrphanAssignments
<1>3. CASE DeleteAll
  BY <1>3, JuryAtWork DEF DeleteAll, Wipers
<1>4. CASE DeleteAllCommit
  BY <1>4, <1>2 DEF DeleteAllCommit, Wipers
<1>5. ASSUME NEW b \in Batches, Assign(b) \/ Recreate(b) PROVE JuryInv'
  <2>1. /\ status' = [status EXCEPT ![b] = "processing"]
        /\ \E phase \in {"scheduled", "asking"} : Step(b, phase)
        /\ UNCHANGED <<pairs, assigns>>
        /\ status[b] # "completed"
    BY <1>5, <1>0 DEF Assign, Recreate, InPhase, Settled, AtWork
  <2>2. JuryType' /\ \A c \in Batches \ {b} : job'[c] = job[c]
    BY <1>0, <2>1, StepTyped DEF JuryType, Wipers
  <2>3. status'[b] = "processing" /\ \A c \in Batches \ {b} : status'[c] = status[c]
    BY <1>0, <2>1 DEF JuryType
  <2>4. \A a \in assigns : a.b \in Batches \ {b} /\ a.pair \in pairs
    BY <1>0, <2>1 DEF JuryType, Settled, NoOrphanAssignments, Assignment
  <2>. QED
    BY <1>0, <2>1, <2>2, <2>3, <2>4 DEF JuryInv, Settled, NoOrphanAssignments, AtWork
<1>6. ASSUME NEW b \in Batches, Reset(b) \/ CallAI(b) \/ Missing(b) \/ Refused(b) \/ GiveUp(b)
      PROVE  JuryInv'
  <2>1. /\ \E phase \in {"resetting", "calling", "failing", "done"} : Step(b, phase)
        /\ AtWork(b) /\ UNCHANGED <<status, pairs, assigns>>
    BY <1>6 DEF Reset, CallAI, Missing, Refused, GiveUp, Finish, AtWork, InPhase
  <2>. QED
    BY <2>1, JuryAtWork DEF Wipers
<1>7. ASSUME NEW b \in Batches, ResetCommit(b) PROVE JuryInv'
  BY <1>7, <1>2 DEF ResetCommit, Wipers
<1>8. ASSUME NEW b \in Batches, Raise(b) PROVE JuryInv'
  BY <1>8, JuryAtWork DEF Raise, Running, AfterRaise, AtWork, Wipers
<1>9. ASSUME NEW b \in Batches, Answer(b) PROVE JuryInv'
  <2>1. CASE Step(b, "failing")
    BY <1>9, <2>1, JuryAtWork DEF Answer, InPhase, AtWork, Wipers
  <2>2. ASSUME NEW a \in Answers, Answered(b, a.pairs, a.plan) PROVE JuryInv'
    <3>1. /\ DOMAIN job' = Wipers /\ job'[b].phase = "answered"
          /\ job'[b].new = a.pairs /\ job'[b].plan = a.plan
          /\ \A v \in Wipers \ {b} : job'[v] = job[v]
      BY <1>0, <2>2 DEF Answered, Turn, NoJob, JuryType, Wipers
    <3>2. JuryType'
      BY <1>0, <1>9, <3>1 DEF Answer, JuryType, InPhase, Wipers
    <3>3. AtWork(b) /\ UNCHANGED <<status, pairs, assigns>>
      BY <1>9 DEF Answer, InPhase, AtWork
    <3>4. \A c \in Batches : AtWork(c)' => AtWork(c)
      BY <3>1, <3>3 DEF AtWork, Wipers
    <3>. QED
      BY <3>2, <3>3, <3>4, JuryKept
  <2>. QED
    BY <1>9, <2>1, <2>2 DEF Answer
<1>10. ASSUME NEW b \in Batches, Flush(b) PROVE JuryInv'
  <2>. DEFINE proposed == job[b].new
              new == {[combo |-> c, by |-> b] : c \in {c \in proposed : RowsFor(c) = {}}}
  <2>1. PICK pair \in [proposed -> pairs \cup new] :
              Turn(b, [phase |-> "flushed", plan |-> job[b].plan, pair |-> pair, new |-> new])
    BY <1>10 DEF Flush
  <2>2. /\ InPhase(b, "answered") /\ UNCHANGED <<status, pairs, assigns>>
        /\ proposed \subseteq Combos /\ job[b].plan \subseteq Projects \X proposed
    BY <1>10, <1>0 DEF Flush, JuryType
  <2>3. new \subseteq Pairs /\ pairs \subseteq Pairs
    BY <1>0, <2>2 DEF Pairs, JuryType
  <2>4. \A x \in job[b].plan : x[2] \in proposed /\ pair[x[2]] \in Pairs
    BY <2>1, <2>2, <2>3
  <2>5. /\ DOMAIN job' = Wipers /\ job'[b].phase = "flushed"
        /\ job'[b].new = new /\ job'[b].plan = job[b].plan /\ job'[b].pair = pair
        /\ \A v \in Wipers \ {b} : job'[v] = job[v]
    BY <1>0, <2>1 DEF Turn, JuryType, Wipers
  <2>. HIDE DEF new
  <2>6. JuryType'
    BY <1>0, <2>2, <2>3, <2>4, <2>5 DEF JuryType, InPhase, Wipers
  <2>7. \A c \in Batches : AtWork(c)' => AtWork(c)
    BY <2>2, <2>5 DEF AtWork, InPhase, Wipers
  <2>. QED
    BY <2>2, <2>6, <2>7, JuryKept
<1>11. ASSUME NEW b \in Batches, TurnDown(b) \/ FailBatch(b) PROVE JuryInv'
  <2>1. /\ AtWork(b) /\ Step(b, "done")
        /\ status' = status \/ status' = [status EXCEPT ![b] = "failed"]
        /\ assigns' = assigns /\ pairs \subseteq pairs' /\ pairs' \subseteq Pairs
    BY <1>11, <1>0 DEF TurnDown, FailBatch, Kept, Finish, AtWork, InPhase, JuryType
  <2>2. JuryType' /\ job'[b].phase = "done" /\ \A c \in Batches \ {b} : job'[c] = job[c]
    BY <1>0, <2>1, StepTyped DEF JuryType, Wipers
  <2>3. \A a \in assigns : a.b \in Batches \ {b} /\ a.pair \in pairs
    BY <1>0, <2>1 DEF JuryType, Settled, NoOrphanAssignments, Assignment
  <2>4. /\ status'[b] # "completed"
        /\ \A c \in Batches \ {b} : status'[c] = status[c]
    BY <1>0, <2>1 DEF JuryType, Settled
  <2>. QED
    BY <1>0, <2>1, <2>2, <2>3, <2>4 DEF JuryInv, Settled, NoOrphanAssignments, AtWork
<1>12. ASSUME NEW b \in Batches, Complete(b) PROVE JuryInv'
  <2>1. /\ InPhase(b, "flushed") /\ Step(b, "done") /\ Respected(job[b].plan)
        /\ status' = [status EXCEPT ![b] = "completed"]
        /\ pairs' = pairs \cup job[b].new /\ assigns' = assigns \cup RowsOf(b)
        /\ Used(b) \subseteq pairs
    BY <1>12 DEF Complete, Finish
  <2>2. \A a \in RowsOf(b) : a \in Assignment /\ a.b = b /\ a.pair \in pairs'
    <3>1. \A x \in job[b].plan : x[1] \in Projects /\ job[b].pair[x[2]] \in Pairs
      BY <1>0, <2>1 DEF JuryType
    <3>2. \A a \in RowsOf(b) : a \in Assignment /\ a.b = b
      BY <3>1 DEF RowsOf, Assignment
    <3>3. \A a \in RowsOf(b) : a.pair \in job[b].new \/ a.pair \in Used(b)
      BY DEF Used
    <3>. QED
      BY <2>1, <3>2, <3>3
  <2>3. \A p \in Projects : \E a \in RowsOf(b) : a.b = b /\ a.project = p
    <3>1. ASSUME NEW p \in Projects, NEW x \in job[b].plan, x[1] = p
          PROVE  \E a \in RowsOf(b) : a.b = b /\ a.project = p
      <4>. DEFINE a == [b |-> b, project |-> x[1], pair |-> job[b].pair[x[2]]]
      <4>1. a \in RowsOf(b)
        BY DEF RowsOf
      <4>. QED
        BY <3>1, <4>1
    <3>. QED
      BY <2>1, <3>1 DEF Respected
  <2>4. JuryType' /\ job'[b].phase = "done" /\ \A c \in Batches \ {b} : job'[c] = job[c]
    BY <1>0, <2>1, <2>2, StepTyped DEF JuryType, Wipers
  <2>5. status'[b] = "completed" /\ \A c \in Batches \ {b} : status'[c] = status[c]
    BY <1>0, <2>1 DEF JuryType
  <2>6. \A a \in assigns : a.b \in Batches /\ status[a.b] = "completed" /\ a.pair \in pairs
    BY <1>0 DEF JuryType, Settled, NoOrphanAssignments, Assignment
  <2>. QED
    BY <1>0, <2>1, <2>2, <2>3, <2>4, <2>5, <2>6 DEF JuryInv, Settled, NoOrphanAssignments, AtWork
<1>13. ASSUME NEW a \in assigns, NEW r \in pairs, Patch(a, r) PROVE JuryInv'
  <2>1. [a EXCEPT !.pair = r] = [b |-> a.b, project |-> a.project, pair |-> r] /\ a \in Assignment
    BY <1>0 DEF JuryType, Assignment
  <2>2. /\ assigns' = (assigns \ {a}) \cup {[b |-> a.b, project |-> a.project, pair |-> r]}
        /\ UNCHANGED <<status, pairs, job>>
    BY <1>13, <2>1 DEF Patch
  <2>3. assigns' \subseteq Assignment
    BY <1>0, <2>1, <2>2 DEF JuryType, Assignment
  <2>4. JuryType'
    BY <1>0, <2>2, <2>3 DEF JuryType, InPhase
  <2>5. NoOrphanAssignments'
    <3>1. \A c \in assigns : status[c.b] = "completed" /\ c.pair \in pairs
      BY <1>0 DEF Settled, NoOrphanAssignments
    <3>. DEFINE c == [b |-> a.b, project |-> a.project, pair |-> r]
    <3>2. c.b = a.b /\ c.pair = r
      OBVIOUS
    <3>. HIDE DEF c
    <3>. QED
      BY <2>2, <3>1, <3>2 DEF NoOrphanAssignments
  <2>6. \A c \in assigns : \E d \in assigns' : d.b = c.b /\ d.project = c.project
    BY <2>2
  <2>. QED
    BY <1>0, <2>2, <2>4, <2>5, <2>6 DEF JuryInv, Settled, AtWork
<1>14. CASE Crash
  <2>1. /\ DOMAIN job' = Wipers
        /\ \A w \in Wipers : job'[w].phase \in {"none", "done"}
        /\ UNCHANGED <<status, pairs, assigns>>
    BY <1>14 DEF Crash, NoJob
  <2>2. JuryType'
    BY <1>0, <2>1 DEF JuryType, InPhase, Wipers
  <2>. QED
    BY <1>0, <2>1, <2>2, JuryKept DEF AtWork, Wipers
<1>. QED
  BY <1>1, <1>3, <1>4, <1>5, <1>6, <1>7, <1>8, <1>9, <1>10, <1>11, <1>12, <1>13, <1>14
  DEF Next, Job, vars

\* _fail_batch and reset_all_jury_data, for any number of batches, projects and
\* answers: whatever is assigned belongs to a completed batch and a stored pair.
THEOREM AssignedMeansCompleted == Spec => []NoOrphanAssignments
<1>1. JuryInv => NoOrphanAssignments
  BY DEF JuryInv, Settled
<1>. QED
  BY <1>1, JuryStarts, JurySteps, PTL DEF Spec

\* run_assignment_job, reset_all_jury_data and update_assignment_jury, for any number
\* of runs and resets: a completed batch shows a stored pair for each of its projects.
THEOREM CompletedCoversProjects == Spec => []CompletedIsWhole
<1>1. JuryInv => CompletedIsWhole
  BY DEF JuryInv, Settled, NoOrphanAssignments, CompletedIsWhole, Shown
<1>. QED
  BY <1>1, JuryStarts, JurySteps, PTL DEF Spec

-----------------------------------------------------------------------------
(* The board that polls read.  A job at work has its batch in processing,  *)
(* or cleared by a reset; its own reset leaves it cleared.                 *)

Statuses == {"absent", "processing", "completed", "failed", "deleted"}
BoardInv ==
    /\ JuryInv
    /\ \A b \in Batches :
          /\ status[b] \in Statuses
          /\ AtWork(b) => status[b] \in {"processing", "deleted"}
          /\ InPhase(b, "cleared") => status[b] = "deleted"

Listed(rows, b) == {<<a.pair, a.project>> : a \in {a \in rows : a.b = b}}

(* No assignment is hidden: what a poll shows are the batch's rows.        *)
LEMMA ShownIsListed == JuryInv => \A b \in Batches : Shown(b) = Listed(assigns, b)
BY DEF JuryInv, Settled, NoOrphanAssignments, Shown, Listed

LEMMA ShownStaysListed == JuryInv' => \A b \in Batches : Shown(b)' = Listed(assigns', b)
BY DEF JuryInv, Settled, NoOrphanAssignments, Shown, Listed

LEMMA RowOfListed ==
    ASSUME NEW rows, rows \subseteq Assignment, NEW b \in Batches, NEW r, NEW p
    PROVE  <<r, p>> \in Listed(rows, b) <=> [b |-> b, project |-> p, pair |-> r] \in rows
<1>1. \A a \in rows : a = [b |-> a.b, project |-> a.project, pair |-> a.pair]
  BY DEF Assignment
<1>2. ASSUME <<r, p>> \in Listed(rows, b) PROVE [b |-> b, project |-> p, pair |-> r] \in rows
  <2>1. PICK a \in rows : a.b = b /\ <<r, p>> = <<a.pair, a.project>>
    BY <1>2 DEF Listed
  <2>. QED
    BY <1>1, <2>1
<1>3. ASSUME [b |-> b, project |-> p, pair |-> r] \in rows PROVE <<r, p>> \in Listed(rows, b)
  BY <1>3 DEF Listed
<1>. QED
  BY <1>2, <1>3

LEMMA BoardStarts == Init => BoardInv /\ Board!Init
BY JuryStarts DEF Init, BoardInv, Board!Init, Statuses, AtWork, InPhase, NoJob, Wipers, Shown

(* A step that changes neither a status nor an assignment, and brings no   *)
(* job to work or to its own cleared batch, is not seen.                   *)
LEMMA BoardKept ==
    ASSUME BoardInv, JuryInv', status' = status, assigns' = assigns,
           \A b \in Batches : /\ AtWork(b)' => AtWork(b)
                              /\ InPhase(b, "cleared")' => InPhase(b, "cleared")
    PROVE  BoardInv' /\ UNCHANGED Board!board
<1>1. \A b \in Batches : Shown(b)' = Shown(b)
  BY ShownIsListed, ShownStaysListed DEF BoardInv, Listed
<1>. QED
  BY <1>1 DEF BoardInv, Board!board

(* A step that gives one batch a status and lists what it listed.          *)
LEMMA BoardBecomes ==
    ASSUME BoardInv, JuryInv', NEW b \in Batches, NEW phase, Step(b, phase),
           NEW to \in Statuses \ {"absent", "completed"},
           status' = [status EXCEPT ![b] = to], assigns' = assigns,
           phase # "cleared",
           phase \in {"none", "done"} \/ to = "processing"
    PROVE  BoardInv' /\ UNCHANGED [c \in Batches |-> Shown(c)]
<1>1. /\ status'[b] = to /\ job'[b].phase = phase
      /\ \A c \in Batches \ {b} : status'[c] = status[c] /\ job'[c] = job[c]
  BY DEF BoardInv, JuryInv, JuryType, Step, Turn, NoJob, Wipers
<1>2. \A c \in Batches : Shown(c)' = Shown(c)
  <2>1. \A c \in Batches : Shown(c) = Listed(assigns, c)
    BY ShownIsListed DEF BoardInv
  <2>2. \A c \in Batches : Shown(c)' = Listed(assigns', c)
    BY ShownStaysListed
  <2>. QED
    BY <2>1, <2>2 DEF Listed
<1>. QED
  BY <1>1, <1>2 DEF BoardInv, AtWork, InPhase

LEMMA CompleteIsPublish ==
    ASSUME BoardInv, JuryInv', NEW b \in Batches, Complete(b)
    PROVE  BoardInv' /\ Board!Next
<1>. DEFINE shown == [c \in Batches |-> Shown(c)]
<1>0. JuryInv /\ JuryType /\ DOMAIN status = Batches
  BY DEF BoardInv, JuryInv, JuryType
<1>1. /\ InPhase(b, "flushed") /\ Stored(b) /\ Step(b, "done")
      /\ status' = [status EXCEPT ![b] = "completed"]
      /\ assigns' = assigns \cup RowsOf(b)
  BY DEF Complete, Finish
<1>2. status[b] = "processing"
  BY <1>1 DEF BoardInv, Stored, AtWork, InPhase
<1>3. /\ status'[b] = "completed" /\ job'[b].phase = "done"
      /\ \A c \in Batches \ {b} : status'[c] = status[c] /\ job'[c] = job[c]
  BY <1>0, <1>1 DEF JuryType, Step, Turn, NoJob, Wipers
<1>4. BoardInv'
  BY <1>3 DEF BoardInv, AtWork, InPhase, Statuses
<1>5. \A c \in Batches \ {b} : Shown(c)' = Shown(c)
  <2>1. \A a \in RowsOf(b) : a.b = b
    BY DEF RowsOf
  <2>2. \A c \in Batches \ {b} : {a \in assigns' : a.b = c} = {a \in assigns : a.b = c}
    BY <1>1, <2>1
  <2>. QED
    BY <2>2, <1>0, ShownIsListed, ShownStaysListed DEF Listed
<1>6. shown' = [shown EXCEPT ![b] = Shown(b)']
  BY <1>5
<1>7. Shown(b)' \subseteq Pairs \X Projects
  <2>1. assigns' \subseteq Assignment /\ Shown(b)' = Listed(assigns', b)
    BY ShownStaysListed DEF JuryInv, JuryType
  <2>. QED
    BY <2>1 DEF Listed, Assignment
<1>8. Board!Whole(Shown(b)')
  <2>1. ASSUME NEW p \in Projects PROVE \E r \in Pairs : <<r, p>> \in Shown(b)'
    <3>1. PICK a \in assigns' : a.b = b /\ a.project = p
      BY <1>3 DEF JuryInv, Settled
    <3>2. <<a.pair, p>> \in Listed(assigns', b)
      BY <3>1 DEF Listed
    <3>3. a.pair \in Pairs
      BY DEF JuryInv, JuryType, Assignment
    <3>. QED
      BY <3>2, <3>3, ShownStaysListed
  <2>. QED
    BY <2>1 DEF Board!Whole
<1>9. Board!Publish(b, Shown(b)')
  BY <1>1, <1>2, <1>6, <1>7, <1>8 DEF Board!Publish, Board!Become
<1>10. shown'[b] = Shown(b)'
  OBVIOUS
<1>. QED
  BY <1>4, <1>9, <1>10 DEF Board!Next

LEMMA PatchIsExchange ==
    ASSUME BoardInv, JuryInv', NEW a \in assigns, NEW r \in pairs, Patch(a, r)
    PROVE  BoardInv' /\ Board!Next
<1>. DEFINE shown == [c \in Batches |-> Shown(c)]
            Row(c, p, q) == [b |-> c, project |-> p, pair |-> q]
<1>0. JuryInv /\ JuryType
  BY DEF BoardInv, JuryInv
<1>1. /\ a.b \in Batches /\ a.project \in Projects /\ a.pair \in Pairs
      /\ a = Row(a.b, a.project, a.pair) /\ [a EXCEPT !.pair = r] = Row(a.b, a.project, r)
      /\ r \in Pairs
  BY <1>0 DEF JuryType, Assignment
<1>2. /\ UNCHANGED <<status, pairs, job>>
      /\ Row(a.b, a.project, r) \notin assigns
      /\ assigns' = (assigns \ {a}) \cup {Row(a.b, a.project, r)}
  BY <1>1 DEF Patch
<1>3. \A c \in Batches : /\ Shown(c) = Listed(assigns, c) /\ Shown(c)' = Listed(assigns', c)
  BY <1>0, ShownIsListed, ShownStaysListed
<1>4. \A c \in Batches \ {a.b} : Shown(c)' = Shown(c)
  <2>1. \A c \in Batches \ {a.b} : {d \in assigns' : d.b = c} = {d \in assigns : d.b = c}
    BY <1>2
  <2>. QED
    BY <1>3, <2>1 DEF Listed
<1>5. Shown(a.b)' = (Shown(a.b) \ {<<a.pair, a.project>>}) \cup {<<r, a.project>>}
  <2>1. \A q, p : <<q, p>> \in Listed(assigns, a.b) <=> Row(a.b, p, q) \in assigns
    BY <1>0, <1>1, RowOfListed DEF JuryType
  <2>2. \A q, p : <<q, p>> \in Listed(assigns', a.b) <=> Row(a.b, p, q) \in assigns'
    BY <1>1, RowOfListed DEF JuryInv, JuryType
  <2>3. \A q, p : Row(a.b, p, q) \in assigns' <=>
                  \/ Row(a.b, p, q) \in assigns /\ <<q, p>> # <<a.pair, a.project>>
                  \/ <<q, p>> = <<r, a.project>>
    BY <1>1, <1>2
  <2>4. \A x \in Listed(assigns, a.b) \cup Listed(assigns', a.b) : x = <<x[1], x[2]>>
    BY DEF Listed
  <2>5. \A q, p : <<q, p>> \in Listed(assigns', a.b) <=>
                  \/ <<q, p>> \in Listed(assigns, a.b) /\ <<q, p>> # <<a.pair, a.project>>
                  \/ <<q, p>> = <<r, a.project>>
    BY <2>1, <2>2, <2>3
  <2>6. \A x : x \in Listed(assigns', a.b) <=>
                  \/ x \in Listed(assigns, a.b) /\ x # <<a.pair, a.project>>
                  \/ x = <<r, a.project>>
    <3>1. ASSUME NEW x, x \in Listed(assigns', a.b)
          PROVE  \/ x \in Listed(assigns, a.b) /\ x # <<a.pair, a.project>>
                 \/ x = <<r, a.project>>
      <4>1. x = <<x[1], x[2]>>
        BY <3>1, <2>4
      <4>2. <<x[1], x[2]>> \in Listed(assigns', a.b)
        BY <3>1, <4>1
      <4>. QED
        BY <2>5, <4>1, <4>2
    <3>2. ASSUME NEW x, x \in Listed(assigns, a.b), x # <<a.pair, a.project>>
          PROVE  x \in Listed(assigns', a.b)
      <4>1. x = <<x[1], x[2]>>
        BY <3>2, <2>4
      <4>2. <<x[1], x[2]>> \in Listed(assigns, a.b)
        BY <3>2, <4>1
      <4>. QED
        BY <2>5, <4>1, <4>2, <3>2
    <3>. QED
      BY <3>1, <3>2, <2>5
  <2>. QED
    BY <2>6, <1>1, <1>3
<1>6. <<a.pair, a.project>> \in shown[a.b] /\ <<r, a.project>> \notin shown[a.b]
  BY <1>0, <1>1, <1>2, <1>3, RowOfListed DEF JuryType
<1>7. Board!Exchange(a.b, a.project, a.pair, r)
  BY <1>1, <1>2, <1>4, <1>5, <1>6 DEF Board!Exchange
<1>8. BoardInv'
  BY <1>2 DEF BoardInv, AtWork, InPhase
<1>. QED
  BY <1>1, <1>7, <1>8 DEF Board!Next

LEMMA WipeIsClear ==
    ASSUME BoardInv, JuryInv', NEW w \in Wipers, NEW phase, phase \in {"none", "cleared"},
           WipeCommit(w), Step(w, phase), w \in Batches => AtWork(w)
    PROVE  BoardInv' /\ Board!Next
<1>0. JuryInv /\ JuryType /\ DOMAIN status = Batches /\ DOMAIN job = Wipers
  BY DEF BoardInv, JuryInv, JuryType
<1>1. /\ \A b \in Batches : status[b] \in Statuses
      /\ \A b \in Batches : AtWork(b) => status[b] \in {"processing", "deleted"}
  BY DEF BoardInv
<1>2. \A b \in Batches : Cleared(b) = IF status[b] = "absent" THEN "absent" ELSE "deleted"
  BY <1>1 DEF Cleared, Stored, Statuses
<1>3. status' = [b \in Batches |-> IF status[b] = "absent" THEN "absent" ELSE "deleted"]
  BY <1>2 DEF WipeCommit
<1>4. \A b \in Batches : Shown(b)' = {}
  BY <1>3 DEF Shown
<1>5. /\ job'[w].phase = phase
      /\ \A v \in Wipers \ {w} : job'[v] = job[v]
  BY <1>0 DEF Step, Turn, NoJob
<1>6. \A b \in Batches : AtWork(b)' => AtWork(b)
  BY <1>5 DEF AtWork, Wipers
<1>7. BoardInv'
  BY <1>1, <1>3, <1>6 DEF BoardInv, InPhase, AtWork, Statuses
<1>8. Board!Clear
  BY <1>3, <1>4 DEF Board!Clear
<1>. QED
  BY <1>7, <1>8 DEF Board!Next

(* Whatever changes neither a status nor an assignment: no job comes to    *)
(* work, and none to its cleared batch, by a step of its own.              *)
LEMMA TurnUnseen ==
    ASSUME BoardInv, JuryInv', NEW w \in Wipers, NEW j, Turn(w, j), j.phase # "cleared",
           w \in Batches => AtWork(w) \/ j.phase \in {"none", "done"},
           UNCHANGED <<status, assigns>>
    PROVE  BoardInv' /\ UNCHANGED Board!board
<1>1. /\ job'[w] = j
      /\ \A v \in Wipers \ {w} : job'[v] = job[v]
  BY DEF BoardInv, JuryInv, JuryType, Turn
<1>2. \A b \in Batches : /\ AtWork(b)' => AtWork(b)
                         /\ InPhase(b, "cleared")' => InPhase(b, "cleared")
  BY <1>1 DEF AtWork, InPhase, Wipers
<1>. QED
  BY <1>2, BoardKept

LEMMA StepUnseen ==
    ASSUME BoardInv, JuryInv', NEW w \in Wipers, NEW phase, phase # "cleared", Step(w, phase),
           w \in Batches => AtWork(w) \/ phase \in {"none", "done"},
           UNCHANGED <<status, assigns>>
    PROVE  BoardInv' /\ UNCHANGED Board!board
<1>. DEFINE j == [NoJob EXCEPT !.phase = phase]
<1>1. Turn(w, j) /\ j.phase = phase
  BY DEF Step, NoJob
<1>. HIDE DEF j
<1>. QED
  BY <1>1, TurnUnseen

LEMMA BoardStep == BoardInv /\ [Next]_vars => BoardInv' /\ [Board!Next]_Board!board
<1> SUFFICES ASSUME BoardInv, [Next]_vars PROVE BoardInv' /\ [Board!Next]_Board!board
  OBVIOUS
<1>0. JuryInv'
  BY JurySteps DEF BoardInv
<1>. USE <1>0
<1>1. CASE UNCHANGED jury
  BY <1>1, BoardKept DEF jury, AtWork, InPhase
<1>2. CASE DeleteAll
  <2>1. Admin \in Wipers /\ Admin \notin Batches
    BY JuryAssumptions DEF Wipers
  <2>2. Step(Admin, "resetting") /\ UNCHANGED <<status, assigns>>
    BY <1>2 DEF DeleteAll
  <2>. QED
    BY <2>1, <2>2, StepUnseen
<1>3. CASE DeleteAllCommit
  <2>1. Admin \in Wipers /\ Admin \notin Batches
    BY JuryAssumptions DEF Wipers
  <2>. QED
    BY <1>3, <2>1, WipeIsClear DEF DeleteAllCommit
<1>4. ASSUME NEW b \in Batches, Assign(b) PROVE BoardInv' /\ Board!Next
  <2>1. BoardInv' /\ UNCHANGED [c \in Batches |-> Shown(c)]
    <3>1. "processing" \in Statuses \ {"absent", "completed"} /\ "scheduled" # "cleared"
      BY DEF Statuses
    <3>2. Step(b, "scheduled") /\ status' = [status EXCEPT ![b] = "processing"] /\ assigns' = assigns
      BY <1>4 DEF Assign
    <3>. QED
      BY <3>1, <3>2, BoardBecomes
  <2>2. Board!Ask(b)
    BY <1>4, <2>1 DEF Assign, Board!Ask, Board!Become
  <2>. QED
    BY <2>1, <2>2 DEF Board!Next
<1>5. ASSUME NEW b \in Batches, Recreate(b) PROVE BoardInv' /\ Board!Next
  <2>1. BoardInv' /\ UNCHANGED [c \in Batches |-> Shown(c)]
    <3>1. "processing" \in Statuses \ {"absent", "completed"} /\ "asking" # "cleared"
      BY DEF Statuses
    <3>2. Step(b, "asking") /\ status' = [status EXCEPT ![b] = "processing"] /\ assigns' = assigns
      BY <1>5 DEF Recreate
    <3>. QED
      BY <3>1, <3>2, BoardBecomes
  <2>2. status[b] = "deleted"
    BY <1>5 DEF Recreate, BoardInv
  <2>3. Board!Reopen(b)
    BY <1>5, <2>1, <2>2 DEF Recreate, Board!Reopen, Board!Become
  <2>. QED
    BY <2>1, <2>3 DEF Board!Next
<1>6. ASSUME NEW b \in Batches,
             Reset(b) \/ CallAI(b) \/ Missing(b) \/ Refused(b) \/ GiveUp(b) \/ Raise(b)
      PROVE  BoardInv' /\ UNCHANGED Board!board
  <2>1. /\ \E phase \in {"resetting", "calling", "failing", "done"} : Step(b, phase)
        /\ AtWork(b) /\ UNCHANGED <<status, assigns>>
    BY <1>6 DEF Reset, CallAI, Missing, Refused, GiveUp, Raise, AfterRaise, Running, Finish,
                AtWork, InPhase
  <2>. QED
    BY <2>1, StepUnseen DEF Wipers
<1>7. ASSUME NEW b \in Batches, ResetCommit(b) PROVE BoardInv' /\ Board!Next
  BY <1>7, WipeIsClear DEF ResetCommit, Wipers, AtWork, InPhase
<1>8. ASSUME NEW b \in Batches, Answer(b) \/ Flush(b)
      PROVE  BoardInv' /\ UNCHANGED Board!board
  <2>1. \E j : Turn(b, j) /\ j.phase \in {"failing", "answered", "flushed"}
    <3>1. CASE Answer(b)
      <4>1. CASE Step(b, "failing")
        BY <4>1 DEF Step, NoJob
      <4>2. ASSUME NEW a \in Answers, Answered(b, a.pairs, a.plan)
            PROVE  \E j : Turn(b, j) /\ j.phase \in {"failing", "answered", "flushed"}
        <5>. DEFINE j == [NoJob EXCEPT !.phase = "answered", !.new = a.pairs, !.plan = a.plan]
        <5>1. Turn(b, j) /\ j.phase = "answered"
          BY <4>2 DEF Answered, NoJob
        <5>. QED
          BY <5>1
      <4>. QED
        BY <3>1, <4>1, <4>2 DEF Answer
    <3>2. CASE Flush(b)
      BY <3>2 DEF Flush
    <3>. QED
      BY <1>8, <3>1, <3>2
  <2>2. AtWork(b) /\ UNCHANGED <<status, assigns>>
    BY <1>8 DEF Answer, Flush, AtWork, InPhase
  <2>. QED
    BY <2>1, <2>2, TurnUnseen DEF Wipers
<1>9. ASSUME NEW b \in Batches, TurnDown(b) \/ FailBatch(b)
      PROVE  BoardInv' /\ [Board!Next]_Board!board
  <2>1. /\ AtWork(b) /\ Step(b, "done") /\ assigns' = assigns
        /\ \/ status' = status
           \/ Stored(b) /\ status' = [status EXCEPT ![b] = "failed"]
    BY <1>9 DEF TurnDown, FailBatch, Kept, Finish, AtWork, InPhase
  <2>2. CASE status' = status
    BY <2>1, <2>2, StepUnseen DEF Wipers
  <2>3. CASE Stored(b) /\ status' = [status EXCEPT ![b] = "failed"]
    <3>1. BoardInv' /\ UNCHANGED [c \in Batches |-> Shown(c)]
      BY <2>1, <2>3, BoardBecomes DEF Statuses
    <3>2. status[b] = "processing"
      BY <2>1, <2>3 DEF BoardInv, Stored
    <3>3. Board!Fail(b)
      BY <2>3, <3>1, <3>2 DEF Board!Fail, Board!Become
    <3>. QED
      BY <3>1, <3>3 DEF Board!Next
  <2>. QED
    BY <2>1, <2>2, <2>3
<1>10. CASE Crash
  <2>1. \A b \in Batches : job'[b].phase \in {"none", "done"}
    BY <1>10 DEF Crash, NoJob, Wipers
  <2>. QED
    BY <1>10, <2>1, BoardKept DEF Crash, AtWork, InPhase
<1>. QED
  BY <1>1, <1>2, <1>3, <1>4, <1>5, <1>6, <1>7, <1>8, <1>9, <1>10,
     CompleteIsPublish, PatchIsExchange
  DEF Next, Job, vars

\* run_assignment_job, reset_all_jury_data and update_assignment_jury, for any number
\* of runs, projects and answers: a poll sees a result appear at once and whole, change
\* by exchanges only, and go with all others.
THEOREM PollsSeeABoard == Spec => ImplementsBoard
<1>1. Init => BoardInv /\ Board!Init
  BY BoardStarts
<1>. QED
  BY <1>1, BoardStep, PTL DEF Spec, ImplementsBoard, Board!Spec

-----------------------------------------------------------------------------
(* The places of a half-open circuit: requests and jobs hold them.         *)

Asking == {b \in Batches : InPhase(b, "calling")}
Out == Cardinality(Pending) + Cardinality(Asking)

CallPhases == {"idle", "cache", "lock", "waited", "calling", "store", "release", "direct"}
Call == [phase : CallPhases, key : Keys \cup {None}, held : BOOLEAN]

(* A batch that was never asked for has no job.                            *)
Fresh ==
    /\ DOMAIN job = Wipers /\ DOMAIN status = Batches
    /\ \A b \in Batches : status[b] = "absent" => InPhase(b, "none")

PlacesInv ==
    /\ CircuitInv
    /\ unreported \in 0..MaxProbes
    /\ circuit.state = "half_open" =>
          circuit.calls <= MaxProbes /\ circuit.calls <= circuit.successes + Out + unreported
    /\ req \in [Reqs -> Call]
    /\ Fresh

FiniteCalls == IsFiniteSet(Reqs) /\ IsFiniteSet(Batches)

(* What a step may do to the places.                                       *)
PlacesStep ==
    \/ Admit /\ Out' = Out + 1
    \/ RecordSuccess /\ Out' >= Out - 1
    \/ RecordFailure
    \/ Unreported /\ Out' >= Out - 1
    \/ UNCHANGED <<circuit, streak, unreported>> /\ Out' >= Out
    \/ circuit' = Observed /\ streak' = 0 /\ Observed # circuit /\ unreported' = 0
    \/ GatewayCrash

LEMMA OneMore ==
    ASSUME NEW S, IsFiniteSet(S), NEW x
    PROVE  /\ Cardinality(S) \in Nat
           /\ x \notin S => Cardinality(S \cup {x}) = Cardinality(S) + 1
           /\ Cardinality(S \ {x}) >= Cardinality(S) - 1
<1>1. Cardinality(S) \in Nat
  BY FS_CardinalityType
<1>2. x \notin S => Cardinality(S \cup {x}) = Cardinality(S) + 1
  BY FS_AddElement
<1>3. Cardinality(S \ {x}) = IF x \in S THEN Cardinality(S) - 1 ELSE Cardinality(S)
  BY FS_RemoveElement
<1>. QED
  BY <1>1, <1>2, <1>3

LEMMA CallsAreFinite ==
    ASSUME FiniteCalls
    PROVE  /\ IsFiniteSet(Pending) /\ IsFiniteSet(Asking)
           /\ Cardinality(Pending) \in Nat /\ Cardinality(Asking) \in Nat /\ Out \in Nat
           /\ Cardinality(Pending') \in Nat /\ Cardinality(Asking') \in Nat /\ Out' \in Nat
<1>1. /\ Pending \subseteq Reqs /\ Pending' \subseteq Reqs
      /\ Asking \subseteq Batches /\ Asking' \subseteq Batches
  BY DEF Pending, Asking
<1>2. /\ IsFiniteSet(Pending) /\ IsFiniteSet(Pending')
      /\ IsFiniteSet(Asking) /\ IsFiniteSet(Asking')
  BY <1>1, FS_Subset DEF FiniteCalls
<1>. QED
  BY <1>2, FS_CardinalityType DEF Out

(* One request goes on, from or to a phase that holds a place.             *)
Holds(r) == r.phase \in {"cache", "lock", "waited", "calling", "direct"}

LEMMA PendingChanges ==
    ASSUME FiniteCalls, PlacesInv, UNCHANGED jury, NEW q \in Reqs, NEW r,
           req' = [req EXCEPT ![q] = r]
    PROVE  /\ Out' >= Out - 1
           /\ Holds(r) \/ ~Holds(req[q]) => Out' >= Out
           /\ Holds(r) /\ ~Holds(req[q]) => Out' = Out + 1
<1>1. Pending' = IF Holds(r) THEN Pending \cup {q} ELSE Pending \ {q}
  BY DEF Pending, PlacesInv, Holds
<1>2. q \in Pending <=> Holds(req[q])
  BY DEF Pending, Holds
<1>3. Cardinality(Asking') = Cardinality(Asking)
  BY DEF jury, Asking, InPhase
<1>4. /\ Holds(r) /\ q \notin Pending => Cardinality(Pending') = Cardinality(Pending) + 1
      /\ Holds(r) /\ q \in Pending => Pending' = Pending
      /\ ~Holds(r) /\ q \notin Pending => Pending' = Pending
      /\ ~Holds(r) => Cardinality(Pending') >= Cardinality(Pending) - 1
  BY <1>1, CallsAreFinite, OneMore
<1>. QED
  BY <1>2, <1>3, <1>4, CallsAreFinite DEF Out

LEMMA AskingChanges ==
    ASSUME FiniteCalls, PlacesInv, UNCHANGED req, NEW b \in Batches, NEW j, Turn(b, j)
    PROVE  /\ Out' >= Out - 1
           /\ j.phase = "calling" \/ job[b].phase # "calling" => Out' >= Out
           /\ j.phase = "calling" /\ job[b].phase # "calling" => Out' = Out + 1
<1>1. Asking' = IF j.phase = "calling" THEN Asking \cup {b} ELSE Asking \ {b}
  BY DEF Asking, InPhase, Turn, PlacesInv, Fresh, Wipers
<1>2. b \in Asking <=> job[b].phase = "calling"
  BY DEF Asking, InPhase
<1>3. Cardinality(Pending') = Cardinality(Pending)
  BY DEF Pending
<1>4. /\ j.phase = "calling" /\ b \notin Asking => Cardinality(Asking') = Cardinality(Asking) + 1
      /\ j.phase = "calling" /\ b \in Asking => Asking' = Asking
      /\ j.phase # "calling" /\ b \notin Asking => Asking' = Asking
      /\ j.phase # "calling" => Cardinality(Asking') >= Cardinality(Asking) - 1
  BY <1>1, CallsAreFinite, OneMore
<1>. QED
  BY <1>2, <1>3, <1>4, CallsAreFinite DEF Out

LEMMA PlacesOfRequests ==
    ASSUME FiniteCalls, PlacesInv, UNCHANGED jury, NEW q \in Reqs, Request(q)
    PROVE  PlacesStep /\ req' \in [Reqs -> Call]
<1>0. /\ req[q] \in Call /\ Idle \in Call
      /\ \A r \in Call : req' = [req EXCEPT ![q] = r] => req' \in [Reqs -> Call]
      /\ \A phase \in CallPhases :
            LET r == [req[q] EXCEPT !.phase = phase] IN r \in Call /\ r.phase = phase
  BY DEF PlacesInv, Call, CallPhases, Idle
<1>1. CASE Recommend(q)
  <2>1. PICK r \in Call : req' = [req EXCEPT ![q] = r] /\ Holds(r)
    <3>1. PICK k \in Keys :
             req' = [req EXCEPT ![q] = [phase |-> "cache", key |-> k, held |-> FALSE]]
      BY <1>1 DEF Recommend, Goto
    <3>2. /\ [phase |-> "cache", key |-> k, held |-> FALSE] \in Call
          /\ Holds([phase |-> "cache", key |-> k, held |-> FALSE])
      BY DEF Call, CallPhases, Holds
    <3>. QED
      BY <3>1, <3>2
  <2>2. Admit /\ ~Holds(req[q])
    BY <1>1 DEF Recommend, At, Holds
  <2>. QED
    BY <2>1, <2>2, <1>0, PendingChanges DEF PlacesStep
<1>2. CASE Direct(q)
  <2>. DEFINE r == [Idle EXCEPT !.phase = "direct"]
  <2>1. req' = [req EXCEPT ![q] = r] /\ r \in Call /\ Holds(r)
    BY <1>2 DEF Direct, Goto, Idle, Holds, Call, CallPhases
  <2>2. Admit /\ ~Holds(req[q])
    BY <1>2 DEF Direct, At, Holds
  <2>. HIDE DEF r
  <2>. QED
    BY <2>1, <2>2, <1>0, PendingChanges DEF PlacesStep
<1>3. CASE CacheHit(q) \/ NoAnswer(q)
  <2>1. PICK r \in Call : req' = [req EXCEPT ![q] = r]
    BY <1>3, <1>0 DEF CacheHit, NoAnswer, Goto, Move, CallPhases
  <2>. QED
    BY <1>3, <2>1, <1>0, PendingChanges DEF CacheHit, NoAnswer, PlacesStep
<1>4. CASE Acquire(q) \/ CallAnyway(q)
  <2>1. PICK r \in Call : req' = [req EXCEPT ![q] = r] /\ Holds(r)
    BY <1>4, <1>0 DEF Acquire, CallAnyway, Goto, Move, CallPhases, Holds
  <2>. QED
    BY <1>4, <2>1, <1>0, PendingChanges DEF Acquire, CallAnyway, breaker, PlacesStep
<1>5. CASE TryLock(q)
  <2>1. PICK r \in Call : req' = [req EXCEPT ![q] = r] /\ Holds(r)
    <3>1. CASE Move(q, "waited")
      BY <3>1, <1>0 DEF Goto, Move, CallPhases, Holds
    <3>2. CASE Goto(q, [req[q] EXCEPT !.phase = "calling", !.held = TRUE])
      <4>. DEFINE calling == [req[q] EXCEPT !.phase = "calling"]
                  r == [calling EXCEPT !.held = TRUE]
      <4>1. calling \in Call /\ calling.phase = "calling"
        BY <1>0 DEF CallPhases
      <4>2. r \in Call /\ r.phase = "calling"
        <5>. HIDE DEF calling
        <5>. QED
          BY <4>1 DEF Call
      <4>3. req' = [req EXCEPT ![q] = r]
        BY <3>2 DEF Goto
      <4>. HIDE DEF r
      <4>. QED
        BY <4>2, <4>3 DEF Holds
    <3>. QED
      BY <1>5, <3>1, <3>2 DEF TryLock
  <2>. QED
    BY <1>5, <2>1, <1>0, PendingChanges DEF TryLock, breaker, PlacesStep
<1>6. CASE AnswerOk(q) \/ AnswerError(q)
  <2>1. PICK r \in Call : req' = [req EXCEPT ![q] = r]
    BY <1>6, <1>0 DEF AnswerOk, AnswerError, Goto, Move, CallPhases
  <2>. QED
    BY <1>6, <2>1, <1>0, PendingChanges DEF AnswerOk, AnswerError, PlacesStep
<1>7. CASE Store(q) \/ Release(q)
  <2>1. PICK r \in Call : req' = [req EXCEPT ![q] = r]
    BY <1>7, <1>0 DEF Store, Release, Goto, Move, CallPhases
  <2>2. ~Holds(req[q]) /\ UNCHANGED breaker
    BY <1>7 DEF Store, Release, At, Holds
  <2>. QED
    BY <2>1, <2>2, <1>0, PendingChanges DEF breaker, PlacesStep
<1>8. CASE DirectEnd(q)
  BY <1>8, <1>0, PendingChanges DEF DirectEnd, Goto, PlacesStep
<1>. QED
  BY <1>1, <1>2, <1>3, <1>4, <1>5, <1>6, <1>7, <1>8 DEF Request

LEMMA PlacesOfJobs ==
    ASSUME FiniteCalls, PlacesInv, UNCHANGED req, NEW b \in Batches,
           Job(b) \/ Assign(b) \/ Raise(b) \/ GiveUp(b)
    PROVE  PlacesStep /\ \E j : Turn(b, j)
<1>1. CASE CallAI(b)
  <2>1. /\ job[b].phase # "calling"
        /\ \/ Admit /\ Turn(b, [NoJob EXCEPT !.phase = "calling"])
           \/ UNCHANGED breaker /\ Turn(b, [NoJob EXCEPT !.phase = "failing"])
    BY <1>1 DEF CallAI, Refuse, Step, InPhase
  <2>. QED
    BY <2>1, AskingChanges DEF NoJob, breaker, PlacesStep
<1>2. CASE Answer(b)
  <2>1. /\ RecordSuccess \/ RecordFailure
        /\ \E j : Turn(b, j)
    BY <1>2 DEF Answer, Answered, Step
  <2>. QED
    BY <2>1, AskingChanges DEF PlacesStep
<1>3. CASE Raise(b)
  <2>1. /\ \E j : Turn(b, j)
        /\ IF job[b].phase = "calling" THEN Unreported ELSE UNCHANGED breaker
    BY <1>3 DEF Raise, Step, InPhase
  <2>. QED
    BY <2>1, AskingChanges DEF breaker, PlacesStep
<1>4. CASE Assign(b)
  <2>1. /\ \E j : Turn(b, j)
        /\ job[b].phase # "calling" /\ UNCHANGED breaker
    BY <1>4 DEF Assign, Step, PlacesInv, Fresh, InPhase
  <2>. QED
    BY <2>1, AskingChanges DEF breaker, PlacesStep
<1>5. CASE Reset(b) \/ ResetCommit(b) \/ Recreate(b) \/ Flush(b) \/ Missing(b) \/ Complete(b)
           \/ Refused(b) \/ TurnDown(b) \/ FailBatch(b) \/ GiveUp(b)
  <2>1. /\ \E j : Turn(b, j)
        /\ job[b].phase # "calling" /\ UNCHANGED breaker
    BY <1>5 DEF Reset, ResetCommit, Recreate, Flush, Missing, Complete, Refused, TurnDown,
                FailBatch, GiveUp, Finish, Step, InPhase
  <2>. QED
    BY <2>1, AskingChanges DEF breaker, PlacesStep
<1>. QED
  BY <1>1, <1>2, <1>3, <1>4, <1>5 DEF Job

(* Where the step is known, the places add up again.                       *)
LEMMA PlacesAddUp ==
    ASSUME FiniteCalls, PlacesInv, CircuitInv', PlacesStep
    PROVE  /\ unreported' \in 0..MaxProbes
           /\ circuit'.state = "half_open" =>
                 /\ circuit'.calls <= MaxProbes
                 /\ circuit'.calls <= circuit'.successes + Out' + unreported'
<1>. USE GatewayAssumptions
<1>0. /\ CircuitInv /\ Out \in Nat /\ Out' \in Nat /\ unreported \in 0..MaxProbes
      /\ circuit \in Circuits /\ circuit' \in Circuits
  BY CallsAreFinite DEF PlacesInv, CircuitInv
<1>1. CASE Admit /\ Out' = Out + 1
  <2>1. CASE circuit.state = "open" /\ ~cooling
    <3>1. Observed.state = "half_open" /\ Observed.calls = 0 /\ Observed # circuit
      BY <2>1, <1>0 DEF Observed, Circuits
    <3>2. circuit'.calls = 1 /\ unreported' = 0
      BY <1>1, <3>1, <1>0, ObservedKeeps DEF Admit, StartOver, Circuits
    <3>. QED
      BY <1>0, <1>1, <3>2 DEF Circuits
  <2>2. CASE ~(circuit.state = "open" /\ ~cooling)
    <3>1. Observed = circuit /\ unreported' = unreported
      BY <1>1, <2>2 DEF Observed, Admit, StartOver
    <3>2. circuit' = IF circuit.state = "half_open"
                     THEN [circuit EXCEPT !.calls = @ + 1] ELSE circuit
      BY <1>1, <3>1 DEF Admit
    <3>3. circuit.state = "half_open" => circuit.calls < MaxProbes
      BY <1>1, <3>1 DEF Admit, Allowed
    <3>. QED
      BY <1>0, <1>1, <3>1, <3>2, <3>3 DEF PlacesInv, Circuits
  <2>. QED
    BY <2>1, <2>2
<1>2. CASE RecordSuccess /\ Out' >= Out - 1
  <2>1. circuit' = Succeeded(circuit) /\ unreported' = unreported
    BY <1>2 DEF RecordSuccess
  <2>2. CASE circuit.state # "half_open"
    BY <2>1, <2>2, <1>0 DEF Succeeded, Circuits
  <2>3. CASE circuit.state = "half_open" /\ circuit.successes + 1 >= MaxProbes
    BY <2>1, <2>3, <1>0 DEF Succeeded, Circuits, Closed
  <2>4. CASE circuit.state = "half_open" /\ ~(circuit.successes + 1 >= MaxProbes)
    <3>1. circuit'.calls = circuit.calls /\ circuit'.successes = circuit.successes + 1
      BY <2>1, <2>4, <1>0 DEF Succeeded, Circuits
    <3>. QED
      BY <1>0, <1>2, <2>1, <2>4, <3>1 DEF PlacesInv, Circuits
  <2>. QED
    BY <2>2, <2>3, <2>4
<1>3. CASE RecordFailure
  BY <1>3, <1>0, FailedIsOpen DEF RecordFailure
<1>4. CASE Unreported /\ Out' >= Out - 1
  BY <1>4, <1>0 DEF Unreported, PlacesInv, Circuits
<1>5. CASE UNCHANGED <<circuit, streak, unreported>> /\ Out' >= Out
  BY <1>5, <1>0 DEF PlacesInv, Circuits
<1>6. CASE circuit' = Observed /\ streak' = 0 /\ Observed # circuit /\ unreported' = 0
  <2>1. circuit.state = "open" /\ ~cooling
    BY <1>6 DEF Observed
  <2>2. circuit'.calls = 0
    BY <2>1, <1>6, <1>0 DEF Observed, Circuits
  <2>. QED
    BY <1>6, <2>2, <1>0 DEF Circuits
<1>7. CASE GatewayCrash
  BY <1>7, <1>0 DEF GatewayCrash, Closed
<1>. QED
  BY <1>1, <1>2, <1>3, <1>4, <1>5, <1>6, <1>7 DEF PlacesStep

LEMMA FreshKept ==
    ASSUME Fresh, NEW w \in Wipers, NEW j, Turn(w, j), DOMAIN status' = Batches,
           \A b \in Batches : status'[b] = "absent" => status[b] = "absent",
           w \in Batches => status'[w] # "absent"
    PROVE  Fresh'
BY DEF Fresh, Turn, InPhase, Wipers

LEMMA FreshSteps == Fresh /\ [Next]_vars => Fresh'
<1> SUFFICES ASSUME Fresh, [Next]_vars PROVE Fresh'
  OBVIOUS
<1>. USE JuryAssumptions DEF Wipers
<1>0. ASSUME NEW w \in Wipers, WipeCommit(w)
      PROVE  /\ DOMAIN status' = Batches
             /\ \A b \in Batches : status'[b] = "absent" <=> status[b] = "absent"
  BY <1>0 DEF WipeCommit, Cleared, Stored
<1>1. CASE UNCHANGED jury
  BY <1>1 DEF jury, Fresh, InPhase
<1>2. CASE DeleteAll
  <2>1. \E j : Turn(Admin, j)
    BY <1>2 DEF DeleteAll, Step
  <2>. QED
    BY <1>2, <2>1, FreshKept DEF DeleteAll, Fresh
<1>3. CASE DeleteAllCommit
  <2>1. \E j : Turn(Admin, j)
    BY <1>3 DEF DeleteAllCommit, Step
  <2>. QED
    BY <1>0, <1>3, <2>1, FreshKept DEF DeleteAllCommit
<1>4. ASSUME NEW a \in assigns, NEW r \in pairs, Patch(a, r) PROVE Fresh'
  BY <1>4 DEF Patch, Fresh, InPhase
<1>5. CASE Crash
  <2>1. \A w \in Wipers : InPhase(w, "none") => job'[w].phase = "none"
    BY <1>5 DEF Crash, NoJob
  <2>. QED
    BY <1>5, <2>1 DEF Crash, Fresh, InPhase
<1>6. ASSUME NEW b \in Batches, Assign(b) PROVE Fresh'
  <2>1. \E j : Turn(b, j)
    BY <1>6 DEF Assign, Step
  <2>. QED
    BY <1>6, <2>1, FreshKept DEF Assign, Fresh
<1>7. ASSUME NEW b \in Batches, Job(b) \/ Raise(b) \/ GiveUp(b) PROVE Fresh'
  <2>1. \E j : Turn(b, j)
    BY <1>7 DEF Job, Reset, ResetCommit, Recreate, CallAI, Answer, Answered, Flush, Missing,
                Complete, Refused, TurnDown, FailBatch, Raise, GiveUp, Finish, Step
  <2>2. ~InPhase(b, "none")
    BY <1>7 DEF Job, Reset, ResetCommit, Recreate, CallAI, Answer, Flush, Missing,
                Complete, Refused, TurnDown, FailBatch, Raise, Running, GiveUp, InPhase
  <2>3. \/ UNCHANGED status
        \/ \E w \in Wipers : WipeCommit(w)
        \/ \E s \in {"processing", "completed", "failed"} : status' = [status EXCEPT ![b] = s]
    BY <1>7 DEF Job, Reset, ResetCommit, Recreate, CallAI, Answer, Flush, Missing,
                Complete, Refused, TurnDown, FailBatch, Raise, GiveUp
  <2>4. /\ DOMAIN status' = Batches
        /\ \A c \in Batches : status'[c] = "absent" => status[c] = "absent"
    BY <1>0, <2>3 DEF Fresh
  <2>. QED
    BY <2>1, <2>2, <2>4, FreshKept DEF Fresh
<1>. QED
  BY <1>1, <1>2, <1>3, <1>4, <1>5, <1>6, <1>7 DEF Next, vars

LEMMA PlacesSteps == ASSUME FiniteCalls PROVE PlacesInv /\ [Next]_vars => PlacesInv'
<1> SUFFICES ASSUME PlacesInv, [Next]_vars PROVE PlacesInv'
  OBVIOUS
<1>0. CircuitInv' /\ Fresh'
  BY CircuitSteps, FreshSteps DEF PlacesInv
<1> SUFFICES PlacesStep /\ req' \in [Reqs -> Call]
  BY <1>0, PlacesAddUp DEF PlacesInv
<1>. USE JuryAssumptions
<1>1. Out \in Nat
  BY CallsAreFinite
<1>2. ASSUME UNCHANGED breaker, UNCHANGED req, \A b \in Batches : job'[b] = job[b]
      PROVE  PlacesStep /\ req' \in [Reqs -> Call]
  <2>1. Pending' = Pending /\ Asking' = Asking
    BY <1>2 DEF Pending, Asking, InPhase
  <2>. QED
    BY <1>1, <1>2, <2>1 DEF Out, breaker, PlacesInv, PlacesStep
<1>3. CASE UNCHANGED vars
  BY <1>2, <1>3 DEF vars, gateway, jury
<1>4. ASSUME NEW b \in Batches, Job(b) \/ Assign(b) \/ Raise(b) \/ GiveUp(b), UNCHANGED req
      PROVE  PlacesStep /\ req' \in [Reqs -> Call]
  BY <1>4, PlacesOfJobs DEF PlacesInv
<1>5. CASE (DeleteAll \/ DeleteAllCommit) /\ UNCHANGED gateway
  <2>1. PICK j : job' = [job EXCEPT ![Admin] = j]
    BY <1>5 DEF DeleteAll, DeleteAllCommit, Step, Turn
  <2>2. \A b \in Batches : job'[b] = job[b]
    BY <2>1 DEF PlacesInv, Fresh, Wipers
  <2>. QED
    BY <1>2, <1>5, <2>2 DEF gateway
<1>6. ASSUME NEW a \in assigns, NEW r \in pairs, Patch(a, r), UNCHANGED gateway
      PROVE  PlacesStep /\ req' \in [Reqs -> Call]
  BY <1>2, <1>6 DEF Patch, gateway
<1>7. CASE GatewayNext /\ UNCHANGED jury
  <2>1. ASSUME NEW q \in Reqs, Request(q) PROVE PlacesStep /\ req' \in [Reqs -> Call]
    BY <1>7, <2>1, PlacesOfRequests
  <2>2. ASSUME NEW k \in Keys, LockExpires(k) \/ CacheExpires(k)
        PROVE  PlacesStep /\ req' \in [Reqs -> Call]
    BY <1>2, <1>7, <2>2 DEF LockExpires, CacheExpires, jury
  <2>3. CASE Elapse
    <3>1. Pending' = Pending /\ Asking' = Asking
      BY <1>7, <2>3 DEF Elapse, jury, Pending, Asking, InPhase
    <3>. QED
      BY <1>1, <2>3, <3>1 DEF Elapse, Out, PlacesInv, PlacesStep
  <2>4. CASE Health
    BY <2>4 DEF Health, PlacesInv, PlacesStep
  <2>. QED
    BY <1>7, <2>1, <2>2, <2>3, <2>4 DEF GatewayNext
<1>8. CASE Crash
  <2>1. Idle \in Call
    BY DEF Idle, Call, CallPhases
  <2>. QED
    BY <1>8, <2>1 DEF Crash, GatewayCrash, PlacesStep
<1>. QED
  BY <1>3, <1>4, <1>5, <1>6, <1>7, <1>8 DEF Next

LEMMA PlacesStart == ASSUME FiniteCalls PROVE Init => PlacesInv
<1> SUFFICES ASSUME Init PROVE PlacesInv
  OBVIOUS
<1>1. CircuitInv
  BY CircuitStarts
<1>2. Fresh
  BY DEF Init, Fresh, InPhase, NoJob, Wipers
<1>3. req \in [Reqs -> Call]
  BY DEF Init, GatewayInit, Idle, Call, CallPhases
<1>. QED
  BY <1>1, <1>2, <1>3, GatewayAssumptions DEF Init, GatewayInit, PlacesInv, Closed

\* CircuitBreaker.is_allowed, for any finite number of calls in flight: each place a
\* half-open circuit gave away has succeeded, is yet to report, or ended unreported.
THEOREM PlacesAreAccounted == ASSUME FiniteCalls PROVE Spec => []PlacesAccounted
<1>1. PlacesInv => PlacesAccounted
  <2> SUFFICES ASSUME PlacesInv, circuit.state = "half_open"
               PROVE  circuit.calls <= circuit.successes + Cardinality(Pending)
                                       + Cardinality(Asking) + unreported
    BY DEF PlacesAccounted, Asking
  <2>. QED
    BY CallsAreFinite DEF PlacesInv, CircuitInv, Circuits, Out
<1>. QED
  BY <1>1, PlacesStart, PlacesSteps, PTL DEF Spec
===============================================================================
