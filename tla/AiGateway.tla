------------------------------- MODULE AiGateway -------------------------------
(***************************************************************************)
(* The calls to the external AI service: the circuit breaker that every    *)
(* call of the process passes, and in front of a recommendation also the   *)
(* response cache and the deduplication lock, both in Redis.               *)
(*                                                                         *)
(* A call takes its place in the circuit first.  What ends a call between  *)
(* there and the answer (a cached response, a missing group, an answer     *)
(* that cannot be read, a cancelled request) reports nothing to the        *)
(* circuit: it goes unreported.                                            *)
(***************************************************************************)
EXTENDS Integers, FiniteSets

CONSTANTS
    Students,   \* requests of students in flight
    Admins,     \* requests of administrators in flight
    Keys,       \* parameters of a recommendation (the hash of group and idea)
    Threshold,  \* failures that open the circuit (ai_circuit_failure_threshold)
    MaxProbes,  \* half_open_max_calls
    OpSets,     \* bound: operations that run together (one set in a behaviour)
    None

Reqs == Students \cup Admins

ASSUME GatewayAssumptions ==
    /\ Threshold \in Nat \ {0} /\ MaxProbes \in Nat \ {0}
    /\ None \notin Keys /\ None \notin Reqs

VARIABLES
    ops,        \* the operations of this behaviour
    circuit,    \* ai_service_circuit
    cooling,    \* less than recovery_timeout since the last failure
    req,        \* the requests: what each is doing, and for which key
    lock,       \* Redis: the request that set the lock of a key
    cached,     \* Redis: keys with a cached response
    unreported, \* history: calls of this half-open period that reported nothing
    streak      \* history: successes reported since this half-open period began

redis == <<lock, cached>>
breaker == <<circuit, cooling, unreported, streak>>
gateway == <<ops, breaker, req, redis>>

-----------------------------------------------------------------------------
(* The circuit breaker.                                                    *)

Closed == [state |-> "closed", failures |-> 0, successes |-> 0, calls |-> 0]

(* Reading the state moves an open circuit on once it has cooled.          *)
BugObserved ==
    IF circuit.state = "open" /\ ~cooling
    THEN [circuit EXCEPT !.state = "half_open"] ELSE circuit
Observed ==
    IF circuit.state = "open" /\ ~cooling
    THEN [circuit EXCEPT !.state = "half_open", !.calls = 0] ELSE circuit

Allowed ==
    \/ Observed.state = "closed"
    \/ Observed.state = "half_open" /\ Observed.calls < MaxProbes

(* The histories start over when a half-open period starts.                *)
StartOver(n) == IF Observed # circuit THEN 0 ELSE n

(* check_and_raise of a call that is let through.                          *)
Admit ==
    /\ Allowed
    /\ circuit' = IF Observed.state = "half_open"
                  THEN [Observed EXCEPT !.calls = @ + 1] ELSE Observed
    /\ unreported' = StartOver(unreported) /\ streak' = StartOver(streak)
    /\ UNCHANGED cooling

(* Of a call that is refused.                                              *)
Refuse ==
    /\ ~Allowed
    /\ UNCHANGED breaker

Succeeded(c) ==
    IF c.state # "half_open" THEN [c EXCEPT !.failures = 0]
    ELSE IF c.successes + 1 >= MaxProbes THEN [Closed EXCEPT !.calls = c.calls]
    ELSE [c EXCEPT !.successes = @ + 1]

RecordSuccess ==
    /\ circuit' = Succeeded(circuit)
    /\ streak' = IF streak < MaxProbes THEN streak + 1 ELSE streak
    /\ UNCHANGED <<cooling, unreported>>

(* failures is only compared with the threshold: it stops there.           *)
Counted(n) == IF n < Threshold THEN n + 1 ELSE n

BugFailed(c) ==
    LET n == Counted(c.failures) IN
    IF c.state = "half_open" THEN [c EXCEPT !.state = "open", !.failures = n]
    ELSE IF n >= Threshold THEN [c EXCEPT !.state = "open", !.failures = n]
    ELSE [c EXCEPT !.failures = n]
Failed(c) ==
    LET n == Counted(c.failures) IN
    IF c.state = "half_open" THEN [c EXCEPT !.state = "open", !.failures = n, !.successes = 0]
    ELSE IF n >= Threshold THEN [c EXCEPT !.state = "open", !.failures = n]
    ELSE [c EXCEPT !.failures = n]

RecordFailure ==
    /\ circuit' = Failed(circuit)
    /\ cooling' = TRUE
    /\ streak' = 0
    /\ UNCHANGED unreported

(* A call that ends without a report.                                      *)
Unreported ==
    /\ unreported' = IF circuit.state = "half_open" /\ unreported < MaxProbes
                     THEN unreported + 1 ELSE unreported
    /\ UNCHANGED <<circuit, cooling, streak>>

Elapse ==
    /\ cooling
    /\ cooling' = FALSE
    /\ UNCHANGED <<ops, circuit, req, redis, unreported, streak>>

(* The health endpoint reports the state, and so moves it on.              *)
Health ==
    /\ "health" \in ops /\ Observed # circuit
    /\ circuit' = Observed
    /\ unreported' = 0 /\ streak' = 0
    /\ UNCHANGED <<ops, cooling, req, redis>>

-----------------------------------------------------------------------------
(* Requests.  Each pass ends in Idle, answered or refused.                 *)

Idle == [phase |-> "idle", key |-> None, held |-> FALSE]
At(q, phase) == req[q].phase = phase
Goto(q, r) == req' = [req EXCEPT ![q] = r] /\ UNCHANGED ops
Move(q, phase) == Goto(q, [req[q] EXCEPT !.phase = phase])

Recommend(q) ==
    /\ "recommend" \in ops /\ q \in Students /\ At(q, "idle")
    /\ \E k \in Keys : Goto(q, [phase |-> "cache", key |-> k, held |-> FALSE])
    /\ Admit
    /\ UNCHANGED redis

(* Found in the cache, at once or after waiting for another request.       *)
CacheHit(q) ==
    /\ req[q].phase \in {"cache", "waited"}
    /\ req[q].key \in cached
    /\ Goto(q, Idle)
    /\ Unreported
    /\ UNCHANGED redis

Acquire(q) ==
    /\ At(q, "cache") /\ req[q].key \notin cached
    /\ Move(q, "lock")
    /\ UNCHANGED <<breaker, redis>>

(* SET NX: the request that gets the lock calls, the other waits a second. *)
TryLock(q) ==
    /\ At(q, "lock")
    /\ \/ /\ lock[req[q].key] = None
          /\ lock' = [lock EXCEPT ![req[q].key] = q]
          /\ Goto(q, [req[q] EXCEPT !.phase = "calling", !.held = TRUE])
       \/ /\ lock[req[q].key] # None
          /\ Move(q, "waited")
          /\ UNCHANGED lock
    /\ UNCHANGED <<breaker, cached>>

(* Still nothing cached: the request calls without the lock.               *)
CallAnyway(q) ==
    /\ At(q, "waited") /\ req[q].key \notin cached
    /\ Move(q, "calling")
    /\ UNCHANGED <<breaker, redis>>

AnswerOk(q) ==
    /\ At(q, "calling")
    /\ Move(q, "store")
    /\ RecordSuccess
    /\ UNCHANGED redis

(* An empty list of recommendations is stored and never found again.       *)
Store(q) ==
    /\ At(q, "store")
    /\ Move(q, "release")
    /\ cached' \in {cached, cached \cup {req[q].key}}
    /\ UNCHANGED <<breaker, lock>>

AnswerError(q) ==
    /\ At(q, "calling")
    /\ Move(q, "release")
    /\ RecordFailure
    /\ UNCHANGED redis

(* The group does not exist, or the answer cannot be read.                 *)
NoAnswer(q) ==
    /\ At(q, "calling")
    /\ Move(q, "release")
    /\ Unreported
    /\ UNCHANGED redis

(* DEL, whoever set the lock; nothing for a request that called anyway.    *)
Release(q) ==
    /\ At(q, "release")
    /\ lock' = IF req[q].held THEN [lock EXCEPT ![req[q].key] = None] ELSE lock
    /\ Goto(q, Idle)
    /\ UNCHANGED <<breaker, cached>>

LockExpires(k) ==
    /\ lock[k] # None
    /\ lock' = [lock EXCEPT ![k] = None]
    /\ UNCHANGED <<ops, breaker, req, cached>>

CacheExpires(k) ==
    /\ k \in cached
    /\ cached' = cached \ {k}
    /\ UNCHANGED <<ops, breaker, req, lock>>

(* The administrator's batch suggestion and re-index: a bare call.         *)
Direct(q) ==
    /\ "direct" \in ops /\ q \in Admins /\ At(q, "idle")
    /\ Goto(q, [Idle EXCEPT !.phase = "direct"])
    /\ Admit
    /\ UNCHANGED redis

DirectEnd(q) ==
    /\ At(q, "direct")
    /\ RecordSuccess \/ RecordFailure \/ Unreported
    /\ Goto(q, Idle)
    /\ UNCHANGED redis

GatewayInit ==
    /\ ops \in OpSets
    /\ circuit = Closed /\ cooling = FALSE
    /\ req = [q \in Reqs |-> Idle]
    /\ lock = [k \in Keys |-> None]
    /\ cached = {}
    /\ unreported = 0 /\ streak = 0

(* The circuit dies with the process; Redis does not.                      *)
GatewayCrash ==
    /\ circuit' = Closed /\ cooling' = FALSE
    /\ unreported' = 0 /\ streak' = 0
    /\ req' = [q \in Reqs |-> Idle]
    /\ UNCHANGED <<ops, redis>>

Request(q) ==
    \/ Recommend(q) \/ CacheHit(q) \/ Acquire(q) \/ TryLock(q) \/ CallAnyway(q)
    \/ AnswerOk(q) \/ Store(q) \/ AnswerError(q) \/ NoAnswer(q) \/ Release(q)
    \/ Direct(q) \/ DirectEnd(q)

GatewayNext ==
    \/ \E q \in Reqs : Request(q)
    \/ \E k \in Keys : LockExpires(k) \/ CacheExpires(k)
    \/ Elapse \/ Health

-----------------------------------------------------------------------------
(* Requests that have passed the circuit and have yet to report.           *)
Pending == {q \in Reqs : req[q].phase \in {"cache", "lock", "waited", "calling", "direct"}}
=============================================================================
