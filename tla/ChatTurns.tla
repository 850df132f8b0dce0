------------------------------- MODULE ChatTurns -------------------------------
(***************************************************************************)
(* Collaborative chat: a student posts a message to a room, a worker of    *)
(* the same process takes the job and lets the language model answer, and  *)
(* the phases of the turn are published to the room's listeners.           *)
(*                                                                         *)
(* A process that reached Redis at startup keeps its jobs in a Redis list  *)
(* and admits one turn of a room by a key with a time to live; both        *)
(* survive the process.  A process that did not keeps them in an asyncio   *)
(* queue and takes an asyncio lock; both die with it.  A worker gives up   *)
(* control at every await: each call to Redis, MongoDB, PostgreSQL or the  *)
(* language model is a step, and each but publish may raise.               *)
(***************************************************************************)
EXTENDS Integers, Sequences

(* Operators named Bug... are plausible mistakes in the operator that      *)
(* follows them; they are used only to show that a property notices.       *)

CONSTANTS
    Requests,       \* messages that may be posted
    Rooms,          \* chat rooms
    RoomOf,         \* the room each message is posted to
    Workers,        \* worker tasks of the process
    None,           \* no request
    TurnsAreShort,  \* no turn outlives its busy key (600 seconds)
    MaxCrashes      \* bound: restarts of the process

ASSUME ChatAssumptions ==
    /\ RoomOf \in [Requests -> Rooms]
    /\ None \notin Requests
    /\ TurnsAreShort \in BOOLEAN
    /\ MaxCrashes \in Nat

VARIABLES
    redis,      \* whether the running process reached Redis at startup
    jobs,       \* the Redis list fyp:chat:jobs
    local,      \* the process's own queue
    busy,       \* the Redis keys fyp:chat:busy:room, with the request they hold
    posting,    \* requests whose handler has not queued them yet
    worker,     \* what each worker is doing
    phase,      \* the last phase published of each request
    replies,    \* assistant messages saved for each request
    audit,      \* chat_llm_turns rows
    lost,       \* history: requests dropped by an exception or a restart
    crashes     \* history: restarts so far

queues == <<jobs, local>>
outcome == <<phase, replies, audit>>
chatVars == <<redis, queues, busy, posting, worker, outcome, lost, crashes>>

Rank == [none |-> 0, queued |-> 1, thinking |-> 2, streaming |-> 3, complete |-> 4,
         error |-> 5]
Phases == DOMAIN Rank

(* Where a worker is between two awaits; handled says whether an exception *)
(* would be caught in the turn or only in the worker's loop.               *)
Running == {"begin", "thinking", "turn", "streaming", "refused", "saved", "completed",
            "release"}
NoJob == [at |-> "idle"]
Job == [at : {"popped", "requeue"} \cup Running, r : Requests, handled : BOOLEAN]

ChatTypeOK ==
    /\ redis \in BOOLEAN
    /\ jobs \in Seq(Requests) /\ local \in Seq(Requests)
    /\ busy \in [Rooms -> Requests \cup {None}]
    /\ posting \subseteq Requests
    /\ worker \in [Workers -> {NoJob} \cup Job]
    /\ phase \in [Requests -> Phases]
    /\ replies \in [Requests -> Nat]
    /\ audit \in [Requests -> {"none", "done", "error"}]
    /\ lost \subseteq Requests
    /\ crashes \in 0..MaxCrashes

ChatInit ==
    /\ redis \in BOOLEAN
    /\ jobs = <<>> /\ local = <<>>
    /\ busy = [m \in Rooms |-> None]
    /\ posting = {}
    /\ worker = [w \in Workers |-> NoJob]
    /\ phase = [r \in Requests |-> "none"]
    /\ replies = [r \in Requests |-> 0]
    /\ audit = [r \in Requests |-> "none"]
    /\ lost = {}
    /\ crashes = 0

Busy(w) == worker[w].at \in Running
Mine(w) == worker[w].r
MyRoom(w) == RoomOf[worker[w].r]

GoOn(w, at) == worker' = [worker EXCEPT ![w].at = at]
Publish(r, p) == phase' = [phase EXCEPT ![r] = p]
Lose(r) == lost' = lost \cup {r}

-----------------------------------------------------------------------------
(* Posting: the message is saved and announced, then the job is queued.    *)

(* enqueue_chat_job appends in both modes; the pops differ.                *)
Push(r) ==
    IF redis THEN jobs' = Append(jobs, r) /\ UNCHANGED local
             ELSE local' = Append(local, r) /\ UNCHANGED jobs

Post(r) ==
    /\ phase[r] = "none" /\ r \notin posting
    /\ posting' = posting \cup {r}
    /\ Publish(r, "queued")
    /\ UNCHANGED <<redis, queues, busy, worker, replies, audit, lost, crashes>>

Enqueue(r) ==
    /\ r \in posting
    /\ posting' = posting \ {r}
    /\ \/ Push(r) /\ UNCHANGED lost
       \/ redis /\ Lose(r) /\ UNCHANGED queues
    /\ UNCHANGED <<redis, busy, worker, outcome, crashes>>

-----------------------------------------------------------------------------
(* The worker loop.  RPUSH and BRPOP use the same end of the Redis list;   *)
(* the asyncio queue is first in, first out.                               *)

Take(w, r) == worker' = [worker EXCEPT ![w] = [at |-> "popped", r |-> r, handled |-> FALSE]]

(* Mutant: the job stays in the list while it is worked on.                *)
BugPeek(w) ==
    /\ worker[w] = NoJob
    /\ redis /\ jobs # <<>> /\ Len(jobs) < 4
    /\ Take(w, jobs[Len(jobs)])
    /\ UNCHANGED <<redis, queues, busy, posting, outcome, lost, crashes>>

Pop(w) ==
    /\ worker[w] = NoJob
    /\ \/ /\ redis /\ jobs # <<>>
          /\ Take(w, jobs[Len(jobs)])
          /\ jobs' = SubSeq(jobs, 1, Len(jobs) - 1)
          /\ UNCHANGED local
       \/ /\ ~redis /\ local # <<>>
          /\ Take(w, Head(local))
          /\ local' = Tail(local)
          /\ UNCHANGED jobs
    /\ UNCHANGED <<redis, busy, posting, outcome, lost, crashes>>

(* Redis: SET NX EX 600, or back to the list.  Otherwise: wait for the     *)
(* room's lock.                                                            *)
RoomLocked(w) == \E v \in Workers \ {w} : Busy(v) /\ MyRoom(v) = MyRoom(w)

Claim(w) ==
    /\ worker[w].at = "popped"
    /\ \/ /\ redis /\ busy[MyRoom(w)] = None
          /\ busy' = [busy EXCEPT ![MyRoom(w)] = Mine(w)]
          /\ GoOn(w, "begin")
       \/ /\ redis /\ busy[MyRoom(w)] # None
          /\ GoOn(w, "requeue")
          /\ UNCHANGED busy
       \/ /\ ~redis /\ ~RoomLocked(w)
          /\ GoOn(w, "begin")
          /\ UNCHANGED busy
    /\ UNCHANGED <<redis, queues, posting, outcome, lost, crashes>>

(* The call for the key raises: the loop logs it and the job is gone.      *)
ClaimFail(w) ==
    /\ worker[w].at = "popped" /\ redis
    /\ worker' = [worker EXCEPT ![w] = NoJob]
    /\ Lose(Mine(w))
    /\ UNCHANGED <<redis, queues, busy, posting, outcome, crashes>>

(* Mutant: the key is deleted on the way out of a busy room as well.       *)
BugRequeue(w) ==
    /\ worker[w].at = "requeue"
    /\ jobs' = Append(jobs, Mine(w))
    /\ busy' = [busy EXCEPT ![MyRoom(w)] = None]
    /\ worker' = [worker EXCEPT ![w] = NoJob]
    /\ UNCHANGED <<redis, local, posting, outcome, lost, crashes>>

Requeue(w) ==
    /\ worker[w].at = "requeue"
    /\ \/ jobs' = Append(jobs, Mine(w)) /\ UNCHANGED lost
       \/ Lose(Mine(w)) /\ UNCHANGED jobs
    /\ worker' = [worker EXCEPT ![w] = NoJob]
    /\ UNCHANGED <<redis, local, busy, posting, outcome, crashes>>

(* finally: the key is deleted whoever holds it now; when the delete       *)
(* raises it stays until it expires.                                       *)
Release(w) ==
    /\ worker[w].at = "release"
    /\ worker' = [worker EXCEPT ![w] = NoJob]
    /\ \/ redis /\ busy' = [busy EXCEPT ![MyRoom(w)] = None]
       \/ UNCHANGED busy
    /\ UNCHANGED <<redis, queues, posting, outcome, lost, crashes>>

-----------------------------------------------------------------------------
(* The turn.                                                               *)

(* A modify turn without a readable document is refused with a reply of    *)
(* its own, outside the try block.                                         *)
Think(w) ==
    /\ worker[w].at = "begin"
    /\ Publish(Mine(w), "thinking")
    /\ GoOn(w, "thinking") \/ GoOn(w, "refused")
    /\ UNCHANGED <<redis, queues, busy, posting, replies, audit, lost, crashes>>

ReadHistory(w) ==
    /\ worker[w].at = "thinking"
    /\ worker' = [worker EXCEPT ![w].at = "turn", ![w].handled = TRUE]
    /\ UNCHANGED <<redis, queues, busy, posting, outcome, lost, crashes>>

FirstToken(w) ==
    /\ worker[w].at = "turn"
    /\ Publish(Mine(w), "streaming")
    /\ GoOn(w, "streaming")
    /\ UNCHANGED <<redis, queues, busy, posting, replies, audit, lost, crashes>>

(* The model stops; its answer, or the refusal, becomes a message (what    *)
(* follows the insert may still raise).                                    *)
Reply(w) ==
    /\ worker[w].at \in {"turn", "streaming", "refused"}
    /\ replies' = [replies EXCEPT ![Mine(w)] = @ + 1]
    /\ GoOn(w, "saved")
    /\ UNCHANGED <<redis, queues, busy, posting, phase, audit, lost, crashes>>

(* Mutant: the end is announced while the answer is still to be saved.     *)
BugComplete(w) ==
    /\ worker[w].at \in {"streaming", "saved"}
    /\ Publish(Mine(w), "complete")
    /\ GoOn(w, "completed")
    /\ UNCHANGED <<redis, queues, busy, posting, replies, audit, lost, crashes>>

(* The end of the stream, then the status "complete".                      *)
Complete(w) ==
    /\ worker[w].at = "saved"
    /\ Publish(Mine(w), "complete")
    /\ GoOn(w, "completed")
    /\ UNCHANGED <<redis, queues, busy, posting, replies, audit, lost, crashes>>

RecordDone(w) ==
    /\ worker[w].at = "completed"
    /\ audit' = [audit EXCEPT ![Mine(w)] = "done"]
    /\ GoOn(w, "release")
    /\ UNCHANGED <<redis, queues, busy, posting, phase, replies, lost, crashes>>

(* A call raises.  Inside the try block the room is told, and a row is     *)
(* written if it can be; outside, the exception ends in the worker's loop  *)
(* and nobody is told.  A refused turn runs outside throughout.            *)
Raise(w) ==
    /\ worker[w].at \in {"thinking", "turn", "streaming", "refused", "saved", "completed"}
    /\ IF worker[w].handled
       THEN /\ Publish(Mine(w), "error")
            /\ \/ audit' = [audit EXCEPT ![Mine(w)] = "error"]
               \/ UNCHANGED audit
            /\ UNCHANGED lost
       ELSE Lose(Mine(w)) /\ UNCHANGED <<phase, audit>>
    /\ GoOn(w, "release")
    /\ UNCHANGED <<redis, queues, busy, posting, replies, crashes>>

-----------------------------------------------------------------------------
(* The environment.                                                        *)

(* A key runs out: one that a dead process, a failed delete or, unless     *)
(* turns are short, a turn of more than 600 seconds has left.              *)
Held(m) == redis /\ \E w \in Workers : Busy(w) /\ MyRoom(w) = m /\ Mine(w) = busy[m]

BugExpire(m) == FALSE   \* SET NX without EX

Expire(m) ==
    /\ busy[m] # None
    /\ TurnsAreShort => ~Held(m)
    /\ busy' = [busy EXCEPT ![m] = None]
    /\ UNCHANGED <<redis, queues, posting, worker, outcome, lost, crashes>>

(* The process restarts, and reaches Redis or not.                         *)
InMemory == posting \cup {local[i] : i \in DOMAIN local}
                    \cup {Mine(w) : w \in {v \in Workers : worker[v] # NoJob}}

Restart ==
    /\ crashes < MaxCrashes                                              \* bound
    /\ crashes' = crashes + 1
    /\ redis' \in BOOLEAN
    /\ local' = <<>>
    /\ posting' = {}
    /\ worker' = [w \in Workers |-> NoJob]
    /\ lost' = lost \cup InMemory
    /\ UNCHANGED <<jobs, busy, outcome>>

-----------------------------------------------------------------------------
WorkerStep(w) ==
    \/ Pop(w) \/ Claim(w) \/ ClaimFail(w) \/ Requeue(w) \/ Release(w)
    \/ Think(w) \/ ReadHistory(w) \/ FirstToken(w) \/ Reply(w)
    \/ Complete(w) \/ RecordDone(w) \/ Raise(w)

ChatNext ==
    \/ \E r \in Requests : Post(r) \/ Enqueue(r)
    \/ \E w \in Workers : WorkerStep(w)
    \/ \E m \in Rooms : Expire(m)
    \/ Restart

ChatSpec == ChatInit /\ [][ChatNext]_chatVars

(* The event loop runs every handler and worker that can go on, the        *)
(* language model ends its stream or fails, and keys run out.              *)
FairSpec ==
    /\ ChatSpec
    /\ \A r \in Requests : WF_chatVars(Enqueue(r))
    /\ \A w \in Workers : WF_chatVars(WorkerStep(w))
    /\ \A m \in Rooms : WF_chatVars(Expire(m))

-----------------------------------------------------------------------------
(* Properties.                                                             *)

(* One turn of a room at a time, across requeues, failures and restarts    *)
(* with or without Redis, as long as turns are short.                      *)
OneTurnPerRoom ==
    \A v, w \in Workers : Busy(v) /\ Busy(w) /\ MyRoom(v) = MyRoom(w) => v = w

(* A request is answered by one message at most: neither the requeue of a  *)
(* busy room nor a failed turn runs it twice.                              *)
RepliesOnce == \A r \in Requests : replies[r] <= 1

(* Listeners see the phases of a request in order: what an earlier step    *)
(* published never comes after what a later one did.                       *)
PhasesAdvance == [][\A r \in Requests : Rank[phase[r]] <= Rank[phase'[r]]]_chatVars

(* The answer is in the history before its end is announced, and the       *)
(* audit row tells what listeners were told last.                          *)
AnnouncedIsSaved ==
    \A r \in Requests :
        /\ phase[r] = "complete" => replies[r] = 1
        /\ audit[r] = "done" => phase[r] = "complete"
        /\ audit[r] = "error" => phase[r] = "error"

(* A queued job is answered, fails audibly or is dropped by an exception   *)
(* or a restart; nothing waits for ever, though a busy room's job goes     *)
(* back to the end it is popped from and a dead process leaves its keys.   *)
(* Jobs in the Redis list wait while the process runs without Redis.       *)
Queued(r) == \E q \in {jobs, local} : \E i \in DOMAIN q : q[i] = r
QueuedIsAnswered ==
    \A r \in Requests :
        Queued(r) ~> phase[r] \in {"complete", "error"} \/ r \in lost \/ ~redis
=============================================================================
