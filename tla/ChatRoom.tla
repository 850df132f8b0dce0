-------------------------------- MODULE ChatRoom --------------------------------
(***************************************************************************)
(* What a chat room promises its listeners: a request is answered in one   *)
(* turn, by one message at most, with its phases in order, and turns of a  *)
(* room come one after the other.  A request that is dropped is never      *)
(* heard of again.  Queues, keys, workers and restarts are invisible here. *)
(***************************************************************************)
EXTENDS Integers

CONSTANTS
    Requests, RoomOf,
    TurnsAreShort   \* no turn outlives its busy key

VARIABLES phase, replies, audit, lost

room == <<phase, replies, audit, lost>>

Init ==
    /\ phase = [r \in Requests |-> "none"]
    /\ replies = [r \in Requests |-> 0]
    /\ audit = [r \in Requests |-> "none"]
    /\ lost = {}

(* A turn ends when its outcome is recorded, it fails or it is dropped.    *)
InTurn(r) ==
    /\ r \notin lost
    /\ phase[r] \in {"thinking", "streaming"} \/ (phase[r] = "complete" /\ audit[r] = "none")

Announce(r, from, to) ==
    /\ phase[r] \in from
    /\ phase' = [phase EXCEPT ![r] = to]
    /\ UNCHANGED <<replies, audit, lost>>

Post(r) == Announce(r, {"none"}, "queued")

Think(r) ==
    /\ r \notin lost
    /\ TurnsAreShort => \A q \in Requests : InTurn(q) => RoomOf[q] # RoomOf[r]
    /\ Announce(r, {"queued"}, "thinking")

Stream(r) == InTurn(r) /\ Announce(r, {"thinking"}, "streaming")

Reply(r) ==
    /\ InTurn(r)
    /\ replies[r] = 0
    /\ replies' = [replies EXCEPT ![r] = 1]
    /\ UNCHANGED <<phase, audit, lost>>

Complete(r) ==
    /\ InTurn(r)
    /\ replies[r] = 1
    /\ Announce(r, {"thinking", "streaming"}, "complete")

Record(r) ==
    /\ InTurn(r)
    /\ phase[r] = "complete"
    /\ audit' = [audit EXCEPT ![r] = "done"]
    /\ UNCHANGED <<phase, replies, lost>>

Fail(r) ==
    /\ InTurn(r)
    /\ phase' = [phase EXCEPT ![r] = "error"]
    /\ audit' = audit \/ audit' = [audit EXCEPT ![r] = "error"]
    /\ UNCHANGED <<replies, lost>>

Drop(R) ==
    /\ \A r \in R : phase[r] # "none"
    /\ lost' = lost \cup R
    /\ UNCHANGED <<phase, replies, audit>>

Next ==
    \/ \E r \in Requests : \/ Post(r) \/ Think(r) \/ Stream(r) \/ Reply(r)
                           \/ Complete(r) \/ Record(r) \/ Fail(r)
    \/ \E R \in SUBSET Requests : Drop(R)

Spec == Init /\ [][Next]_room
=============================================================================
