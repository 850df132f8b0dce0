------------------------------- MODULE Handlers -------------------------------
(***************************************************************************)
(* Request handlers in flight, shared by the modules that extend this one. *)
(* A handler is idle or holds what it has read; between two of its steps   *)
(* other handlers run.  A transaction that ends early leaves no row.       *)
(***************************************************************************)
EXTENDS Integers, FiniteSets

CONSTANTS
    Procs,      \* bound: handlers in flight
    OpSets,     \* bound: operations that run together (one set in a behaviour)
    None

VARIABLES
    ops,        \* the operations of this behaviour
    txn,        \* what each handler is doing, and what it has read
    clash       \* history: objects two handlers worked on at the same time

requests == <<ops, txn, clash>>

Idle == [op |-> "idle", phase |-> "idle", on |-> {}]

HandlersInit ==
    /\ ops \in OpSets
    /\ txn = [p \in Procs |-> Idle]
    /\ clash = {}

(* A handler is free for an operation.                                     *)
Free(p, op) == op \in ops /\ txn[p] = Idle

(* A handler begins; on names the objects whose overlapping use matters.   *)
Start(p, t) ==
    /\ Free(p, t.op)
    /\ txn' = [txn EXCEPT ![p] = t]
    /\ clash' = clash \cup UNION {txn[q].on \cap t.on : q \in Procs}
    /\ UNCHANGED ops

At(p, op, phase) == txn[p].op = op /\ txn[p].phase = phase

Goto(p, t) == txn' = [txn EXCEPT ![p] = t] /\ UNCHANGED <<ops, clash>>
Done(p) == Goto(p, Idle)

(* A step without a wait in between: no handler is in flight for it.       *)
AtOnce(op) == op \in ops /\ UNCHANGED requests
=============================================================================
