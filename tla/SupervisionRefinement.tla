-------------------------- MODULE SupervisionRefinement --------------------------
(* Supervision, seen through the columns the capacity ledger is about.     *)
EXTENDS Supervision

(* The values a handler may store in capacity_max.                         *)
Capacities == 0..CapLimit \cup {DefaultCap}

Ledger == INSTANCE SupervisionLedger WITH
    Groups <- Groups, Faculty <- Faculty, None <- None,
    InitialCap <- InitialCap, Capacities <- Capacities,
    alive <- alive, sup <- sup, filled <- filled, max <- max

(* Handlers that run one at a time implement the ledger: every step of a   *)
(* handler is one atomic ledger operation or changes nothing in it.        *)
ImplementsLedger == Ledger!Spec

(* Handlers run one at a time and nobody edits a group's supervisor.       *)
OneAtATime == (\A p, q \in Procs : p = q) /\ "edit" \notin Ops
=============================================================================
