--------------------------- MODULE SupervisionLedger ---------------------------
(***************************************************************************)
(* What the supervision handlers promise about the capacity ledger: every  *)
(* handler changes the supervisor of a group and the counters of the       *)
(* faculty concerned in one atomic step.  Requests, co-supervisors and the *)
(* steps of a handler are invisible here.  Supervision implements this     *)
(* specification when its handlers run one at a time and no profile edit   *)
(* writes the supervisor directly.                                         *)
(***************************************************************************)
EXTENDS Integers, FiniteSets

CONSTANTS
    Groups, Faculty, None, InitialCap,
    Capacities      \* the values capacity_max can be set to

VARIABLES alive, sup, filled, max

ledger == <<alive, sup, filled, max>>

LedgerTypeOK ==
    /\ alive \subseteq Groups
    /\ sup \in [Groups -> Faculty \cup {None}]
    /\ filled \in [Faculty -> Nat]
    /\ max \in [Faculty -> Nat]

Init ==
    /\ alive = Groups
    /\ sup = [g \in Groups |-> None]
    /\ filled = [f \in Faculty |-> 0]
    /\ max = [f \in Faculty |-> InitialCap]

(* A faculty member accepts a group.  The counter of a supervisor who is   *)
(* displaced keeps counting the group.                                     *)
Accept(g, f) ==
    /\ g \in alive
    /\ filled[f] < max[f]
    /\ sup' = [sup EXCEPT ![g] = f]
    /\ filled' = [filled EXCEPT ![f] = @ + 1]
    /\ UNCHANGED <<alive, max>>

(* An admin moves a group, which is counted off its old supervisor.        *)
Assign(g, f) ==
    /\ g \in alive
    /\ sup[g] # f
    /\ filled[f] < max[f]
    /\ sup[g] # None => filled[sup[g]] > 0
    /\ sup' = [sup EXCEPT ![g] = f]
    /\ filled' = [e \in Faculty |-> IF e = f THEN filled[e] + 1
                                    ELSE IF e = sup[g] THEN filled[e] - 1
                                    ELSE filled[e]]
    /\ UNCHANGED <<alive, max>>

Remove(g) ==
    /\ g \in alive
    /\ sup[g] # None
    /\ filled[sup[g]] > 0
    /\ sup' = [sup EXCEPT ![g] = None]
    /\ filled' = [filled EXCEPT ![sup[g]] = @ - 1]
    /\ UNCHANGED <<alive, max>>

(* A deleted group leaves its supervisor's counter as it was.              *)
Delete(g) ==
    /\ g \in alive
    /\ alive' = alive \ {g}
    /\ sup' = [sup EXCEPT ![g] = None]
    /\ UNCHANGED <<filled, max>>

SetCapacity(f, c) ==
    /\ c >= filled[f]
    /\ max' = [max EXCEPT ![f] = c]
    /\ UNCHANGED <<alive, sup, filled>>

Next ==
    \/ \E g \in Groups, f \in Faculty : Accept(g, f) \/ Assign(g, f)
    \/ \E g \in Groups : Remove(g) \/ Delete(g)
    \/ \E f \in Faculty, c \in Capacities : SetCapacity(f, c)

Spec == Init /\ [][Next]_ledger

-----------------------------------------------------------------------------
(* The counter of a faculty member never undercounts the groups they       *)
(* supervise and never exceeds their capacity, so nobody supervises more   *)
(* groups than capacity_max.                                               *)
Supervised(f) == {g \in Groups : sup[g] = f}
LedgerBalanced ==
    \A f \in Faculty : /\ Cardinality(Supervised(f)) <= filled[f]
                       /\ filled[f] <= max[f]
=============================================================================
