------------------------------ MODULE GroupRoster ------------------------------
(***************************************************************************)
(* What the group handlers and the triggers promise: a roster of groups,   *)
(* members and invites on which founding, joining, leaving, deleting and   *)
(* inviting each take effect in one step, a group's cohort being that of   *)
(* whoever joined it first.  A member row is added once and removed once;  *)
(* nothing is added to a group that does not exist.  Handlers in flight,   *)
(* their locks and what they read are invisible here; so are the checks    *)
(* that a handler makes on rows others may change before it commits.       *)
(***************************************************************************)
EXTENDS Integers

CONSTANTS Groups, Students, Invites, CohortOf, NoCohort

VARIABLES groups, joined, cohort, invite,
    mixed           \* groups whose members two handlers were once changing at once

roster == <<groups, joined, cohort, invite, mixed>>

Codes == {CohortOf[s] : s \in Students} \cup {NoCohort}

Init ==
    /\ groups = [g \in Groups |-> "unborn"]
    /\ joined = [g \in Groups |-> [s \in Students |-> 0]]
    /\ cohort = [g \in Groups |-> NoCohort]
    /\ invite = [i \in Invites |-> "unborn"]
    /\ mixed = {}

Exists(i) == invite[i] \notin {"unborn", "deleted"}

(* Who joined before every other member.  A group whose first member has   *)
(* no intake, or that has none left, has no cohort; once two handlers were *)
(* changing its members at once, it may have any.                          *)
First(m, s) == m[s] > 0 /\ \A e \in Students \ {s} : m[e] > 0 => m[s] < m[e]
Suits(g, c, m) ==
    \/ \E f \in Students : First(m, f) /\ c = CohortOf[f]
    \/ /\ \A f \in Students : First(m, f) => CohortOf[f] = NoCohort
       /\ c = NoCohort \/ g \in mixed

(* The member rows of a group and the cohort derived from them.            *)
Enrol(g, m) ==
    /\ joined' = [joined EXCEPT ![g] = m]
    /\ \E c \in Codes : Suits(g, c, m) /\ cohort' = [cohort EXCEPT ![g] = c]
    /\ UNCHANGED mixed

Overlap(g) == mixed' = mixed \cup {g} /\ UNCHANGED <<groups, joined, cohort, invite>>

(* A time of joining is nobody else's, but not always the latest: of two   *)
(* handlers in flight the one that took it first may commit last.          *)
Found(g, s) ==
    /\ groups[g] = "unborn" /\ CohortOf[s] # NoCohort
    /\ groups' = [groups EXCEPT ![g] = "alive"]
    /\ joined'[g][s] > 0
    /\ Enrol(g, [e \in Students |-> IF e = s THEN joined'[g][s] ELSE 0])
    /\ UNCHANGED invite

Join(i) ==
    /\ groups[i.g] = "alive" /\ Exists(i)
    /\ joined[i.g][i.s] = 0 /\ joined'[i.g][i.s] > 0
    /\ \A e \in Students : joined[i.g][e] # joined'[i.g][i.s]
    /\ Enrol(i.g, [joined[i.g] EXCEPT ![i.s] = joined'[i.g][i.s]])
    /\ invite' = [invite EXCEPT ![i] = "accepted"]
    /\ UNCHANGED groups

Leave(g, s) ==
    /\ joined[g][s] > 0 /\ joined'[g][s] = 0
    /\ Enrol(g, [joined[g] EXCEPT ![s] = 0])
    /\ UNCHANGED <<groups, invite>>

Delete(g) ==
    /\ groups[g] = "alive"
    /\ groups' = [groups EXCEPT ![g] = "deleted"]
    /\ joined' = [joined EXCEPT ![g] = [s \in Students |-> 0]]
    /\ cohort' = [cohort EXCEPT ![g] = NoCohort]
    /\ invite' = [i \in Invites |-> IF i.g = g /\ Exists(i) THEN "deleted" ELSE invite[i]]
    /\ UNCHANGED mixed

Invite(i) ==
    /\ groups[i.g] = "alive" /\ invite[i] = "unborn"
    /\ invite' = [invite EXCEPT ![i] = "pending"]
    /\ UNCHANGED <<groups, joined, cohort, mixed>>

Answer(i) ==
    /\ Exists(i) /\ invite'[i] \in {"expired", "declined", "deleted"}
    /\ invite' = [invite EXCEPT ![i] = invite'[i]]
    /\ UNCHANGED <<groups, joined, cohort, mixed>>

Next ==
    \/ \E g \in Groups, s \in Students : Found(g, s) \/ Leave(g, s)
    \/ \E g \in Groups : Delete(g) \/ Overlap(g)
    \/ \E i \in Invites : Join(i) \/ Invite(i) \/ Answer(i)

Spec == Init /\ [][Next]_roster
=============================================================================
