---------------------------- MODULE GroupMembership ----------------------------
(***************************************************************************)
(* Student groups: creating, inviting, joining, leaving and deleting, and  *)
(* the database triggers that derive a group's cohort from its earliest    *)
(* member and number its project.                                          *)
(*                                                                         *)
(* A handler is a database transaction of an asyncio task p.  It loads and *)
(* checks (a ...Load step), and what it writes becomes visible at its      *)
(* ...Commit step.  Where a statement runs before the commit and locks     *)
(* rows that others wait for, it has a step of its own: inserting a member *)
(* (AcceptInsert, which locks the group against deletion), deleting one    *)
(* (LeaveDelete, which locks the member row) and deleting a group          *)
(* (DeleteLock, which locks the group row before the cascade reaches the   *)
(* members).                                                               *)
(***************************************************************************)
EXTENDS Integers, FiniteSets

(* Operators named Bug... are plausible mistakes in the operator that      *)
(* follows them; they are used only to show that a property notices.       *)

CONSTANTS
    Groups,         \* group ids that may be created
    Students,
    CohortOf,       \* the cohort code a student's intake gives a group; NoCohort
                    \* when the intake was never filled in
    NoCohort,       \* NULL in groups.cohort
    Procs,          \* request handlers that may be in flight at once
    Ops,            \* the endpoints the clients of a run call
    GroupLimit,     \* the 3 of the capacity checks
    LastNumber,     \* the largest two-digit number, 99
    CutNumber,      \* what LPAD(..., 2, '0') cuts the next one to, 10
    MaxInvites,     \* bound: invites ever inserted
    MaxClock        \* bound: members ever inserted (values of joined_at)

Cohorts == {CohortOf[s] : s \in Students}
Endpoints == {"create", "invite", "accept", "reject", "cancel", "leave", "delete"}

ASSUME MembershipAssumptions ==
    /\ CohortOf \in [Students -> Cohorts]
    /\ Ops \subseteq Endpoints
    /\ GroupLimit \in Nat \ {0}
    /\ LastNumber \in Nat \ {0}
    /\ CutNumber \in 1..LastNumber
    /\ MaxInvites \in Nat
    /\ MaxClock \in Nat
    /\ IsFiniteSet(Students)

VARIABLES
    groups,         \* groups rows: "unborn", "alive" or "deleted"
    joined,         \* joined[g][s]: group_members.joined_at, 0 when no row
    cohort,         \* groups.cohort
    fyp,            \* number in projects.fyp_id, 0 when the group has no project
    prefix,         \* prefix in projects.fyp_id
    invite,         \* group_invites.status, and whether the row exists
    lapsed,         \* invites past expires_at
    clock,          \* joined_at values handed out
    txn,            \* the handler each process is running
    mixed           \* history: groups whose member rows two handlers changed at once

rows == <<groups, joined, cohort, fyp, prefix, invite, lapsed>>
vars == <<groups, joined, cohort, fyp, prefix, invite, lapsed, clock, txn, mixed>>

Invites == [g : Groups, s : Students, n : 1..MaxInvites]
InviteExists(i) == invite[i] \in {"pending", "accepted", "declined", "expired"}
Alive(g) == groups[g] = "alive"

Members(g) == {s \in Students : joined[g][s] > 0}
MemberOfAny(s) == \E g \in Groups : s \in Members(g)
Pending(g) == {i \in Invites : i.g = g /\ invite[i] = "pending"}

-----------------------------------------------------------------------------
Idle == [op |-> "idle"]

Init ==
    /\ groups = [g \in Groups |-> "unborn"]
    /\ joined = [g \in Groups |-> [s \in Students |-> 0]]
    /\ cohort = [g \in Groups |-> NoCohort]
    /\ fyp = [g \in Groups |-> 0]
    /\ prefix = [g \in Groups |-> NoCohort]
    /\ invite = [i \in Invites |-> "unborn"]
    /\ lapsed = {}
    /\ clock = 0
    /\ txn = [p \in Procs |-> Idle]
    /\ mixed = {}

Start(p, op, t) ==
    /\ op \in Ops
    /\ txn[p] = Idle
    /\ txn' = [txn EXCEPT ![p] = t]
    /\ UNCHANGED <<rows, clock, mixed>>

Continue(p, t) == txn' = [txn EXCEPT ![p] = t] /\ UNCHANGED mixed
Finish(p) == Continue(p, Idle)

(* Locks held by handlers whose statements have run.                       *)
At(op, g) == \E q \in Procs : txn[q].op = op /\ txn[q].g = g
Joining(g, S) == \E q \in Procs : txn[q].op = "join" /\ txn[q].i.g = g /\ txn[q].i.s \in S
Leaving(g, s) == \E q \in Procs : txn[q].op = "leave_commit" /\ txn[q].g = g /\ txn[q].s = s
GroupFree(g) == ~At("delete_commit", g)

(* A statement that adds or removes a member of g.                         *)
Changing(g) == \E s \in Students : Joining(g, {s}) \/ Leaving(g, s)
Change(p, g, t) ==
    /\ txn' = [txn EXCEPT ![p] = t]
    /\ mixed' = IF Changing(g) THEN mixed \cup {g} ELSE mixed

-----------------------------------------------------------------------------
(* The triggers.                                                           *)

(* determine_group_cohort over the members (and joined_at) in m: NULL      *)
(* without members, and when the earliest has no intake.                   *)
Earliest(m) == CHOOSE s \in Students : m[s] > 0 /\ \A e \in Students : m[e] > 0 => m[s] <= m[e]
DetermineCohort(m) ==
    IF \A s \in Students : m[s] = 0 THEN NoCohort ELSE CohortOf[Earliest(m)]

(* tr_group_members_refresh_cohort computes the cohort with what the       *)
(* changing statement sees; its UPDATE of the group row waits for others   *)
(* and fires tr_groups_generate_cohort, which computes it again and lets a *)
(* NULL stand for no opinion.                                              *)
BugRefreshed(seen, m) == seen
Refreshed(seen, m) ==
    IF DetermineCohort(m) = NoCohort THEN seen ELSE DetermineCohort(m)

(* set_project_fyp_id numbers a project after the largest number of its    *)
(* prefix; projects.fyp_id is UNIQUE.                                      *)
Numbers(c) == {fyp[g] : g \in {h \in Groups : fyp[h] > 0 /\ prefix[h] = c}}
LargestNumber(c) == CHOOSE n \in Numbers(c) \cup {0} : \A k \in Numbers(c) : k <= n
NextNumber(c) ==
    IF LargestNumber(c) < LastNumber THEN LargestNumber(c) + 1 ELSE CutNumber

-----------------------------------------------------------------------------
(* create_group.                                                           *)

InFlight(ops) == Cardinality({q \in Procs : txn[q].op \in ops})
RoomToJoin == clock + InFlight({"create", "accept"}) < MaxClock              \* bound
RoomToCreate ==
    /\ RoomToJoin
    /\ InFlight({"create", "create_commit"})                                 \* bound
          < Cardinality({g \in Groups : groups[g] = "unborn"})

CreateLoad(p, s) ==
    /\ RoomToCreate
    /\ ~MemberOfAny(s)
    /\ Start(p, "create", [op |-> "create", s |-> s])

(* The flush inserts group, member and project; the trigger numbers it, or *)
(* raises when the founder's intake gives the group no cohort.             *)
CreateFlush(p, g) ==
    LET t == txn[p] IN
    /\ t.op = "create"
    /\ CohortOf[t.s] # NoCohort
    /\ groups[g] = "unborn"
    /\ ~At("create_commit", g)
    /\ clock' = clock + 1
    /\ Continue(p, [op |-> "create_commit", s |-> t.s, g |-> g, at |-> clock + 1,
                    fyp |-> NextNumber(CohortOf[t.s])])
    /\ UNCHANGED rows

NumberFree(t) == t.fyp \notin Numbers(CohortOf[t.s])

CreateCommit(p) ==
    LET t == txn[p] IN
    /\ t.op = "create_commit"
    /\ NumberFree(t)
    /\ groups' = [groups EXCEPT ![t.g] = "alive"]
    /\ joined' = [joined EXCEPT ![t.g][t.s] = t.at]
    /\ cohort' = [cohort EXCEPT ![t.g] = CohortOf[t.s]]
    /\ prefix' = [prefix EXCEPT ![t.g] = CohortOf[t.s]]
    /\ fyp' = [fyp EXCEPT ![t.g] = t.fyp]
    /\ Finish(p)
    /\ UNCHANGED <<invite, lapsed, clock>>

-----------------------------------------------------------------------------
(* send_invite.                                                            *)

Born == {i \in Invites : invite[i] # "unborn"}

HasRoom(g) == Cardinality(Members(g)) + Cardinality(Pending(g)) < GroupLimit

(* Some member of g invites s.                                             *)
InviteLoad(p, g, s) ==
    /\ Cardinality(Born) + InFlight({"invite"}) < MaxInvites                 \* bound
    /\ Members(g) # {}
    /\ ~MemberOfAny(s)
    /\ \A i \in Pending(g) : i.s # s
    /\ HasRoom(g)
    /\ Start(p, "invite", [op |-> "invite", g |-> g, s |-> s])

Unborn(g, s) == {i \in Invites : i.g = g /\ i.s = s /\ invite[i] = "unborn"}

InviteCommit(p) ==
    LET t == txn[p] IN
    /\ t.op = "invite"
    /\ Alive(t.g) /\ GroupFree(t.g)
    /\ \E i \in Unborn(t.g, t.s) :
          /\ \A j \in Unborn(t.g, t.s) : i.n <= j.n
          /\ invite' = [invite EXCEPT ![i] = "pending"]
    /\ Finish(p)
    /\ UNCHANGED <<groups, joined, cohort, fyp, prefix, lapsed, clock>>

(* Seven days pass.                                                        *)
Lapse(i) ==
    /\ invite[i] = "pending"
    /\ i \notin lapsed
    /\ lapsed' = lapsed \cup {i}
    /\ UNCHANGED <<groups, joined, cohort, fyp, prefix, invite, clock, txn, mixed>>

-----------------------------------------------------------------------------
(* accept_invite: the invitee joins, or finds the group full, which is     *)
(* recorded as an expired invite.                                          *)

MayAnswer(i) == invite[i] = "pending" /\ i \notin lapsed

AcceptLoad(p, i) ==
    /\ MayAnswer(i)
    /\ RoomToJoin
    /\ Start(p, "accept",
             [op |-> IF Cardinality(Members(i.g)) >= GroupLimit THEN "expire" ELSE "accept",
              i |-> i])

ExpireCommit(p) ==
    LET i == txn[p].i IN
    /\ txn[p].op = "expire"
    /\ InviteExists(i)
    /\ invite' = [invite EXCEPT ![i] = "expired"]
    /\ Finish(p)
    /\ UNCHANGED <<groups, joined, cohort, fyp, prefix, lapsed, clock>>

(* The INSERT takes joined_at and, through its foreign key, a share lock   *)
(* on the group; the primary key makes it wait for others of the same row. *)
AcceptInsert(p) ==
    LET i == txn[p].i IN
    /\ txn[p].op = "accept"
    /\ Alive(i.g) /\ GroupFree(i.g)
    /\ i.s \notin Members(i.g) /\ ~Joining(i.g, {i.s})
    /\ clock' = clock + 1
    /\ Change(p, i.g, [op |-> "join", i |-> i, at |-> clock + 1,
                       seen |-> DetermineCohort([joined[i.g] EXCEPT ![i.s] = clock + 1])])
    /\ UNCHANGED rows

(* The UPDATE of the invite must still find its row.                       *)
BugInviteFound(i) == TRUE
InviteFound(i) == InviteExists(i)

AcceptCommit(p) ==
    LET t == txn[p]  g == t.i.g IN
    /\ t.op = "join"
    /\ InviteFound(t.i)
    /\ joined' = [joined EXCEPT ![g][t.i.s] = t.at]
    /\ cohort' = [cohort EXCEPT ![g] = Refreshed(t.seen, joined'[g])]
    /\ invite' = [invite EXCEPT ![t.i] = "accepted"]
    /\ Finish(p)
    /\ UNCHANGED <<groups, fyp, prefix, lapsed, clock>>

RejectLoad(p, i) ==
    /\ MayAnswer(i)
    /\ Start(p, "reject", [op |-> "reject", i |-> i])

RejectCommit(p) ==
    LET i == txn[p].i IN
    /\ txn[p].op = "reject"
    /\ InviteExists(i)
    /\ invite' = [invite EXCEPT ![i] = "declined"]
    /\ Finish(p)
    /\ UNCHANGED <<groups, joined, cohort, fyp, prefix, lapsed, clock>>

(* cancel_invite, by a member of the group.                                *)
CancelLoad(p, i) ==
    /\ invite[i] = "pending"
    /\ Members(i.g) # {}
    /\ Start(p, "cancel", [op |-> "cancel", i |-> i])

AfterCancel(i) == IF InviteExists(i) THEN "deleted" ELSE invite[i]

CancelCommit(p) ==
    LET i == txn[p].i IN
    /\ txn[p].op = "cancel"
    /\ invite' = [invite EXCEPT ![i] = AfterCancel(i)]
    /\ Finish(p)
    /\ UNCHANGED <<groups, joined, cohort, fyp, prefix, lapsed, clock>>

-----------------------------------------------------------------------------
(* leave_group.                                                            *)

LeaveLoad(p, g, s) ==
    /\ s \in Members(g)
    /\ Start(p, "leave", [op |-> "leave", g |-> g, s |-> s])

LeaveDelete(p) ==
    LET t == txn[p] IN
    /\ t.op = "leave"
    /\ ~Leaving(t.g, t.s)
    /\ IF t.s \in Members(t.g)
       THEN Change(p, t.g, [op |-> "leave_commit", g |-> t.g, s |-> t.s,
                            seen |-> DetermineCohort([joined[t.g] EXCEPT ![t.s] = 0])])
       ELSE Finish(p)
    /\ UNCHANGED <<rows, clock>>

LeaveCommit(p) ==
    LET t == txn[p] IN
    /\ t.op = "leave_commit"
    /\ GroupFree(t.g)
    /\ joined' = [joined EXCEPT ![t.g][t.s] = 0]
    /\ cohort' = [cohort EXCEPT ![t.g] = Refreshed(t.seen, joined'[t.g])]
    /\ Finish(p)
    /\ UNCHANGED <<groups, fyp, prefix, invite, lapsed, clock>>

-----------------------------------------------------------------------------
(* delete_group, by the creator.                                           *)

MayDelete(g, s) == s \in Members(g) /\ Earliest(joined[g]) = s

DeleteLoad(p, g, s) ==
    /\ MayDelete(g, s)
    /\ Start(p, "delete", [op |-> "delete", g |-> g])

DeleteLock(p) ==
    LET g == txn[p].g IN
    /\ txn[p].op = "delete"
    /\ GroupFree(g) /\ ~Joining(g, Students)
    /\ IF Alive(g) THEN Continue(p, [txn[p] EXCEPT !.op = "delete_commit"])
                   ELSE Finish(p)
    /\ UNCHANGED <<rows, clock>>

(* The cascade needs the member rows.                                      *)
DeleteCommit(p) ==
    LET g == txn[p].g IN
    /\ txn[p].op = "delete_commit"
    /\ \A s \in Students : ~Leaving(g, s)
    /\ groups' = [groups EXCEPT ![g] = "deleted"]
    /\ joined' = [joined EXCEPT ![g] = [s \in Students |-> 0]]
    /\ fyp' = [fyp EXCEPT ![g] = 0]
    /\ prefix' = [prefix EXCEPT ![g] = NoCohort]
    /\ cohort' = [cohort EXCEPT ![g] = NoCohort]
    /\ invite' = [i \in Invites |-> IF i.g = g /\ InviteExists(i) THEN "deleted" ELSE invite[i]]
    /\ Finish(p)
    /\ UNCHANGED <<lapsed, clock>>

-----------------------------------------------------------------------------
(* Transactions the database refuses, and a server that goes down.         *)

Refused(t) ==
    \/ t.op = "create" /\ CohortOf[t.s] = NoCohort
    \/ t.op = "create_commit" /\ ~NumberFree(t)
    \/ t.op = "invite" /\ ~Alive(t.g)
    \/ /\ t.op = "accept"
       /\ ~Alive(t.i.g) \/ (t.i.s \in Members(t.i.g) /\ ~Leaving(t.i.g, t.i.s))
    \/ t.op = "join" /\ ~InviteFound(t.i)
    \/ t.op \in {"reject", "expire"} /\ ~InviteExists(t.i)

(* A delete holds the group row and waits for a member row; the leave that *)
(* holds it waits for the group row.  PostgreSQL aborts one of them.       *)
BugDeadlocked(t) == FALSE
Deadlocked(t) ==
    \/ t.op = "leave_commit" /\ ~GroupFree(t.g)
    \/ t.op = "delete_commit" /\ At("leave_commit", t.g)

Abort(p) ==
    /\ Refused(txn[p]) \/ Deadlocked(txn[p])
    /\ Finish(p)
    /\ UNCHANGED <<rows, clock>>

Crash ==
    /\ \E p \in Procs : txn[p] # Idle
    /\ txn' = [p \in Procs |-> Idle]
    /\ UNCHANGED <<rows, clock, mixed>>

-----------------------------------------------------------------------------
Call(p) ==
    \/ \E s \in Students : CreateLoad(p, s)
    \/ \E g \in Groups, s \in Students :
          InviteLoad(p, g, s) \/ LeaveLoad(p, g, s) \/ DeleteLoad(p, g, s)
    \/ \E i \in Invites : AcceptLoad(p, i) \/ RejectLoad(p, i) \/ CancelLoad(p, i)

Proceed(p) ==
    \/ \E g \in Groups : CreateFlush(p, g)
    \/ CreateCommit(p) \/ InviteCommit(p)
    \/ AcceptInsert(p) \/ AcceptCommit(p) \/ ExpireCommit(p)
    \/ RejectCommit(p) \/ CancelCommit(p)
    \/ LeaveDelete(p) \/ LeaveCommit(p)
    \/ DeleteLock(p) \/ DeleteCommit(p)
    \/ Abort(p)

Next ==
    \/ \E p \in Procs : Call(p) \/ Proceed(p)
    \/ \E i \in Invites : Lapse(i)
    \/ Crash

Spec == Init /\ [][Next]_vars

-----------------------------------------------------------------------------
(* Properties that hold however the handlers interleave.                   *)

(* The cohort of a group is that of its earliest member, although each     *)
(* trigger computes it in a transaction that does not see the members      *)
(* others are adding and removing.  When the earliest member has no intake *)
(* or nobody is left, there is none - unless two handlers were changing    *)
(* the members at once: then the triggers, which take NULL for no opinion, *)
(* may leave the cohort of somebody who left.                              *)
Owed(g) == IF Members(g) = {} THEN NoCohort ELSE CohortOf[Earliest(joined[g])]
CohortFollowsEarliest ==
    \A g \in Groups : cohort[g] # Owed(g) => Owed(g) = NoCohort /\ g \in mixed

(* Whoever joins a group that exists holds an invite that exists at that   *)
(* moment: one that was cancelled meanwhile lets nobody in.                *)
JoinsByInvite ==
    [][\A g \in Groups, s \in Students :
          Alive(g) /\ joined[g][s] = 0 /\ joined'[g][s] > 0
          => \E i \in Invites : /\ i.g = g /\ i.s = s
                                 /\ InviteExists(i) /\ invite'[i] = "accepted"]_vars

(* The handlers in flight never all wait for each other, even when a       *)
(* delete and a leave of one group hold each the row the other needs.      *)
LocksNeverJam ==
    (\E p \in Procs : txn[p] # Idle) => \E p \in Procs : ENABLED Proceed(p)

-----------------------------------------------------------------------------
(* A property the code's own words state and its behaviours violate.       *)

(* A student is in one group.                                              *)
OneGroupPerStudent ==
    \A s \in Students : Cardinality({g \in Groups : s \in Members(g)}) <= 1

-----------------------------------------------------------------------------
(* The group handlers implement the roster, whose rows are the database's. *)
Roster == INSTANCE GroupRoster

(* Every committed transaction is one step of the roster, whatever was in  *)
(* flight beside it: no join or leave takes back another's row or cohort.  *)
ImplementsRoster == Roster!Spec
=============================================================================
