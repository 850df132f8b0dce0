----------------------------- MODULE Supervision -----------------------------
(***************************************************************************)
(* Who supervises which group: supervision requests sent by groups and     *)
(* answered by faculty, the assignments an admin makes, the profile edits  *)
(* students and faculty make, and the two capacity counters of a faculty   *)
(* member that all of them share.                                          *)
(*                                                                         *)
(* Every handler is one database transaction under READ COMMITTED, run by  *)
(* an asyncio task (a member of Procs).  A handler first loads rows (a     *)
(* ...Load step that remembers what it read in txn) and later writes and   *)
(* commits (a ...Commit step); anything may happen in between.  Writes     *)
(* that compute a value inside SQL (capacity_filled + 1) are evaluated at  *)
(* the commit step, on the current row; writes computed in Python use the  *)
(* loaded value.  The writes of one handler and its commit are one step,   *)
(* because the rows it wrote stay locked until it commits; only accepting  *)
(* a request needs a step of its own for its UPDATE statements, which      *)
(* select rows by a predicate.  A failed CHECK or a vanished row raises    *)
(* and rolls the transaction back (Abort).                                 *)
(***************************************************************************)
EXTENDS Integers, FiniteSets

(* Operators named Bug... are plausible mistakes in the operator that      *)
(* follows them; they are used only to show that a property notices.       *)

CONSTANTS
    Groups,         \* group rows that exist at the start
    Faculty,        \* faculty rows
    None,           \* NULL in groups.supervisor_id
    Procs,          \* request handlers that may be in flight at once
    Ops,            \* the endpoints the clients of a run call
    InitialCap,     \* capacity_max of every faculty row at the start
    DefaultCap,     \* DEFAULT_SUPERVISOR_CAPACITY
    CapLimit,       \* bound: largest capacity_max a client asks for
    MaxRequests     \* bound: request rows ever inserted

Roles == {"supervisor", "cosupervisor"}
Endpoints == {"send", "accept", "reject", "cancel", "assign", "remove",
              "assign_co", "remove_co", "faculty", "self", "edit", "delete"}

ASSUME SupervisionAssumptions ==
    /\ None \notin Faculty
    /\ Ops \subseteq Endpoints
    /\ InitialCap \in Nat
    /\ DefaultCap \in Nat
    /\ CapLimit \in Nat
    /\ MaxRequests \in Nat
    /\ IsFiniteSet(Groups)

VARIABLES
    alive,          \* groups not deleted
    sup,            \* groups.supervisor_id
    cosup,          \* groups.cosupervisor_ids, as a set
    filled,         \* faculty.capacity_filled
    max,            \* faculty.capacity_max
    supervisors,    \* faculty with is_supervisor
    status,         \* requests.status, and whether the row exists
    txn             \* the handler each process is running

rows == <<alive, sup, cosup, filled, max, supervisors, status>>
vars == <<alive, sup, cosup, filled, max, supervisors, status, txn>>

(* A request row is named by what never changes in it; n tells apart the   *)
(* rows of one group, faculty and role.                                    *)
Requests == [g : Groups, f : Faculty, role : Roles, n : 1..MaxRequests]
Exists(r) == status[r] \in {"pending", "accepted", "declined"}

Keep == -1          \* a column the UPDATE does not write

-----------------------------------------------------------------------------
(* What a handler remembers between its load and its commit.               *)

Idle == [op |-> "idle"]
SendTxn == [op : {"send", "send_insert"}, g : Groups, f : Faculty, role : Roles]
AcceptTxn == [op : {"accept"}, r : Requests, old : Faculty \cup {None},
              cos : SUBSET Faculty]
AcceptedTxn == [op : {"accept_commit"}, r : Requests, old : Faculty \cup {None},
                cos : SUBSET Faculty, declined : SUBSET Requests]
AnswerTxn == [op : {"reject", "cancel"}, r : Requests]
AssignTxn == [op : {"assign"}, g : Groups, f : Faculty, old : Faculty \cup {None}]
RemoveTxn == [op : {"remove"}, g : Groups, old : Faculty]
CoTxn == [op : {"assign_co", "remove_co"}, g : Groups, f : Faculty,
          cos : SUBSET Faculty]
FacultyTxn == [op : {"faculty"}, f : Faculty, flag : {"on", "off", "keep"},
               cap : Nat \cup {Keep}]
Txn == {Idle} \cup SendTxn \cup AcceptTxn \cup AcceptedTxn \cup AnswerTxn
       \cup AssignTxn \cup RemoveTxn \cup CoTxn \cup FacultyTxn

TypeOK ==
    /\ alive \subseteq Groups
    /\ sup \in [Groups -> Faculty \cup {None}]
    /\ cosup \in [Groups -> SUBSET Faculty]
    /\ filled \in [Faculty -> Nat]
    /\ max \in [Faculty -> Nat]
    /\ supervisors \subseteq Faculty
    /\ status \in [Requests -> {"unborn", "pending", "accepted", "declined", "deleted"}]
    /\ txn \in [Procs -> Txn]

Init ==
    /\ alive = Groups
    /\ sup = [g \in Groups |-> None]
    /\ cosup = [g \in Groups |-> {}]
    /\ filled = [f \in Faculty |-> 0]
    /\ max = [f \in Faculty |-> InitialCap]
    /\ supervisors = Faculty
    /\ status = [r \in Requests |-> "unborn"]
    /\ txn = [p \in Procs |-> Idle]

-----------------------------------------------------------------------------
(* Transactions.                                                           *)

Start(p, op, t) ==          \* a handler has loaded its rows
    /\ op \in Ops
    /\ txn[p] = Idle
    /\ txn' = [txn EXCEPT ![p] = t]
    /\ UNCHANGED rows

Finish(p) == txn' = [txn EXCEPT ![p] = Idle]

(* Rows locked by an accept whose UPDATE statements have run.              *)
Accepting(q) == txn[q].op = "accept_commit"
SetsSupervisor(t) == t.r.role = "supervisor" /\ t.old # t.r.f
SetsCosupervisor(t) == t.r.role = "cosupervisor" /\ t.r.f \notin t.cos
GroupFree(g) ==
    \A q \in Procs : Accepting(q) =>
        ~(txn[q].r.g = g /\ (SetsSupervisor(txn[q]) \/ SetsCosupervisor(txn[q])))
FacultyFree(f) ==
    \A q \in Procs : Accepting(q) =>
        ~(txn[q].r.f = f /\ txn[q].r.role = "supervisor")
RequestFree(r) ==
    \A q \in Procs : Accepting(q) => r \notin txn[q].declined \cup {txn[q].r}

(* The CHECK constraints of table faculty.                                 *)
BugNoCeiling(n, m) == 0 <= n
CapacityOK(n, m) == 0 <= n /\ n <= m

-----------------------------------------------------------------------------
(* Requests.                                                               *)

Born == {r \in Requests : status[r] # "unborn"}
Sending == {q \in Procs : txn[q].op \in {"send", "send_insert"}}

(* send_supervisor_invite_svc reads the group and the faculty row, ...     *)
SendLoad(p, g, f, role) ==
    /\ Cardinality(Born) + Cardinality(Sending) < MaxRequests      \* bound
    /\ g \in alive
    /\ role = "supervisor" => sup[g] = None
    /\ f \notin cosup[g]
    /\ role = "cosupervisor" => sup[g] # f
    /\ f \in supervisors
    /\ Start(p, "send", [op |-> "send", g |-> g, f |-> f, role |-> role])

(* ... then looks for a pending or accepted request of any role, ...       *)
OpenRequest(g, f) ==
    \E r \in Requests : r.g = g /\ r.f = f /\ status[r] \in {"pending", "accepted"}

SendCheck(p) ==
    /\ txn[p].op = "send"
    /\ IF OpenRequest(txn[p].g, txn[p].f)
       THEN Finish(p)
       ELSE txn' = [txn EXCEPT ![p].op = "send_insert"]
    /\ UNCHANGED rows

(* ... and inserts; the foreign key refuses a group deleted meanwhile.     *)
Unborn(g, f, role) ==
    {r \in Requests : r.g = g /\ r.f = f /\ r.role = role /\ status[r] = "unborn"}

SendCommit(p) ==
    LET t == txn[p] IN
    /\ t.op = "send_insert"
    /\ t.g \in alive
    /\ \E r \in Unborn(t.g, t.f, t.role) :
          /\ \A s \in Unborn(t.g, t.f, t.role) : r.n <= s.n
          /\ status' = [status EXCEPT ![r] = "pending"]
    /\ Finish(p)
    /\ UNCHANGED <<alive, sup, cosup, filled, max, supervisors>>

(* _require_supervisor_faculty and get_for_supervisor_validation.          *)
MayAnswer(r) == status[r] = "pending" /\ r.f \in supervisors

AcceptLoad(p, r) ==
    /\ MayAnswer(r)
    /\ Start(p, "accept", [op |-> "accept", r |-> r, old |-> sup[r.g],
                           cos |-> cosup[r.g]])

(* The other pending supervisor requests of the group, at the time the     *)
(* auto-decline statement runs.                                            *)
BugRivalsAnswered(r) ==
    IF r.role # "supervisor" THEN {}
    ELSE {s \in Requests : s.g = r.g /\ s.role = "supervisor" /\ s # r /\ Exists(s)}

Rivals(r) ==
    IF r.role # "supervisor" THEN {}
    ELSE {s \in Requests : s.g = r.g /\ s.role = "supervisor" /\ s # r
                           /\ status[s] = "pending"}

AcceptWrite(p) ==
    LET t == txn[p] IN
    /\ t.op = "accept"
    /\ Exists(t.r)
    /\ SetsSupervisor(t) \/ SetsCosupervisor(t) => GroupFree(t.r.g)
    /\ \A s \in Rivals(t.r) \cup {t.r} : RequestFree(s)
    /\ t.r.role = "supervisor" =>
          /\ FacultyFree(t.r.f)
          /\ CapacityOK(filled[t.r.f] + 1, max[t.r.f])
    /\ txn' = [txn EXCEPT ![p] = [op |-> "accept_commit", r |-> t.r, old |-> t.old,
                                  cos |-> t.cos, declined |-> Rivals(t.r)]]
    /\ UNCHANGED rows

(* Whether an accept counts the group.                                     *)
BugCountsBoth(t) == TRUE
BugCounted(t) == t.r.role = "supervisor" /\ t.old = None
Counted(t) == t.r.role = "supervisor"

AcceptCommit(p) ==
    LET t == txn[p]  r == t.r IN
    /\ t.op = "accept_commit"
    /\ sup' = IF SetsSupervisor(t) THEN [sup EXCEPT ![r.g] = r.f] ELSE sup
    /\ cosup' = IF SetsCosupervisor(t)
                THEN [cosup EXCEPT ![r.g] = t.cos \cup {r.f}] ELSE cosup
    /\ filled' = IF Counted(t) THEN [filled EXCEPT ![r.f] = @ + 1] ELSE filled
    /\ status' = [s \in Requests |-> IF s = r THEN "accepted"
                                     ELSE IF s \in t.declined THEN "declined"
                                     ELSE status[s]]
    /\ Finish(p)
    /\ UNCHANGED <<alive, max, supervisors>>

RejectLoad(p, r) ==
    /\ MayAnswer(r)
    /\ Start(p, "reject", [op |-> "reject", r |-> r])

RejectCommit(p) ==
    LET r == txn[p].r IN
    /\ txn[p].op = "reject"
    /\ Exists(r)
    /\ RequestFree(r)
    /\ status' = [status EXCEPT ![r] = "declined"]
    /\ Finish(p)
    /\ UNCHANGED <<alive, sup, cosup, filled, max, supervisors>>

CancelLoad(p, r) ==
    /\ status[r] = "pending"
    /\ Start(p, "cancel", [op |-> "cancel", r |-> r])

(* DELETE ... WHERE request_id = r, whatever the status has become.        *)
CancelCommit(p) ==
    LET r == txn[p].r IN
    /\ txn[p].op = "cancel"
    /\ RequestFree(r)
    /\ status' = [status EXCEPT ![r] = "deleted"]
    /\ Finish(p)
    /\ UNCHANGED <<alive, sup, cosup, filled, max, supervisors>>

-----------------------------------------------------------------------------
(* Assignments by an admin.                                                *)

AssignLoad(p, g, f) ==
    /\ g \in alive
    /\ f \notin cosup[g]
    /\ sup[g] # f
    /\ filled[f] < max[f]
    /\ Start(p, "assign", [op |-> "assign", g |-> g, f |-> f, old |-> sup[g]])

AssignOK(t) ==
    /\ t.old # None => CapacityOK(filled[t.old] - 1, max[t.old])
    /\ CapacityOK(filled[t.f] + 1, max[t.f])

AssignCommit(p) ==
    LET t == txn[p] IN
    /\ t.op = "assign"
    /\ t.g \in alive
    /\ AssignOK(t)
    /\ GroupFree(t.g) /\ FacultyFree(t.f) /\ FacultyFree(t.old)
    /\ sup' = [sup EXCEPT ![t.g] = t.f]
    /\ filled' = [f \in Faculty |-> IF f = t.f THEN filled[f] + 1
                                    ELSE IF f = t.old THEN filled[f] - 1
                                    ELSE filled[f]]
    /\ Finish(p)
    /\ UNCHANGED <<alive, cosup, max, supervisors, status>>

RemoveLoad(p, g) ==
    /\ g \in alive
    /\ sup[g] # None
    /\ Start(p, "remove", [op |-> "remove", g |-> g, old |-> sup[g]])

RemoveOK(t) == CapacityOK(filled[t.old] - 1, max[t.old])

RemoveCommit(p) ==
    LET t == txn[p] IN
    /\ t.op = "remove"
    /\ t.g \in alive
    /\ RemoveOK(t)
    /\ GroupFree(t.g) /\ FacultyFree(t.old)
    /\ sup' = [sup EXCEPT ![t.g] = None]
    /\ filled' = [filled EXCEPT ![t.old] = @ - 1]
    /\ Finish(p)
    /\ UNCHANGED <<alive, cosup, max, supervisors, status>>

AssignCoLoad(p, g, f) ==
    /\ g \in alive
    /\ sup[g] # f
    /\ f \notin cosup[g]
    /\ Start(p, "assign_co", [op |-> "assign_co", g |-> g, f |-> f, cos |-> cosup[g]])

RemoveCoLoad(p, g, f) ==
    /\ g \in alive
    /\ f \in cosup[g]
    /\ Start(p, "remove_co", [op |-> "remove_co", g |-> g, f |-> f, cos |-> cosup[g]])

(* Both write the whole array, computed from the one they loaded.          *)
NewArray(t) == IF t.op = "assign_co" THEN t.cos \cup {t.f} ELSE t.cos \ {t.f}

CoCommit(p) ==
    LET t == txn[p] IN
    /\ t.op \in {"assign_co", "remove_co"}
    /\ t.g \in alive
    /\ GroupFree(t.g)
    /\ cosup' = [cosup EXCEPT ![t.g] = NewArray(t)]
    /\ Finish(p)
    /\ UNCHANGED <<alive, sup, filled, max, supervisors, status>>

-----------------------------------------------------------------------------
(* Faculty records.                                                        *)

(* update_faculty_profile: the payload an admin's request leads to.  asked *)
(* is the is_supervisor field ("keep" when absent), cap the capacity_max   *)
(* field (Keep when absent).                                               *)
NewFlag(f, asked) ==
    IF asked = "keep" THEN (IF f \in supervisors THEN "on" ELSE "off") ELSE asked

CapToApply(f, asked, cap) ==
    IF NewFlag(f, asked) = "off" THEN 0
    ELSE IF asked = "on" /\ f \notin supervisors /\ cap = Keep THEN DefaultCap
    ELSE cap

FacultyLoad(p, f, asked, cap) ==
    LET apply == CapToApply(f, asked, cap) IN
    /\ NewFlag(f, asked) = "off" => cap = Keep /\ filled[f] = 0
    /\ apply # Keep => apply >= filled[f]
    \* The ORM writes only the columns whose value differs from the loaded one.
    /\ Start(p, "faculty",
             [op |-> "faculty", f |-> f,
              flag |-> IF (NewFlag(f, asked) = "on") = (f \in supervisors)
                       THEN "keep" ELSE asked,
              cap |-> IF apply = max[f] THEN Keep ELSE apply])

(* update_supervisor_profile: a faculty member sets capacity_max.          *)
SelfLoad(p, f, cap) ==
    Start(p, "self", [op |-> "faculty", f |-> f, flag |-> "keep",
                      cap |-> IF cap = max[f] THEN Keep ELSE cap])

FacultyOK(t) == t.cap # Keep => CapacityOK(filled[t.f], t.cap)

FacultyCommit(p) ==
    LET t == txn[p] IN
    /\ t.op = "faculty"
    /\ FacultyOK(t)
    /\ FacultyFree(t.f)
    /\ max' = [max EXCEPT ![t.f] = IF t.cap = Keep THEN @ ELSE t.cap]
    /\ supervisors' = CASE t.flag = "on" -> supervisors \cup {t.f}
                        [] t.flag = "off" -> supervisors \ {t.f}
                        [] t.flag = "keep" -> supervisors
    /\ Finish(p)
    /\ UNCHANGED <<alive, sup, cosup, filled, status>>

-----------------------------------------------------------------------------
(* Handlers of the group's own members that act on what is stored when     *)
(* they write; what they loaded decides only whether they may.             *)

(* update_group_profile: a member writes the supervisor and co-supervisors *)
(* of the group directly.                                                  *)
EditProfile(p, g, f, cos) ==
    /\ "edit" \in Ops
    /\ txn[p] = Idle
    /\ g \in alive
    /\ GroupFree(g)
    /\ sup' = IF f = None THEN sup ELSE [sup EXCEPT ![g] = f]
    /\ cosup' = [cosup EXCEPT ![g] = cos]
    /\ UNCHANGED <<alive, filled, max, supervisors, status, txn>>

(* The rows ON DELETE CASCADE removes with group g.                        *)
Cascade(r, g) == r.g = g /\ Exists(r)

(* delete_group: the foreign keys delete the group's requests with it.     *)
DeleteGroup(p, g) ==
    /\ "delete" \in Ops
    /\ txn[p] = Idle
    /\ g \in alive
    /\ GroupFree(g)
    /\ \A r \in Requests : r.g = g => RequestFree(r)
    /\ alive' = alive \ {g}
    /\ sup' = [sup EXCEPT ![g] = None]
    /\ cosup' = [cosup EXCEPT ![g] = {}]
    /\ status' = [r \in Requests |-> IF Cascade(r, g) THEN "deleted" ELSE status[r]]
    /\ UNCHANGED <<filled, max, supervisors, txn>>

-----------------------------------------------------------------------------
(* A transaction the database refuses, and a server that goes down.        *)

(* The ORM finds the row it writes gone, or an insert its parent row.      *)
BugVanished(t) ==
    \/ /\ t.op \in {"send_insert", "assign", "remove", "assign_co", "remove_co"}
       /\ t.g \notin alive
    \/ t.op = "reject" /\ ~Exists(t.r)

Vanished(t) ==
    \/ /\ t.op \in {"send_insert", "assign", "remove", "assign_co", "remove_co"}
       /\ t.g \notin alive
    \/ t.op \in {"accept", "reject"} /\ ~Exists(t.r)

(* An UPDATE of a faculty row violates a CHECK.                            *)
Violates(t) ==
    \/ /\ t.op = "accept" /\ t.r.role = "supervisor" /\ FacultyFree(t.r.f)
       /\ ~CapacityOK(filled[t.r.f] + 1, max[t.r.f])
    \/ t.op = "assign" /\ FacultyFree(t.f) /\ FacultyFree(t.old) /\ ~AssignOK(t)
    \/ t.op = "remove" /\ FacultyFree(t.old) /\ ~RemoveOK(t)
    \/ t.op = "faculty" /\ FacultyFree(t.f) /\ ~FacultyOK(t)

Abort(p) ==
    /\ Vanished(txn[p]) \/ Violates(txn[p])
    /\ Finish(p)
    /\ UNCHANGED rows

(* The process stops: every open transaction is rolled back.               *)
Crash ==
    /\ \E p \in Procs : txn[p] # Idle
    /\ txn' = [p \in Procs |-> Idle]
    /\ UNCHANGED rows

-----------------------------------------------------------------------------
Call(p) ==
    \/ \E g \in Groups, f \in Faculty :
          \/ \E role \in Roles : SendLoad(p, g, f, role)
          \/ AssignLoad(p, g, f)
          \/ AssignCoLoad(p, g, f)
          \/ RemoveCoLoad(p, g, f)
    \/ \E r \in Requests : AcceptLoad(p, r) \/ RejectLoad(p, r) \/ CancelLoad(p, r)
    \/ \E g \in Groups : RemoveLoad(p, g) \/ DeleteGroup(p, g)
    \/ \E g \in Groups, f \in Faculty \cup {None}, cos \in SUBSET Faculty :
          EditProfile(p, g, f, cos)
    \/ \E f \in Faculty, cap \in 0..CapLimit : SelfLoad(p, f, cap)
    \/ \E f \in Faculty, cap \in (0..CapLimit) \cup {Keep}, asked \in {"on", "off", "keep"} :
          FacultyLoad(p, f, asked, cap)

Proceed(p) ==
    \/ SendCheck(p) \/ SendCommit(p)
    \/ AcceptWrite(p) \/ AcceptCommit(p)
    \/ RejectCommit(p) \/ CancelCommit(p)
    \/ AssignCommit(p) \/ RemoveCommit(p) \/ CoCommit(p)
    \/ FacultyCommit(p)
    \/ Abort(p)

Next == Crash \/ \E p \in Procs : Call(p) \/ Proceed(p)

Spec == Init /\ [][Next]_vars

(* The event loop keeps running every handler that can continue.           *)
FairSpec == Spec /\ \A p \in Procs : WF_vars(Proceed(p))

-----------------------------------------------------------------------------
(* Properties that hold however the handlers interleave.                   *)

(* No faculty member is recorded with more groups than their capacity,     *)
(* although accept adds 1 without reading the counter and every other      *)
(* handler decides on a counter it loaded earlier.                         *)
CapacityRespected == \A f \in Faculty : filled[f] <= max[f]

(* What an accept wrote under its row locks is still so when it commits:   *)
(* its request exists, the requests it declines are pending, the faculty   *)
(* member has room, and no other accept holds one of these rows.           *)
Locked(t) == t.declined \cup {t.r}
HoldsRows(t) ==
    /\ Exists(t.r) /\ t.r \notin t.declined
    /\ \A s \in t.declined : status[s] = "pending"
    /\ t.r.role = "supervisor" => filled[t.r.f] < max[t.r.f]
Apart(t, u) ==
    /\ Locked(t) \cap Locked(u) = {}
    /\ t.r.role = "supervisor" /\ u.r.role = "supervisor" => t.r.f # u.r.f
RowsStayLocked ==
    /\ \A p \in Procs : Accepting(p) => HoldsRows(txn[p])
    /\ \A p, q \in Procs :
          p # q /\ Accepting(p) /\ Accepting(q) => Apart(txn[p], txn[q])

(* No request outlives its group: neither a send that loaded the group nor *)
(* an accept that loaded the request leaves a row behind when the group is *)
(* deleted under it.                                                       *)
RequestsHaveGroup == \A r \in Requests : Exists(r) => r.g \in alive

(* The auto-decline of an accept turns down only requests that are still   *)
(* pending when it commits: it never undoes another accept.                *)
AutoDecline(p) ==
    AcceptCommit(p) => \A s \in Requests \ {txn[p].r} :
        status'[s] # status[s] => status[s] = "pending" /\ status'[s] = "declined"
AutoDeclineSparesAnswered == [][\A p \in Procs : AutoDecline(p)]_vars

(* Every handler returns: no row lock, refused write or deleted row leaves *)
(* one waiting for ever.                                                   *)
HandlersReturn == \A p \in Procs : txn[p] # Idle ~> txn[p] = Idle

-----------------------------------------------------------------------------
(* A property of handlers that run one at a time (Procs a singleton),      *)
(* which does not survive EditProfile.                                     *)

Supervised(f) == {g \in Groups : sup[g] = f}

(* capacity_filled never undercounts: a faculty member supervises at most  *)
(* as many groups as the counter says, so at most capacity_max.            *)
FilledCoversSupervised == \A f \in Faculty : Cardinality(Supervised(f)) <= filled[f]
=============================================================================
