--------------------------- MODULE SupervisionProofs ---------------------------
(* Supervision keeps its types, its row locks and the invariants of        *)
(* requests and counters, however many handlers interleave; handlers that  *)
(* run one at a time implement the capacity ledger, and have its balance.  *)
EXTENDS SupervisionRefinement, FiniteSetTheorems, TLAPS

(* The operation a transaction is at tells what it remembers.              *)
LEMMA TxnShape ==
    ASSUME TypeOK, NEW p \in Procs
    PROVE  /\ txn[p].op \in {"send", "send_insert"} => txn[p] \in SendTxn
           /\ txn[p].op = "accept" => txn[p] \in AcceptTxn
           /\ txn[p].op = "accept_commit" => txn[p] \in AcceptedTxn
           /\ txn[p].op \in {"reject", "cancel"} => txn[p] \in AnswerTxn
           /\ txn[p].op = "assign" => txn[p] \in AssignTxn
           /\ txn[p].op = "remove" => txn[p] \in RemoveTxn
           /\ txn[p].op \in {"assign_co", "remove_co"} => txn[p] \in CoTxn
           /\ txn[p].op = "faculty" => txn[p] \in FacultyTxn
<1>1. txn[p] \in Txn
  BY DEF TypeOK
<1>2. CASE txn[p] = Idle
  BY <1>2 DEF Idle
<1>3. CASE txn[p] \in SendTxn
  BY <1>3 DEF SendTxn
<1>4. CASE txn[p] \in AcceptTxn
  BY <1>4 DEF AcceptTxn
<1>5. CASE txn[p] \in AcceptedTxn
  BY <1>5 DEF AcceptedTxn
<1>6. CASE txn[p] \in AnswerTxn
  BY <1>6 DEF AnswerTxn
<1>7. CASE txn[p] \in AssignTxn
  BY <1>7 DEF AssignTxn
<1>8. CASE txn[p] \in RemoveTxn
  BY <1>8 DEF RemoveTxn
<1>9. CASE txn[p] \in CoTxn
  BY <1>9 DEF CoTxn
<1>10. CASE txn[p] \in FacultyTxn
  BY <1>10 DEF FacultyTxn
<1> QED
  BY <1>1, <1>2, <1>3, <1>4, <1>5, <1>6, <1>7, <1>8, <1>9, <1>10 DEF Txn

(* A step that replaces one transaction by a well-formed one, or ends it,  *)
(* keeps the transactions well formed.                                     *)
LEMMA TxnStep ==
    ASSUME TypeOK, NEW p \in Procs, NEW t \in Txn, txn' = [txn EXCEPT ![p] = t]
    PROVE  txn' \in [Procs -> Txn]
BY DEF TypeOK

LEMMA FinishType ==
    ASSUME TypeOK, NEW p \in Procs, Finish(p)
    PROVE  txn' \in [Procs -> Txn]
BY TxnStep DEF Finish, Txn

LEMMA LoadType ==
    ASSUME TypeOK, NEW p \in Procs, NEW op, NEW t \in Txn, Start(p, op, t)
    PROVE  TypeOK'
BY TxnStep DEF TypeOK, Start, rows

LEMMA CallType ==
    ASSUME TypeOK, NEW p \in Procs, Call(p)
    PROVE  TypeOK'
<1>1. ASSUME NEW g \in Groups, NEW f \in Faculty, NEW role \in Roles,
             SendLoad(p, g, f, role)
      PROVE  TypeOK'
  BY <1>1, LoadType DEF SendLoad, Txn, SendTxn
<1>2. ASSUME NEW g \in Groups, NEW f \in Faculty, AssignLoad(p, g, f) PROVE TypeOK'
  <2>1. sup[g] \in Faculty \cup {None}
    BY DEF TypeOK
  <2> QED
    BY <1>2, <2>1, LoadType DEF AssignLoad, Txn, AssignTxn
<1>3. ASSUME NEW g \in Groups, NEW f \in Faculty,
             AssignCoLoad(p, g, f) \/ RemoveCoLoad(p, g, f)
      PROVE  TypeOK'
  <2>1. cosup[g] \in SUBSET Faculty
    BY DEF TypeOK
  <2>2. \A op \in {"assign_co", "remove_co"} :
           [op |-> op, g |-> g, f |-> f, cos |-> cosup[g]] \in Txn
    BY <2>1 DEF Txn, CoTxn
  <2> QED
    BY <1>3, <2>2, LoadType DEF AssignCoLoad, RemoveCoLoad
<1>4. ASSUME NEW r \in Requests, AcceptLoad(p, r) PROVE TypeOK'
  <2>1. r.g \in Groups /\ sup[r.g] \in Faculty \cup {None} /\ cosup[r.g] \in SUBSET Faculty
    BY DEF TypeOK, Requests
  <2> QED
    BY <1>4, <2>1, LoadType DEF AcceptLoad, Txn, AcceptTxn
<1>5. ASSUME NEW r \in Requests, RejectLoad(p, r) \/ CancelLoad(p, r) PROVE TypeOK'
  <2>1. \A op \in {"reject", "cancel"} : [op |-> op, r |-> r] \in Txn
    BY DEF Txn, AnswerTxn
  <2> QED
    BY <1>5, <2>1, LoadType DEF RejectLoad, CancelLoad
<1>6. ASSUME NEW g \in Groups, RemoveLoad(p, g) PROVE TypeOK'
  <2>1. sup[g] \in Faculty
    BY <1>6 DEF TypeOK, RemoveLoad
  <2> QED
    BY <1>6, <2>1, LoadType DEF RemoveLoad, Txn, RemoveTxn
<1>7. ASSUME NEW g \in Groups, DeleteGroup(p, g) PROVE TypeOK'
  BY <1>7 DEF TypeOK, DeleteGroup
<1>8. ASSUME NEW g \in Groups, NEW f \in Faculty \cup {None}, NEW cos \in SUBSET Faculty,
             EditProfile(p, g, f, cos)
      PROVE  TypeOK'
  BY <1>8 DEF TypeOK, EditProfile
<1>9. ASSUME NEW f \in Faculty, NEW cap \in 0..CapLimit, SelfLoad(p, f, cap)
      PROVE  TypeOK'
  <2>1. [op |-> "faculty", f |-> f, flag |-> "keep",
         cap |-> IF cap = max[f] THEN Keep ELSE cap] \in Txn
    BY SupervisionAssumptions DEF Txn, FacultyTxn
  <2> QED
    BY <1>9, <2>1, LoadType DEF SelfLoad
<1>10. ASSUME NEW f \in Faculty, NEW cap \in (0..CapLimit) \cup {Keep},
              NEW asked \in {"on", "off", "keep"}, FacultyLoad(p, f, asked, cap)
       PROVE  TypeOK'
  <2> DEFINE apply == CapToApply(f, asked, cap)
             flag == IF (NewFlag(f, asked) = "on") = (f \in supervisors)
                     THEN "keep" ELSE asked
             column == IF apply = max[f] THEN Keep ELSE apply
  <2>1. apply \in Nat \cup {Keep}
    BY SupervisionAssumptions DEF CapToApply
  <2>2. column \in Nat \cup {Keep} /\ flag \in {"on", "off", "keep"}
    BY <2>1
  <2>3. [op |-> "faculty", f |-> f, flag |-> flag, cap |-> column] \in Txn
    BY <2>2 DEF Txn, FacultyTxn
  <2> QED
    BY <1>10, <2>3, LoadType DEF FacultyLoad
<1> QED
  BY <1>1, <1>2, <1>3, <1>4, <1>5, <1>6, <1>7, <1>8, <1>9, <1>10 DEF Call

LEMMA ProceedType ==
    ASSUME TypeOK, NEW p \in Procs, Proceed(p)
    PROVE  TypeOK'
<1> DEFINE t == txn[p]
<1>1. CASE SendCheck(p)
  <2>1. t \in SendTxn
    BY <1>1, TxnShape DEF SendCheck
  <2>2. [t EXCEPT !.op = "send_insert"] \in Txn
    BY <2>1 DEF SendTxn, Txn
  <2>3. txn' \in [Procs -> Txn]
    BY <1>1, <2>2, TxnStep, FinishType DEF SendCheck
  <2> QED
    BY <1>1, <2>3 DEF SendCheck, rows, TypeOK
<1>2. CASE SendCommit(p)
  BY <1>2, FinishType DEF SendCommit, TypeOK
<1>3. CASE AcceptWrite(p)
  <2>1. t \in AcceptTxn
    BY <1>3, TxnShape DEF AcceptWrite
  <2>2. [op |-> "accept_commit", r |-> t.r, old |-> t.old, cos |-> t.cos,
         declined |-> Rivals(t.r)] \in Txn
    BY <2>1 DEF AcceptTxn, AcceptedTxn, Txn, Rivals
  <2>3. txn' \in [Procs -> Txn]
    BY <1>3, <2>2, TxnStep DEF AcceptWrite
  <2> QED
    BY <1>3, <2>3 DEF AcceptWrite, rows, TypeOK
<1>4. CASE AcceptCommit(p)
  <2>1. t \in AcceptedTxn
    BY <1>4, TxnShape DEF AcceptCommit
  <2>2. t.r.g \in Groups /\ t.r.f \in Faculty /\ t.cos \in SUBSET Faculty
    BY <2>1 DEF AcceptedTxn, Requests
  <2>3. sup' \in [Groups -> Faculty \cup {None}] /\ cosup' \in [Groups -> SUBSET Faculty]
    BY <1>4, <2>2 DEF AcceptCommit, TypeOK
  <2>4. filled' \in [Faculty -> Nat]
    BY <1>4, <2>2 DEF AcceptCommit, TypeOK
  <2>5. status' \in [Requests -> {"unborn", "pending", "accepted", "declined", "deleted"}]
    BY <1>4 DEF AcceptCommit, TypeOK
  <2>6. txn' \in [Procs -> Txn]
    BY <1>4, FinishType DEF AcceptCommit
  <2> QED
    BY <1>4, <2>3, <2>4, <2>5, <2>6 DEF AcceptCommit, TypeOK
<1>5. CASE RejectCommit(p)
  BY <1>5, FinishType DEF RejectCommit, TypeOK
<1>6. CASE CancelCommit(p)
  BY <1>6, FinishType DEF CancelCommit, TypeOK
<1>7. CASE AssignCommit(p)
  <2>1. t \in AssignTxn
    BY <1>7, TxnShape DEF AssignCommit
  <2>2. t.f \in Faculty /\ t.old \in Faculty \cup {None}
    BY <2>1 DEF AssignTxn
  <2>3. \A e \in Faculty : e = t.old => filled[e] - 1 \in Nat
    BY <1>7, <2>2, SupervisionAssumptions DEF AssignCommit, AssignOK, CapacityOK, TypeOK
  <2>4. filled' \in [Faculty -> Nat]
    BY <1>7, <2>3 DEF AssignCommit, TypeOK
  <2>5. txn' \in [Procs -> Txn]
    BY <1>7, FinishType DEF AssignCommit
  <2> QED
    BY <1>7, <2>2, <2>4, <2>5 DEF AssignCommit, TypeOK
<1>8. CASE RemoveCommit(p)
  <2>1. t \in RemoveTxn
    BY <1>8, TxnShape DEF RemoveCommit
  <2>2. t.old \in Faculty /\ filled[t.old] - 1 \in Nat
    BY <1>8, <2>1 DEF RemoveTxn, RemoveCommit, RemoveOK, CapacityOK, TypeOK
  <2>3. txn' \in [Procs -> Txn]
    BY <1>8, FinishType DEF RemoveCommit
  <2> QED
    BY <1>8, <2>2, <2>3 DEF RemoveCommit, TypeOK
<1>9. CASE CoCommit(p)
  <2>1. t \in CoTxn
    BY <1>9, TxnShape DEF CoCommit
  <2>2. NewArray(t) \in SUBSET Faculty
    BY <2>1 DEF CoTxn, NewArray
  <2>3. txn' \in [Procs -> Txn]
    BY <1>9, FinishType DEF CoCommit
  <2> QED
    BY <1>9, <2>2, <2>3 DEF CoCommit, TypeOK
<1>10. CASE FacultyCommit(p)
  <2>1. t \in FacultyTxn
    BY <1>10, TxnShape DEF FacultyCommit
  <2>2. t.f \in Faculty /\ t.flag \in {"on", "off", "keep"} /\ (t.cap # Keep => t.cap \in Nat)
    BY <2>1 DEF FacultyTxn
  <2>3. txn' \in [Procs -> Txn]
    BY <1>10, FinishType DEF FacultyCommit
  <2>4. max' \in [Faculty -> Nat]
    BY <1>10, <2>2 DEF FacultyCommit, TypeOK
  <2> QED
    BY <1>10, <2>2, <2>3, <2>4 DEF FacultyCommit, TypeOK
<1>11. CASE Abort(p)
  BY <1>11, FinishType DEF Abort, rows, TypeOK
<1> QED
  BY <1>1, <1>2, <1>3, <1>4, <1>5, <1>6, <1>7, <1>8, <1>9, <1>10, <1>11 DEF Proceed

(* Every column and every transaction keeps its type; in particular no     *)
(* counter falls below zero.                                               *)
LEMMA NextType == TypeOK /\ [Next]_vars => TypeOK'
<1> SUFFICES ASSUME TypeOK, [Next]_vars PROVE TypeOK'
  OBVIOUS
<1>1. CASE Crash
  <2>1. txn' \in [Procs -> Txn]
    BY <1>1 DEF Crash, Txn
  <2> QED
    BY <1>1, <2>1 DEF Crash, rows, TypeOK
<1>2. CASE UNCHANGED vars
  BY <1>2 DEF vars, TypeOK
<1> QED
  BY <1>1, <1>2, CallType, ProceedType DEF Next

THEOREM TypeCorrect == Spec => []TypeOK
<1>1. Init => TypeOK
  BY SupervisionAssumptions DEF Init, TypeOK, Txn
<1> QED
  BY <1>1, NextType, PTL DEF Spec

-----------------------------------------------------------------------------
(* The row locks of an accept between its UPDATE statements and its commit *)
(* are what the invariants rest on.                                        *)

LEMMA LockedTyped ==
    ASSUME TypeOK, NEW p \in Procs, Accepting(p)
    PROVE  /\ txn[p] \in AcceptedTxn
           /\ txn[p].r \in Requests /\ txn[p].declined \in SUBSET Requests
           /\ txn[p].r.f \in Faculty /\ txn[p].r.g \in Groups
           /\ Locked(txn[p]) \in SUBSET Requests
<1>1. txn[p] \in AcceptedTxn
  BY TxnShape DEF Accepting
<1> QED
  BY <1>1 DEF AcceptedTxn, Requests, Locked

(* A step keeps the locked rows protected when every accept that is still  *)
(* about to commit finds its requests and its counter unchanged.           *)
LEMMA Undisturbed ==
    ASSUME TypeOK, RowsStayLocked,
           \A q \in Procs : Accepting(q)' =>
               /\ Accepting(q) /\ txn'[q] = txn[q]
               /\ \A s \in Locked(txn[q]) : status'[s] = status[s]
               /\ txn[q].r.role = "supervisor" =>
                     /\ filled'[txn[q].r.f] = filled[txn[q].r.f]
                     /\ max'[txn[q].r.f] = max[txn[q].r.f]
    PROVE  RowsStayLocked'
<1>1. ASSUME NEW p \in Procs, Accepting(p)' PROVE HoldsRows(txn[p])'
  <2>1. /\ Accepting(p) /\ txn'[p] = txn[p]
        /\ \A s \in Locked(txn[p]) : status'[s] = status[s]
    BY <1>1
  <2> QED
    BY <1>1, <2>1 DEF RowsStayLocked, HoldsRows, Exists, Locked
<1>2. ASSUME NEW p \in Procs, NEW q \in Procs, p # q, Accepting(p)', Accepting(q)'
      PROVE  Apart(txn[p], txn[q])'
  <2>1. Accepting(p) /\ Accepting(q) /\ txn'[p] = txn[p] /\ txn'[q] = txn[q]
    BY <1>2
  <2> QED
    BY <1>2, <2>1 DEF RowsStayLocked, Apart, Locked
<1> QED
  BY <1>1, <1>2 DEF RowsStayLocked

(* A process that ends or starts a transaction leaves the others alone.    *)
LEMMA OneMoves ==
    ASSUME TypeOK, NEW p \in Procs, NEW t, t.op # "accept_commit",
           txn' = [txn EXCEPT ![p] = t]
    PROVE  \A q \in Procs : Accepting(q)' => q # p /\ Accepting(q) /\ txn'[q] = txn[q]
BY DEF Accepting, TypeOK

LEMMA FinishMoves ==
    ASSUME TypeOK, NEW p \in Procs, Finish(p)
    PROVE  \A q \in Procs : Accepting(q)' => q # p /\ Accepting(q) /\ txn'[q] = txn[q]
BY OneMoves DEF Finish, Idle

LEMMA StartMoves ==
    ASSUME TypeOK, RowsStayLocked, NEW p \in Procs, NEW op, NEW t,
           t.op # "accept_commit", Start(p, op, t)
    PROVE  RowsStayLocked'
BY OneMoves, Undisturbed DEF Start, rows

LEMMA CallLocks ==
    ASSUME TypeOK, RowsStayLocked, NEW p \in Procs, Call(p)
    PROVE  RowsStayLocked'
<1>1. ASSUME NEW g \in Groups, NEW f \in Faculty, NEW role \in Roles,
             SendLoad(p, g, f, role)
      PROVE  RowsStayLocked'
  BY <1>1, StartMoves DEF SendLoad
<1>2. ASSUME NEW g \in Groups, NEW f \in Faculty,
             AssignLoad(p, g, f) \/ AssignCoLoad(p, g, f) \/ RemoveCoLoad(p, g, f)
      PROVE  RowsStayLocked'
  BY <1>2, StartMoves DEF AssignLoad, AssignCoLoad, RemoveCoLoad
<1>3. ASSUME NEW r \in Requests, AcceptLoad(p, r) \/ RejectLoad(p, r) \/ CancelLoad(p, r)
      PROVE  RowsStayLocked'
  BY <1>3, StartMoves DEF AcceptLoad, RejectLoad, CancelLoad
<1>4. ASSUME NEW g \in Groups, RemoveLoad(p, g) PROVE RowsStayLocked'
  BY <1>4, StartMoves DEF RemoveLoad
<1>5. ASSUME NEW g \in Groups, DeleteGroup(p, g) PROVE RowsStayLocked'
  <2>1. ASSUME NEW q \in Procs, Accepting(q), NEW s \in Locked(txn[q])
        PROVE  status'[s] = status[s]
    <3>1. s \in Requests
      BY <2>1, LockedTyped
    <3>2. s.g # g
      BY <1>5, <2>1, <3>1 DEF DeleteGroup, RequestFree, Locked
    <3> QED
      BY <1>5, <3>1, <3>2 DEF DeleteGroup, Cascade
  <2> QED
    BY <1>5, <2>1, Undisturbed DEF DeleteGroup, Accepting
<1>6. ASSUME NEW g \in Groups, NEW f \in Faculty \cup {None}, NEW cos \in SUBSET Faculty,
             EditProfile(p, g, f, cos)
      PROVE  RowsStayLocked'
  BY <1>6, Undisturbed DEF EditProfile, Accepting
<1>7. ASSUME NEW f \in Faculty, NEW cap \in 0..CapLimit, SelfLoad(p, f, cap)
      PROVE  RowsStayLocked'
  BY <1>7, StartMoves DEF SelfLoad
<1>8. ASSUME NEW f \in Faculty, NEW cap \in (0..CapLimit) \cup {Keep},
             NEW asked \in {"on", "off", "keep"}, FacultyLoad(p, f, asked, cap)
      PROVE  RowsStayLocked'
  BY <1>8, StartMoves DEF FacultyLoad
<1> QED
  BY <1>1, <1>2, <1>3, <1>4, <1>5, <1>6, <1>7, <1>8 DEF Call

LEMMA AcceptWriteLocks ==
    ASSUME TypeOK, RowsStayLocked, NEW p \in Procs, AcceptWrite(p)
    PROVE  RowsStayLocked'
<1> DEFINE t == txn[p]
           u == [op |-> "accept_commit", r |-> t.r, old |-> t.old, cos |-> t.cos,
                 declined |-> Rivals(t.r)]
<1>1. txn' = [txn EXCEPT ![p] = u] /\ txn'[p] = u
  BY DEF AcceptWrite, TypeOK
<1>2. t \in AcceptTxn /\ t.r \in Requests /\ t.r.f \in Faculty
  BY TxnShape DEF AcceptWrite, AcceptTxn, Requests
<1>3. \A q \in Procs \ {p} : txn'[q] = txn[q] /\ (Accepting(q)' <=> Accepting(q))
  BY <1>1 DEF Accepting
<1>4. HoldsRows(u)
  <2>1. t.r.role = "supervisor" => filled[t.r.f] < max[t.r.f]
    BY <1>2 DEF AcceptWrite, CapacityOK, TypeOK
  <2> QED
    BY <2>1 DEF AcceptWrite, HoldsRows, Rivals
<1>5. ASSUME NEW q \in Procs \ {p}, Accepting(q) PROVE Apart(u, txn[q]) /\ Apart(txn[q], u)
  <2>1. Locked(u) \cap Locked(txn[q]) = {}
    BY <1>5 DEF AcceptWrite, RequestFree, Locked
  <2>2. t.r.role = "supervisor" /\ txn[q].r.role = "supervisor" => t.r.f # txn[q].r.f
    BY <1>5 DEF AcceptWrite, FacultyFree
  <2> QED
    BY <2>1, <2>2 DEF Apart
<1>6. ASSUME NEW q \in Procs, Accepting(q)' PROVE HoldsRows(txn[q])'
  <2>2. CASE q = p
    BY <1>1, <1>4, <2>2 DEF HoldsRows, Exists, AcceptWrite, rows
  <2>3. CASE q # p
    BY <1>3, <1>6, <2>3 DEF RowsStayLocked, HoldsRows, Exists, AcceptWrite, rows
  <2> QED
    BY <2>2, <2>3
<1>7. ASSUME NEW q \in Procs, NEW s \in Procs, q # s, Accepting(q)', Accepting(s)'
      PROVE  Apart(txn[q], txn[s])'
  <2>1. CASE q = p
    BY <1>1, <1>3, <1>5, <1>7, <2>1 DEF Apart, Locked
  <2>2. CASE s = p
    BY <1>1, <1>3, <1>5, <1>7, <2>2 DEF Apart, Locked
  <2>3. CASE q # p /\ s # p
    BY <1>3, <1>7, <2>3 DEF RowsStayLocked, Apart, Locked
  <2> QED
    BY <2>1, <2>2, <2>3
<1> QED
  BY <1>6, <1>7 DEF RowsStayLocked

LEMMA ProceedLocks ==
    ASSUME TypeOK, RowsStayLocked, NEW p \in Procs, Proceed(p)
    PROVE  RowsStayLocked'
<1> DEFINE t == txn[p]
<1>1. CASE SendCheck(p)
  <2>1. t \in SendTxn
    BY <1>1, TxnShape DEF SendCheck
  <2>2. [t EXCEPT !.op = "send_insert"].op # "accept_commit"
    BY <2>1 DEF SendTxn
  <2>3. \A q \in Procs : Accepting(q)' => Accepting(q) /\ txn'[q] = txn[q]
    BY <1>1, <2>2, FinishMoves, OneMoves DEF SendCheck
  <2> QED
    BY <1>1, <2>3, Undisturbed DEF SendCheck, rows
<1>2. CASE SendCommit(p)
  <2>1. PICK r \in Requests : status[r] = "unborn" /\ status' = [status EXCEPT ![r] = "pending"]
    BY <1>2 DEF SendCommit, Unborn
  <2>2. ASSUME NEW q \in Procs, Accepting(q), NEW s \in Locked(txn[q])
        PROVE  status'[s] = status[s]
    <3>1. s \in Requests /\ status[s] # "unborn"
      BY <2>2, LockedTyped DEF RowsStayLocked, HoldsRows, Exists, Locked
    <3> QED
      BY <2>1, <3>1 DEF TypeOK
  <2> QED
    BY <1>2, <2>2, FinishMoves, Undisturbed DEF SendCommit
<1>3. CASE AcceptWrite(p)
  BY <1>3, AcceptWriteLocks
<1>4. CASE AcceptCommit(p)
  <2>1. Accepting(p) /\ t.r \in Requests /\ t.r.f \in Faculty
    BY <1>4, LockedTyped DEF AcceptCommit, Accepting
  <2>2. ASSUME NEW q \in Procs, q # p, Accepting(q), NEW s \in Locked(txn[q])
        PROVE  status'[s] = status[s]
    <3>1. s \in Requests /\ s \notin Locked(t)
      BY <2>1, <2>2, LockedTyped DEF RowsStayLocked, Apart
    <3> QED
      BY <1>4, <3>1 DEF AcceptCommit, Locked
  <2>3. ASSUME NEW q \in Procs, q # p, Accepting(q), txn[q].r.role = "supervisor"
        PROVE  filled'[txn[q].r.f] = filled[txn[q].r.f]
    <3>1. txn[q].r.f \in Faculty /\ (Counted(t) => t.r.f # txn[q].r.f)
      BY <2>1, <2>3, LockedTyped DEF RowsStayLocked, Apart, Counted
    <3> QED
      BY <1>4, <2>1, <3>1 DEF AcceptCommit, TypeOK
  <2> QED
    BY <1>4, <2>2, <2>3, FinishMoves, Undisturbed DEF AcceptCommit
<1>5. CASE RejectCommit(p) \/ CancelCommit(p)
  <2>1. ASSUME NEW q \in Procs, Accepting(q), NEW s \in Locked(txn[q])
        PROVE  status'[s] = status[s]
    <3>1. s \in Requests /\ s # t.r
      BY <1>5, <2>1, LockedTyped DEF RejectCommit, CancelCommit, RequestFree, Locked
    <3> QED
      BY <1>5, <3>1 DEF RejectCommit, CancelCommit, TypeOK
  <2> QED
    BY <1>5, <2>1, FinishMoves, Undisturbed DEF RejectCommit, CancelCommit
<1>6. CASE AssignCommit(p)
  <2>1. ASSUME NEW q \in Procs, Accepting(q), txn[q].r.role = "supervisor"
        PROVE  filled'[txn[q].r.f] = filled[txn[q].r.f]
    <3>1. txn[q].r.f \in Faculty \ {t.f, t.old}
      BY <1>6, <2>1, LockedTyped DEF AssignCommit, FacultyFree
    <3> QED
      BY <1>6, <3>1 DEF AssignCommit
  <2> QED
    BY <1>6, <2>1, FinishMoves, Undisturbed DEF AssignCommit
<1>7. CASE RemoveCommit(p)
  <2>1. ASSUME NEW q \in Procs, Accepting(q), txn[q].r.role = "supervisor"
        PROVE  filled'[txn[q].r.f] = filled[txn[q].r.f]
    <3>1. txn[q].r.f \in Faculty \ {t.old}
      BY <1>7, <2>1, LockedTyped DEF RemoveCommit, FacultyFree
    <3> QED
      BY <1>7, <3>1 DEF RemoveCommit, TypeOK
  <2> QED
    BY <1>7, <2>1, FinishMoves, Undisturbed DEF RemoveCommit
<1>8. CASE CoCommit(p)
  BY <1>8, FinishMoves, Undisturbed DEF CoCommit
<1>9. CASE FacultyCommit(p)
  <2>1. ASSUME NEW q \in Procs, Accepting(q), txn[q].r.role = "supervisor"
        PROVE  max'[txn[q].r.f] = max[txn[q].r.f]
    <3>1. txn[q].r.f \in Faculty \ {t.f}
      BY <1>9, <2>1, LockedTyped DEF FacultyCommit, FacultyFree
    <3> QED
      BY <1>9, <3>1 DEF FacultyCommit, TypeOK
  <2> QED
    BY <1>9, <2>1, FinishMoves, Undisturbed DEF FacultyCommit
<1>10. CASE Abort(p)
  BY <1>10, FinishMoves, Undisturbed DEF Abort, rows
<1> QED
  BY <1>1, <1>2, <1>3, <1>4, <1>5, <1>6, <1>7, <1>8, <1>9, <1>10 DEF Proceed

LEMMA NextLocks == TypeOK /\ RowsStayLocked /\ [Next]_vars => RowsStayLocked'
<1> SUFFICES ASSUME TypeOK, RowsStayLocked, [Next]_vars PROVE RowsStayLocked'
  OBVIOUS
<1>1. CASE Crash
  BY <1>1, Undisturbed DEF Crash, Accepting, Idle
<1>2. CASE UNCHANGED vars
  BY <1>2, Undisturbed DEF vars, Accepting
<1> QED
  BY <1>1, <1>2, CallLocks, ProceedLocks DEF Next

(* The rows an accept has written stay as it found them until it commits.  *)
THEOREM LocksProtect == Spec => []RowsStayLocked
<1>1. Init => RowsStayLocked
  BY DEF Init, RowsStayLocked, Accepting, Idle
<1> QED
  BY <1>1, NextLocks, TypeCorrect, PTL DEF Spec

-----------------------------------------------------------------------------
(* What follows from the locks.                                            *)

LEMMA NextCapacity ==
    TypeOK /\ RowsStayLocked /\ CapacityRespected /\ [Next]_vars => CapacityRespected'
<1> SUFFICES ASSUME TypeOK, RowsStayLocked, CapacityRespected, [Next]_vars
             PROVE  CapacityRespected'
  OBVIOUS
<1>1. CASE UNCHANGED <<filled, max>>
  BY <1>1 DEF CapacityRespected
<1>2. ASSUME NEW p \in Procs, AcceptCommit(p) PROVE CapacityRespected'
  <2>1. txn[p].r.role = "supervisor" => filled[txn[p].r.f] < max[txn[p].r.f]
    BY <1>2 DEF RowsStayLocked, HoldsRows, AcceptCommit, Accepting
  <2> QED
    BY <1>2, <2>1 DEF AcceptCommit, Counted, CapacityRespected, TypeOK
<1>3. ASSUME NEW p \in Procs, AssignCommit(p) PROVE CapacityRespected'
  <2>1. txn[p].f \in Faculty /\ txn[p].old \in Faculty \cup {None}
    BY <1>3, TxnShape DEF AssignCommit, AssignTxn
  <2> QED
    BY <1>3, <2>1, SupervisionAssumptions
    DEF AssignCommit, AssignOK, CapacityOK, CapacityRespected, TypeOK
<1>4. ASSUME NEW p \in Procs, RemoveCommit(p) PROVE CapacityRespected'
  BY <1>4 DEF RemoveCommit, RemoveOK, CapacityOK, CapacityRespected, TypeOK
<1>5. ASSUME NEW p \in Procs, FacultyCommit(p) PROVE CapacityRespected'
  BY <1>5 DEF FacultyCommit, FacultyOK, CapacityOK, CapacityRespected, TypeOK
<1>6. ASSUME NEW p \in Procs, Call(p) PROVE UNCHANGED <<filled, max>>
  BY <1>6 DEF Call, SendLoad, AssignLoad, AssignCoLoad, RemoveCoLoad, AcceptLoad, RejectLoad,
              CancelLoad, RemoveLoad, DeleteGroup, EditProfile, SelfLoad, FacultyLoad, Start, rows
<1>7. ASSUME NEW p \in Procs, Proceed(p)
      PROVE  \/ UNCHANGED <<filled, max>>
             \/ AcceptCommit(p) \/ AssignCommit(p) \/ RemoveCommit(p) \/ FacultyCommit(p)
  BY <1>7 DEF Proceed, SendCheck, SendCommit, AcceptWrite, RejectCommit, CancelCommit, CoCommit,
              Abort, rows
<1> QED
  BY <1>1, <1>2, <1>3, <1>4, <1>5, <1>6, <1>7 DEF Next, Crash, rows, vars

(* No interleaving of handlers takes a counter past its capacity.          *)
THEOREM CapacitySafe == Spec => []CapacityRespected
<1>1. Init => CapacityRespected
  BY SupervisionAssumptions DEF Init, CapacityRespected
<1> QED
  BY <1>1, NextCapacity, TypeCorrect, LocksProtect, PTL DEF Spec

LEMMA NextRequests ==
    TypeOK /\ RowsStayLocked /\ RequestsHaveGroup /\ [Next]_vars => RequestsHaveGroup'
<1> SUFFICES ASSUME TypeOK, RowsStayLocked, RequestsHaveGroup, [Next]_vars,
                    NEW r \in Requests, Exists(r)'
             PROVE  r.g \in alive'
  BY DEF RequestsHaveGroup, Exists
<1>1. CASE alive' = alive /\ status'[r] = status[r]
  BY <1>1 DEF RequestsHaveGroup, Exists
<1>2. ASSUME NEW p \in Procs, SendCommit(p) PROVE r.g \in alive'
  <2>1. PICK s \in Requests : s.g = txn[p].g /\ status' = [status EXCEPT ![s] = "pending"]
    BY <1>2 DEF SendCommit, Unborn
  <2>2. CASE r = s
    BY <1>2, <2>1, <2>2 DEF SendCommit
  <2>3. CASE r # s
    BY <1>1, <1>2, <2>1, <2>3 DEF SendCommit, TypeOK
  <2> QED
    BY <2>2, <2>3
<1>3. ASSUME NEW p \in Procs, AcceptCommit(p) PROVE r.g \in alive'
  <2>1. r \in Locked(txn[p]) => Exists(r)
    BY <1>3 DEF AcceptCommit, Accepting, RowsStayLocked, HoldsRows, Locked, Exists
  <2>2. r \notin Locked(txn[p]) => status'[r] = status[r]
    BY <1>3 DEF AcceptCommit, Locked
  <2> QED
    BY <1>1, <1>3, <2>1, <2>2 DEF AcceptCommit, RequestsHaveGroup
<1>4. ASSUME NEW p \in Procs, RejectCommit(p) PROVE r.g \in alive'
  BY <1>4 DEF RejectCommit, RequestsHaveGroup, Exists, TypeOK
<1>5. ASSUME NEW p \in Procs, CancelCommit(p) PROVE r.g \in alive'
  BY <1>5 DEF CancelCommit, RequestsHaveGroup, Exists, TypeOK
<1>6. ASSUME NEW p \in Procs, NEW g \in Groups, DeleteGroup(p, g) PROVE r.g \in alive'
  BY <1>6 DEF DeleteGroup, Cascade, RequestsHaveGroup, Exists
<1>7. ASSUME NEW p \in Procs, Call(p)
      PROVE  UNCHANGED <<alive, status>> \/ \E g \in Groups : DeleteGroup(p, g)
  BY <1>7 DEF Call, SendLoad, AssignLoad, AssignCoLoad, RemoveCoLoad, AcceptLoad, RejectLoad,
              CancelLoad, RemoveLoad, EditProfile, SelfLoad, FacultyLoad, Start, rows
<1>8. ASSUME NEW p \in Procs, Proceed(p)
      PROVE  \/ UNCHANGED <<alive, status>>
             \/ SendCommit(p) \/ AcceptCommit(p) \/ RejectCommit(p) \/ CancelCommit(p)
  BY <1>8 DEF Proceed, SendCheck, AcceptWrite, AssignCommit, RemoveCommit, CoCommit, FacultyCommit,
              Abort, rows
<1> QED
  BY <1>1, <1>2, <1>3, <1>4, <1>5, <1>6, <1>7, <1>8 DEF Next, Crash, rows, vars

(* No request row is ever left without its group.                          *)
THEOREM NoOrphanRequest == Spec => []RequestsHaveGroup
<1>1. Init => RequestsHaveGroup
  BY DEF Init, RequestsHaveGroup, Exists
<1> QED
  BY <1>1, NextRequests, TypeCorrect, LocksProtect, PTL DEF Spec

(* An accept that commits declines pending requests only, although it      *)
(* chose them in an earlier step.                                          *)
THEOREM AutoDeclineSafe == Spec => AutoDeclineSparesAnswered
<1>1. RowsStayLocked => [\A p \in Procs : AutoDecline(p)]_vars
  <2> SUFFICES ASSUME RowsStayLocked, NEW p \in Procs, AcceptCommit(p),
                      NEW s \in Requests \ {txn[p].r}, status'[s] # status[s]
               PROVE  status[s] = "pending" /\ status'[s] = "declined"
    BY DEF AutoDecline
  <2>1. s \in txn[p].declined
    BY DEF AcceptCommit
  <2> QED
    BY <2>1 DEF AcceptCommit, Accepting, RowsStayLocked, HoldsRows
<1> QED
  BY <1>1, LocksProtect, PTL DEF AutoDeclineSparesAnswered

------------------------------------------------------------------------------
(* The capacity ledger.                                                    *)

(* Sets of groups are finite, so their cardinalities are numbers, ordered  *)
(* by inclusion and changed by one when one group comes or goes.           *)
LEMMA GroupSets ==
    ASSUME NEW S \in SUBSET Groups
    PROVE  /\ IsFiniteSet(S)
           /\ Cardinality(S) \in Nat
           /\ \A T \in SUBSET S : Cardinality(T) <= Cardinality(S)
           /\ \A g \in Groups : Cardinality(S \cup {g}) <= Cardinality(S) + 1
           /\ \A g \in S : Cardinality(S \ {g}) = Cardinality(S) - 1
<1>1. IsFiniteSet(S)
  BY FS_Subset, SupervisionAssumptions
<1>2. Cardinality(S) \in Nat
  BY <1>1, FS_CardinalityType
<1>3. ASSUME NEW T \in SUBSET S PROVE Cardinality(T) <= Cardinality(S)
  BY <1>1, FS_Subset
<1>4. ASSUME NEW g \in Groups PROVE Cardinality(S \cup {g}) <= Cardinality(S) + 1
  <2>1. Cardinality(S \cup {g}) = IF g \in S THEN Cardinality(S) ELSE Cardinality(S) + 1
    BY <1>1, FS_AddElement
  <2> QED
    BY <2>1, <1>2
<1>5. ASSUME NEW g \in S PROVE Cardinality(S \ {g}) = Cardinality(S) - 1
  BY <1>1, FS_RemoveElement
<1> QED
  BY <1>1, <1>2, <1>3, <1>4, <1>5

(* Every column keeps its type.                                            *)
THEOREM LedgerType == Ledger!Spec => []Ledger!LedgerTypeOK
<1>. Capacities \subseteq Nat
  BY SupervisionAssumptions DEF Capacities
<1> USE SupervisionAssumptions
<1>1. Ledger!Init => Ledger!LedgerTypeOK
  BY DEF Ledger!Init, Ledger!LedgerTypeOK
<1>2. Ledger!LedgerTypeOK /\ [Ledger!Next]_(Ledger!ledger) => Ledger!LedgerTypeOK'
  <2> SUFFICES ASSUME Ledger!LedgerTypeOK, [Ledger!Next]_(Ledger!ledger) PROVE Ledger!LedgerTypeOK'
    OBVIOUS
  <2> USE DEF Ledger!LedgerTypeOK
  <2>1. ASSUME NEW g \in Groups, NEW f \in Faculty, Ledger!Accept(g, f) PROVE Ledger!LedgerTypeOK'
    BY <2>1 DEF Ledger!Accept
  <2>2. ASSUME NEW g \in Groups, NEW f \in Faculty, Ledger!Assign(g, f) PROVE Ledger!LedgerTypeOK'
    <3>1. sup[g] # None => sup[g] \in Faculty /\ filled[sup[g]] - 1 \in Nat
      BY <2>2 DEF Ledger!Assign
    <3>2. filled' \in [Faculty -> Nat]
      BY <2>2, <3>1 DEF Ledger!Assign
    <3> QED
      BY <2>2, <3>2 DEF Ledger!Assign
  <2>3. ASSUME NEW g \in Groups, Ledger!Remove(g) PROVE Ledger!LedgerTypeOK'
    <3>1. sup[g] \in Faculty /\ filled[sup[g]] - 1 \in Nat
      BY <2>3 DEF Ledger!Remove
    <3> QED
      BY <2>3, <3>1 DEF Ledger!Remove
  <2>4. ASSUME NEW g \in Groups, Ledger!Delete(g) PROVE Ledger!LedgerTypeOK'
    BY <2>4 DEF Ledger!Delete
  <2>5. ASSUME NEW f \in Faculty, NEW c \in Capacities, Ledger!SetCapacity(f, c)
        PROVE  Ledger!LedgerTypeOK'
    BY <2>5 DEF Ledger!SetCapacity
  <2>6. CASE UNCHANGED Ledger!ledger
    BY <2>6 DEF Ledger!ledger
  <2> QED
    BY <2>1, <2>2, <2>3, <2>4, <2>5, <2>6 DEF Ledger!Next
<1> QED
  BY <1>1, <1>2, PTL DEF Ledger!Spec

Balanced == FilledCoversSupervised /\ \A f \in Faculty : filled[f] <= max[f]

LEMMA BalanceStated == Balanced <=> Ledger!LedgerBalanced
BY DEF Balanced, FilledCoversSupervised, Supervised, Ledger!LedgerBalanced, Ledger!Supervised,
       Cardinality, Ledger!Cardinality

(* Nobody supervises more groups than their counter says, and no counter   *)
(* passes the capacity: displaced supervisors and deleted groups only make *)
(* the counter say too much.                                               *)
THEOREM LedgerBalance == Ledger!Spec => []Ledger!LedgerBalanced
<1>. Capacities \subseteq Nat
  BY SupervisionAssumptions DEF Capacities
<1> USE SupervisionAssumptions
<1>1. Ledger!Init => Balanced
  <2> SUFFICES ASSUME Ledger!Init, NEW f \in Faculty
               PROVE  Cardinality(Supervised(f)) <= filled[f] /\ filled[f] <= max[f]
    BY DEF Balanced, FilledCoversSupervised
  <2>1. Supervised(f) = {}
    BY DEF Ledger!Init, Supervised
  <2> QED
    BY <2>1, FS_EmptySet DEF Ledger!Init
<1>2. Ledger!LedgerTypeOK /\ Ledger!LedgerTypeOK' /\ Balanced /\ [Ledger!Next]_(Ledger!ledger)
      => Balanced'
  <2> SUFFICES ASSUME Ledger!LedgerTypeOK, Ledger!LedgerTypeOK', Balanced,
                      [Ledger!Next]_(Ledger!ledger), NEW e \in Faculty
               PROVE  /\ Cardinality(Supervised(e)') <= filled'[e]
                      /\ filled'[e] <= max'[e]
    BY DEF Balanced, FilledCoversSupervised
  <2> DEFINE S == Supervised(e)
  <2>1. /\ S \in SUBSET Groups
        /\ S' \in SUBSET Groups
        /\ Cardinality(S) <= filled[e]
        /\ filled[e] <= max[e]
        /\ filled[e] \in Nat /\ filled'[e] \in Nat
        /\ max[e] \in Nat /\ max'[e] \in Nat
    BY DEF Supervised, Balanced, FilledCoversSupervised, Ledger!LedgerTypeOK
  <2>2. Cardinality(S) \in Nat /\ Cardinality(S') \in Nat
    BY <2>1, GroupSets
  <2>3. S' \subseteq S => Cardinality(S') <= Cardinality(S)
    BY <2>1, GroupSets
  <2>4. ASSUME NEW g \in Groups, S' \subseteq S \cup {g}
        PROVE  Cardinality(S') <= Cardinality(S) + 1
    <3>1. Cardinality(S') <= Cardinality(S \cup {g}) /\ Cardinality(S \cup {g}) \in Nat
      BY <2>1, <2>4, GroupSets
    <3>2. Cardinality(S \cup {g}) <= Cardinality(S) + 1
      BY <2>1, GroupSets
    <3> QED
      BY <3>1, <3>2, <2>2
  <2>5. ASSUME NEW g \in S, S' \subseteq S \ {g}
        PROVE  Cardinality(S') <= Cardinality(S) - 1
    <3>1. Cardinality(S') <= Cardinality(S \ {g})
      BY <2>1, <2>5, GroupSets
    <3>2. Cardinality(S \ {g}) = Cardinality(S) - 1
      BY <2>1, <2>5, GroupSets
    <3> QED
      BY <3>1, <3>2
  <2> HIDE DEF S
  <2>6. ASSUME NEW g \in Groups, NEW f \in Faculty, Ledger!Accept(g, f)
        PROVE  Cardinality(S') <= filled'[e] /\ filled'[e] <= max'[e]
    <3>1. CASE e = f
      <4>1. S' \subseteq S \cup {g}
        BY <2>6 DEF Ledger!Accept, Supervised, Ledger!LedgerTypeOK, S
      <4> QED
        BY <2>1, <2>2, <2>4, <2>6, <3>1, <4>1 DEF Ledger!Accept, Ledger!LedgerTypeOK
    <3>2. CASE e # f
      <4>1. S' \subseteq S
        BY <2>6, <3>2 DEF Ledger!Accept, Supervised, Ledger!LedgerTypeOK, S
      <4> QED
        BY <2>1, <2>2, <2>3, <2>6, <3>2, <4>1 DEF Ledger!Accept, Ledger!LedgerTypeOK
    <3> QED
      BY <3>1, <3>2
  <2>7. ASSUME NEW g \in Groups, NEW f \in Faculty, Ledger!Assign(g, f)
        PROVE  Cardinality(S') <= filled'[e] /\ filled'[e] <= max'[e]
    <3>1. CASE e = f
      <4>1. S' \subseteq S \cup {g}
        BY <2>7 DEF Ledger!Assign, Supervised, Ledger!LedgerTypeOK, S
      <4> QED
        BY <2>1, <2>2, <2>4, <2>7, <3>1, <4>1 DEF Ledger!Assign, Ledger!LedgerTypeOK
    <3>2. CASE e # f /\ e = sup[g]
      <4>1. g \in S /\ S' \subseteq S \ {g}
        BY <2>7, <3>2 DEF Ledger!Assign, Supervised, Ledger!LedgerTypeOK, S
      <4> QED
        BY <2>1, <2>2, <2>5, <2>7, <3>2, <4>1 DEF Ledger!Assign, Ledger!LedgerTypeOK
    <3>3. CASE e # f /\ e # sup[g]
      <4>1. S' \subseteq S
        BY <2>7, <3>3 DEF Ledger!Assign, Supervised, Ledger!LedgerTypeOK, S
      <4> QED
        BY <2>1, <2>2, <2>3, <2>7, <3>3, <4>1 DEF Ledger!Assign, Ledger!LedgerTypeOK
    <3> QED
      BY <3>1, <3>2, <3>3
  <2>8. ASSUME NEW g \in Groups, Ledger!Remove(g)
        PROVE  Cardinality(S') <= filled'[e] /\ filled'[e] <= max'[e]
    <3>1. CASE e = sup[g]
      <4>1. g \in S /\ S' \subseteq S \ {g}
        BY <2>8, <3>1 DEF Ledger!Remove, Supervised, Ledger!LedgerTypeOK, S
      <4> QED
        BY <2>1, <2>2, <2>5, <2>8, <3>1, <4>1 DEF Ledger!Remove, Ledger!LedgerTypeOK
    <3>2. CASE e # sup[g]
      <4>1. S' \subseteq S
        BY <2>8 DEF Ledger!Remove, Supervised, Ledger!LedgerTypeOK, S
      <4> QED
        BY <2>1, <2>2, <2>3, <2>8, <3>2, <4>1 DEF Ledger!Remove, Ledger!LedgerTypeOK
    <3> QED
      BY <3>1, <3>2
  <2>9. ASSUME NEW g \in Groups, Ledger!Delete(g)
        PROVE  Cardinality(S') <= filled'[e] /\ filled'[e] <= max'[e]
    <3>1. S' \subseteq S
      BY <2>9 DEF Ledger!Delete, Supervised, Ledger!LedgerTypeOK, S
    <3> QED
      BY <2>1, <2>2, <2>3, <2>9, <3>1 DEF Ledger!Delete
  <2>10. ASSUME NEW f \in Faculty, NEW c \in Capacities, Ledger!SetCapacity(f, c)
         PROVE  Cardinality(S') <= filled'[e] /\ filled'[e] <= max'[e]
    <3>1. S' = S
      BY <2>10 DEF Ledger!SetCapacity, Supervised, S
    <3> QED
      BY <2>1, <2>2, <2>3, <2>10, <3>1 DEF Ledger!SetCapacity, Ledger!LedgerTypeOK
  <2>11. ASSUME UNCHANGED Ledger!ledger
         PROVE  Cardinality(S') <= filled'[e] /\ filled'[e] <= max'[e]
    <3>1. S' = S
      BY <2>11 DEF Ledger!ledger, Supervised, S
    <3> QED
      BY <2>1, <2>2, <2>3, <2>11, <3>1 DEF Ledger!ledger
  <2> QED
    BY <2>6, <2>7, <2>8, <2>9, <2>10, <2>11 DEF Ledger!Next, S
<1> QED
  BY <1>1, <1>2, LedgerType, BalanceStated, PTL DEF Ledger!Spec

------------------------------------------------------------------------------
(* The handlers implement the ledger.                                      *)

(* What a handler loaded is still so when it commits: nobody else moves.   *)
Fresh(t) ==
    /\ t.op \in {"accept", "accept_commit"} => t.old = sup[t.r.g]
    /\ t.op = "assign" => t.g \in alive /\ t.old = sup[t.g] /\ t.f # sup[t.g]
    /\ t.op = "remove" => t.g \in alive /\ t.old = sup[t.g]
    /\ t.op = "faculty" => t.cap \in Capacities \cup {Keep}
AllFresh == \A p \in Procs : Fresh(txn[p])

LEMMA CallFresh ==
    ASSUME OneAtATime, TypeOK, AllFresh, NEW p \in Procs, Call(p)
    PROVE  AllFresh'
<1>1. Procs = {p}
  BY DEF OneAtATime
<1> SUFFICES Fresh(txn[p])'
  BY <1>1 DEF AllFresh
<1>2. ASSUME NEW op, NEW t, Start(p, op, t)
      PROVE  txn'[p] = t /\ UNCHANGED <<alive, sup>>
  BY <1>2 DEF Start, rows, TypeOK
<1>3. ASSUME NEW g \in Groups, NEW f \in Faculty,
             \/ \E role \in Roles : SendLoad(p, g, f, role)
             \/ AssignCoLoad(p, g, f) \/ RemoveCoLoad(p, g, f)
      PROVE  Fresh(txn[p])'
  <2>1. \A role \in Roles : SendLoad(p, g, f, role) => txn'[p].op = "send"
    BY <1>2 DEF SendLoad
  <2>2. AssignCoLoad(p, g, f) => txn'[p].op = "assign_co"
    BY <1>2 DEF AssignCoLoad
  <2>3. RemoveCoLoad(p, g, f) => txn'[p].op = "remove_co"
    BY <1>2 DEF RemoveCoLoad
  <2> QED
    BY <1>3, <2>1, <2>2, <2>3 DEF Fresh
<1>4. ASSUME NEW g \in Groups, NEW f \in Faculty, AssignLoad(p, g, f)
      PROVE  Fresh(txn[p])'
  BY <1>2, <1>4 DEF AssignLoad, Fresh
<1>5. ASSUME NEW r \in Requests, AcceptLoad(p, r) \/ RejectLoad(p, r) \/ CancelLoad(p, r)
      PROVE  Fresh(txn[p])'
  BY <1>2, <1>5 DEF AcceptLoad, RejectLoad, CancelLoad, Fresh
<1>6. ASSUME NEW g \in Groups, RemoveLoad(p, g) PROVE Fresh(txn[p])'
  BY <1>2, <1>6 DEF RemoveLoad, Fresh
<1>7. ASSUME NEW g \in Groups, DeleteGroup(p, g) PROVE Fresh(txn[p])'
  BY <1>7 DEF DeleteGroup, Fresh, Idle
<1>8. ASSUME NEW f \in Faculty, NEW cap \in 0..CapLimit, SelfLoad(p, f, cap)
      PROVE  Fresh(txn[p])'
  BY <1>2, <1>8 DEF SelfLoad, Fresh, Capacities
<1>9. ASSUME NEW f \in Faculty, NEW cap \in (0..CapLimit) \cup {Keep},
             NEW asked \in {"on", "off", "keep"}, FacultyLoad(p, f, asked, cap)
      PROVE  Fresh(txn[p])'
  <2>1. CapToApply(f, asked, cap) \in Capacities \cup {Keep}
    BY SupervisionAssumptions DEF CapToApply, Capacities
  <2>2. txn'[p].op = "faculty" /\ txn'[p].cap \in Capacities \cup {Keep}
    BY <1>2, <1>9, <2>1 DEF FacultyLoad
  <2> QED
    BY <2>2 DEF Fresh
<1>10. ~ \E g \in Groups, f \in Faculty \cup {None}, cos \in SUBSET Faculty :
            EditProfile(p, g, f, cos)
  BY DEF OneAtATime, EditProfile
<1> QED
  BY <1>3, <1>4, <1>5, <1>6, <1>7, <1>8, <1>9, <1>10 DEF Call

LEMMA ProceedFresh ==
    ASSUME OneAtATime, TypeOK, AllFresh, NEW p \in Procs, Proceed(p)
    PROVE  AllFresh'
<1>1. Procs = {p}
  BY DEF OneAtATime
<1> SUFFICES Fresh(txn[p])'
  BY <1>1 DEF AllFresh
<1>2. CASE SendCheck(p)
  <2>1. txn[p] \in SendTxn
    BY <1>2, TxnShape DEF SendCheck
  <2>2. txn'[p].op \in {"idle", "send_insert"}
    BY <1>2, <2>1 DEF SendCheck, SendTxn, Finish, Idle, TypeOK
  <2> QED
    BY <2>2 DEF Fresh
<1>3. CASE AcceptWrite(p)
  BY <1>3 DEF AcceptWrite, AllFresh, Fresh, rows, TypeOK
<1>4. CASE Finish(p)
  BY <1>4 DEF Finish, Idle, Fresh, TypeOK
<1> QED
  BY <1>2, <1>3, <1>4 DEF Proceed, SendCommit, AcceptCommit, RejectCommit, CancelCommit,
     AssignCommit, RemoveCommit, CoCommit, FacultyCommit, Abort

LEMMA NextFresh == OneAtATime => (TypeOK /\ AllFresh /\ [Next]_vars => AllFresh')
<1> SUFFICES ASSUME OneAtATime, TypeOK, AllFresh, [Next]_vars PROVE AllFresh'
  OBVIOUS
<1>1. CASE Crash
  BY <1>1 DEF Crash, AllFresh, Fresh, Idle
<1>2. CASE UNCHANGED vars
  BY <1>2 DEF vars, AllFresh, Fresh
<1> QED
  BY <1>1, <1>2, CallFresh, ProceedFresh DEF Next

(* Every step of a handler is an operation of the ledger or leaves it be.  *)
LEMMA StepImplements ==
    ASSUME TypeOK, AllFresh, RowsStayLocked, RequestsHaveGroup, "edit" \notin Ops, [Next]_vars
    PROVE  [Ledger!Next]_(Ledger!ledger)
<1> USE DEF Ledger!ledger
<1>1. CASE UNCHANGED Ledger!ledger
  BY <1>1
<1>2. ASSUME NEW p \in Procs, AcceptCommit(p) PROVE [Ledger!Next]_(Ledger!ledger)
  <2> DEFINE r == txn[p].r
  <2>1. Accepting(p) /\ r \in Requests /\ r.f \in Faculty /\ r.g \in Groups
    BY <1>2, LockedTyped DEF AcceptCommit, Accepting
  <2>2. r.g \in alive /\ txn[p].old = sup[r.g]
    BY <2>1 DEF RowsStayLocked, HoldsRows, RequestsHaveGroup, AllFresh, Fresh, Accepting
  <2>3. CASE r.role = "supervisor"
    <3>1. filled[r.f] < max[r.f]
      BY <2>1, <2>3 DEF RowsStayLocked, HoldsRows
    <3>2. sup' = [sup EXCEPT ![r.g] = r.f]
      BY <1>2, <2>1, <2>2, <2>3 DEF AcceptCommit, SetsSupervisor, TypeOK
    <3>3. Ledger!Accept(r.g, r.f)
      BY <1>2, <2>2, <2>3, <3>1, <3>2 DEF AcceptCommit, Counted, Ledger!Accept
    <3> QED
      BY <2>1, <3>3 DEF Ledger!Next
  <2>4. CASE r.role # "supervisor"
    BY <1>2, <2>4 DEF AcceptCommit, Counted, SetsSupervisor
  <2> QED
    BY <2>3, <2>4
<1>3. ASSUME NEW p \in Procs, AssignCommit(p) PROVE [Ledger!Next]_(Ledger!ledger)
  <2>1. txn[p].g \in Groups /\ txn[p].f \in Faculty
    BY <1>3, TxnShape DEF AssignCommit, AssignTxn
  <2>2. Ledger!Assign(txn[p].g, txn[p].f)
    BY <1>3, <2>1 DEF AssignCommit, AssignOK, CapacityOK, AllFresh, Fresh, TypeOK, Ledger!Assign
  <2> QED
    BY <2>1, <2>2 DEF Ledger!Next
<1>4. ASSUME NEW p \in Procs, RemoveCommit(p) PROVE [Ledger!Next]_(Ledger!ledger)
  <2>1. txn[p].g \in Groups /\ txn[p].old \in Faculty
    BY <1>4, TxnShape DEF RemoveCommit, RemoveTxn
  <2>2. txn[p].g \in alive /\ txn[p].old = sup[txn[p].g]
    BY <1>4 DEF RemoveCommit, AllFresh, Fresh
  <2>3. filled[txn[p].old] > 0
    BY <1>4, <2>1 DEF RemoveCommit, RemoveOK, CapacityOK, TypeOK
  <2>4. Ledger!Remove(txn[p].g)
    BY <1>4, <2>1, <2>2, <2>3, SupervisionAssumptions DEF RemoveCommit, Ledger!Remove
  <2> QED
    BY <2>1, <2>4 DEF Ledger!Next
<1>5. ASSUME NEW p \in Procs, FacultyCommit(p) PROVE [Ledger!Next]_(Ledger!ledger)
  <2>1. txn[p].f \in Faculty
    BY <1>5, TxnShape DEF FacultyCommit, FacultyTxn
  <2>2. CASE txn[p].cap = Keep
    <3>1. max' = max
      BY <1>5, <2>2 DEF FacultyCommit, TypeOK
    <3> QED
      BY <1>5, <3>1 DEF FacultyCommit
  <2>3. CASE txn[p].cap # Keep
    <3>1. txn[p].cap \in Capacities
      BY <1>5, <2>3 DEF FacultyCommit, AllFresh, Fresh
    <3>2. txn[p].cap \in Int
      BY <3>1, SupervisionAssumptions DEF Capacities
    <3>3. Ledger!SetCapacity(txn[p].f, txn[p].cap)
      BY <1>5, <2>1, <2>3, <3>2
      DEF FacultyCommit, FacultyOK, CapacityOK, TypeOK, Ledger!SetCapacity
    <3> QED
      BY <2>1, <3>1, <3>3 DEF Ledger!Next
  <2> QED
    BY <2>2, <2>3
<1>6. ASSUME NEW p \in Procs, NEW g \in Groups, DeleteGroup(p, g)
      PROVE  [Ledger!Next]_(Ledger!ledger)
  BY <1>6 DEF DeleteGroup, Ledger!Delete, Ledger!Next
<1>7. ASSUME NEW p \in Procs, Call(p)
      PROVE  UNCHANGED Ledger!ledger \/ \E g \in Groups : DeleteGroup(p, g)
  BY <1>7 DEF Call, SendLoad, AssignLoad, AssignCoLoad, RemoveCoLoad, AcceptLoad, RejectLoad,
              CancelLoad, RemoveLoad, EditProfile, SelfLoad, FacultyLoad, Start, rows
<1>8. ASSUME NEW p \in Procs, Proceed(p)
      PROVE  \/ UNCHANGED Ledger!ledger
             \/ AcceptCommit(p) \/ AssignCommit(p) \/ RemoveCommit(p) \/ FacultyCommit(p)
  BY <1>8 DEF Proceed, SendCheck, SendCommit, AcceptWrite, RejectCommit, CancelCommit, CoCommit,
              Abort, rows
<1> QED
  BY <1>1, <1>2, <1>3, <1>4, <1>5, <1>6, <1>7, <1>8 DEF Next, Crash, rows, vars

(* One handler at a time, every behaviour of the handlers is, in the       *)
(* columns the ledger is about, a behaviour of the ledger.                 *)
THEOREM SerialRefinement == OneAtATime => (Spec => ImplementsLedger)
<1> SUFFICES ASSUME OneAtATime PROVE Spec => ImplementsLedger
  OBVIOUS
<1>1. Init => AllFresh /\ Ledger!Init
  BY DEF Init, AllFresh, Fresh, Idle, Ledger!Init
<1>2. TypeOK /\ AllFresh /\ [Next]_vars => AllFresh'
  BY NextFresh
<1>3. TypeOK /\ AllFresh /\ RowsStayLocked /\ RequestsHaveGroup /\ [Next]_vars
      => [Ledger!Next]_(Ledger!ledger)
  BY StepImplements DEF OneAtATime
<1> QED
  BY <1>1, <1>2, <1>3, TypeCorrect, LocksProtect, NoOrphanRequest, PTL
  DEF Spec, ImplementsLedger, Ledger!Spec

(* So no faculty member ever supervises more groups than their counter     *)
(* says: the balance of the ledger, carried over to the handlers.          *)
THEOREM SerialBalance == OneAtATime => (Spec => []FilledCoversSupervised)
<1>1. Balanced => FilledCoversSupervised
  BY DEF Balanced, FilledCoversSupervised
<1> QED
  BY <1>1, SerialRefinement, LedgerBalance, BalanceStated, PTL DEF ImplementsLedger
=============================================================================
