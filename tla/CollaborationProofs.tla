-------------------------- MODULE CollaborationProofs --------------------------
(* Two things students of a group share, and what each implements.  A      *)
(* document is a compare-and-set register, for any number of students,     *)
(* edits, proposals and handlers.  Chat turns make a room that answers one *)
(* request after the other, for any number of requests, rooms, workers and *)
(* restarts, with and without Redis.                                       *)
EXTENDS DocumentsRefinement, ChatTurnsRefinement, TLAPS

-----------------------------------------------------------------------------
(* Documents.                                                              *)

(* The operation a handler is at tells what it remembers.                  *)
LEMMA TxnShape ==
    ASSUME TypeOK, NEW p \in Procs
    PROVE  /\ txn[p].op \in {"save", "save_commit", "restore", "restore_number"} =>
                  txn[p] \in WriteTxn
           /\ txn[p].op \in {"apply", "apply_commit"} => txn[p] \in ApplyTxn
           /\ txn[p].op = "resolve" => txn[p] \in ResolveTxn
           /\ txn[p].op = "restore_commit" => txn[p] \in RestoredTxn
           /\ txn[p].op = "snap_number" => txn[p] \in SnapTxn
           /\ txn[p].op = "snap_commit" => txn[p] \in SnappedTxn
<1>1. txn[p] \in Txn
  BY DEF TypeOK
<1>2. CASE txn[p] = Idle
  BY <1>2 DEF Idle
<1>3. CASE txn[p] \in WriteTxn
  BY <1>3 DEF WriteTxn
<1>4. CASE txn[p] \in ApplyTxn
  BY <1>4 DEF ApplyTxn
<1>5. CASE txn[p] \in ResolveTxn
  BY <1>5 DEF ResolveTxn
<1>6. CASE txn[p] \in RestoredTxn
  BY <1>6 DEF RestoredTxn
<1>7. CASE txn[p] \in SnapTxn
  BY <1>7 DEF SnapTxn
<1>8. CASE txn[p] \in SnappedTxn
  BY <1>8 DEF SnappedTxn
<1> QED
  BY <1>1, <1>2, <1>3, <1>4, <1>5, <1>6, <1>7, <1>8 DEF Txn

(* What an UPDATE of the draft carries.                                    *)
LEMMA UpdateShape ==
    ASSUME TypeOK, NEW p \in Procs,
           \/ Writing(p)
           \/ txn[p].op \in {"save", "apply", "restore"}
    PROVE  txn[p].u \in Users /\ txn[p].new \in Texts /\ txn[p].expected \in Nat
<1>1. txn[p] \in WriteTxn \cup ApplyTxn \cup RestoredTxn
  BY TxnShape DEF Writing
<1> QED
  BY <1>1 DEF WriteTxn, ApplyTxn, RestoredTxn

(* Replacing one handler's memory by a well-formed one.                    *)
LEMMA GotoType ==
    ASSUME TypeOK, NEW p \in Procs, NEW t \in Txn, Goto(p, t)
    PROVE  /\ txn' \in [Procs -> Txn]
           /\ txn'[p] = t
           /\ \A q \in Procs \ {p} : txn'[q] = txn[q]
BY DEF TypeOK, Goto

LEMMA IdleType == Idle \in Txn
BY DEF Txn

LEMMA StartType ==
    ASSUME TypeOK, NEW p \in Procs, NEW t \in Txn, Start(p, t)
    PROVE  TypeOK'
BY GotoType DEF TypeOK, Start, stored

LEMMA UpdateType ==
    ASSUME TypeOK, NEW p \in Procs, NEW from, NEW to,
           [txn[p] EXCEPT !.op = to] \in Txn, Update(p, from, to)
    PROVE  TypeOK'
<1>1. txn' \in [Procs -> Txn]
  BY GotoType, IdleType DEF Update
<1> QED
  BY <1>1 DEF Update, TypeOK, stored

LEMMA WriteType ==
    ASSUME TypeOK, NEW p \in Procs, Writing(p), Write(p)
    PROVE  /\ text' \in Texts /\ lock' = lock + 1 /\ lock' \in Nat \ {0}
           /\ saved' \subseteq Proposals
           /\ view' \in [Users -> [text : Texts, lock : Nat]]
<1>1. lock' = lock + 1 /\ lock' \in Nat \ {0}
  BY DEF Write, NextLock, TypeOK
<1>2. txn[p].u \in Users /\ txn[p].new \in Texts
  BY UpdateShape
<1> QED
  BY <1>1, <1>2 DEF Write, TypeOK

(* Both commits of a snapshot append a numbered text.                      *)
LEMMA AddedType ==
    ASSUME TypeOK, NEW p \in Procs, txn[p].op \in {"snap_commit", "restore_commit"}
    PROVE  /\ txn[p].number \in Nat
           /\ Added(p) \in Seq(Version)
           /\ {Added(p)[i].number : i \in DOMAIN Added(p)} = Numbers \cup {txn[p].number}
<1>1. txn[p] \in SnappedTxn \cup RestoredTxn
  BY TxnShape
<1>2. txn[p].number \in Nat /\ txn[p].new \in Texts
  BY <1>1 DEF SnappedTxn, RestoredTxn
<1> DEFINE v == [number |-> txn[p].number, text |-> txn[p].new]
<1>3. v \in Version /\ v.number = txn[p].number
  BY <1>2 DEF Version
<1>4. versions \in Seq(Version)
  BY DEF TypeOK
<1>5. /\ Added(p) \in Seq(Version)
      /\ DOMAIN Added(p) = 1..(Len(versions) + 1)
      /\ \A i \in 1..Len(versions) : Added(p)[i] = versions[i]
      /\ Added(p)[Len(versions) + 1] = v
  BY <1>3, <1>4 DEF Added
<1>6. DOMAIN versions = 1..Len(versions) /\ Len(versions) \in Nat
  BY <1>4
<1>7. DOMAIN Added(p) = (DOMAIN versions) \cup {Len(versions) + 1}
  BY <1>5, <1>6
<1> HIDE DEF v
<1>8. {Added(p)[i].number : i \in DOMAIN Added(p)} = Numbers \cup {v.number}
  BY <1>5, <1>6, <1>7 DEF Numbers
<1> QED
  BY <1>2, <1>3, <1>5, <1>8

LEMMA NumbersType ==
    ASSUME TypeOK
    PROVE  Numbers \subseteq Nat
<1>1. \A i \in DOMAIN versions : versions[i] \in Version
  BY DEF TypeOK
<1> QED
  BY <1>1 DEF Numbers, Version

-----------------------------------------------------------------------------
(* Type correctness.                                                       *)

(* Largest is a natural number whatever it chooses among.                  *)
LargestOK == Largest \in Nat /\ \A n \in Numbers : n <= Largest

LEMMA CallType ==
    ASSUME TypeOK, NEW p \in Procs, Call(p)
    PROVE  TypeOK'
<1>1. ASSUME NEW u \in Users, NEW e \in Edits, Save(p, u, e) PROVE TypeOK'
  <2>1. view[u].text \in Texts /\ view[u].lock \in Nat
    BY DEF TypeOK
  <2>2. view[u].text \cup {e} \in Texts
    BY <2>1 DEF Texts
  <2> QED
    BY <1>1, <2>1, <2>2, StartType DEF Save, Txn, WriteTxn
<1>2. ASSUME NEW u \in Users, NEW i \in 1..MaxVersions, RestoreLoad(p, u, i) PROVE TypeOK'
  <2>1. versions[i] \in Version /\ view[u].lock \in Nat
    BY <1>2 DEF TypeOK, RestoreLoad
  <2>2. versions[i].text \in Texts
    BY <2>1 DEF Version
  <2> QED
    BY <1>2, <2>1, <2>2, StartType DEF RestoreLoad, Txn, WriteTxn
<1>3. ASSUME NEW u \in Users, NEW x \in Proposals, ApplyCheck(p, u, x) PROVE TypeOK'
  <2>1. view[u].text \in Texts /\ view[u].lock \in Nat
    BY DEF TypeOK
  <2>2. view[u].text \cup {x} \in Texts
    BY <2>1 DEF Texts
  <2> QED
    BY <1>3, <2>1, <2>2, StartType DEF ApplyCheck, Txn, ApplyTxn
<1>4. CASE SnapLoad(p)
  BY <1>4, StartType DEF SnapLoad, Txn, SnapTxn, TypeOK
<1> QED
  BY <1>1, <1>2, <1>3, <1>4 DEF Call

LEMMA ProceedType ==
    ASSUME TypeOK, LargestOK, NEW p \in Procs, Proceed(p)
    PROVE  TypeOK'
<1> DEFINE t == txn[p]
<1>0. NextNumber \in Nat
  BY DEF NextNumber, LargestOK
<1>1. CASE SaveUpdate(p) \/ RestoreUpdate(p)
  <2>1. t \in WriteTxn
    BY <1>1, TxnShape DEF SaveUpdate, RestoreUpdate, Update
  <2>2. [t EXCEPT !.op = "save_commit"] \in Txn /\ [t EXCEPT !.op = "restore_number"] \in Txn
    BY <2>1 DEF WriteTxn, Txn
  <2> QED
    BY <1>1, <2>2, UpdateType DEF SaveUpdate, RestoreUpdate
<1>2. CASE ApplyUpdate(p)
  <2>1. t \in ApplyTxn
    BY <1>2, TxnShape DEF ApplyUpdate, Update
  <2>2. [t EXCEPT !.op = "apply_commit"] \in Txn
    BY <2>1 DEF ApplyTxn, Txn
  <2> QED
    BY <1>2, <2>2, UpdateType DEF ApplyUpdate
<1>3. CASE SaveCommit(p)
  BY <1>3, WriteType, GotoType, IdleType DEF SaveCommit, Writing, TypeOK
<1>4. CASE SnapNumber(p)
  <2>1. t.new \in Texts
    BY <1>4, TxnShape DEF SnapNumber, SnapTxn
  <2>2. [op |-> "snap_commit", new |-> t.new, number |-> NextNumber] \in Txn
    BY <1>0, <2>1 DEF Txn, SnappedTxn
  <2> QED
    BY <1>4, <2>2, GotoType DEF SnapNumber, TypeOK, stored
<1>5. CASE SnapCommit(p)
  BY <1>5, AddedType, GotoType, IdleType DEF SnapCommit, TypeOK
<1>6. CASE RestoreNumber(p)
  <2>1. t.u \in Users /\ t.new \in Texts /\ t.expected \in Nat
    BY <1>6, UpdateShape DEF RestoreNumber, Writing
  <2>2. [op |-> "restore_commit", u |-> t.u, new |-> t.new, expected |-> t.expected,
         number |-> NextNumber] \in Txn
    BY <1>0, <2>1 DEF Txn, RestoredTxn
  <2> QED
    BY <1>6, <2>2, GotoType DEF RestoreNumber, TypeOK, stored
<1>7. CASE RestoreCommit(p)
  BY <1>7, AddedType, WriteType, GotoType, IdleType DEF RestoreCommit, Writing, TypeOK
<1>8. CASE ApplyCommit(p)
  <2>1. t.x \in Proposals
    BY <1>8, TxnShape DEF ApplyCommit, ApplyTxn
  <2>2. [op |-> "resolve", x |-> t.x] \in Txn
    BY <2>1 DEF Txn, ResolveTxn
  <2> QED
    BY <1>8, <2>2, WriteType, GotoType DEF ApplyCommit, Writing, TypeOK
<1>9. CASE ApplyResolve(p)
  BY <1>9, GotoType, IdleType DEF ApplyResolve, Resolve, Resolved, TypeOK
<1> QED
  BY <1>1, <1>2, <1>3, <1>4, <1>5, <1>6, <1>7, <1>8, <1>9 DEF Proceed

(* The numbers of the snapshots have a largest, and start at 1 without a   *)
(* gap; a number still to be inserted leaves none.                         *)
HasLargest == \E n \in Numbers : \A k \in Numbers : k <= n
NumberFits(n) == n \in Nat \ {0} /\ \A k \in 1..(n - 1) : k \in Numbers
Numbered ==
    /\ HasLargest
    /\ \A n \in Numbers : NumberFits(n)
    /\ \A p \in Procs : txn[p].op \in {"snap_commit", "restore_commit"}
                        => NumberFits(txn[p].number)

LEMMA LargestExists ==
    ASSUME TypeOK, Numbered
    PROVE  LargestOK /\ Largest \in Numbers /\ NumberFits(NextNumber)
<1>1. Numbers \subseteq Nat
  BY NumbersType
<1>2. PICK n \in Numbers : \A k \in Numbers : k <= n
  BY DEF Numbered, HasLargest
<1>3. n \in Numbers \cup {0} /\ \A k \in Numbers : k <= n
  BY <1>2
<1>4. Largest \in Numbers \cup {0} /\ \A k \in Numbers : k <= Largest
  BY <1>3 DEF Largest
<1>5. n \in Nat \ {0}
  BY <1>2 DEF Numbered, NumberFits
<1>6. Largest \in Numbers
  BY <1>2, <1>4, <1>5
<1>7. NumberFits(Largest) /\ Largest \in Nat
  BY <1>1, <1>6 DEF Numbered
<1>8. \A k \in 1..Largest : k \in 1..(Largest - 1) \/ k = Largest
  BY <1>7
<1>9. NumberFits(NextNumber)
  BY <1>6, <1>7, <1>8 DEF NumberFits, NextNumber
<1> QED
  BY <1>4, <1>6, <1>7, <1>9 DEF LargestOK

(* A handler that moves without adding a snapshot.                         *)
LEMMA MoveNumbered ==
    ASSUME TypeOK, Numbered, NEW p \in Procs, NEW t, Goto(p, t), versions' = versions,
           t.op \in {"snap_commit", "restore_commit"} => NumberFits(t.number)
    PROVE  Numbered'
<1>1. Numbers' = Numbers
  BY DEF Numbers
<1>2. \A n : NumberFits(n) => NumberFits(n)'
  BY <1>1 DEF NumberFits
<1>3. txn'[p] = t /\ \A q \in Procs \ {p} : txn'[q] = txn[q]
  BY DEF Goto, TypeOK
<1>4. HasLargest'
  BY <1>1 DEF Numbered, HasLargest
<1>5. \A n \in Numbers' : NumberFits(n)'
  BY <1>1, <1>2 DEF Numbered
<1>6. ASSUME NEW q \in Procs, txn'[q].op \in {"snap_commit", "restore_commit"}
      PROVE  NumberFits(txn[q].number)'
  <2>1. CASE q = p
    BY <1>2, <1>3, <1>6, <2>1 DEF NumberFits, Numbers
  <2>2. CASE q # p
    <3>1. txn'[q] = txn[q] /\ NumberFits(txn[q].number)
      BY <1>3, <1>6, <2>2 DEF Numbered
    <3> QED
      BY <1>1, <3>1 DEF NumberFits
  <2> QED
    BY <2>1, <2>2
<1> QED
  BY <1>4, <1>5, <1>6 DEF Numbered

LEMMA AddNumbered ==
    ASSUME TypeOK, Numbered, NEW p \in Procs, txn[p].op \in {"snap_commit", "restore_commit"},
           versions' = Added(p), Goto(p, Idle)
    PROVE  Numbered'
<1> DEFINE m == txn[p].number
<1>1. Numbers' = Numbers \cup {m}
  BY AddedType DEF Numbers
<1>2. NumberFits(m) /\ m \in Nat /\ Numbers \subseteq Nat
  BY NumbersType DEF Numbered, NumberFits
<1> HIDE DEF m
<1>3. \A n : NumberFits(n) => NumberFits(n)'
  BY <1>1 DEF NumberFits
<1>4. txn'[p] = Idle /\ \A q \in Procs \ {p} : txn'[q] = txn[q]
  BY DEF Goto, TypeOK
<1>5. HasLargest'
  <2>1. PICK n \in Numbers : \A k \in Numbers : k <= n
    BY DEF Numbered, HasLargest
  <2>2. CASE m <= n
    BY <1>1, <2>1, <2>2 DEF HasLargest
  <2>3. CASE ~(m <= n)
    <3>1. n \in Nat /\ n < m
      BY <1>2, <2>3
    <3>2. \A k \in Numbers' : k <= m
      BY <1>1, <1>2, <2>1, <3>1
    <3> QED
      BY <1>1, <3>2 DEF HasLargest
  <2> QED
    BY <2>2, <2>3
<1>6. \A n \in Numbers' : NumberFits(n)'
  BY <1>1, <1>2, <1>3 DEF Numbered
<1>7. ASSUME NEW q \in Procs, txn'[q].op \in {"snap_commit", "restore_commit"}
      PROVE  NumberFits(txn[q].number)'
  <2>1. q # p
    BY <1>4, <1>7 DEF Idle
  <2>2. txn'[q] = txn[q] /\ NumberFits(txn[q].number)
    BY <1>4, <1>7, <2>1 DEF Numbered
  <2> QED
    BY <1>1, <2>2 DEF NumberFits
<1> QED
  BY <1>5, <1>6, <1>7 DEF Numbered

(* A step that leaves versions alone and starts no insertion.              *)
LEMMA StayNumbered ==
    ASSUME TypeOK, Numbered, versions' = versions,
           \A p \in Procs : txn'[p] = txn[p] \/ txn'[p] = Idle
    PROVE  Numbered'
<1>1. Numbers' = Numbers
  BY DEF Numbers
<1>2. ASSUME NEW q \in Procs, txn'[q].op \in {"snap_commit", "restore_commit"}
      PROVE  NumberFits(txn[q].number)'
  <2>1. txn'[q] = txn[q] /\ NumberFits(txn[q].number)
    BY <1>2 DEF Numbered, Idle
  <2> QED
    BY <1>1, <2>1 DEF NumberFits
<1> QED
  BY <1>1, <1>2 DEF Numbered, HasLargest, NumberFits

LEMMA NextNumbered ==
    ASSUME TypeOK, Numbered, [Next]_vars
    PROVE  Numbered'
<1>1. ASSUME NEW p \in Procs, Call(p) PROVE Numbered'
  <2>1. ASSUME NEW t, Start(p, t), t.op \notin {"snap_commit", "restore_commit"}
        PROVE  Numbered'
    BY <2>1, MoveNumbered DEF Start, stored
  <2>2. ASSUME NEW u \in Users, NEW e \in Edits, Save(p, u, e) PROVE Numbered'
    BY <2>1, <2>2 DEF Save
  <2>3. ASSUME NEW u \in Users, NEW i \in 1..MaxVersions, RestoreLoad(p, u, i)
        PROVE  Numbered'
    BY <2>1, <2>3 DEF RestoreLoad
  <2>4. ASSUME NEW u \in Users, NEW x \in Proposals, ApplyCheck(p, u, x) PROVE Numbered'
    BY <2>1, <2>4 DEF ApplyCheck
  <2>5. CASE SnapLoad(p)
    BY <2>1, <2>5 DEF SnapLoad
  <2> QED
    BY <1>1, <2>2, <2>3, <2>4, <2>5 DEF Call
<1>2. ASSUME NEW p \in Procs, Proceed(p) PROVE Numbered'
  <2>1. CASE SaveUpdate(p) \/ RestoreUpdate(p) \/ ApplyUpdate(p)
    <3>1. PICK to \in {"save_commit", "restore_number", "apply_commit"} :
             /\ Update(p, txn[p].op, to)
             /\ txn[p] \in WriteTxn \cup ApplyTxn
      BY <2>1, TxnShape DEF SaveUpdate, RestoreUpdate, ApplyUpdate, Update
    <3>2. [txn[p] EXCEPT !.op = to].op = to
      BY <3>1 DEF WriteTxn, ApplyTxn
    <3>3. Idle.op \notin {"snap_commit", "restore_commit"}
      BY DEF Idle
    <3> QED
      BY <3>1, <3>2, <3>3, MoveNumbered DEF Update, stored
  <2>2. CASE SaveCommit(p) \/ ApplyResolve(p)
    BY <2>2, MoveNumbered DEF SaveCommit, ApplyResolve, Idle
  <2>3. CASE SnapNumber(p)
    BY <2>3, LargestExists, MoveNumbered DEF SnapNumber, stored
  <2>4. CASE RestoreNumber(p)
    BY <2>4, LargestExists, MoveNumbered DEF RestoreNumber, stored
  <2>5. CASE SnapCommit(p) \/ RestoreCommit(p)
    BY <2>5, AddNumbered DEF SnapCommit, RestoreCommit
  <2>6. CASE ApplyCommit(p)
    BY <2>6, MoveNumbered DEF ApplyCommit
  <2> QED
    BY <1>2, <2>1, <2>2, <2>3, <2>4, <2>5, <2>6 DEF Proceed
<1>3. ASSUME NEW u \in Users, Refresh(u) PROVE Numbered'
  BY <1>3, StayNumbered DEF Refresh, stored
<1>4. ASSUME NEW x \in Proposals, Propose(x) \/ Reject(x) PROVE Numbered'
  BY <1>4, StayNumbered DEF Propose, Reject
<1>5. CASE Crash
  BY <1>5, StayNumbered DEF Crash, stored
<1>6. CASE UNCHANGED vars
  BY <1>6, StayNumbered DEF vars, stored
<1> QED
  BY <1>1, <1>2, <1>3, <1>4, <1>5, <1>6 DEF Next

LEMMA NextType ==
    ASSUME TypeOK, LargestOK, [Next]_vars
    PROVE  TypeOK'
<1>1. ASSUME NEW u \in Users, Refresh(u) PROVE TypeOK'
  BY <1>1 DEF Refresh, stored, TypeOK
<1>2. ASSUME NEW x \in Proposals, Propose(x) \/ Reject(x) PROVE TypeOK'
  BY <1>2 DEF Propose, Reject, Resolve, Resolved, TypeOK
<1>3. CASE Crash
  BY <1>3, IdleType DEF Crash, stored, TypeOK
<1>4. CASE UNCHANGED vars
  BY <1>4 DEF vars, stored, TypeOK
<1> QED
  BY <1>1, <1>2, <1>3, <1>4, CallType, ProceedType DEF Next

LEMMA NextTypeNumbered == TypeOK /\ Numbered /\ [Next]_vars => TypeOK' /\ Numbered'
BY NextType, NextNumbered, LargestExists

LEMMA InitNumbered == Init => TypeOK /\ Numbered
<1> SUFFICES ASSUME Init PROVE TypeOK /\ Numbered
  OBVIOUS
<1> DEFINE v == [number |-> 1, text |-> {}]
<1>1. v \in Version /\ v.number = 1
  BY DEF Version, Texts
<1>2. versions = <<v>>
  BY DEF Init
<1> HIDE DEF v
<1>3. /\ versions \in Seq(Version) /\ DOMAIN versions = {1} /\ versions[1] = v
  BY <1>1, <1>2
<1>4. Numbers = {1}
  BY <1>1, <1>3 DEF Numbers
<1>5. HasLargest /\ \A n \in Numbers : NumberFits(n)
  BY <1>4 DEF HasLargest, NumberFits
<1>6. Numbered
  BY <1>5 DEF Numbered, Init, Idle
<1>7. TypeOK
  BY <1>3 DEF TypeOK, Init, Texts, Txn
<1> QED
  BY <1>6, <1>7

(* Every column, snapshot and handler keeps its type, although a number is *)
(* computed from the rows: there is always a largest one.                  *)
THEOREM TypeCorrect == Spec => []TypeOK
BY InitNumbered, NextTypeNumbered, PTL DEF Spec

(* The numbers of the snapshots have no gap.                               *)
THEOREM NoGap == Spec => []NumbersHaveNoGap
<1>1. TypeOK /\ Numbered => NumbersHaveNoGap
  <2> SUFFICES ASSUME TypeOK, Numbered, NEW n \in Numbers, NEW k \in 1..n PROVE k \in Numbers
    BY DEF NumbersHaveNoGap
  <2>1. n \in Nat /\ NumberFits(n)
    BY DEF Numbered, NumberFits
  <2>2. k = n \/ k \in 1..(n - 1)
    BY <2>1
  <2> QED
    BY <2>1, <2>2 DEF NumberFits
<1> QED
  BY <1>1, InitNumbered, NextTypeNumbered, PTL DEF Spec

-----------------------------------------------------------------------------
(* The optimistic lock.  LockNamesText needs that one handler at a time    *)
(* holds the draft's row; NoLostEdit, that what a save or an apply is      *)
(* about to write contains the draft it was loaded from.                   *)

Saving(t) == t.op \in {"save", "save_commit", "apply", "apply_commit"}
Extends(t) == t.expected <= lock /\ (t.expected = lock => text \subseteq t.new)

OneWriter == \A p, q \in Procs : Writing(p) /\ Writing(q) => p = q
SavesExtend == \A p \in Procs : Saving(txn[p]) => Extends(txn[p])
LockInv == LockNamesText /\ OneWriter /\ SavesExtend

WritingOps == {"save_commit", "apply_commit", "restore_number", "restore_commit"}

(* A handler that moves without writing the draft.                         *)
LEMMA MoveLock ==
    ASSUME TypeOK, LockInv, NEW p \in Procs, NEW t, Goto(p, t), UNCHANGED <<text, lock, view>>,
           t.op \in WritingOps => (RowFree \/ Writing(p)) /\ t.expected = lock,
           Saving(t) => Extends(t)
    PROVE  LockInv'
<1>1. txn'[p] = t /\ \A q \in Procs \ {p} : txn'[q] = txn[q]
  BY DEF Goto, TypeOK
<1>2. \A q \in Procs \ {p} : Writing(q)' <=> Writing(q)
  BY <1>1 DEF Writing
<1>3. Writing(p)' => (RowFree \/ Writing(p)) /\ t.expected = lock
  BY <1>1 DEF Writing, WritingOps
<1>4. LockNamesText'
  BY <1>1, <1>2, <1>3 DEF LockInv, LockNamesText
<1>5. OneWriter'
  BY <1>2, <1>3 DEF LockInv, OneWriter, RowFree
<1>6. SavesExtend'
  BY <1>1 DEF LockInv, SavesExtend, Saving, Extends
<1> QED
  BY <1>4, <1>5, <1>6 DEF LockInv

(* The commit of a draft by the handler that holds its row.                *)
LEMMA WriteLock ==
    ASSUME TypeOK, LockInv, NEW p \in Procs, NEW t, Writing(p), Write(p), Goto(p, t),
           t.op \notin WritingOps, ~Saving(t)
    PROVE  LockInv'
<1>1. txn'[p] = t /\ \A q \in Procs \ {p} : txn'[q] = txn[q]
  BY DEF Goto, TypeOK
<1>2. text' = txn[p].new /\ lock' = lock + 1 /\ lock \in Nat
  BY WriteType DEF Write, TypeOK
<1>3. \A q \in Procs : ~Writing(q)'
  <2>1. ~Writing(p)'
    BY <1>1 DEF Writing, WritingOps
  <2>2. ASSUME NEW q \in Procs, q # p PROVE ~Writing(q)'
    BY <1>1, <2>2 DEF LockInv, OneWriter, Writing
  <2> QED
    BY <2>1, <2>2
<1>4. ASSUME NEW u \in Users
      PROVE  view'[u].lock <= lock' /\ (view'[u].lock = lock' => view'[u].text = text')
  <2>1. \/ view'[u] = [text |-> txn[p].new, lock |-> lock + 1]
        \/ view'[u] = view[u]
    BY <1>2 DEF Write, TypeOK
  <2>2. view[u].lock <= lock /\ view[u].lock \in Nat
    BY DEF LockInv, LockNamesText, TypeOK
  <2> QED
    BY <1>2, <2>1, <2>2
<1>5. ASSUME NEW q \in Procs, Saving(txn[q])' PROVE Extends(txn[q])'
  <2>1. q # p /\ txn'[q] = txn[q] /\ Saving(txn[q])
    BY <1>1, <1>5 DEF Saving
  <2>2. txn[q].expected <= lock /\ txn[q].expected \in Nat
    BY <2>1, UpdateShape DEF LockInv, SavesExtend, Extends, Saving, Writing
  <2> QED
    BY <1>2, <2>1, <2>2 DEF Extends
<1>6. LockNamesText'
  BY <1>3, <1>4 DEF LockNamesText
<1> QED
  BY <1>3, <1>5, <1>6 DEF LockInv, OneWriter, SavesExtend

(* A step that touches neither the draft nor, but for ending them, the     *)
(* handlers; editors may load the draft again.                             *)
LEMMA StayLock ==
    ASSUME TypeOK, LockInv, UNCHANGED <<text, lock>>,
           \A p \in Procs : txn'[p] = txn[p] \/ txn'[p] = Idle,
           \A u \in Users : view'[u] = view[u] \/ view'[u] = [text |-> text, lock |-> lock]
    PROVE  LockInv'
<1>1. \A p \in Procs : Writing(p)' => Writing(p) /\ txn'[p] = txn[p]
  BY DEF Writing, Idle
<1>2. \A p \in Procs : Saving(txn[p])' => Saving(txn[p]) /\ txn'[p] = txn[p]
  BY DEF Saving, Idle
<1>3. ASSUME NEW u \in Users
      PROVE  view'[u].lock <= lock /\ (view'[u].lock = lock => view'[u].text = text)
  <2>1. CASE view'[u] = view[u]
    BY <2>1 DEF LockInv, LockNamesText
  <2>2. CASE view'[u] = [text |-> text, lock |-> lock]
    <3>1. view'[u].lock = lock /\ view'[u].text = text /\ lock \in Nat
      BY <2>2 DEF TypeOK
    <3> QED
      BY <3>1
  <2> QED
    BY <2>1, <2>2
<1>4. LockNamesText'
  BY <1>1, <1>3 DEF LockInv, LockNamesText
<1>5. OneWriter'
  BY <1>1 DEF LockInv, OneWriter
<1>6. SavesExtend'
  BY <1>2 DEF LockInv, SavesExtend, Extends
<1> QED
  BY <1>4, <1>5, <1>6 DEF LockInv

LEMMA UpdateLock ==
    ASSUME TypeOK, LockInv, NEW p \in Procs, NEW from, NEW to \in WritingOps,
           txn[p] \in WriteTxn \cup ApplyTxn, Update(p, from, to),
           to \in {"save_commit", "apply_commit"} => Saving(txn[p])
    PROVE  LockInv'
<1> DEFINE t == [txn[p] EXCEPT !.op = to]
<1>1. t.op = to /\ t.expected = txn[p].expected /\ t.new = txn[p].new
  BY DEF WriteTxn, ApplyTxn
<1>2. CASE Matches(txn[p])
  <2>1. Goto(p, t) /\ RowFree /\ UNCHANGED <<text, lock, view>>
    BY <1>2 DEF Update, stored
  <2>2. t.expected = lock
    BY <1>1, <1>2 DEF Matches
  <2>3. Saving(t) => Extends(t)
    BY <1>1 DEF LockInv, SavesExtend, Saving, Extends, WritingOps
  <2> HIDE DEF t
  <2> QED
    BY <2>1, <2>2, <2>3, MoveLock
<1>3. CASE ~Matches(txn[p])
  BY <1>3, MoveLock DEF Update, stored, Idle, WritingOps, Saving
<1> QED
  BY <1>2, <1>3

LEMMA CallLock ==
    ASSUME TypeOK, LockInv, NEW p \in Procs, Call(p)
    PROVE  LockInv'
<1>1. ASSUME NEW t, Start(p, t), t.op \notin WritingOps, Saving(t) => Extends(t)
      PROVE  LockInv'
  BY <1>1, MoveLock DEF Start, stored
<1>2. ASSUME NEW u \in Users
      PROVE  view[u].lock <= lock /\ (view[u].lock = lock => view[u].text = text)
  BY DEF LockInv, LockNamesText
<1>3. ASSUME NEW u \in Users, NEW e \in Edits, Save(p, u, e) PROVE LockInv'
  BY <1>1, <1>2, <1>3 DEF Save, WritingOps, Extends
<1>4. ASSUME NEW u \in Users, NEW i \in 1..MaxVersions, RestoreLoad(p, u, i) PROVE LockInv'
  BY <1>1, <1>4 DEF RestoreLoad, WritingOps, Saving
<1>5. ASSUME NEW u \in Users, NEW x \in Proposals, ApplyCheck(p, u, x) PROVE LockInv'
  BY <1>1, <1>2, <1>5 DEF ApplyCheck, WritingOps, Extends
<1>6. CASE SnapLoad(p)
  BY <1>1, <1>6 DEF SnapLoad, WritingOps, Saving
<1> QED
  BY <1>3, <1>4, <1>5, <1>6 DEF Call

LEMMA ProceedLock ==
    ASSUME TypeOK, LockInv, NEW p \in Procs, Proceed(p)
    PROVE  LockInv'
<1>1. CASE SaveUpdate(p)
  <2>1. txn[p] \in WriteTxn /\ Saving(txn[p])
    BY <1>1, TxnShape DEF SaveUpdate, Update, Saving
  <2> QED
    BY <1>1, <2>1, UpdateLock DEF SaveUpdate, WritingOps
<1>2. CASE RestoreUpdate(p)
  <2>1. txn[p] \in WriteTxn
    BY <1>2, TxnShape DEF RestoreUpdate, Update
  <2> QED
    BY <1>2, <2>1, UpdateLock DEF RestoreUpdate, WritingOps
<1>3. CASE ApplyUpdate(p)
  <2>1. txn[p] \in ApplyTxn /\ Saving(txn[p])
    BY <1>3, TxnShape DEF ApplyUpdate, Update, Saving
  <2> QED
    BY <1>3, <2>1, UpdateLock DEF ApplyUpdate, WritingOps
<1>4. CASE SaveCommit(p)
  BY <1>4, WriteLock DEF SaveCommit, Writing, Idle, WritingOps, Saving
<1>5. CASE RestoreCommit(p)
  BY <1>5, WriteLock DEF RestoreCommit, Writing, Idle, WritingOps, Saving
<1>6. CASE ApplyCommit(p)
  BY <1>6, WriteLock DEF ApplyCommit, Writing, WritingOps, Saving
<1>7. CASE SnapNumber(p) \/ SnapCommit(p) \/ ApplyResolve(p)
  BY <1>7, MoveLock DEF SnapNumber, SnapCommit, ApplyResolve, stored, Idle, WritingOps, Saving
<1>8. CASE RestoreNumber(p)
  <2>1. Writing(p) /\ txn[p].expected = lock
    BY <1>8 DEF RestoreNumber, Writing, LockInv, LockNamesText
  <2> QED
    BY <1>8, <2>1, MoveLock DEF RestoreNumber, stored, WritingOps, Saving
<1> QED
  BY <1>1, <1>2, <1>3, <1>4, <1>5, <1>6, <1>7, <1>8 DEF Proceed

LEMMA NextLockInv == TypeOK /\ LockInv /\ [Next]_vars => LockInv'
<1> SUFFICES ASSUME TypeOK, LockInv, [Next]_vars PROVE LockInv'
  OBVIOUS
<1>1. ASSUME NEW u \in Users, Refresh(u) PROVE LockInv'
  BY <1>1, StayLock DEF Refresh, stored, TypeOK
<1>2. ASSUME NEW x \in Proposals, Propose(x) \/ Reject(x) PROVE LockInv'
  BY <1>2, StayLock DEF Propose, Reject
<1>3. CASE Crash
  BY <1>3, StayLock DEF Crash, stored
<1>4. CASE UNCHANGED vars
  BY <1>4, StayLock DEF vars, stored
<1> QED
  BY <1>1, <1>2, <1>3, <1>4, CallLock, ProceedLock DEF Next

LEMMA InitLock == Init => LockInv
<1> SUFFICES ASSUME Init PROVE LockInv
  OBVIOUS
<1>1. \A p \in Procs : ~Writing(p) /\ ~Saving(txn[p])
  BY DEF Init, Idle, Writing, Saving
<1>2. \A u \in Users : view[u].lock = 1 /\ view[u].text = {}
  BY DEF Init
<1> QED
  BY <1>1, <1>2 DEF Init, LockInv, LockNamesText, OneWriter, SavesExtend

(* A lock_version never stands for two texts.                              *)
THEOREM LockIsSound == Spec => []LockNamesText
BY InitNumbered, NextTypeNumbered, InitLock, NextLockInv, PTL DEF Spec, LockInv

(* Only a restore takes an edit out of the draft.                          *)
LEMMA StepKeepsEdits ==
    ASSUME TypeOK, LockInv, Next
    PROVE  text \subseteq text' \/ \E p \in Procs : txn[p].op = "restore_commit"
<1>1. ASSUME NEW p \in Procs, SaveCommit(p) \/ ApplyCommit(p) PROVE text \subseteq text'
  <2>1. Writing(p) /\ Saving(txn[p]) /\ text' = txn[p].new
    BY <1>1 DEF SaveCommit, ApplyCommit, Write, Writing, Saving
  <2>2. txn[p].expected = lock
    BY <2>1 DEF LockInv, LockNamesText
  <2> QED
    BY <2>1, <2>2 DEF LockInv, SavesExtend, Extends
<1>2. ASSUME NEW p \in Procs, Proceed(p)
      PROVE  text \subseteq text' \/ txn[p].op = "restore_commit"
  BY <1>1, <1>2 DEF Proceed, SaveUpdate, SnapNumber, SnapCommit, RestoreUpdate, RestoreNumber,
     RestoreCommit, ApplyUpdate, ApplyResolve, Update, stored
<1>3. ASSUME NEW p \in Procs, Call(p) PROVE text' = text
  BY <1>3 DEF Call, Save, RestoreLoad, ApplyCheck, SnapLoad, Start, stored
<1> QED
  BY <1>2, <1>3 DEF Next, Refresh, Propose, Reject, Crash, stored

THEOREM NoEditIsLost == Spec => NoLostEdit
<1>1. TypeOK /\ LockInv /\ [Next]_vars
      => [text \subseteq text' \/ \E p \in Procs : txn[p].op = "restore_commit"]_vars
  BY StepKeepsEdits
<1> QED
  BY <1>1, InitNumbered, NextTypeNumbered, InitLock, NextLockInv, PTL DEF Spec, NoLostEdit

-----------------------------------------------------------------------------
(* Proposals.  An apply carries its proposal in the text it saves, and     *)
(* resolves a proposal that some committed draft has contained.            *)

Carries(t) ==
    /\ t.op \in {"apply", "apply_commit"} => t.x \in t.new
    /\ t.op = "resolve" => t.x \in saved
AppliesCarry == \A p \in Procs : Carries(txn[p])
ProposalInv == AcceptedIsSaved /\ AppliesCarry

LEMMA KeepProposals ==
    ASSUME TypeOK, ProposalInv, saved \subseteq saved',
           \A x \in Proposals : status'[x] = "accepted" => status[x] = "accepted" \/ x \in saved,
           \A p \in Procs : txn'[p] = txn[p] \/ Carries(txn[p])'
    PROVE  ProposalInv'
<1>1. AcceptedIsSaved'
  BY DEF ProposalInv, AcceptedIsSaved
<1>2. ASSUME NEW p \in Procs, txn'[p] = txn[p] PROVE Carries(txn[p])'
  BY <1>2 DEF ProposalInv, AppliesCarry, Carries
<1> QED
  BY <1>1, <1>2 DEF ProposalInv, AppliesCarry

LEMMA MoveProposals ==
    ASSUME TypeOK, ProposalInv, NEW p \in Procs, NEW t, Goto(p, t), UNCHANGED <<saved, status>>,
           Carries(t)
    PROVE  ProposalInv'
<1>1. txn'[p] = t /\ \A q \in Procs \ {p} : txn'[q] = txn[q]
  BY DEF Goto, TypeOK
<1>2. Carries(txn[p])'
  BY <1>1 DEF Carries
<1> QED
  BY <1>1, <1>2, KeepProposals

LEMMA UpdateProposals ==
    ASSUME TypeOK, ProposalInv, NEW p \in Procs, NEW from,
           NEW to \in {"save_commit", "apply_commit", "restore_number"},
           txn[p] \in WriteTxn \cup ApplyTxn, to = "apply_commit" => txn[p].op = "apply",
           Update(p, from, to)
    PROVE  ProposalInv'
<1> DEFINE t == [txn[p] EXCEPT !.op = to]
<1>1. /\ t.op = to /\ t.new = txn[p].new
      /\ txn[p] \in ApplyTxn => t.x = txn[p].x
      /\ txn[p].op = "apply" => txn[p] \in ApplyTxn
  BY DEF WriteTxn, ApplyTxn
<1>2. Carries(t)
  BY <1>1 DEF ProposalInv, AppliesCarry, Carries
<1>3. Carries(Idle)
  BY DEF Carries, Idle
<1>4. Goto(p, t) \/ Goto(p, Idle)
  BY DEF Update
<1>5. UNCHANGED <<saved, status>>
  BY DEF Update, stored
<1> HIDE DEF t
<1> QED
  BY <1>2, <1>3, <1>4, <1>5, MoveProposals

LEMMA ProceedProposals ==
    ASSUME TypeOK, ProposalInv, NEW p \in Procs, Proceed(p)
    PROVE  ProposalInv'
<1> DEFINE t == txn[p]
<1>0. Carries(Idle)'
  BY DEF Carries, Idle
<1>1. CASE SaveUpdate(p) \/ RestoreUpdate(p) \/ ApplyUpdate(p)
  BY <1>1, TxnShape, UpdateProposals DEF SaveUpdate, RestoreUpdate, ApplyUpdate, Update
<1>2. CASE SnapNumber(p) \/ SnapCommit(p) \/ RestoreNumber(p)
  BY <1>2, MoveProposals DEF SnapNumber, SnapCommit, RestoreNumber, stored, Carries, Idle
<1>3. CASE SaveCommit(p) \/ RestoreCommit(p)
  <2>1. saved \subseteq saved' /\ status' = status
    BY <1>3 DEF SaveCommit, RestoreCommit, Write
  <2>2. Goto(p, Idle)
    BY <1>3 DEF SaveCommit, RestoreCommit
  <2>3. txn'[p] = Idle /\ \A q \in Procs \ {p} : txn'[q] = txn[q]
    BY <2>2 DEF Goto, TypeOK
  <2> QED
    BY <1>0, <2>1, <2>3, KeepProposals DEF Carries, Idle
<1>4. CASE ApplyCommit(p)
  <2> DEFINE u == [op |-> "resolve", x |-> t.x]
  <2>1. t.x \in Proposals /\ t.x \in t.new
    BY <1>4, TxnShape DEF ApplyCommit, ApplyTxn, ProposalInv, AppliesCarry, Carries
  <2>2. saved' = saved \cup (t.new \cap Proposals) /\ status' = status
    BY <1>4 DEF ApplyCommit, Write
  <2>3. txn'[p] = u /\ \A q \in Procs \ {p} : txn'[q] = txn[q]
    BY <1>4 DEF ApplyCommit, Goto, TypeOK
  <2>4. Carries(txn[p])'
    BY <2>1, <2>2, <2>3 DEF Carries
  <2> QED
    BY <2>2, <2>3, <2>4, KeepProposals
<1>5. CASE ApplyResolve(p)
  <2>1. t.x \in Proposals /\ t.x \in saved
    BY <1>5, TxnShape DEF ApplyResolve, ResolveTxn, ProposalInv, AppliesCarry, Carries
  <2>2. saved' = saved /\ \A x \in Proposals \ {t.x} : status'[x] = status[x]
    BY <1>5 DEF ApplyResolve, Resolve, TypeOK
  <2>3. txn'[p] = Idle /\ \A q \in Procs \ {p} : txn'[q] = txn[q]
    BY <1>5 DEF ApplyResolve, Goto, TypeOK
  <2> QED
    BY <1>0, <2>1, <2>2, <2>3, KeepProposals DEF Carries, Idle
<1> QED
  BY <1>1, <1>2, <1>3, <1>4, <1>5 DEF Proceed

LEMMA CallProposals ==
    ASSUME TypeOK, ProposalInv, NEW p \in Procs, Call(p)
    PROVE  ProposalInv'
<1>1. ASSUME NEW t, Start(p, t), Carries(t) PROVE ProposalInv'
  BY <1>1, MoveProposals DEF Start, stored
<1>2. ASSUME NEW u \in Users, NEW e \in Edits, Save(p, u, e) PROVE ProposalInv'
  BY <1>1, <1>2 DEF Save, Carries
<1>3. ASSUME NEW u \in Users, NEW i \in 1..MaxVersions, RestoreLoad(p, u, i)
      PROVE  ProposalInv'
  BY <1>1, <1>3 DEF RestoreLoad, Carries
<1>4. ASSUME NEW u \in Users, NEW x \in Proposals, ApplyCheck(p, u, x) PROVE ProposalInv'
  BY <1>1, <1>4 DEF ApplyCheck, Carries
<1>5. CASE SnapLoad(p)
  BY <1>1, <1>5 DEF SnapLoad, Carries
<1> QED
  BY <1>2, <1>3, <1>4, <1>5 DEF Call

LEMMA NextProposals == TypeOK /\ ProposalInv /\ [Next]_vars => ProposalInv'
<1> SUFFICES ASSUME TypeOK, ProposalInv, [Next]_vars PROVE ProposalInv'
  OBVIOUS
<1>1. ASSUME NEW u \in Users, Refresh(u) PROVE ProposalInv'
  BY <1>1, KeepProposals DEF Refresh, stored
<1>2. ASSUME NEW x \in Proposals, Propose(x) \/ Reject(x) PROVE ProposalInv'
  BY <1>2, KeepProposals DEF Propose, Reject, Resolve, Resolved, TypeOK
<1>3. CASE Crash
  BY <1>3, KeepProposals DEF Crash, stored, Carries, Idle
<1>4. CASE UNCHANGED vars
  BY <1>4, KeepProposals DEF vars, stored
<1> QED
  BY <1>1, <1>2, <1>3, <1>4, CallProposals, ProceedProposals DEF Next

(* A proposal is accepted only after a committed draft contained it.       *)
THEOREM AcceptedWasSaved == Spec => []AcceptedIsSaved
<1>1. Init => ProposalInv
  BY DEF Init, ProposalInv, AcceptedIsSaved, AppliesCarry, Carries, Idle
<1> QED
  BY <1>1, InitNumbered, NextTypeNumbered, NextProposals, PTL DEF Spec, ProposalInv

(* No step, of a handler or of the proposal's maker, changes an answer.    *)
THEOREM ResolvedOnce == Spec => ResolutionIsFinal
<1>1. TypeOK /\ [Next]_vars
      => [\A x \in Proposals :
             status[x] \in {"accepted", "rejected"} => status'[x] = status[x]]_vars
  <2> SUFFICES ASSUME TypeOK, Next, NEW x \in Proposals, status[x] \in {"accepted", "rejected"}
               PROVE  status'[x] = status[x]
    OBVIOUS
  <2>1. ASSUME NEW y, NEW s, Resolve(y, s) PROVE status'[x] = status[x]
    BY <2>1 DEF Resolve, Resolved, TypeOK
  <2>2. ASSUME NEW y \in Proposals, Propose(y) PROVE status'[x] = status[x]
    BY <2>2 DEF Propose, TypeOK
  <2>3. ASSUME NEW p \in Procs, Proceed(p) PROVE status'[x] = status[x]
    BY <2>1, <2>3 DEF Proceed, SaveUpdate, SaveCommit, SnapNumber, SnapCommit, RestoreUpdate,
       RestoreNumber, RestoreCommit, ApplyUpdate, ApplyCommit, ApplyResolve, Update, stored
  <2>4. ASSUME NEW p \in Procs, Call(p) PROVE status'[x] = status[x]
    BY <2>4 DEF Call, Save, RestoreLoad, ApplyCheck, SnapLoad, Start, stored
  <2> QED
    BY <2>1, <2>2, <2>3, <2>4 DEF Next, Refresh, Reject, Crash, stored
<1> QED
  BY <1>1, InitNumbered, NextTypeNumbered, PTL DEF Spec, ResolutionIsFinal

-----------------------------------------------------------------------------
(* Documents implement the compare-and-set register.  What a handler will  *)
(* write is, as long as its lock_version is current, one edit more than    *)
(* the text its editor still shows, or a snapshot's text.                  *)

Shown == [text |-> text, lock |-> lock]

Ready(t) == t.expected <= lock /\ (t.expected = lock => view[t.u] = Shown)
AddsOne(t, e) == t.expected = lock => t.new = text \cup {e}
Promised(t) ==
    /\ t.op \in {"save", "save_commit"} =>
          Ready(t) /\ \E e \in Edits : AddsOne(t, e) /\ (t.expected = lock => e \notin text)
    /\ t.op \in {"apply", "apply_commit"} => Ready(t) /\ AddsOne(t, t.x)
    /\ t.op \in {"apply", "apply_commit", "resolve"} => status[t.x] # "none"
    /\ t.op \in {"restore", "restore_number", "restore_commit"} =>
          Ready(t) /\ \E i \in DOMAIN versions : versions[i].text = t.new
    /\ t.op \in {"snap_number", "snap_commit"} => t.new \cap Proposals \subseteq saved
RegisterInv == text \cap Proposals \subseteq saved /\ \A p \in Procs : Promised(txn[p])

(* What the steps of others leave true of a promise: the draft is as it    *)
(* was for whom it is current, or has a lock_version of its own.           *)
DraftMoves ==
    \/ lock' = lock /\ text' = text /\ \A u \in Users : view[u] = Shown => view'[u] = Shown
    \/ lock' = lock + 1
RowsStay ==
    /\ saved \subseteq saved'
    /\ \A x \in Proposals : status[x] # "none" => status'[x] # "none"
    /\ \A i \in DOMAIN versions : i \in DOMAIN versions' /\ versions'[i] = versions[i]

LEMMA PromiseStays ==
    ASSUME TypeOK, DraftMoves, RowsStay, NEW t \in Txn, Promised(t)
    PROVE  Promised(t)'
<1>1. ASSUME t \in WriteTxn \cup ApplyTxn \cup RestoredTxn, Ready(t) PROVE Ready(t)'
  <2>1. t.u \in Users /\ t.expected \in Nat /\ lock \in Nat
    BY <1>1 DEF WriteTxn, ApplyTxn, RestoredTxn, TypeOK
  <2>2. CASE lock' = lock /\ text' = text /\ \A u \in Users : view[u] = Shown => view'[u] = Shown
    BY <1>1, <2>1, <2>2 DEF Ready, Shown
  <2>3. CASE lock' = lock + 1
    BY <1>1, <2>1, <2>3 DEF Ready
  <2> QED
    BY <2>2, <2>3 DEF DraftMoves
<1>2. ASSUME t \in WriteTxn \cup ApplyTxn \cup RestoredTxn, Ready(t)
      PROVE  (t.expected = lock)' => t.expected = lock /\ text' = text
  <2>1. t.expected \in Nat /\ lock \in Nat
    BY <1>2 DEF WriteTxn, ApplyTxn, RestoredTxn, TypeOK
  <2> QED
    BY <1>2, <2>1 DEF DraftMoves, Ready
<1>3. CASE t \in WriteTxn
  <2>1. CASE t.op \in {"save", "save_commit"}
    BY <1>1, <1>2, <1>3, <2>1 DEF Promised, AddsOne
  <2>2. CASE t.op \in {"restore", "restore_number"}
    BY <1>1, <1>3, <2>2 DEF Promised, RowsStay
  <2> QED
    BY <1>3, <2>1, <2>2 DEF WriteTxn
<1>4. CASE t \in ApplyTxn
  <2>1. t.op \in {"apply", "apply_commit"} /\ t.x \in Proposals
    BY <1>4 DEF ApplyTxn
  <2>2. (Ready(t) /\ AddsOne(t, t.x))'
    BY <1>1, <1>2, <1>4, <2>1 DEF Promised, AddsOne
  <2> QED
    BY <2>1, <2>2 DEF Promised, RowsStay
<1>5. CASE t \in ResolveTxn
  BY <1>5 DEF Promised, RowsStay, ResolveTxn
<1>6. CASE t \in RestoredTxn
  BY <1>1, <1>6 DEF Promised, RowsStay, RestoredTxn
<1>7. CASE t \in SnapTxn \cup SnappedTxn
  BY <1>7 DEF Promised, RowsStay, SnapTxn, SnappedTxn
<1>8. CASE t = Idle
  BY <1>8 DEF Promised, Idle
<1> QED
  BY <1>3, <1>4, <1>5, <1>6, <1>7, <1>8 DEF Txn

(* One handler goes on with a promise of its own.                          *)
LEMMA MovePromise ==
    ASSUME TypeOK, RegisterInv, DraftMoves, RowsStay, NEW p \in Procs, NEW t, Goto(p, t),
           Promised(t)', (text \cap Proposals \subseteq saved)'
    PROVE  RegisterInv'
<1>1. txn'[p] = t /\ \A q \in Procs \ {p} : txn'[q] = txn[q] /\ txn[q] \in Txn
  BY DEF Goto, TypeOK
<1>2. Promised(txn[p])'
  BY <1>1 DEF Promised, Ready, AddsOne
<1>3. ASSUME NEW q \in Procs, q # p PROVE Promised(txn[q])'
  <2>1. Promised(txn[q]) /\ txn[q] \in Txn
    BY <1>1, <1>3 DEF RegisterInv
  <2>2. ASSUME NEW s \in Txn, s = txn[q], s = txn'[q] PROVE Promised(txn[q])'
    <3>1. Promised(s)'
      BY <2>1, <2>2, PromiseStays
    <3> QED
      BY <2>2, <3>1 DEF Promised, Ready, AddsOne
  <2> QED
    BY <1>1, <1>3, <2>1, <2>2
<1> QED
  BY <1>2, <1>3 DEF RegisterInv

(* A handler's step that changes no row and nothing an editor shows.       *)
LEMMA QuietPromise ==
    ASSUME TypeOK, RegisterInv, UNCHANGED <<stored, view>>, NEW p \in Procs, NEW t \in Txn,
           Goto(p, t), Promised(t)
    PROVE  RegisterInv'
<1>1. DraftMoves /\ RowsStay
  BY DEF DraftMoves, RowsStay, Shown, stored
<1>2. Promised(t)'
  BY <1>1, PromiseStays
<1>3. (text \cap Proposals \subseteq saved)'
  BY DEF RegisterInv, stored
<1> QED
  BY <1>1, <1>2, <1>3, MovePromise

(* A step that only ends handlers, or changes what they do not rely on.    *)
LEMMA StayPromise ==
    ASSUME TypeOK, RegisterInv, DraftMoves, RowsStay, UNCHANGED text,
           \A p \in Procs : txn'[p] = txn[p] \/ txn'[p] = Idle
    PROVE  RegisterInv'
<1>1. ASSUME NEW p \in Procs PROVE Promised(txn[p])'
  <2>1. CASE txn'[p] = Idle
    BY <2>1 DEF Promised, Idle
  <2>2. ASSUME NEW s \in Txn, s = txn[p], s = txn'[p] PROVE Promised(txn[p])'
    <3>1. Promised(s)'
      BY <2>2, PromiseStays DEF RegisterInv
    <3> QED
      BY <2>2, <3>1 DEF Promised, Ready, AddsOne
  <2> QED
    BY <2>1, <2>2 DEF TypeOK
<1> QED
  BY <1>1 DEF RegisterInv, RowsStay

LEMMA IdlePromise == Promised(Idle) /\ Promised(Idle)'
BY DEF Promised, Idle

LEMMA CallPromises ==
    ASSUME TypeOK, LockInv, RegisterInv, NEW p \in Procs, Call(p)
    PROVE  RegisterInv'
<1>1. ASSUME NEW t \in Txn, Start(p, t), Promised(t) PROVE RegisterInv'
  BY <1>1, QuietPromise DEF Start
<1>2. ASSUME NEW u \in Users
      PROVE  /\ view[u].lock <= lock /\ (view[u].lock = lock => view[u] = Shown)
             /\ view[u].text \in Texts /\ view[u].lock \in Nat
  BY DEF LockInv, LockNamesText, Shown, TypeOK
<1>3. ASSUME NEW u \in Users, NEW e \in Edits, Save(p, u, e) PROVE RegisterInv'
  <2> DEFINE t == [op |-> "save", u |-> u, new |-> view[u].text \cup {e},
                   expected |-> view[u].lock]
  <2>1. t \in Txn
    BY <1>2 DEF Txn, WriteTxn, Texts
  <2>2. view[u].lock = lock => view[u].text = text
    BY DEF LockInv, LockNamesText
  <2>3. Promised(t)
    BY <1>2, <1>3, <2>2 DEF Promised, Ready, AddsOne, Save
  <2> QED
    BY <1>1, <1>3, <2>1, <2>3 DEF Save
<1>4. ASSUME NEW u \in Users, NEW i \in 1..MaxVersions, RestoreLoad(p, u, i) PROVE RegisterInv'
  <2> DEFINE t == [op |-> "restore", u |-> u, new |-> versions[i].text,
                   expected |-> view[u].lock]
  <2>1. i \in DOMAIN versions /\ versions[i] \in Version
    BY <1>4 DEF RestoreLoad, TypeOK
  <2>2. t \in Txn
    BY <1>2, <2>1 DEF Txn, WriteTxn, Version
  <2>3. Promised(t)
    BY <1>2, <2>1 DEF Promised, Ready
  <2> QED
    BY <1>1, <1>4, <2>2, <2>3 DEF RestoreLoad
<1>5. ASSUME NEW u \in Users, NEW x \in Proposals, ApplyCheck(p, u, x) PROVE RegisterInv'
  <2> DEFINE t == [op |-> "apply", u |-> u, new |-> view[u].text \cup {x},
                   expected |-> view[u].lock, x |-> x]
  <2>1. t \in Txn
    BY <1>2 DEF Txn, ApplyTxn, Texts
  <2>2. view[u].lock = lock => view[u].text = text
    BY DEF LockInv, LockNamesText
  <2>3. Promised(t)
    BY <1>2, <1>5, <2>2 DEF Promised, Ready, AddsOne, ApplyCheck
  <2> QED
    BY <1>1, <1>5, <2>1, <2>3 DEF ApplyCheck
<1>6. CASE SnapLoad(p)
  <2> DEFINE t == [op |-> "snap_number", new |-> text]
  <2>1. t \in Txn /\ Promised(t)
    BY DEF Txn, SnapTxn, TypeOK, Promised, RegisterInv
  <2> QED
    BY <1>1, <1>6, <2>1 DEF SnapLoad
<1> QED
  BY <1>3, <1>4, <1>5, <1>6 DEF Call

LEMMA UpdatePromises ==
    ASSUME TypeOK, RegisterInv, NEW p \in Procs, SaveUpdate(p) \/ RestoreUpdate(p) \/ ApplyUpdate(p)
    PROVE  RegisterInv'
<1> DEFINE t == txn[p]
<1>1. ASSUME NEW to, [t EXCEPT !.op = to] \in Txn, Promised([t EXCEPT !.op = to]),
             Update(p, t.op, to)
      PROVE  RegisterInv'
  BY <1>1, QuietPromise, IdlePromise, IdleType DEF Update
<1>2. Promised(t)
  BY DEF RegisterInv
<1>3. CASE SaveUpdate(p)
  <2> DEFINE s == [t EXCEPT !.op = "save_commit"]
  <2>1. t \in WriteTxn /\ t.op = "save"
    BY <1>3, TxnShape DEF SaveUpdate, Update
  <2>2. s \in Txn /\ s.op = "save_commit" /\ s.u = t.u /\ s.new = t.new
        /\ s.expected = t.expected
    BY <2>1 DEF WriteTxn, Txn
  <2>3. Promised(s)
    BY <1>2, <2>1, <2>2 DEF Promised, Ready, AddsOne
  <2> QED
    BY <1>1, <1>3, <2>1, <2>2, <2>3 DEF SaveUpdate
<1>4. CASE RestoreUpdate(p)
  <2> DEFINE s == [t EXCEPT !.op = "restore_number"]
  <2>1. t \in WriteTxn /\ t.op = "restore"
    BY <1>4, TxnShape DEF RestoreUpdate, Update
  <2>2. s \in Txn /\ s.op = "restore_number" /\ s.u = t.u /\ s.new = t.new
        /\ s.expected = t.expected
    BY <2>1 DEF WriteTxn, Txn
  <2>3. Promised(s)
    BY <1>2, <2>1, <2>2 DEF Promised, Ready
  <2> QED
    BY <1>1, <1>4, <2>1, <2>2, <2>3 DEF RestoreUpdate
<1>5. CASE ApplyUpdate(p)
  <2> DEFINE s == [t EXCEPT !.op = "apply_commit"]
  <2>1. t \in ApplyTxn /\ t.op = "apply"
    BY <1>5, TxnShape DEF ApplyUpdate, Update
  <2>2. s \in Txn /\ s.op = "apply_commit" /\ s.u = t.u /\ s.new = t.new
        /\ s.expected = t.expected /\ s.x = t.x
    BY <2>1 DEF ApplyTxn, Txn
  <2>3. Promised(s)
    BY <1>2, <2>1, <2>2 DEF Promised, Ready, AddsOne
  <2> QED
    BY <1>1, <1>5, <2>1, <2>2, <2>3 DEF ApplyUpdate
<1> QED
  BY <1>3, <1>4, <1>5

(* The commit of a draft gives it a lock_version nobody has.               *)
LEMMA WritePromises ==
    ASSUME TypeOK, RegisterInv, NEW p \in Procs, Writing(p), Write(p), NEW t, Goto(p, t),
           Promised(t)', UNCHANGED status,
           \A i \in DOMAIN versions : i \in DOMAIN versions' /\ versions'[i] = versions[i]
    PROVE  RegisterInv'
<1>1. text' = txn[p].new /\ saved' = saved \cup (txn[p].new \cap Proposals)
  BY DEF Write
<1>2. DraftMoves
  BY WriteType DEF DraftMoves
<1>3. RowsStay
  BY <1>1 DEF RowsStay
<1> QED
  BY <1>1, <1>2, <1>3, MovePromise

LEMMA AddedStays ==
    ASSUME TypeOK, NEW p \in Procs, versions' = Added(p)
    PROVE  \A i \in DOMAIN versions : i \in DOMAIN versions' /\ versions'[i] = versions[i]
<1>1. versions \in Seq(Version)
  BY DEF TypeOK
<1> DEFINE v == [number |-> txn[p].number, text |-> txn[p].new]
<1>2. versions' = Append(versions, v)
  BY DEF Added
<1> HIDE DEF v
<1> QED
  BY <1>1, <1>2

LEMMA ProceedPromises ==
    ASSUME TypeOK, Numbered, RegisterInv, NEW p \in Procs, Proceed(p)
    PROVE  RegisterInv'
<1> DEFINE t == txn[p]
<1>0. Promised(t)
  BY DEF RegisterInv
<1>1. CASE SaveCommit(p)
  BY <1>1, IdlePromise, WritePromises DEF SaveCommit, Writing
<1>2. CASE ApplyCommit(p)
  <2>1. PICK s : s = [op |-> "resolve", x |-> t.x]
    OBVIOUS
  <2>2. s.op = "resolve" /\ status[s.x] # "none" /\ status' = status
    BY <1>0, <1>2, <2>1 DEF Promised, ApplyCommit
  <2>3. Promised(s)'
    BY <2>2 DEF Promised
  <2>4. Writing(p) /\ Write(p) /\ Goto(p, s) /\ versions' = versions
    BY <1>2, <2>1 DEF ApplyCommit, Writing
  <2> QED
    BY <2>2, <2>3, <2>4, WritePromises
<1>3. CASE RestoreCommit(p)
  BY <1>3, IdlePromise, AddedStays, WritePromises DEF RestoreCommit, Writing
<1>4. CASE SnapNumber(p)
  <2> DEFINE s == [op |-> "snap_commit", new |-> t.new, number |-> NextNumber]
  <2>1. t \in SnapTxn /\ NextNumber \in Nat
    BY <1>4, TxnShape, LargestExists DEF SnapNumber, NumberFits
  <2>2. s \in Txn
    BY <2>1 DEF SnapTxn, SnappedTxn, Txn
  <2>3. Promised(s)
    BY <1>0, <1>4 DEF Promised, SnapNumber
  <2> QED
    BY <1>4, <2>2, <2>3, QuietPromise DEF SnapNumber
<1>5. CASE RestoreNumber(p)
  <2> DEFINE s == [op |-> "restore_commit", u |-> t.u, new |-> t.new,
                   expected |-> t.expected, number |-> NextNumber]
  <2>1. t \in WriteTxn /\ NextNumber \in Nat
    BY <1>5, TxnShape, LargestExists DEF RestoreNumber, NumberFits
  <2>2. s \in Txn
    BY <2>1 DEF WriteTxn, RestoredTxn, Txn
  <2>3. Promised(s)
    BY <1>0, <1>5 DEF Promised, RestoreNumber, Ready
  <2> QED
    BY <1>5, <2>2, <2>3, QuietPromise DEF RestoreNumber
<1>6. CASE SnapCommit(p)
  <2>1. DraftMoves /\ RowsStay
    BY <1>6, AddedStays DEF SnapCommit, DraftMoves, RowsStay, Shown
  <2> QED
    BY <1>6, <2>1, StayPromise DEF SnapCommit, Goto, TypeOK
<1>7. CASE ApplyResolve(p)
  <2>1. DraftMoves /\ RowsStay
    BY <1>7 DEF ApplyResolve, DraftMoves, RowsStay, Shown, Resolve, Resolved, TypeOK
  <2> QED
    BY <1>7, <2>1, StayPromise DEF ApplyResolve, Goto, TypeOK
<1> QED
  BY <1>1, <1>2, <1>3, <1>4, <1>5, <1>6, <1>7, UpdatePromises DEF Proceed

LEMMA NextPromises == TypeOK /\ Numbered /\ LockInv /\ RegisterInv /\ [Next]_vars => RegisterInv'
<1> SUFFICES ASSUME TypeOK, Numbered, LockInv, RegisterInv, [Next]_vars PROVE RegisterInv'
  OBVIOUS
<1>1. ASSUME NEW u \in Users, Refresh(u) PROVE RegisterInv'
  BY <1>1, StayPromise DEF Refresh, stored, DraftMoves, RowsStay, Shown, TypeOK
<1>2. ASSUME NEW x \in Proposals, Propose(x) \/ Reject(x) PROVE RegisterInv'
  <2>1. DraftMoves /\ RowsStay
    BY <1>2 DEF Propose, Reject, Resolve, Resolved, DraftMoves, RowsStay, Shown, TypeOK
  <2> QED
    BY <1>2, <2>1, StayPromise DEF Propose, Reject
<1>3. CASE Crash
  BY <1>3, StayPromise DEF Crash, stored, DraftMoves, RowsStay, Shown
<1>4. CASE UNCHANGED vars
  BY <1>4, StayPromise DEF vars, stored, DraftMoves, RowsStay, Shown
<1> QED
  BY <1>1, <1>2, <1>3, <1>4, CallPromises, ProceedPromises DEF Next

-----------------------------------------------------------------------------
(* Each step of a handler is one step of the register, or none.            *)

LEMMA PutImplemented ==
    ASSUME TypeOK, LockInv, RegisterInv, NEW p \in Procs, Writing(p), Write(p)
    PROVE  txn[p].expected = lock /\ Register!Put(txn[p].u, txn[p].new)
<1> DEFINE t == txn[p]
<1>1. t.expected = lock /\ t.u \in Users
  BY UpdateShape DEF LockInv, LockNamesText
<1>2. view[t.u] = Shown
  BY <1>1 DEF RegisterInv, Promised, Ready, Writing
<1>3. /\ text' = t.new /\ lock' = lock + 1
      /\ saved' = saved \cup (t.new \cap Proposals)
      /\ view' = view \/ view' = [view EXCEPT ![t.u] = [text |-> t.new, lock |-> lock']]
  BY WriteType DEF Write
<1> QED
  BY <1>1, <1>2, <1>3 DEF Register!Put, Register!Shown, Shown

LEMMA AddImplemented ==
    ASSUME TypeOK, Numbered, NEW p \in Procs,
           txn[p].op \in {"snap_commit", "restore_commit"}, versions' = Added(p)
    PROVE  Register!Add(txn[p].new)
<1> DEFINE m == txn[p].number
<1>1. m \in Nat \ {0} /\ \A k \in 1..(m - 1) : k \in Numbers
  BY DEF Numbered, NumberFits
<1>2. m - 1 \in Numbers \cup {0} /\ (m - 1) + 1 = m
  <2>1. m - 1 = 0 \/ m - 1 \in 1..(m - 1)
    BY <1>1
  <2> QED
    BY <1>1, <2>1
<1>3. Register!Numbers = Numbers
  BY DEF Register!Numbers, Numbers
<1> QED
  BY <1>2, <1>3 DEF Register!Add, Added

LEMMA ProceedImplements ==
    ASSUME TypeOK, Numbered, LockInv, ProposalInv, RegisterInv, NEW p \in Procs, Proceed(p)
    PROVE  [Register!Next]_(Register!register)
<1> DEFINE t == txn[p]
<1>0. Promised(t)
  BY DEF RegisterInv
<1>1. CASE SaveCommit(p)
  <2>1. t.expected = lock /\ Register!Put(t.u, t.new)
    BY <1>1, PutImplemented DEF SaveCommit, Writing
  <2>2. PICK e \in Edits : t.new = text \cup {e} /\ e \notin text
    BY <1>0, <1>1, <2>1 DEF Promised, AddsOne, SaveCommit
  <2>3. t.u \in Users
    BY <1>1, UpdateShape DEF SaveCommit, Writing
  <2>4. Register!Save(t.u, e)
    BY <1>1, <2>1, <2>2 DEF Register!Save, SaveCommit
  <2> QED
    BY <2>3, <2>4 DEF Register!Next
<1>2. CASE ApplyCommit(p)
  <2>1. t.expected = lock /\ Register!Put(t.u, t.new)
    BY <1>2, PutImplemented DEF ApplyCommit, Writing
  <2>2. t.new = text \cup {t.x} /\ status[t.x] # "none"
    BY <1>0, <1>2, <2>1 DEF Promised, AddsOne, ApplyCommit
  <2>3. t.u \in Users /\ t.x \in Proposals
    BY <1>2, TxnShape DEF ApplyCommit, ApplyTxn
  <2>4. Register!Apply(t.u, t.x)
    BY <1>2, <2>1, <2>2 DEF Register!Apply, ApplyCommit
  <2> QED
    BY <2>3, <2>4 DEF Register!Next
<1>3. CASE RestoreCommit(p)
  <2>1. Register!Put(t.u, t.new)
    BY <1>3, PutImplemented DEF RestoreCommit, Writing
  <2>2. PICK i \in DOMAIN versions : versions[i].text = t.new
    BY <1>0, <1>3 DEF Promised, RestoreCommit
  <2>3. Register!Add(t.new)
    BY <1>3, AddImplemented DEF RestoreCommit
  <2>4. t.u \in Users
    BY <1>3, UpdateShape DEF RestoreCommit, Writing
  <2>5. Register!Restore(t.u, i)
    BY <1>3, <2>1, <2>2, <2>3 DEF Register!Restore, RestoreCommit
  <2> QED
    BY <2>4, <2>5 DEF Register!Next
<1>4. CASE SnapCommit(p)
  <2>1. Register!Add(t.new)
    BY <1>4, AddImplemented DEF SnapCommit
  <2>2. t.new \in SUBSET (Edits \cup Proposals)
    BY <1>4, TxnShape DEF SnapCommit, SnappedTxn, Texts
  <2>3. t.new \cap Proposals \subseteq saved
    BY <1>0, <1>4 DEF Promised, SnapCommit
  <2>4. Register!Snapshot(t.new)
    BY <1>4, <2>1, <2>3 DEF Register!Snapshot, SnapCommit
  <2> QED
    BY <2>2, <2>4 DEF Register!Next
<1>5. CASE ApplyResolve(p)
  <2>1. t.x \in Proposals /\ t.x \in saved
    BY <1>5, TxnShape DEF ApplyResolve, ResolveTxn, ProposalInv, AppliesCarry, Carries
  <2>2. CASE status[t.x] = "pending"
    <3>1. Register!Answer(t.x, "pending", "accepted")
      BY <1>5, <2>2 DEF ApplyResolve, Resolve, Resolved, Register!Answer
    <3> QED
      BY <2>1, <3>1 DEF Register!Next
  <2>3. CASE status[t.x] # "pending"
    BY <1>5, <2>1, <2>3 DEF ApplyResolve, Resolve, Resolved, TypeOK, Register!register
  <2> QED
    BY <2>2, <2>3
<1>6. CASE SaveUpdate(p) \/ RestoreUpdate(p) \/ ApplyUpdate(p) \/ SnapNumber(p) \/ RestoreNumber(p)
  BY <1>6 DEF SaveUpdate, RestoreUpdate, ApplyUpdate, Update, SnapNumber, RestoreNumber, stored,
              Register!register
<1> QED
  BY <1>1, <1>2, <1>3, <1>4, <1>5, <1>6 DEF Proceed

LEMMA DocumentStepImplements ==
    ASSUME TypeOK, Numbered, LockInv, ProposalInv, RegisterInv, [Next]_vars
    PROVE  [Register!Next]_(Register!register)
<1>1. ASSUME NEW p \in Procs, Call(p) PROVE UNCHANGED Register!register
  BY <1>1 DEF Call, Save, RestoreLoad, ApplyCheck, SnapLoad, Start, stored, Register!register
<1>2. ASSUME NEW u \in Users, Refresh(u) PROVE Register!Next
  BY <1>2 DEF Refresh, stored, Register!Refresh, Register!Shown, Register!Next
<1>3. ASSUME NEW x \in Proposals, Propose(x) PROVE Register!Next
  BY <1>3 DEF Propose, Register!Answer, Register!Next
<1>4. ASSUME NEW x \in Proposals, Reject(x) PROVE [Register!Next]_(Register!register)
  <2>1. CASE status[x] = "pending"
    <3>1. Register!Answer(x, "pending", "rejected")
      BY <1>4, <2>1 DEF Reject, Resolve, Resolved, Register!Answer
    <3> QED
      BY <3>1 DEF Register!Next
  <2>2. CASE status[x] # "pending"
    BY <1>4, <2>2 DEF Reject, Resolve, Resolved, TypeOK, Register!register
  <2> QED
    BY <2>1, <2>2
<1>5. CASE Crash \/ UNCHANGED vars
  BY <1>5 DEF Crash, vars, stored, Register!register
<1> QED
  BY <1>1, <1>2, <1>3, <1>4, <1>5, ProceedImplements DEF Next

(* Every behaviour of the handlers is one of the register: what they save, *)
(* restore, snapshot and answer takes effect in single steps, by an editor *)
(* that shows the current draft.                                           *)
THEOREM DocumentIsRegister == Spec => ImplementsRegister
<1>1. Init => RegisterInv
  BY DEF Init, RegisterInv, Promised, Idle
<1>2. Init => ProposalInv
  BY DEF Init, ProposalInv, AcceptedIsSaved, AppliesCarry, Carries, Idle
<1>3. Init => Register!Init
  BY DEF Init, Register!Init
<1> QED
  BY <1>1, <1>2, <1>3, InitNumbered, NextTypeNumbered, InitLock, NextLockInv, NextProposals,
     NextPromises, DocumentStepImplements, PTL
  DEF Spec, ImplementsRegister, Register!Spec

-----------------------------------------------------------------------------
(* Chat turns.                                                             *)

Taken(w) == worker[w] # NoJob

(* A worker that is not idle remembers a job.                              *)
LEMMA JobShape ==
    ASSUME ChatTypeOK, NEW w \in Workers, worker[w].at # "idle" \/ Taken(w)
    PROVE  worker[w] \in Job /\ Taken(w) /\ Mine(w) \in Requests /\ MyRoom(w) \in Rooms
<1>1. worker[w] \in {NoJob} \cup Job
  BY DEF ChatTypeOK
<1>2. worker[w] \in Job /\ Taken(w)
  BY <1>1 DEF NoJob, Job, Taken, Running
<1>3. worker[w].r \in Requests
  BY <1>2 DEF Job
<1> QED
  BY <1>2, <1>3, ChatAssumptions DEF Mine, MyRoom

LEMMA BusyShape ==
    ASSUME ChatTypeOK, NEW w \in Workers, Busy(w)
    PROVE  worker[w] \in Job /\ Taken(w) /\ Mine(w) \in Requests /\ MyRoom(w) \in Rooms
BY JobShape DEF Busy, Running

(* A worker goes on with its job, or is done with it.                      *)
LEMMA GoOnShape ==
    ASSUME ChatTypeOK, NEW w \in Workers, worker[w] \in Job,
           NEW at \in {"popped", "requeue"} \cup Running, GoOn(w, at)
    PROVE  /\ worker' \in [Workers -> {NoJob} \cup Job]
           /\ worker'[w] \in Job /\ worker'[w].at = at /\ worker'[w].r = worker[w].r
           /\ worker'[w].handled = worker[w].handled
           /\ \A v \in Workers \ {w} : worker'[v] = worker[v]
BY DEF ChatTypeOK, Job, GoOn

LEMMA IdleShape ==
    ASSUME ChatTypeOK, NEW w \in Workers, worker' = [worker EXCEPT ![w] = NoJob]
    PROVE  /\ worker' \in [Workers -> {NoJob} \cup Job]
           /\ worker'[w] = NoJob /\ \A v \in Workers \ {w} : worker'[v] = worker[v]
BY DEF ChatTypeOK

LEMMA TakeShape ==
    ASSUME ChatTypeOK, NEW w \in Workers, NEW r \in Requests, Take(w, r)
    PROVE  /\ worker' \in [Workers -> {NoJob} \cup Job]
           /\ worker'[w] \in Job /\ worker'[w].at = "popped" /\ worker'[w].r = r
           /\ \A v \in Workers \ {w} : worker'[v] = worker[v]
BY DEF ChatTypeOK, Job, Take

(* What a pop takes, and leaves, of either queue.                          *)
Elems(q) == {q[i] : i \in DOMAIN q}
NoRepeat(q) == \A i, j \in DOMAIN q : q[i] = q[j] => i = j

LEMMA PopLast ==
    ASSUME NEW q \in Seq(Requests), q # <<>>
    PROVE  /\ q[Len(q)] \in Requests /\ q[Len(q)] \in Elems(q)
           /\ SubSeq(q, 1, Len(q) - 1) \in Seq(Requests)
           /\ Elems(SubSeq(q, 1, Len(q) - 1)) \subseteq Elems(q)
           /\ NoRepeat(q) => /\ NoRepeat(SubSeq(q, 1, Len(q) - 1))
                             /\ q[Len(q)] \notin Elems(SubSeq(q, 1, Len(q) - 1))
<1> DEFINE s == SubSeq(q, 1, Len(q) - 1)
<1>1. Len(q) \in Nat \ {0} /\ DOMAIN q = 1..Len(q)
  OBVIOUS
<1>2. /\ s \in Seq(Requests) /\ DOMAIN s = 1..(Len(q) - 1)
      /\ \A i \in 1..(Len(q) - 1) : s[i] = q[i]
  BY <1>1
<1>3. \A i \in DOMAIN s : i \in DOMAIN q /\ i # Len(q)
  BY <1>1, <1>2
<1>4. Len(q) \in DOMAIN q
  BY <1>1
<1> HIDE DEF s
<1>5. Elems(s) \subseteq Elems(q)
  BY <1>2, <1>3 DEF Elems
<1>6. NoRepeat(q) => NoRepeat(s) /\ q[Len(q)] \notin Elems(s)
  BY <1>2, <1>3, <1>4 DEF NoRepeat, Elems
<1>7. q[Len(q)] \in Requests /\ q[Len(q)] \in Elems(q)
  BY <1>4 DEF Elems
<1> QED
  BY <1>2, <1>5, <1>6, <1>7 DEF s

LEMMA PopFirst ==
    ASSUME NEW q \in Seq(Requests), q # <<>>
    PROVE  /\ Head(q) \in Requests /\ Head(q) \in Elems(q)
           /\ Tail(q) \in Seq(Requests)
           /\ Elems(Tail(q)) \subseteq Elems(q)
           /\ NoRepeat(q) => NoRepeat(Tail(q)) /\ Head(q) \notin Elems(Tail(q))
<1> DEFINE s == Tail(q)
<1>1. Len(q) \in Nat \ {0} /\ DOMAIN q = 1..Len(q) /\ Head(q) = q[1]
  OBVIOUS
<1>2. /\ s \in Seq(Requests) /\ DOMAIN s = 1..(Len(q) - 1)
      /\ \A i \in 1..(Len(q) - 1) : s[i] = q[i + 1]
  BY <1>1
<1>3. \A i \in DOMAIN s : i \in Nat /\ i + 1 \in DOMAIN q /\ i + 1 # 1
  BY <1>1, <1>2
<1>4. 1 \in DOMAIN q
  BY <1>1
<1>5. \A i, j \in DOMAIN s : i + 1 = j + 1 => i = j
  BY <1>3
<1> HIDE DEF s
<1>6. Elems(s) \subseteq Elems(q)
  BY <1>2, <1>3 DEF Elems
<1>7. NoRepeat(q) => NoRepeat(s) /\ Head(q) \notin Elems(s)
  BY <1>1, <1>2, <1>3, <1>4, <1>5 DEF NoRepeat, Elems
<1>8. Head(q) \in Requests /\ Head(q) \in Elems(q)
  BY <1>1, <1>4 DEF Elems
<1> QED
  BY <1>2, <1>6, <1>7, <1>8 DEF s

LEMMA PushLast ==
    ASSUME NEW q \in Seq(Requests), NEW r \in Requests
    PROVE  /\ Append(q, r) \in Seq(Requests)
           /\ Elems(Append(q, r)) = Elems(q) \cup {r}
           /\ NoRepeat(q) /\ r \notin Elems(q) => NoRepeat(Append(q, r))
<1> DEFINE s == Append(q, r)
<1>1. Len(q) \in Nat /\ DOMAIN q = 1..Len(q)
  OBVIOUS
<1>2. /\ s \in Seq(Requests) /\ DOMAIN s = 1..(Len(q) + 1)
      /\ \A i \in 1..Len(q) : s[i] = q[i]
      /\ s[Len(q) + 1] = r
  BY <1>1
<1>3. DOMAIN s = (DOMAIN q) \cup {Len(q) + 1}
  BY <1>1, <1>2
<1> HIDE DEF s
<1>4. Elems(s) = Elems(q) \cup {r}
  BY <1>1, <1>2, <1>3 DEF Elems
<1>5. NoRepeat(q) /\ r \notin Elems(q) => NoRepeat(s)
  BY <1>1, <1>2, <1>3 DEF Elems, NoRepeat
<1> QED
  BY <1>2, <1>4, <1>5 DEF s

-----------------------------------------------------------------------------
(* Type correctness.                                                       *)

LEMMA TurnType ==
    ASSUME ChatTypeOK, NEW w \in Workers, WorkerStep(w)
    PROVE  ChatTypeOK'
<1> USE DEF Running
<1>1. CASE Pop(w)
  <2>0. jobs \in Seq(Requests) /\ local \in Seq(Requests)
    BY DEF ChatTypeOK
  <2>1. ASSUME redis
        PROVE  /\ jobs' \in Seq(Requests) /\ local' \in Seq(Requests)
               /\ worker' \in [Workers -> {NoJob} \cup Job]
    <3>1. jobs # <<>> /\ Take(w, jobs[Len(jobs)])
          /\ jobs' = SubSeq(jobs, 1, Len(jobs) - 1) /\ local' = local
      BY <1>1, <2>1 DEF Pop
    <3>2. jobs[Len(jobs)] \in Requests /\ SubSeq(jobs, 1, Len(jobs) - 1) \in Seq(Requests)
      BY <2>0, <3>1, PopLast
    <3> QED
      BY <2>0, <3>1, <3>2, TakeShape
  <2>2. ASSUME ~redis
        PROVE  /\ jobs' \in Seq(Requests) /\ local' \in Seq(Requests)
               /\ worker' \in [Workers -> {NoJob} \cup Job]
    BY <1>1, <2>0, <2>2, PopFirst, TakeShape DEF Pop
  <2> QED
    BY <1>1, <2>1, <2>2 DEF Pop, ChatTypeOK, outcome
<1>2. CASE Claim(w)
  <2>1. worker[w] \in Job /\ Mine(w) \in Requests /\ MyRoom(w) \in Rooms
    BY <1>2, JobShape DEF Claim
  <2>2. worker' \in [Workers -> {NoJob} \cup Job]
    BY <1>2, <2>1, GoOnShape DEF Claim
  <2> QED
    BY <1>2, <2>1, <2>2 DEF Claim, ChatTypeOK, queues, outcome
<1>3. CASE ClaimFail(w)
  BY <1>3, JobShape, IdleShape DEF ClaimFail, Lose, ChatTypeOK, queues, outcome
<1>4. CASE Requeue(w)
  <2>1. Mine(w) \in Requests /\ worker' \in [Workers -> {NoJob} \cup Job]
    BY <1>4, JobShape, IdleShape DEF Requeue
  <2>2. jobs \in Seq(Requests)
    BY DEF ChatTypeOK
  <2>3. jobs' \in Seq(Requests)
    BY <1>4, <2>1, <2>2, PushLast DEF Requeue
  <2>4. lost' \subseteq Requests
    BY <1>4, <2>1 DEF Requeue, Lose, ChatTypeOK
  <2> QED
    BY <1>4, <2>1, <2>3, <2>4 DEF Requeue, ChatTypeOK, outcome
<1>5. CASE Release(w)
  <2>1. worker' \in [Workers -> {NoJob} \cup Job]
    BY <1>5, IdleShape DEF Release
  <2> QED
    BY <1>5, <2>1 DEF Release, ChatTypeOK, queues, outcome
<1>6. CASE Think(w)
  BY <1>6, JobShape, GoOnShape DEF Think, Publish, Phases, Rank, ChatTypeOK, queues
<1>7. CASE ReadHistory(w)
  <2>1. worker[w] \in Job
    BY <1>7, JobShape DEF ReadHistory
  <2>2. worker' \in [Workers -> {NoJob} \cup Job]
    BY <1>7, <2>1 DEF ReadHistory, ChatTypeOK, Job
  <2> QED
    BY <1>7, <2>2 DEF ReadHistory, ChatTypeOK, queues, outcome
<1>8. CASE FirstToken(w)
  BY <1>8, JobShape, GoOnShape DEF FirstToken, Publish, Phases, Rank, ChatTypeOK, queues
<1>9. CASE Reply(w)
  <2>1. worker[w] \in Job /\ worker' \in [Workers -> {NoJob} \cup Job]
    BY <1>9, JobShape, GoOnShape DEF Reply
  <2>2. replies' \in [Requests -> Nat]
    <3> DEFINE r == Mine(w)
    <3>1. replies' = [replies EXCEPT ![r] = replies[r] + 1] /\ replies \in [Requests -> Nat]
      BY <1>9 DEF Reply, ChatTypeOK
    <3>2. r \in Requests
      BY <1>9, JobShape DEF Reply
    <3> HIDE DEF r
    <3> QED
      BY <3>1, <3>2
  <2> QED
    BY <1>9, <2>1, <2>2 DEF Reply, ChatTypeOK, queues
<1>10. CASE Complete(w)
  BY <1>10, JobShape, GoOnShape DEF Complete, Publish, Phases, Rank, ChatTypeOK, queues
<1>11. CASE RecordDone(w)
  BY <1>11, JobShape, GoOnShape DEF RecordDone, ChatTypeOK, queues
<1>12. CASE Raise(w)
  <2>1. worker[w] \in Job /\ Mine(w) \in Requests
    BY <1>12, JobShape DEF Raise
  <2>2. worker' \in [Workers -> {NoJob} \cup Job]
    BY <1>12, <2>1, GoOnShape DEF Raise
  <2> QED
    BY <1>12, <2>1, <2>2 DEF Raise, Lose, Publish, Phases, Rank, ChatTypeOK, queues
<1> QED
  BY <1>1, <1>2, <1>3, <1>4, <1>5, <1>6, <1>7, <1>8, <1>9, <1>10, <1>11, <1>12 DEF WorkerStep

LEMMA ChatNextType == ChatTypeOK /\ [ChatNext]_chatVars => ChatTypeOK'
<1> SUFFICES ASSUME ChatTypeOK, [ChatNext]_chatVars PROVE ChatTypeOK'
  OBVIOUS
<1>1. ASSUME NEW r \in Requests, Post(r) PROVE ChatTypeOK'
  BY <1>1 DEF Post, Publish, Phases, Rank, ChatTypeOK, queues
<1>2. ASSUME NEW r \in Requests, Enqueue(r) PROVE ChatTypeOK'
  <2>1. jobs \in Seq(Requests) /\ local \in Seq(Requests)
    BY DEF ChatTypeOK
  <2>2. jobs' \in Seq(Requests) /\ local' \in Seq(Requests)
    BY <1>2, <2>1, PushLast DEF Enqueue, Push, queues
  <2>3. lost' \subseteq Requests /\ posting' \subseteq Requests
    BY <1>2 DEF Enqueue, Lose, ChatTypeOK
  <2> QED
    BY <1>2, <2>2, <2>3 DEF Enqueue, ChatTypeOK, outcome
<1>3. ASSUME NEW m \in Rooms, Expire(m) PROVE ChatTypeOK'
  BY <1>3 DEF Expire, ChatTypeOK, queues, outcome
<1>4. CASE Restart
  <2>1. InMemory \subseteq Requests
    <3>1. \A w \in Workers : worker[w] # NoJob => Mine(w) \in Requests
      BY JobShape DEF Taken
    <3> QED
      BY <3>1 DEF InMemory, ChatTypeOK
  <2>2. crashes' \in 0..MaxCrashes
    BY <1>4, ChatAssumptions DEF Restart, ChatTypeOK
  <2> QED
    BY <1>4, <2>1, <2>2 DEF Restart, ChatTypeOK, outcome
<1>5. CASE UNCHANGED chatVars
  BY <1>5 DEF chatVars, ChatTypeOK, queues, outcome
<1> QED
  BY <1>1, <1>2, <1>3, <1>4, <1>5, TurnType DEF ChatNext

LEMMA InitType == ChatInit => ChatTypeOK
BY ChatAssumptions DEF ChatInit, ChatTypeOK, Phases, Rank

(* Queues, keys, workers and records keep their types under any            *)
(* interleaving of workers, failures and restarts.                         *)
THEOREM ChatTypeCorrect == ChatSpec => []ChatTypeOK
BY InitType, ChatNextType, PTL DEF ChatSpec

-----------------------------------------------------------------------------
(* One turn of a room at a time.  With Redis a running turn holds its      *)
(* room's key, which is what the next turn's SET NX looks at.              *)

KeyHeld == redis => \A w \in Workers : Busy(w) => busy[MyRoom(w)] = Mine(w)
RoomInv == OneTurnPerRoom /\ KeyHeld

(* A step that keeps the keys and lets workers only stop, or go on with    *)
(* the job they run.                                                       *)
LEMMA KeepRooms ==
    ASSUME ChatTypeOK, RoomInv, redis' = redis, busy' = busy,
           \A w \in Workers : Busy(w)' => Busy(w) /\ Mine(w)' = Mine(w)
    PROVE  RoomInv'
<1>1. \A w \in Workers : Busy(w)' => Busy(w) /\ Mine(w)' = Mine(w) /\ MyRoom(w)' = MyRoom(w)
  BY DEF Mine, MyRoom
<1>2. OneTurnPerRoom'
  BY <1>1 DEF RoomInv, OneTurnPerRoom
<1>3. KeyHeld'
  BY <1>1 DEF RoomInv, KeyHeld
<1> QED
  BY <1>2, <1>3 DEF RoomInv

LEMMA ClaimRooms ==
    ASSUME ChatTypeOK, RoomInv, NEW w \in Workers, Claim(w)
    PROVE  RoomInv'
<1>1. worker[w] \in Job /\ Mine(w) \in Requests /\ MyRoom(w) \in Rooms /\ ~Busy(w)
  BY JobShape DEF Claim, Busy, Running
<1>2. /\ Mine(w)' = Mine(w) /\ MyRoom(w)' = MyRoom(w)
      /\ \A v \in Workers \ {w} : worker'[v] = worker[v]
  BY <1>1, GoOnShape DEF Claim, Running, Mine, MyRoom
<1>3. \A v \in Workers \ {w} : /\ Busy(v)' <=> Busy(v)
                               /\ Mine(v)' = Mine(v) /\ MyRoom(v)' = MyRoom(v)
  BY <1>2 DEF Busy, Mine, MyRoom
<1>4. CASE redis /\ busy[MyRoom(w)] # None
  BY <1>1, <1>3, <1>4, GoOnShape, KeepRooms DEF Claim, Busy, Running
<1>5. CASE ~redis
  <2>1. \A v \in Workers \ {w} : Busy(v) => MyRoom(v) # MyRoom(w)
    BY <1>5 DEF Claim, RoomLocked
  <2>2. OneTurnPerRoom'
    BY <1>2, <1>3, <2>1 DEF RoomInv, OneTurnPerRoom
  <2> QED
    BY <1>5, <2>2 DEF Claim, RoomInv, KeyHeld
<1>6. CASE redis /\ busy[MyRoom(w)] = None
  <2>1. \A v \in Workers : Busy(v) => MyRoom(v) # MyRoom(w)
    <3>1. \A v \in Workers : Busy(v) => Mine(v) # None
      BY BusyShape, ChatAssumptions
    <3> QED
      BY <1>6, <3>1 DEF RoomInv, KeyHeld
  <2>2. OneTurnPerRoom'
    BY <1>2, <1>3, <2>1 DEF RoomInv, OneTurnPerRoom
  <2>3. busy' = [busy EXCEPT ![MyRoom(w)] = Mine(w)] /\ redis' = redis
    BY <1>6 DEF Claim
  <2>4. ASSUME NEW v \in Workers, Busy(v)' PROVE busy'[MyRoom(v)'] = Mine(v)'
    <3>1. CASE v = w
      BY <1>1, <1>2, <2>3, <3>1 DEF ChatTypeOK
    <3>2. CASE v # w
      <4>1. Busy(v) /\ MyRoom(v) \in Rooms /\ MyRoom(v) # MyRoom(w)
        BY <1>3, <2>1, <2>4, <3>2, BusyShape
      <4>2. busy'[MyRoom(v)] = busy[MyRoom(v)]
        BY <2>3, <4>1 DEF ChatTypeOK
      <4> QED
        BY <1>3, <1>6, <3>2, <4>1, <4>2 DEF RoomInv, KeyHeld
    <3> QED
      BY <3>1, <3>2
  <2>5. KeyHeld'
    BY <2>4 DEF KeyHeld
  <2> QED
    BY <2>2, <2>5 DEF RoomInv
<1> QED
  BY <1>4, <1>5, <1>6 DEF Claim

(* The end of a turn frees the room for nobody else's turn.                *)
LEMMA ReleaseRooms ==
    ASSUME ChatTypeOK, RoomInv, NEW w \in Workers, Release(w)
    PROVE  RoomInv'
<1>1. Busy(w) /\ MyRoom(w) \in Rooms
  BY JobShape DEF Release, Busy, Running
<1>2. ~Busy(w)' /\ \A v \in Workers \ {w} : worker'[v] = worker[v]
  BY IdleShape DEF Release, Busy, NoJob, Running
<1>3. \A v \in Workers : Busy(v)' => /\ v # w /\ Busy(v)
                                     /\ Mine(v)' = Mine(v) /\ MyRoom(v)' = MyRoom(v)
                                     /\ MyRoom(v) # MyRoom(w)
  BY <1>1, <1>2 DEF Busy, Mine, MyRoom, RoomInv, OneTurnPerRoom
<1>4. OneTurnPerRoom'
  BY <1>3 DEF RoomInv, OneTurnPerRoom
<1>5. \A m \in Rooms : m # MyRoom(w) => busy'[m] = busy[m]
  BY <1>1 DEF Release, ChatTypeOK
<1>6. \A v \in Workers : Busy(v) => MyRoom(v) \in Rooms
  BY BusyShape
<1>7. KeyHeld'
  BY <1>3, <1>5, <1>6 DEF RoomInv, KeyHeld, Release
<1> QED
  BY <1>4, <1>7 DEF RoomInv

LEMMA TurnRooms ==
    ASSUME ChatTypeOK, RoomInv, NEW w \in Workers, WorkerStep(w)
    PROVE  RoomInv'
<1>1. CASE Pop(w)
  <2>1. PICK r : Take(w, r) /\ worker[w] = NoJob /\ redis' = redis /\ busy' = busy
    BY <1>1 DEF Pop
  <2>2. ~Busy(w)' /\ \A v \in Workers \ {w} : worker'[v] = worker[v]
    BY <2>1 DEF Take, ChatTypeOK, Busy, Running
  <2> QED
    BY <2>1, <2>2, KeepRooms DEF Busy, Mine
<1>2. CASE ClaimFail(w) \/ Requeue(w)
  BY <1>2, IdleShape, KeepRooms DEF ClaimFail, Requeue, Busy, Mine, NoJob, Running
<1>3. CASE Think(w) \/ FirstToken(w) \/ Reply(w) \/ Complete(w) \/ RecordDone(w) \/ Raise(w)
  <2>1. /\ worker[w] \in Job /\ Busy(w) /\ redis' = redis /\ busy' = busy
        /\ \E at \in Running : GoOn(w, at)
    BY <1>3, JobShape DEF Think, FirstToken, Reply, Complete, RecordDone, Raise, Busy, Running
  <2> QED
    BY <2>1, GoOnShape, KeepRooms DEF Busy, Mine
<1>4. CASE ReadHistory(w)
  <2>1. worker[w] \in Job /\ Busy(w)
    BY <1>4, JobShape DEF ReadHistory, Busy, Running
  <2>2. worker'[w].r = worker[w].r /\ \A v \in Workers \ {w} : worker'[v] = worker[v]
    BY <1>4, <2>1 DEF ReadHistory, ChatTypeOK, Job
  <2> QED
    BY <1>4, <2>1, <2>2, KeepRooms DEF ReadHistory, Busy, Mine
<1> QED
  BY <1>1, <1>2, <1>3, <1>4, ClaimRooms, ReleaseRooms DEF WorkerStep

LEMMA NextRooms ==
    ASSUME TurnsAreShort
    PROVE  ChatTypeOK /\ RoomInv /\ [ChatNext]_chatVars => RoomInv'
<1> SUFFICES ASSUME ChatTypeOK, RoomInv, [ChatNext]_chatVars PROVE RoomInv'
  OBVIOUS
<1>1. ASSUME NEW r \in Requests, Post(r) \/ Enqueue(r) PROVE RoomInv'
  BY <1>1, KeepRooms DEF Post, Enqueue, Busy, Mine
<1>2. ASSUME NEW m \in Rooms, Expire(m) PROVE RoomInv'
  <2>1. worker' = worker /\ redis' = redis /\ OneTurnPerRoom'
    BY <1>2 DEF Expire, RoomInv, OneTurnPerRoom, Busy, Mine, MyRoom
  <2>2. \A w \in Workers : redis /\ Busy(w) => MyRoom(w) # m
    BY <1>2 DEF Expire, Held, RoomInv, KeyHeld
  <2>3. \A w \in Workers : Busy(w) => MyRoom(w) \in Rooms
    BY BusyShape
  <2>4. \A k \in Rooms : k # m => busy'[k] = busy[k]
    BY <1>2 DEF Expire, ChatTypeOK
  <2>5. KeyHeld'
    BY <2>1, <2>2, <2>3, <2>4 DEF RoomInv, KeyHeld, Busy, Mine, MyRoom
  <2> QED
    BY <2>1, <2>5 DEF RoomInv
<1>3. CASE Restart
  <2>1. \A w \in Workers : ~Busy(w)'
    BY <1>3 DEF Restart, Busy, NoJob, Running
  <2> QED
    BY <2>1 DEF RoomInv, OneTurnPerRoom, KeyHeld
<1>4. CASE UNCHANGED chatVars
  BY <1>4, KeepRooms DEF chatVars, Busy, Mine
<1> QED
  BY <1>1, <1>2, <1>3, <1>4, TurnRooms DEF ChatNext

(* When no turn outlives its key, a room has one turn at a time: workers   *)
(* of a process with or without Redis, after failures and restarts.        *)
THEOREM RoomsTakeTurns == TurnsAreShort => (ChatSpec => []OneTurnPerRoom)
<1> SUFFICES ASSUME TurnsAreShort PROVE ChatSpec => []OneTurnPerRoom
  OBVIOUS
<1>1. ChatInit => RoomInv
  BY DEF ChatInit, RoomInv, OneTurnPerRoom, KeyHeld, Busy, NoJob, Running
<1>2. ChatTypeOK /\ RoomInv /\ [ChatNext]_chatVars => RoomInv'
  BY NextRooms
<1> QED
  BY <1>1, <1>2, InitType, ChatNextType, PTL DEF ChatSpec, RoomInv

-----------------------------------------------------------------------------
(* What is announced is what is stored.  The argument is that a request is *)
(* in one place at a time (being posted, in a queue, or with a worker) and *)
(* nowhere once its turn is over, so that only its worker speaks for it.   *)

Waiting == posting \cup Elems(jobs) \cup Elems(local)

OnePlace ==
    /\ NoRepeat(jobs) /\ NoRepeat(local)
    /\ posting \cap (Elems(jobs) \cup Elems(local)) = {}
    /\ Elems(jobs) \cap Elems(local) = {}
    /\ \A w \in Workers : Taken(w) => Mine(w) \notin Waiting
    /\ \A v, w \in Workers : Taken(v) /\ Taken(w) /\ Mine(v) = Mine(w) => v = w

Fresh(r) == phase[r] = "queued" /\ replies[r] = 0 /\ audit[r] = "none"

(* What is known of a request from where its worker is.                    *)
Progress(at, r) ==
    /\ phase[r] # "none"
    /\ at \in {"popped", "requeue", "begin"} => Fresh(r)
    /\ at \in {"thinking", "turn", "refused"} => phase[r] = "thinking" /\ replies[r] = 0
    /\ at = "streaming" => phase[r] = "streaming" /\ replies[r] = 0
    /\ at = "saved" => phase[r] \in {"thinking", "streaming"} /\ replies[r] = 1
    /\ at = "completed" => phase[r] = "complete" /\ replies[r] = 1
    /\ at # "release" => audit[r] = "none"

(* What holds of a request wherever it is.                                 *)
Agrees(r) ==
    /\ replies[r] \in {0, 1}
    /\ phase[r] = "none" => replies[r] = 0 /\ audit[r] = "none"
    /\ phase[r] = "complete" => replies[r] = 1
    /\ audit[r] = "done" => phase[r] = "complete"
    /\ audit[r] = "error" => phase[r] = "error"

Told ==
    /\ \A r \in Waiting : Fresh(r)
    /\ \A w \in Workers : Taken(w) => Progress(worker[w].at, Mine(w))
    /\ \A r \in Requests : Agrees(r)

JobInv == OnePlace /\ Told

(* A worker goes on with its request, or is done with it; the request's    *)
(* records change, everybody else's stay.                                  *)
LEMMA WorkerJob ==
    ASSUME ChatTypeOK, JobInv, NEW w \in Workers, NEW k \in Requests, Taken(w), k = Mine(w),
           UNCHANGED <<queues, posting>>,
           \A v \in Workers \ {w} : worker'[v] = worker[v],
           \A r \in Requests \ {k} :
              phase'[r] = phase[r] /\ replies'[r] = replies[r] /\ audit'[r] = audit[r],
           Agrees(k)',
           \/ worker'[w] = NoJob
           \/ worker'[w] # NoJob /\ worker'[w].r = k /\ Progress(worker[w].at, k)'
    PROVE  JobInv'
<1>1. Waiting' = Waiting /\ Waiting \subseteq Requests
  BY DEF Waiting, queues, ChatTypeOK, Elems
<1>2. k \notin Waiting
  BY DEF JobInv, OnePlace
<1>3. \A v \in Workers : Taken(v)' => Taken(v) /\ Mine(v)' = Mine(v)
  BY DEF Taken, Mine
<1>4. \A v \in Workers : Taken(v) => Mine(v) \in Requests
  BY JobShape
<1>5. OnePlace'
  BY <1>1, <1>3 DEF JobInv, OnePlace, queues
<1>6. \A r \in Requests \ {k} : (Fresh(r) => Fresh(r)') /\ (Agrees(r) => Agrees(r)')
  BY DEF Fresh, Agrees
<1>7. ASSUME NEW r \in Waiting' PROVE Fresh(r)'
  BY <1>1, <1>2, <1>6 DEF JobInv, Told
<1>8. ASSUME NEW v \in Workers, Taken(v)' PROVE Progress(worker[v].at, Mine(v))'
  <2>1. CASE v = w
    BY <1>8, <2>1 DEF Taken, Mine, Progress, Fresh
  <2>2. CASE v # w
    <3>1. /\ Taken(v) /\ Mine(v)' = Mine(v) /\ worker'[v] = worker[v]
          /\ Mine(v) \in Requests \ {k}
      BY <1>3, <1>4, <1>8, <2>2 DEF JobInv, OnePlace
    <3>2. Progress(worker[v].at, Mine(v))
      BY <3>1 DEF JobInv, Told
    <3> QED
      BY <3>1, <3>2 DEF Progress, Fresh
  <2> QED
    BY <2>1, <2>2
<1>9. \A r \in Requests : Agrees(r)'
  BY <1>6 DEF JobInv, Told
<1> QED
  BY <1>5, <1>7, <1>8, <1>9 DEF JobInv, Told

(* A step that leaves the records and the workers alone.                   *)
LEMMA SameRecords ==
    ASSUME ChatTypeOK, JobInv, UNCHANGED outcome, Waiting' \subseteq Waiting,
           \A w \in Workers : Taken(w)' => worker'[w] = worker[w], OnePlace'
    PROVE  JobInv'
<1>1. \A r : (Fresh(r) => Fresh(r)') /\ (Agrees(r) => Agrees(r)')
  BY DEF outcome, Fresh, Agrees
<1>2. ASSUME NEW w \in Workers, Taken(w)' PROVE Progress(worker[w].at, Mine(w))'
  <2>1. Taken(w) /\ worker'[w] = worker[w]
    BY <1>2 DEF Taken
  <2> QED
    BY <2>1 DEF JobInv, Told, outcome, Progress, Fresh, Mine
<1> QED
  BY <1>1, <1>2 DEF JobInv, Told

LEMMA TurnJob ==
    ASSUME ChatTypeOK, JobInv, NEW w \in Workers,
           \/ Claim(w) \/ ClaimFail(w) \/ Release(w) \/ Think(w) \/ ReadHistory(w)
           \/ FirstToken(w) \/ Reply(w) \/ Complete(w) \/ RecordDone(w) \/ Raise(w)
    PROVE  JobInv'
<1> DEFINE at == worker[w].at
<1>1. worker[w] \in Job /\ Taken(w) /\ Mine(w) \in Requests
  BY JobShape DEF Claim, ClaimFail, Release, Think, ReadHistory, FirstToken, Reply, Complete,
     RecordDone, Raise
<1>2. PICK k \in Requests : k = Mine(w)
  BY <1>1
<1>3. Progress(at, k) /\ Agrees(k)
  BY <1>1, <1>2 DEF JobInv, Told
<1>4. UNCHANGED <<queues, posting>>
  BY DEF Claim, ClaimFail, Release, Think, ReadHistory, FirstToken, Reply, Complete,
     RecordDone, Raise
<1>5. ASSUME Agrees(k)', \A v \in Workers \ {w} : worker'[v] = worker[v],
             \A r \in Requests \ {k} :
                phase'[r] = phase[r] /\ replies'[r] = replies[r] /\ audit'[r] = audit[r],
             \/ worker'[w] = NoJob
             \/ worker'[w] \in Job /\ worker'[w].r = k /\ Progress(worker[w].at, k)'
      PROVE  JobInv'
  <2>1. worker'[w] \in Job => worker'[w] # NoJob
    BY DEF Job, NoJob, Running
  <2> QED
    BY <1>1, <1>2, <1>4, <1>5, <2>1, WorkerJob
<1>6. CASE ClaimFail(w) \/ Release(w)
  <2>1. worker'[w] = NoJob /\ \A v \in Workers \ {w} : worker'[v] = worker[v]
    BY <1>6, IdleShape DEF ClaimFail, Release
  <2>2. UNCHANGED outcome
    BY <1>6 DEF ClaimFail, Release
  <2>3. Agrees(k)'
    BY <1>3, <2>2 DEF Agrees, outcome
  <2> QED
    BY <1>5, <2>1, <2>2, <2>3 DEF outcome
<1>7. ASSUME NEW next \in {"requeue"} \cup Running, GoOn(w, next)
      PROVE  /\ worker'[w] \in Job /\ worker'[w].r = k /\ worker'[w].at = next
             /\ \A v \in Workers \ {w} : worker'[v] = worker[v]
  BY <1>1, <1>2, <1>7, GoOnShape DEF Mine
<1>8. CASE Claim(w)
  <2>1. PICK next \in {"begin", "requeue"} : GoOn(w, next)
    BY <1>8 DEF Claim
  <2>2. at = "popped" /\ UNCHANGED outcome
    BY <1>8 DEF Claim
  <2>3. Agrees(k)' /\ Progress(next, k)'
    BY <1>3, <2>2 DEF Agrees, Progress, Fresh, outcome
  <2> QED
    BY <1>5, <1>7, <2>1, <2>2, <2>3 DEF outcome, Running
<1>9. CASE Think(w)
  <2>1. PICK next \in {"thinking", "refused"} : GoOn(w, next)
    BY <1>9 DEF Think
  <2>2. at = "begin" /\ phase' = [phase EXCEPT ![k] = "thinking"] /\ UNCHANGED <<replies, audit>>
    BY <1>2, <1>9 DEF Think, Publish
  <2>3. phase'[k] = "thinking" /\ \A r \in Requests \ {k} : phase'[r] = phase[r]
    BY <2>2 DEF ChatTypeOK
  <2>4. Agrees(k)' /\ Progress(next, k)'
    BY <1>3, <2>2, <2>3 DEF Agrees, Progress, Fresh
  <2> QED
    BY <1>5, <1>7, <2>1, <2>2, <2>3, <2>4 DEF Running
<1>10. CASE ReadHistory(w)
  <2>1. /\ worker'[w] \in Job /\ worker'[w].r = k /\ worker'[w].at = "turn"
        /\ \A v \in Workers \ {w} : worker'[v] = worker[v]
    BY <1>1, <1>2, <1>10 DEF ReadHistory, ChatTypeOK, Job, Running, Mine
  <2>2. at = "thinking" /\ UNCHANGED outcome
    BY <1>10 DEF ReadHistory
  <2>3. Agrees(k)' /\ Progress("turn", k)'
    BY <1>3, <2>2 DEF Agrees, Progress, Fresh, outcome
  <2> QED
    BY <1>5, <2>1, <2>2, <2>3 DEF outcome
<1>11. CASE FirstToken(w)
  <2>1. GoOn(w, "streaming")
    BY <1>11 DEF FirstToken
  <2>2. /\ at = "turn" /\ phase' = [phase EXCEPT ![k] = "streaming"]
        /\ UNCHANGED <<replies, audit>>
    BY <1>2, <1>11 DEF FirstToken, Publish
  <2>3. phase'[k] = "streaming" /\ \A r \in Requests \ {k} : phase'[r] = phase[r]
    BY <2>2 DEF ChatTypeOK
  <2>4. Agrees(k)' /\ Progress("streaming", k)'
    BY <1>3, <2>2, <2>3 DEF Agrees, Progress, Fresh
  <2> QED
    BY <1>5, <1>7, <2>1, <2>2, <2>3, <2>4 DEF Running
<1>12. CASE Reply(w)
  <2>1. GoOn(w, "saved") /\ at \in {"turn", "streaming", "refused"} /\ UNCHANGED <<phase, audit>>
    BY <1>12 DEF Reply
  <2>2. replies' = [replies EXCEPT ![k] = replies[k] + 1]
    BY <1>2, <1>12 DEF Reply
  <2>3. replies'[k] = replies[k] + 1 /\ \A r \in Requests \ {k} : replies'[r] = replies[r]
    BY <2>2 DEF ChatTypeOK
  <2>4. Agrees(k)' /\ Progress("saved", k)'
    BY <1>3, <2>1, <2>3 DEF Agrees, Progress, Fresh
  <2> QED
    BY <1>5, <1>7, <2>1, <2>3, <2>4 DEF Running
<1>13. CASE Complete(w)
  <2>1. GoOn(w, "completed")
    BY <1>13 DEF Complete
  <2>2. at = "saved" /\ phase' = [phase EXCEPT ![k] = "complete"] /\ UNCHANGED <<replies, audit>>
    BY <1>2, <1>13 DEF Complete, Publish
  <2>3. phase'[k] = "complete" /\ \A r \in Requests \ {k} : phase'[r] = phase[r]
    BY <2>2 DEF ChatTypeOK
  <2>4. Agrees(k)' /\ Progress("completed", k)'
    BY <1>3, <2>2, <2>3 DEF Agrees, Progress, Fresh
  <2> QED
    BY <1>5, <1>7, <2>1, <2>2, <2>3, <2>4 DEF Running
<1>14. CASE RecordDone(w)
  <2>1. GoOn(w, "release")
    BY <1>14 DEF RecordDone
  <2>2. at = "completed" /\ audit' = [audit EXCEPT ![k] = "done"] /\ UNCHANGED <<phase, replies>>
    BY <1>2, <1>14 DEF RecordDone
  <2>3. audit'[k] = "done" /\ \A r \in Requests \ {k} : audit'[r] = audit[r]
    BY <2>2 DEF ChatTypeOK
  <2>4. Agrees(k)' /\ Progress("release", k)'
    BY <1>3, <2>2, <2>3 DEF Agrees, Progress, Fresh
  <2> QED
    BY <1>5, <1>7, <2>1, <2>2, <2>3, <2>4 DEF Running
<1>15. CASE Raise(w)
  <2>1. GoOn(w, "release") /\ replies' = replies
    BY <1>15 DEF Raise
  <2>2. /\ at \in {"thinking", "turn", "streaming", "refused", "saved", "completed"}
        /\ \/ /\ phase' = [phase EXCEPT ![k] = "error"]
              /\ audit' = [audit EXCEPT ![k] = "error"] \/ audit' = audit
           \/ phase' = phase /\ audit' = audit
    BY <1>2, <1>15 DEF Raise, Publish
  <2>3. /\ \/ phase'[k] = "error" /\ audit'[k] \in {"error", audit[k]}
           \/ phase'[k] = phase[k] /\ audit'[k] = audit[k]
        /\ \A r \in Requests \ {k} : phase'[r] = phase[r] /\ audit'[r] = audit[r]
    BY <2>2 DEF ChatTypeOK
  <2>4. audit[k] = "none"
    BY <1>3, <2>2 DEF Progress
  <2>5. Agrees(k)' /\ Progress("release", k)'
    BY <1>3, <2>1, <2>3, <2>4 DEF Agrees, Progress, Fresh
  <2> QED
    BY <1>5, <1>7, <2>1, <2>3, <2>5 DEF Running
<1> QED
  BY <1>6, <1>8, <1>9, <1>10, <1>11, <1>12, <1>13, <1>14, <1>15

(* Nobody waits for, or works on, a request that was never posted.         *)
LEMMA PostJob ==
    ASSUME ChatTypeOK, JobInv, NEW k \in Requests, Post(k)
    PROVE  JobInv'
<1>1. k \notin Waiting /\ \A w \in Workers : Taken(w) => Mine(w) # k
  BY DEF Post, JobInv, Told, Fresh, Progress
<1>2. /\ Waiting' = Waiting \cup {k} /\ posting' = posting \cup {k}
      /\ UNCHANGED <<jobs, local, worker, replies, audit>>
  BY DEF Post, Waiting, queues, Elems
<1>3. phase'[k] = "queued" /\ \A r \in Requests \ {k} : phase'[r] = phase[r]
  BY DEF Post, Publish, ChatTypeOK
<1>4. \A w \in Workers : /\ Taken(w)' <=> Taken(w)
                         /\ Mine(w)' = Mine(w)
                         /\ Taken(w) => Mine(w) \in Requests \ {k}
  BY <1>1, <1>2, JobShape DEF Taken, Mine
<1>5. k \notin Elems(jobs) \cup Elems(local)
  BY <1>1 DEF Waiting
<1>6. OnePlace'
  BY <1>2, <1>4, <1>5 DEF JobInv, OnePlace
<1>7. replies[k] = 0 /\ audit[k] = "none"
  BY DEF JobInv, Told, Agrees, Post
<1>8. Fresh(k)' /\ Agrees(k)'
  BY <1>2, <1>3, <1>7 DEF Fresh, Agrees
<1>9. Waiting \subseteq Requests
  BY DEF Waiting, ChatTypeOK, Elems
<1>10. \A r \in Requests \ {k} : (Fresh(r) => Fresh(r)') /\ (Agrees(r) => Agrees(r)')
  BY <1>2, <1>3 DEF Fresh, Agrees
<1>11. \A r \in Waiting' : Fresh(r)'
  BY <1>2, <1>8, <1>9, <1>10 DEF JobInv, Told
<1>12. \A r \in Requests : Agrees(r)'
  BY <1>8, <1>10 DEF JobInv, Told
<1>13. ASSUME NEW w \in Workers, Taken(w)' PROVE Progress(worker[w].at, Mine(w))'
  <2>1. /\ Progress(worker[w].at, Mine(w)) /\ worker' = worker /\ Mine(w)' = Mine(w)
        /\ Mine(w) \in Requests \ {k}
    BY <1>2, <1>4, <1>13 DEF JobInv, Told
  <2> QED
    BY <1>2, <1>3, <2>1 DEF Progress, Fresh
<1> QED
  BY <1>6, <1>11, <1>12, <1>13 DEF JobInv, Told

LEMMA EnqueueJob ==
    ASSUME ChatTypeOK, JobInv, NEW k \in Requests, Enqueue(k)
    PROVE  JobInv'
<1>1. /\ k \in posting /\ posting' = posting \ {k} /\ UNCHANGED <<worker, outcome>>
      /\ \/ jobs' = Append(jobs, k) /\ local' = local
         \/ local' = Append(local, k) /\ jobs' = jobs
         \/ UNCHANGED <<jobs, local>>
  BY DEF Enqueue, Push, queues
<1>2. k \notin Elems(jobs) /\ k \notin Elems(local) /\ k \in Waiting
  BY <1>1 DEF JobInv, OnePlace, Waiting
<1>3. jobs \in Seq(Requests) /\ local \in Seq(Requests)
  BY DEF ChatTypeOK
<1>4. /\ NoRepeat(jobs') /\ NoRepeat(local')
      /\ \/ Elems(jobs') = Elems(jobs) \cup {k} /\ Elems(local') = Elems(local)
         \/ Elems(local') = Elems(local) \cup {k} /\ Elems(jobs') = Elems(jobs)
         \/ Elems(local') = Elems(local) /\ Elems(jobs') = Elems(jobs)
  <2>1. NoRepeat(jobs) /\ NoRepeat(local)
    BY DEF JobInv, OnePlace
  <2>2. CASE jobs' = Append(jobs, k) /\ local' = local
    BY <1>2, <1>3, <2>1, <2>2, PushLast
  <2>3. CASE local' = Append(local, k) /\ jobs' = jobs
    BY <1>2, <1>3, <2>1, <2>3, PushLast
  <2>4. CASE UNCHANGED <<jobs, local>>
    BY <2>1, <2>4
  <2> QED
    BY <1>1, <2>2, <2>3, <2>4
<1>5. Waiting' \subseteq Waiting
  BY <1>1, <1>2, <1>4 DEF Waiting
<1>6. \A w \in Workers : (Taken(w)' <=> Taken(w)) /\ Mine(w)' = Mine(w)
  BY <1>1 DEF Taken, Mine
<1>7. OnePlace'
  BY <1>1, <1>2, <1>4, <1>5, <1>6 DEF JobInv, OnePlace
<1> QED
  BY <1>1, <1>5, <1>7, SameRecords

(* A pop takes a request that waits in one queue.                          *)
LEMMA PopTakes ==
    ASSUME ChatTypeOK, JobInv, NEW w \in Workers, Pop(w)
    PROVE  \E k \in Requests :
              /\ Take(w, k) /\ k \in Elems(jobs) \cup Elems(local)
              /\ k \notin Elems(jobs') \cup Elems(local')
              /\ Elems(jobs') \subseteq Elems(jobs) /\ Elems(local') \subseteq Elems(local)
              /\ NoRepeat(jobs') /\ NoRepeat(local')
<1>0. jobs \in Seq(Requests) /\ local \in Seq(Requests)
  BY DEF ChatTypeOK
<1>1. CASE redis
  <2>1. /\ jobs # <<>> /\ Take(w, jobs[Len(jobs)])
        /\ jobs' = SubSeq(jobs, 1, Len(jobs) - 1) /\ local' = local
    BY <1>1 DEF Pop
  <2>2. /\ jobs[Len(jobs)] \in Requests /\ jobs[Len(jobs)] \in Elems(jobs)
        /\ jobs[Len(jobs)] \notin Elems(jobs')
        /\ Elems(jobs') \subseteq Elems(jobs) /\ NoRepeat(jobs')
    BY <1>0, <2>1, PopLast DEF JobInv, OnePlace
  <2>3. jobs[Len(jobs)] \notin Elems(local)
    BY <2>2 DEF JobInv, OnePlace
  <2> QED
    BY <2>1, <2>2, <2>3 DEF JobInv, OnePlace
<1>2. CASE ~redis
  <2>1. /\ local # <<>> /\ Take(w, Head(local))
        /\ local' = Tail(local) /\ jobs' = jobs
    BY <1>2 DEF Pop
  <2>2. /\ Head(local) \in Requests /\ Head(local) \in Elems(local)
        /\ Head(local) \notin Elems(local')
        /\ Elems(local') \subseteq Elems(local) /\ NoRepeat(local')
    BY <1>0, <2>1, PopFirst DEF JobInv, OnePlace
  <2>3. Head(local) \notin Elems(jobs)
    BY <2>2 DEF JobInv, OnePlace
  <2> QED
    BY <2>1, <2>2, <2>3 DEF JobInv, OnePlace
<1> QED
  BY <1>1, <1>2

LEMMA PopJob ==
    ASSUME ChatTypeOK, JobInv, NEW w \in Workers, Pop(w)
    PROVE  JobInv'
<1>2. PICK k \in Requests :
         /\ Take(w, k) /\ k \in Elems(jobs) \cup Elems(local)
         /\ k \notin Elems(jobs') \cup Elems(local')
         /\ Elems(jobs') \subseteq Elems(jobs) /\ Elems(local') \subseteq Elems(local)
         /\ NoRepeat(jobs') /\ NoRepeat(local')
  BY PopTakes
<1>3. posting' = posting /\ UNCHANGED outcome
  BY DEF Pop
<1>4. k \in Waiting /\ k \notin posting
  BY <1>2 DEF Waiting, JobInv, OnePlace
<1>5. Waiting' \subseteq Waiting /\ k \notin Waiting'
  BY <1>2, <1>3, <1>4 DEF Waiting
<1>6. /\ worker'[w] \in Job /\ worker'[w].at = "popped" /\ worker'[w].r = k
      /\ \A v \in Workers \ {w} : worker'[v] = worker[v]
  BY <1>2, TakeShape
<1>7. \A v \in Workers : /\ v # w => (Taken(v)' <=> Taken(v)) /\ Mine(v)' = Mine(v)
                         /\ v = w => Mine(v)' = k
                         /\ Taken(v) => Mine(v) # k
  BY <1>4, <1>6 DEF Taken, Mine, JobInv, OnePlace
<1>8. OnePlace'
  BY <1>2, <1>3, <1>5, <1>7 DEF JobInv, OnePlace
<1>9. \A r : /\ Fresh(r) => Fresh(r)' 
             /\ Agrees(r) => Agrees(r)'
             /\ \A at : Progress(at, r) => Progress(at, r)'
  BY <1>3 DEF outcome, Fresh, Agrees, Progress
<1>10. ASSUME NEW v \in Workers, Taken(v)' PROVE Progress(worker[v].at, Mine(v))'
  <2>1. CASE v = w
    <3>1. Fresh(k)
      BY <1>4 DEF JobInv, Told
    <3>2. Progress("popped", k)
      BY <3>1 DEF Progress, Fresh
    <3> QED
      BY <1>6, <1>7, <1>3, <2>1, <3>2 DEF Progress, Fresh, outcome
  <2>2. CASE v # w
    <3>1. /\ Progress(worker[v].at, Mine(v)) /\ worker'[v] = worker[v]
          /\ Mine(v)' = Mine(v)
      BY <1>6, <1>7, <1>10, <2>2 DEF JobInv, Told
    <3> QED
      BY <1>3, <3>1 DEF Progress, Fresh, outcome
  <2> QED
    BY <2>1, <2>2
<1> QED
  BY <1>5, <1>8, <1>9, <1>10 DEF JobInv, Told

LEMMA RequeueJob ==
    ASSUME ChatTypeOK, JobInv, NEW w \in Workers, Requeue(w)
    PROVE  JobInv'
<1>1. PICK k \in Requests : k = Mine(w) /\ Taken(w)
  BY JobShape DEF Requeue
<1>2. /\ worker'[w] = NoJob /\ \A v \in Workers \ {w} : worker'[v] = worker[v]
      /\ jobs' = Append(jobs, k) \/ jobs' = jobs
      /\ UNCHANGED <<local, posting, outcome>>
  BY <1>1, IdleShape DEF Requeue
<1>3. k \notin Waiting /\ jobs \in Seq(Requests)
  BY <1>1 DEF JobInv, OnePlace, ChatTypeOK
<1>4. NoRepeat(jobs') /\ Elems(jobs') \subseteq Elems(jobs) \cup {k}
  BY <1>2, <1>3, PushLast DEF JobInv, OnePlace, Waiting
<1>5. Waiting' \subseteq Waiting \cup {k}
  BY <1>2, <1>4 DEF Waiting
<1>6. \A v \in Workers : Taken(v)' => /\ v # w /\ Taken(v) /\ Mine(v)' = Mine(v)
                                      /\ Mine(v) # k /\ worker'[v] = worker[v]
  BY <1>1, <1>2 DEF Taken, Mine, JobInv, OnePlace
<1>7. OnePlace'
  BY <1>2, <1>3, <1>4, <1>5, <1>6 DEF JobInv, OnePlace, Waiting
<1>8. Fresh(k)
  BY <1>1 DEF JobInv, Told, Progress, Requeue
<1>9. \A r : (Fresh(r) => Fresh(r)') /\ (Agrees(r) => Agrees(r)')
  BY <1>2 DEF outcome, Fresh, Agrees
<1>10. ASSUME NEW v \in Workers, Taken(v)' PROVE Progress(worker[v].at, Mine(v))'
  BY <1>2, <1>6, <1>10 DEF JobInv, Told, Progress, Fresh, outcome
<1> QED
  BY <1>5, <1>7, <1>8, <1>9, <1>10 DEF JobInv, Told

LEMMA NextJob == ChatTypeOK /\ JobInv /\ [ChatNext]_chatVars => JobInv'
<1> SUFFICES ASSUME ChatTypeOK, JobInv, [ChatNext]_chatVars PROVE JobInv'
  OBVIOUS
<1>1. ASSUME UNCHANGED <<jobs, local, posting, worker, outcome>> PROVE JobInv'
  <2>1. OnePlace' /\ Waiting' = Waiting
    BY <1>1 DEF JobInv, OnePlace, Waiting, Taken, Mine
  <2> QED
    BY <1>1, <2>1, SameRecords
<1>2. ASSUME NEW m \in Rooms, Expire(m) PROVE JobInv'
  BY <1>1, <1>2 DEF Expire, queues
<1>3. CASE UNCHANGED chatVars
  BY <1>1, <1>3 DEF chatVars, queues
<1>4. CASE Restart
  <2>1. /\ posting' = {} /\ local' = <<>> /\ jobs' = jobs /\ UNCHANGED outcome
        /\ \A w \in Workers : worker'[w] = NoJob
    BY <1>4 DEF Restart
  <2>2. Elems(local') = {} /\ NoRepeat(local')
    BY <2>1 DEF Elems, NoRepeat
  <2>3. Waiting' \subseteq Waiting /\ \A w \in Workers : ~Taken(w)'
    BY <2>1, <2>2 DEF Waiting, Taken
  <2>4. OnePlace'
    BY <2>1, <2>2, <2>3 DEF JobInv, OnePlace
  <2> QED
    BY <2>1, <2>3, <2>4, SameRecords
<1>5. ASSUME NEW w \in Workers, WorkerStep(w) PROVE JobInv'
  BY <1>5, PopJob, RequeueJob, TurnJob DEF WorkerStep
<1> QED
  BY <1>2, <1>3, <1>4, <1>5, PostJob, EnqueueJob DEF ChatNext

LEMMA InitJob == ChatInit => JobInv
<1> SUFFICES ASSUME ChatInit PROVE JobInv
  OBVIOUS
<1>1. Elems(jobs) = {} /\ Elems(local) = {} /\ NoRepeat(jobs) /\ NoRepeat(local)
  BY DEF ChatInit, Elems, NoRepeat
<1>2. Waiting = {} /\ \A w \in Workers : ~Taken(w)
  BY <1>1 DEF ChatInit, Waiting, Taken
<1>3. \A r \in Requests : Agrees(r)
  BY DEF ChatInit, Agrees
<1> QED
  BY <1>1, <1>2, <1>3 DEF JobInv, OnePlace, Told

(* A request is answered by one message at most.                           *)
THEOREM AnsweredOnce == ChatSpec => []RepliesOnce
<1>1. JobInv => RepliesOnce
  <2> SUFFICES ASSUME JobInv, NEW r \in Requests PROVE replies[r] <= 1
    BY DEF RepliesOnce
  <2>1. replies[r] = 0 \/ replies[r] = 1
    BY DEF JobInv, Told, Agrees
  <2> QED
    BY <2>1
<1> QED
  BY <1>1, InitType, ChatNextType, InitJob, NextJob, PTL DEF ChatSpec

(* The answer is stored before its end is announced, and the audit row     *)
(* tells what listeners were told last.                                    *)
THEOREM AnnouncementsHold == ChatSpec => []AnnouncedIsSaved
<1>1. JobInv => AnnouncedIsSaved
  BY DEF JobInv, Told, Agrees, AnnouncedIsSaved
<1> QED
  BY <1>1, InitType, ChatNextType, InitJob, NextJob, PTL DEF ChatSpec

LEMMA StepAdvances ==
    ASSUME ChatTypeOK, JobInv, ChatNext, NEW r \in Requests
    PROVE  Rank[phase[r]] <= Rank[phase'[r]]
<1>1. phase[r] \in Phases
  BY DEF ChatTypeOK
<1>2. CASE phase'[r] = phase[r]
  BY <1>1, <1>2 DEF Phases, Rank
<1>3. ASSUME NEW k \in Requests, Post(k), phase'[r] # phase[r]
      PROVE  phase[r] = "none" /\ phase'[r] = "queued"
  BY <1>3 DEF Post, Publish, ChatTypeOK
<1>4. ASSUME NEW w \in Workers, phase'[r] # phase[r],
             Think(w) \/ FirstToken(w) \/ Complete(w) \/ Raise(w)
      PROVE  \/ phase[r] = "queued" /\ phase'[r] = "thinking"
             \/ phase[r] = "thinking" /\ phase'[r] = "streaming"
             \/ phase[r] \in {"thinking", "streaming"} /\ phase'[r] = "complete"
             \/ phase'[r] = "error"
  <2>1. Taken(w) /\ Mine(w) \in Requests
    BY <1>4, JobShape DEF Think, FirstToken, Complete, Raise
  <2>2. Progress(worker[w].at, Mine(w))
    BY <2>1 DEF JobInv, Told
  <2>3. PICK p \in Phases : phase' = [phase EXCEPT ![Mine(w)] = p]
    BY <1>4 DEF Think, FirstToken, Complete, Raise, Publish, Phases, Rank
  <2>4. Mine(w) = r
    BY <1>4, <2>1, <2>3 DEF ChatTypeOK
  <2>5. CASE Think(w)
    BY <2>1, <2>2, <2>4, <2>5 DEF Think, Publish, Progress, Fresh, ChatTypeOK
  <2>6. CASE FirstToken(w)
    BY <2>1, <2>2, <2>4, <2>6 DEF FirstToken, Publish, Progress, ChatTypeOK
  <2>7. CASE Complete(w)
    BY <2>1, <2>2, <2>4, <2>7 DEF Complete, Publish, Progress, ChatTypeOK
  <2>8. CASE Raise(w)
    BY <1>4, <2>1, <2>4, <2>8 DEF Raise, Publish, ChatTypeOK
  <2> QED
    BY <1>4, <2>5, <2>6, <2>7, <2>8
<1>5. \/ phase' = phase
      \/ \E k \in Requests : Post(k)
      \/ \E w \in Workers : Think(w) \/ FirstToken(w) \/ Complete(w) \/ Raise(w)
  BY DEF ChatNext, Enqueue, WorkerStep, Pop, Claim, ClaimFail, Requeue, Release, ReadHistory, Reply,
     RecordDone, Expire, Restart, outcome
<1> QED
  BY <1>1, <1>2, <1>3, <1>4, <1>5 DEF Phases, Rank

(* Listeners see the phases of a request in order.                         *)
THEOREM PhasesInOrder == ChatSpec => PhasesAdvance
<1>1. ChatTypeOK /\ JobInv /\ [ChatNext]_chatVars
      => [\A r \in Requests : Rank[phase[r]] <= Rank[phase'[r]]]_chatVars
  BY StepAdvances
<1> QED
  BY <1>1, InitType, ChatNextType, InitJob, NextJob, PTL DEF ChatSpec, PhasesAdvance

-----------------------------------------------------------------------------
(* Chat turns implement the chat room.  A turn listeners see is under way  *)
(* with a worker, and nobody but a worker about to let go of it has a      *)
(* request that was dropped.                                               *)

HasTurn(r) ==
    /\ r \notin lost
    /\ phase[r] \in {"thinking", "streaming"} \/ (phase[r] = "complete" /\ audit[r] = "none")

Turning == Running \ {"begin", "release"}
Dropped(r) ==
    /\ phase[r] # "none" /\ r \notin Waiting
    /\ \A w \in Workers : Taken(w) /\ Mine(w) = r => worker[w].at = "release"
TurnInv ==
    \A r \in Requests :
        /\ r \in lost => Dropped(r)
        /\ HasTurn(r) => \E w \in Workers : Mine(w) = r /\ Taken(w) /\ worker[w].at \in Turning

(* A worker goes on with its request, or is done with it.                  *)
LEMMA WorkerTurn ==
    ASSUME ChatTypeOK, JobInv, TurnInv, NEW w \in Workers, NEW k \in Requests, Taken(w),
           k = Mine(w), UNCHANGED <<queues, posting>>,
           \A v \in Workers \ {w} : worker'[v] = worker[v],
           \A r \in Requests \ {k} : phase'[r] = phase[r] /\ audit'[r] = audit[r],
           lost' = lost \/ lost' = lost \cup {k},
           worker'[w] # NoJob => worker'[w].r = k,
           k \in lost' => phase'[k] # "none"
                          /\ (worker'[w] = NoJob \/ worker'[w].at = "release"),
           HasTurn(k)' => worker'[w] # NoJob /\ worker'[w].at \in Turning
    PROVE  TurnInv'
<1>1. Waiting' = Waiting
  BY DEF Waiting, queues, Elems
<1>2. \A v \in Workers \ {w} : /\ Taken(v)' <=> Taken(v)
                               /\ Mine(v)' = Mine(v)
                               /\ Taken(v) => Mine(v) # k
  BY DEF Taken, Mine, JobInv, OnePlace
<1>3. /\ Taken(w)' <=> worker'[w] # NoJob
      /\ Taken(w)' => Mine(w)' = k
  BY DEF Taken, Mine
<1>4. k \notin Waiting
  BY DEF JobInv, OnePlace
<1>5. k \in lost' => Dropped(k)'
  BY <1>1, <1>2, <1>3, <1>4 DEF Dropped
<1>6. HasTurn(k)' => (Mine(w) = k /\ Taken(w) /\ worker[w].at \in Turning)'
  BY <1>3
<1>7. ASSUME NEW r \in Requests \ {k}, r \in lost' PROVE Dropped(r)'
  <2>1. Dropped(r) /\ phase'[r] = phase[r]
    BY <1>7 DEF TurnInv
  <2> QED
    BY <1>1, <1>2, <1>3, <2>1 DEF Dropped
<1>8. ASSUME NEW r \in Requests \ {k}, HasTurn(r)'
      PROVE  \E v \in Workers : (Mine(v) = r /\ Taken(v) /\ worker[v].at \in Turning)'
  <2>1. HasTurn(r)
    BY <1>8 DEF HasTurn
  <2>2. PICK v \in Workers : Mine(v) = r /\ Taken(v) /\ worker[v].at \in Turning
    BY <2>1 DEF TurnInv
  <2>3. v # w
    BY <2>2
  <2> QED
    BY <1>2, <2>2, <2>3
<1> QED
  BY <1>5, <1>6, <1>7, <1>8 DEF TurnInv

(* A step that changes no turn: nobody who runs one stops, and what is     *)
(* dropped was in the process, and is not any more.                        *)
LEMMA SameTurns ==
    ASSUME ChatTypeOK, TurnInv, UNCHANGED audit,
           \A r \in Requests : \/ phase'[r] = phase[r]
                               \/ phase[r] = "none" /\ phase'[r] = "queued",
           \A r \in Requests : r \in Waiting' => r \in Waiting \/ phase[r] = "none"
                                                  \/ (r \notin lost /\ r \notin lost'),
           lost \subseteq lost',
           \A r \in Requests :
              r \in lost' /\ r \notin lost => phase'[r] # "none" /\ r \notin Waiting',
           \A w \in Workers : Taken(w)' =>
              \/ worker'[w] = worker[w] /\ (Mine(w) \in lost' => Mine(w) \in lost)
              \/ Mine(w)' \notin lost',
           \A w \in Workers : Taken(w) /\ worker[w].at \in Turning =>
              worker'[w] = worker[w] \/ Mine(w) \in lost'
    PROVE  TurnInv'
<1>1. ASSUME NEW r \in Requests, r \in lost' PROVE Dropped(r)'
  <2>1. phase'[r] # "none" /\ r \notin Waiting'
    BY <1>1 DEF TurnInv, Dropped
  <2>2. ASSUME NEW w \in Workers, Taken(w)', Mine(w)' = r PROVE worker'[w].at = "release"
    <3>1. worker'[w] = worker[w] /\ (Mine(w) \in lost' => Mine(w) \in lost)
      BY <1>1, <2>2
    <3>2. Taken(w) /\ Mine(w) = r /\ r \in lost
      BY <1>1, <2>2, <3>1 DEF Taken, Mine
    <3> QED
      BY <3>1, <3>2 DEF TurnInv, Dropped
  <2> QED
    BY <2>1, <2>2 DEF Dropped
<1>2. ASSUME NEW r \in Requests, HasTurn(r)'
      PROVE  \E w \in Workers : (Mine(w) = r /\ Taken(w) /\ worker[w].at \in Turning)'
  <2>1. HasTurn(r) /\ r \notin lost'
    BY <1>2 DEF HasTurn
  <2>2. PICK w \in Workers : Mine(w) = r /\ Taken(w) /\ worker[w].at \in Turning
    BY <2>1 DEF TurnInv
  <2> QED
    BY <2>1, <2>2 DEF Mine, Taken
<1> QED
  BY <1>1, <1>2 DEF TurnInv

(* A worker's step within a turn.                                          *)
TurnStep(w) ==
    \/ Claim(w) \/ ClaimFail(w) \/ Release(w) \/ Think(w) \/ ReadHistory(w)
    \/ FirstToken(w) \/ Reply(w) \/ Complete(w) \/ RecordDone(w) \/ Raise(w)

LEMMA StepShape ==
    ASSUME ChatTypeOK, JobInv, TurnInv, NEW w \in Workers, TurnStep(w)
    PROVE  /\ worker[w] \in Job /\ Taken(w) /\ Mine(w) \in Requests
           /\ Progress(worker[w].at, Mine(w)) /\ Agrees(Mine(w))
           /\ worker[w].at # "release" => Mine(w) \notin lost
           /\ UNCHANGED <<queues, posting>>
<1>1. worker[w] \in Job /\ Taken(w) /\ Mine(w) \in Requests
  BY JobShape DEF TurnStep, Claim, ClaimFail, Release, Think, ReadHistory, FirstToken, Reply,
     Complete, RecordDone, Raise
<1>2. Progress(worker[w].at, Mine(w)) /\ Agrees(Mine(w))
  BY <1>1 DEF JobInv, Told
<1>3. worker[w].at # "release" => Mine(w) \notin lost
  BY <1>1 DEF TurnInv, Dropped
<1>4. UNCHANGED <<queues, posting>>
  BY DEF TurnStep, Claim, ClaimFail, Release, Think, ReadHistory, FirstToken, Reply, Complete,
     RecordDone, Raise
<1> QED
  BY <1>1, <1>2, <1>3, <1>4

LEMMA TurnStepKeeps ==
    ASSUME ChatTypeOK, JobInv, TurnInv, NEW w \in Workers, TurnStep(w)
    PROVE  TurnInv'
<1> DEFINE at == worker[w].at
<1>1. PICK k \in Requests : k = Mine(w)
  BY StepShape
<1>2. /\ worker[w] \in Job /\ Taken(w) /\ UNCHANGED <<queues, posting>>
      /\ Progress(at, k) /\ Agrees(k) /\ (at # "release" => k \notin lost)
  BY <1>1, StepShape
<1>3. ASSUME \A v \in Workers \ {w} : worker'[v] = worker[v],
             \A r \in Requests \ {k} : phase'[r] = phase[r] /\ audit'[r] = audit[r],
             lost' = lost \/ lost' = lost \cup {k},
             worker'[w] # NoJob => worker'[w].r = k,
             k \in lost' => phase'[k] # "none"
                            /\ (worker'[w] = NoJob \/ worker'[w].at = "release"),
             HasTurn(k)' => worker'[w] # NoJob /\ worker'[w].at \in Turning
      PROVE  TurnInv'
  BY <1>1, <1>2, <1>3, WorkerTurn
<1>4. ASSUME NEW next \in {"requeue"} \cup Running, GoOn(w, next)
      PROVE  /\ worker'[w] # NoJob /\ worker'[w].r = k /\ worker'[w].at = next
             /\ \A v \in Workers \ {w} : worker'[v] = worker[v]
  <2>1. worker'[w] \in Job => worker'[w] # NoJob
    BY DEF Job, NoJob, Running
  <2> QED
    BY <1>1, <1>2, <1>4, <2>1, GoOnShape DEF Mine
<1>5. CASE ClaimFail(w) \/ Release(w)
  <2>1. worker'[w] = NoJob /\ \A v \in Workers \ {w} : worker'[v] = worker[v]
    BY <1>5, IdleShape DEF ClaimFail, Release
  <2>2. /\ UNCHANGED outcome /\ (lost' = lost \/ lost' = lost \cup {k})
        /\ ((at = "popped" /\ k \in lost') \/ at = "release")
    BY <1>1, <1>5 DEF ClaimFail, Release, Lose
  <2>3. ~HasTurn(k)'
    <3>1. CASE at = "popped" /\ k \in lost'
      BY <3>1 DEF HasTurn
    <3>2. CASE at = "release"
      <4>1. ~HasTurn(k)
        BY <1>1, <1>2, <3>2 DEF TurnInv, JobInv, OnePlace, Turning
      <4> QED
        BY <2>2, <4>1 DEF HasTurn, outcome
    <3> QED
      BY <2>2, <3>1, <3>2
  <2>4. phase'[k] # "none"
    BY <1>2, <2>2 DEF outcome, Progress
  <2> QED
    BY <1>3, <2>1, <2>2, <2>3, <2>4 DEF outcome
<1>6. CASE Claim(w)
  <2>1. PICK next \in {"begin", "requeue"} : GoOn(w, next)
    BY <1>6 DEF Claim
  <2>2. at = "popped" /\ UNCHANGED <<outcome, lost>>
    BY <1>6 DEF Claim
  <2>3. k \notin lost' /\ ~HasTurn(k)'
    BY <1>2, <2>2 DEF HasTurn, Progress, Fresh, outcome
  <2> QED
    BY <1>3, <1>4, <2>1, <2>2, <2>3 DEF outcome, Running
<1>7. CASE Think(w)
  <2>1. PICK next \in {"thinking", "refused"} : GoOn(w, next)
    BY <1>7 DEF Think
  <2>2. at = "begin" /\ phase' = [phase EXCEPT ![k] = "thinking"] /\ UNCHANGED <<audit, lost>>
    BY <1>1, <1>7 DEF Think, Publish
  <2>3. \A r \in Requests \ {k} : phase'[r] = phase[r]
    BY <2>2 DEF ChatTypeOK
  <2>4. next \in Running /\ next \in Turning
    BY DEF Running, Turning
  <2> QED
    BY <1>2, <1>3, <1>4, <2>1, <2>2, <2>3, <2>4
<1>8. CASE ReadHistory(w)
  <2>1. /\ worker'[w] \in Job /\ worker'[w].r = k /\ worker'[w].at = "turn"
        /\ \A v \in Workers \ {w} : worker'[v] = worker[v]
    BY <1>1, <1>2, <1>8 DEF ReadHistory, ChatTypeOK, Job, Running, Mine
  <2>2. at = "thinking" /\ UNCHANGED <<outcome, lost>>
    BY <1>8 DEF ReadHistory
  <2>3. worker'[w] # NoJob /\ "turn" \in Turning
    BY <2>1 DEF Job, NoJob, Running, Turning
  <2> QED
    BY <1>2, <1>3, <2>1, <2>2, <2>3 DEF outcome
<1>9. CASE FirstToken(w) \/ Complete(w)
  <2>1. PICK next \in {"streaming", "completed"} : GoOn(w, next)
    BY <1>9 DEF FirstToken, Complete
  <2>2. at # "release" /\ UNCHANGED <<audit, lost>>
    BY <1>9 DEF FirstToken, Complete
  <2>3. PICK p : phase' = [phase EXCEPT ![k] = p]
    BY <1>1, <1>9 DEF FirstToken, Complete, Publish
  <2>4. \A r \in Requests \ {k} : phase'[r] = phase[r]
    BY <2>3 DEF ChatTypeOK
  <2>5. next \in Running /\ next \in Turning
    BY DEF Running, Turning
  <2> QED
    BY <1>2, <1>3, <1>4, <2>1, <2>2, <2>4, <2>5
<1>10. CASE Reply(w)
  <2>1. /\ GoOn(w, "saved") /\ at # "release" /\ UNCHANGED <<phase, audit, lost>>
        /\ "saved" \in Running /\ "saved" \in Turning
    BY <1>10 DEF Reply, Running, Turning
  <2> QED
    BY <1>2, <1>3, <1>4, <2>1
<1>11. CASE RecordDone(w)
  <2>1. GoOn(w, "release") /\ "release" \in Running
    BY <1>11 DEF RecordDone, Running
  <2>2. at = "completed" /\ audit' = [audit EXCEPT ![k] = "done"] /\ UNCHANGED <<phase, lost>>
    BY <1>1, <1>11 DEF RecordDone
  <2>3. audit'[k] = "done" /\ \A r \in Requests \ {k} : audit'[r] = audit[r]
    BY <2>2 DEF ChatTypeOK
  <2>4. k \notin lost' /\ ~HasTurn(k)'
    BY <1>2, <2>2, <2>3 DEF HasTurn, Progress
  <2> QED
    BY <1>3, <1>4, <2>1, <2>2, <2>3, <2>4
<1>12. CASE Raise(w)
  <2>1. GoOn(w, "release") /\ at # "release" /\ "release" \in Running
    BY <1>12 DEF Raise, Running
  <2>2. \/ /\ phase' = [phase EXCEPT ![k] = "error"] /\ lost' = lost
           /\ audit' = [audit EXCEPT ![k] = "error"] \/ audit' = audit
        \/ phase' = phase /\ audit' = audit /\ lost' = lost \cup {k}
    BY <1>1, <1>12 DEF Raise, Publish, Lose
  <2>3. /\ \/ phase'[k] = "error" /\ lost' = lost
           \/ phase'[k] = phase[k] /\ lost' = lost \cup {k}
        /\ \A r \in Requests \ {k} : phase'[r] = phase[r] /\ audit'[r] = audit[r]
    <3>1. DOMAIN phase = Requests /\ DOMAIN audit = Requests
      BY DEF ChatTypeOK
    <3> QED
      BY <2>2, <3>1
  <2>4. phase'[k] # "none" /\ ~HasTurn(k)'
    BY <1>2, <2>3 DEF HasTurn, Progress
  <2> QED
    BY <1>3, <1>4, <2>1, <2>3, <2>4
<1> QED
  BY <1>5, <1>6, <1>7, <1>8, <1>9, <1>10, <1>11, <1>12 DEF TurnStep

LEMMA NextTurns == ChatTypeOK /\ JobInv /\ TurnInv /\ [ChatNext]_chatVars => TurnInv'
<1> SUFFICES ASSUME ChatTypeOK, JobInv, TurnInv, [ChatNext]_chatVars PROVE TurnInv'
  OBVIOUS
<1>0. Waiting \subseteq Requests
  BY DEF Waiting, ChatTypeOK, Elems
<1>1. ASSUME UNCHANGED <<jobs, local, posting, worker, outcome, lost>> PROVE TurnInv'
  BY <1>1, SameTurns DEF Waiting, outcome
<1>2. ASSUME NEW m \in Rooms, Expire(m) PROVE TurnInv'
  BY <1>1, <1>2 DEF Expire, queues
<1>3. CASE UNCHANGED chatVars
  BY <1>1, <1>3 DEF chatVars, queues
<1>4. ASSUME NEW k \in Requests, Post(k) PROVE TurnInv'
  <2>1. /\ Waiting' = Waiting \cup {k} /\ phase[k] = "none"
        /\ UNCHANGED <<worker, audit, lost>>
    BY <1>4 DEF Post, Waiting, queues, Elems
  <2>2. phase'[k] = "queued" /\ \A r \in Requests \ {k} : phase'[r] = phase[r]
    BY <1>4 DEF Post, Publish, ChatTypeOK
  <2> QED
    BY <2>1, <2>2, SameTurns
<1>5. ASSUME NEW k \in Requests, Enqueue(k) PROVE TurnInv'
  <2>1. /\ k \in posting /\ posting' = posting \ {k} /\ UNCHANGED <<worker, outcome>>
        /\ \/ jobs' = Append(jobs, k) /\ UNCHANGED <<local, lost>>
           \/ local' = Append(local, k) /\ UNCHANGED <<jobs, lost>>
           \/ UNCHANGED <<jobs, local>> /\ lost' = lost \cup {k}
    BY <1>5 DEF Enqueue, Push, Lose, queues
  <2>2. /\ k \in Waiting /\ k \notin Elems(jobs) /\ k \notin Elems(local)
        /\ \A w \in Workers : Taken(w) => Mine(w) # k
    BY <2>1 DEF JobInv, OnePlace, Waiting
  <2>3. Waiting' \subseteq Waiting /\ (lost' # lost => k \notin Waiting')
    <3>1. jobs \in Seq(Requests) /\ local \in Seq(Requests)
      BY DEF ChatTypeOK
    <3>2. Elems(jobs') \subseteq Elems(jobs) \cup {k}
      BY <2>1, <3>1, PushLast
    <3>3. Elems(local') \subseteq Elems(local) \cup {k}
      BY <2>1, <3>1, PushLast
    <3>4. Waiting' \subseteq Waiting
      BY <2>1, <3>2, <3>3 DEF Waiting
    <3>5. ASSUME lost' # lost PROVE k \notin Waiting'
      BY <2>1, <2>2, <3>5 DEF Waiting
    <3> QED
      BY <3>4, <3>5
  <2>4. phase[k] # "none"
    BY <2>2 DEF JobInv, Told, Fresh
  <2> QED
    BY <2>1, <2>2, <2>3, <2>4, SameTurns DEF outcome, Taken
<1>6. ASSUME NEW w \in Workers, Pop(w) PROVE TurnInv'
  <2>1. PICK k \in Requests :
           /\ Take(w, k) /\ k \in Elems(jobs) \cup Elems(local)
           /\ Elems(jobs') \subseteq Elems(jobs) /\ Elems(local') \subseteq Elems(local)
    BY <1>6, PopTakes
  <2>2. UNCHANGED <<posting, outcome, lost>> /\ worker[w] = NoJob
    BY <1>6 DEF Pop
  <2>3. k \in Waiting /\ Waiting' \subseteq Waiting
    BY <2>1, <2>2 DEF Waiting
  <2>4. worker'[w].r = k /\ \A v \in Workers \ {w} : worker'[v] = worker[v]
    BY <2>1, TakeShape
  <2>5. k \notin lost /\ ~Taken(w)
    BY <2>2, <2>3 DEF TurnInv, Dropped, Taken
  <2> QED
    BY <2>2, <2>3, <2>4, <2>5, SameTurns DEF outcome, Mine
<1>7. ASSUME NEW w \in Workers, Requeue(w) PROVE TurnInv'
  <2>1. PICK k \in Requests : k = Mine(w) /\ Taken(w)
    BY <1>7, JobShape DEF Requeue
  <2>2. /\ worker[w].at = "requeue" /\ worker'[w] = NoJob
        /\ \A v \in Workers \ {w} : worker'[v] = worker[v]
        /\ \/ jobs' = Append(jobs, k) /\ lost' = lost
           \/ jobs' = jobs /\ lost' = lost \cup {k}
        /\ UNCHANGED <<local, posting, outcome>>
    BY <1>7, <2>1, IdleShape DEF Requeue, Lose
  <2>3. /\ k \notin lost /\ k \notin Waiting /\ phase[k] # "none"
        /\ \A v \in Workers \ {w} : Taken(v) => Mine(v) # k
    BY <2>1, <2>2 DEF TurnInv, Dropped, JobInv, OnePlace, Told, Progress
  <2>4. Waiting' \subseteq Waiting \cup {k} /\ (lost' # lost => Waiting' = Waiting)
    <3>1. Elems(jobs') \subseteq Elems(jobs) \cup {k}
      BY <2>2, PushLast DEF ChatTypeOK
    <3> QED
      BY <2>2, <3>1 DEF Waiting
  <2>5. worker[w].at \notin Turning
    BY <2>2 DEF Turning, Running
  <2> QED
    BY <2>2, <2>3, <2>4, <2>5, SameTurns DEF outcome, Taken
<1>8. CASE Restart
  <2>1. /\ posting' = {} /\ local' = <<>> /\ jobs' = jobs /\ UNCHANGED outcome
        /\ \A w \in Workers : worker'[w] = NoJob
        /\ lost' = lost \cup InMemory
    BY <1>8 DEF Restart
  <2>2. Waiting' = Elems(jobs) /\ Waiting' \subseteq Waiting
    BY <2>1 DEF Waiting, Elems
  <2>3. ASSUME NEW r \in Requests, r \in InMemory PROVE phase[r] # "none" /\ r \notin Elems(jobs)
    <3>1. CASE r \in posting \cup Elems(local)
      BY <3>1 DEF JobInv, OnePlace, Told, Waiting, Fresh
    <3>2. CASE \E w \in Workers : Taken(w) /\ Mine(w) = r
      BY <3>2 DEF JobInv, OnePlace, Told, Waiting, Progress
    <3> QED
      BY <2>3, <3>1, <3>2 DEF InMemory, Elems, Taken
  <2>4. \A w \in Workers : Taken(w) => Mine(w) \in lost'
    BY <2>1 DEF InMemory, Taken
  <2> QED
    BY <2>1, <2>2, <2>3, <2>4, SameTurns DEF outcome, Taken
<1>9. ASSUME NEW w \in Workers, WorkerStep(w) PROVE TurnInv'
  BY <1>6, <1>7, <1>9, TurnStepKeeps DEF WorkerStep, TurnStep
<1> QED
  BY <1>2, <1>3, <1>4, <1>5, <1>8, <1>9 DEF ChatNext

-----------------------------------------------------------------------------
(* Each step of a handler or a worker is one step of the room, or none.    *)

LEMMA TurnsAgree == \A r : Room!InTurn(r) <=> HasTurn(r)
BY DEF Room!InTurn, HasTurn

(* Nobody else's turn in a room is under way when a worker begins one.     *)
LEMMA RoomIsFree ==
    ASSUME ChatTypeOK, JobInv, TurnInv, OneTurnPerRoom, NEW w \in Workers, Think(w),
           NEW q \in Requests, HasTurn(q)
    PROVE  RoomOf[q] # MyRoom(w)
<1>1. PICK v \in Workers : Mine(v) = q /\ Taken(v) /\ worker[v].at \in Turning
  BY DEF TurnInv
<1>2. Busy(v) /\ Busy(w) /\ v # w
  BY <1>1 DEF Busy, Turning, Running, Think
<1> QED
  BY <1>1, <1>2 DEF OneTurnPerRoom, MyRoom, Mine

LEMMA TurnStepImplements ==
    ASSUME ChatTypeOK, JobInv, TurnInv, TurnsAreShort => OneTurnPerRoom,
           NEW w \in Workers, TurnStep(w)
    PROVE  [Room!Next]_(Room!room)
<1> DEFINE at == worker[w].at
<1>1. PICK k \in Requests : k = Mine(w)
  BY StepShape
<1>2. Progress(at, k) /\ Agrees(k) /\ (at # "release" => k \notin lost)
  BY <1>1, StepShape
<1>3. CASE Claim(w) \/ Release(w) \/ ReadHistory(w)
  BY <1>3 DEF Claim, Release, ReadHistory, outcome, Room!room
<1>4. CASE ClaimFail(w)
  <2>1. Room!Drop({k})
    BY <1>1, <1>2, <1>4 DEF ClaimFail, Lose, outcome, Progress, Room!Drop
  <2> QED
    BY <2>1 DEF Room!Next
<1>5. CASE Think(w)
  <2>1. TurnsAreShort => \A q \in Requests : Room!InTurn(q) => RoomOf[q] # RoomOf[k]
    BY <1>1, <1>5, RoomIsFree, TurnsAgree DEF MyRoom, Mine
  <2>2. Room!Announce(k, {"queued"}, "thinking") /\ k \notin lost
    BY <1>1, <1>2, <1>5 DEF Think, Publish, Progress, Fresh, Room!Announce
  <2>3. Room!Think(k)
    BY <2>1, <2>2 DEF Room!Think
  <2> QED
    BY <2>3 DEF Room!Next
<1>6. CASE FirstToken(w)
  <2>1. Room!Stream(k)
    BY <1>1, <1>2, <1>6
    DEF FirstToken, Publish, Progress, Room!Stream, Room!InTurn, Room!Announce
  <2> QED
    BY <2>1 DEF Room!Next
<1>7. CASE Reply(w)
  <2>1. k \notin lost /\ phase[k] \in {"thinking", "streaming"} /\ replies[k] = 0
    BY <1>2, <1>7 DEF Reply, Progress
  <2>2. replies' = [replies EXCEPT ![k] = 1] /\ UNCHANGED <<phase, audit, lost>>
    BY <1>1, <1>7, <2>1 DEF Reply, ChatTypeOK
  <2>3. Room!Reply(k)
    BY <2>1, <2>2 DEF Room!Reply, Room!InTurn
  <2> QED
    BY <2>3 DEF Room!Next
<1>8. CASE Complete(w)
  <2>1. Room!Complete(k)
    BY <1>1, <1>2, <1>8 DEF Complete, Publish, Progress, Room!Complete, Room!InTurn, Room!Announce
  <2> QED
    BY <2>1 DEF Room!Next
<1>9. CASE RecordDone(w)
  <2>1. Room!Record(k)
    BY <1>1, <1>2, <1>9 DEF RecordDone, Progress, Room!Record, Room!InTurn
  <2> QED
    BY <2>1 DEF Room!Next
<1>10. CASE Raise(w)
  <2>1. CASE worker[w].handled
    <3>1. /\ phase' = [phase EXCEPT ![k] = "error"] /\ UNCHANGED <<replies, lost>>
          /\ audit' = audit \/ audit' = [audit EXCEPT ![k] = "error"]
      BY <1>1, <1>10, <2>1 DEF Raise, Publish
    <3>2. Room!InTurn(k)
      BY <1>2, <1>10 DEF Raise, Progress, Room!InTurn
    <3>3. Room!Fail(k)
      BY <3>1, <3>2 DEF Room!Fail
    <3> QED
      BY <3>3 DEF Room!Next
  <2>2. CASE ~worker[w].handled
    <3>1. Room!Drop({k})
      BY <1>1, <1>2, <1>10, <2>2 DEF Raise, Lose, Progress, Room!Drop
    <3> QED
      BY <3>1 DEF Room!Next
  <2> QED
    BY <2>1, <2>2
<1> QED
  BY <1>3, <1>4, <1>5, <1>6, <1>7, <1>8, <1>9, <1>10 DEF TurnStep

LEMMA ChatStepImplements ==
    ASSUME ChatTypeOK, JobInv, TurnInv, TurnsAreShort => OneTurnPerRoom, [ChatNext]_chatVars
    PROVE  [Room!Next]_(Room!room)
<1>0. ASSUME NEW R \in SUBSET Requests, \A r \in R : phase[r] # "none",
             lost' = lost \cup R, UNCHANGED outcome
      PROVE  Room!Next
  BY <1>0 DEF Room!Drop, Room!Next, outcome
<1>8. ASSUME NEW k \in Requests, phase[k] # "none", lost' = lost \cup {k}, UNCHANGED outcome
      PROVE  Room!Next
  <2>1. {k} \in SUBSET Requests /\ \A r \in {k} : phase[r] # "none"
    BY <1>8
  <2> QED
    BY <1>8, <2>1 DEF Room!Drop, Room!Next, outcome
<1>1. ASSUME NEW k \in Requests, Post(k) PROVE Room!Next
  BY <1>1 DEF Post, Publish, Room!Post, Room!Announce, Room!Next
<1>2. ASSUME NEW k \in Requests, Enqueue(k) PROVE [Room!Next]_(Room!room)
  <2>1. phase[k] # "none"
    BY <1>2 DEF Enqueue, JobInv, Told, Waiting, Fresh
  <2>2. UNCHANGED outcome /\ (lost' = lost \/ lost' = lost \cup {k})
    BY <1>2 DEF Enqueue, Lose
  <2>3. lost' = lost \cup {k} => Room!Next
    BY <1>8, <2>1, <2>2
  <2>4. lost' = lost => UNCHANGED Room!room
    BY <2>2 DEF Room!room, outcome
  <2> QED
    BY <2>2, <2>3, <2>4
<1>3. ASSUME NEW w \in Workers, Pop(w) PROVE UNCHANGED Room!room
  BY <1>3 DEF Pop, outcome, Room!room
<1>4. ASSUME NEW w \in Workers, Requeue(w) PROVE [Room!Next]_(Room!room)
  <2>1. Mine(w) \in Requests /\ Taken(w)
    BY <1>4, JobShape DEF Requeue
  <2>2. phase[Mine(w)] # "none"
    BY <2>1 DEF JobInv, Told, Progress
  <2>3. UNCHANGED outcome /\ (lost' = lost \/ lost' = lost \cup {Mine(w)})
    BY <1>4 DEF Requeue, Lose
  <2>4. lost' = lost \cup {Mine(w)} => Room!Next
    BY <1>8, <2>1, <2>2, <2>3
  <2>5. lost' = lost => UNCHANGED Room!room
    BY <2>3 DEF Room!room, outcome
  <2> QED
    BY <2>3, <2>4, <2>5
<1>5. CASE Restart
  <2>1. \A r \in InMemory : r \in Requests /\ phase[r] # "none"
    <3>1. \A r \in posting \cup Elems(local) : r \in Requests /\ phase[r] # "none"
      <4>1. posting \cup Elems(local) \subseteq Requests
        BY DEF ChatTypeOK, Elems
      <4> QED
        BY <4>1 DEF JobInv, Told, Waiting, Fresh
    <3>2. \A w \in Workers : Taken(w) => Mine(w) \in Requests /\ phase[Mine(w)] # "none"
      BY JobShape DEF JobInv, Told, Progress
    <3> QED
      BY <3>1, <3>2 DEF InMemory, Elems, Taken
  <2> QED
    BY <1>0, <1>5, <2>1 DEF Restart
<1>6. CASE UNCHANGED chatVars \/ \E m \in Rooms : Expire(m)
  BY <1>6 DEF chatVars, Expire, outcome, Room!room
<1>7. ASSUME NEW w \in Workers, WorkerStep(w) PROVE [Room!Next]_(Room!room)
  BY <1>3, <1>4, <1>7, TurnStepImplements DEF WorkerStep, TurnStep
<1> QED
  BY <1>1, <1>2, <1>5, <1>6, <1>7 DEF ChatNext

(* Every behaviour of handlers and workers, with and without Redis, is one *)
(* of the room: requeues, failures, restarts and keys that run out never   *)
(* show, and while turns are short those of a room do not overlap.         *)
THEOREM TurnsMakeARoom == ChatSpec => ImplementsRoom
<1>1. ChatInit => TurnInv /\ (TurnsAreShort => RoomInv) /\ Room!Init
  BY DEF ChatInit, TurnInv, HasTurn, RoomInv, OneTurnPerRoom, KeyHeld, Busy, NoJob, Running,
         Room!Init
<1>2. ChatTypeOK /\ (TurnsAreShort => RoomInv) /\ [ChatNext]_chatVars
      => (TurnsAreShort => RoomInv)'
  BY NextRooms
<1>3. /\ ChatTypeOK /\ JobInv /\ TurnInv /\ (TurnsAreShort => RoomInv)
      /\ [ChatNext]_chatVars
      => [Room!Next]_(Room!room)
  BY ChatStepImplements DEF RoomInv
<1> QED
  BY <1>1, <1>2, <1>3, InitType, ChatNextType, InitJob, NextJob, NextTurns, PTL
  DEF ChatSpec, ImplementsRoom, Room!Spec
=============================================================================
