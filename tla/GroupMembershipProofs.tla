------------------------- MODULE GroupMembershipProofs -------------------------
(* What holds of groups, members and invites for any number of students,   *)
(* groups and handlers, however they interleave.                           *)
EXTENDS GroupMembership, WellFoundedInduction, TLAPS

-----------------------------------------------------------------------------
(* The earliest member.                                                    *)

LEMMA LessThanRelation == OpToRel(<, Nat) = {ss \in Nat \X Nat : ss[1] < ss[2]}
BY Zenon DEF OpToRel

LEMMA LeastNumber ==
    ASSUME NEW T, T \subseteq Nat, T # {}
    PROVE  \E n \in T : \A k \in T : n <= k
<1> DEFINE R == {ss \in Nat \X Nat : ss[1] < ss[2]}
<1>0. IsWellFoundedOn(R, Nat)
  BY NatLessThanWellFounded, LessThanRelation
<1>1. PICK n \in T : \A k \in T : <<k, n>> \notin R
  <2> HIDE DEF R
  <2> QED
    BY <1>0, WFMin
<1>2. ASSUME NEW k \in T PROVE n <= k
  <2>1. <<k, n>> \in Nat \X Nat
    OBVIOUS
  <2>2. ~(k < n)
    BY <1>1, <2>1
  <2> QED
    BY <2>2
<1> QED
  BY <1>2

(* joined_at values are numbers, so one of the members joined first.       *)
LEMMA EarliestMember ==
    ASSUME NEW m \in [Students -> Nat], NEW s \in Students, m[s] > 0
    PROVE  /\ Earliest(m) \in Students
           /\ m[Earliest(m)] > 0
           /\ \A e \in Students : m[e] > 0 => m[Earliest(m)] <= m[e]
<1> DEFINE T == {m[e] : e \in {x \in Students : m[x] > 0}}
<1>1. T \subseteq Nat /\ T # {}
  OBVIOUS
<1>2. PICK n \in T : \A k \in T : n <= k
  BY <1>1, LeastNumber
<1>3. PICK e \in Students : m[e] > 0 /\ n = m[e]
  BY <1>2
<1>4. \A x \in Students : m[x] > 0 => m[e] <= m[x]
  BY <1>2, <1>3
<1> QED
  BY <1>3, <1>4 DEF Earliest

LEMMA CohortOfMembers ==
    ASSUME NEW m \in [Students -> Nat]
    PROVE  /\ DetermineCohort(m) \in Cohorts \cup {NoCohort}
           /\ \A s \in Students : m[s] > 0 =>
                DetermineCohort(m) = CohortOf[Earliest(m)]
<1>1. ASSUME NEW s \in Students, m[s] > 0
      PROVE  DetermineCohort(m) = CohortOf[Earliest(m)] /\ DetermineCohort(m) \in Cohorts
  <2>1. Earliest(m) \in Students
    BY <1>1, EarliestMember
  <2>2. CohortOf[Earliest(m)] \in Cohorts
    BY <2>1 DEF Cohorts
  <2> QED
    BY <1>1, <2>2 DEF DetermineCohort
<1>2. CASE \A s \in Students : m[s] = 0
  BY <1>2 DEF DetermineCohort
<1> QED
  BY <1>1, <1>2

-----------------------------------------------------------------------------
(* Types.                                                                  *)

Codes == Cohorts \cup {NoCohort}
States == {"unborn", "pending", "accepted", "declined", "expired", "deleted"}

CreateTxn == [op : {"create"}, s : Students]
Founders == {s \in Students : CohortOf[s] # NoCohort}
CreatedTxn == [op : {"create_commit"}, s : Founders, g : Groups, at : Nat \ {0},
               fyp : 1..LastNumber]
InviteTxn == [op : {"invite"}, g : Groups, s : Students]
AnswerTxn == [op : {"accept", "expire", "reject", "cancel"}, i : Invites]
JoinTxn == [op : {"join"}, i : Invites, at : Nat \ {0}, seen : Codes]
LeaveTxn == [op : {"leave"}, g : Groups, s : Students]
LeftTxn == [op : {"leave_commit"}, g : Groups, s : Students, seen : Codes]
DeleteTxn == [op : {"delete", "delete_commit"}, g : Groups]
Txn == {Idle} \cup CreateTxn \cup CreatedTxn \cup InviteTxn \cup AnswerTxn \cup JoinTxn
       \cup LeaveTxn \cup LeftTxn \cup DeleteTxn

TypeOK ==
    /\ groups \in [Groups -> {"unborn", "alive", "deleted"}]
    /\ joined \in [Groups -> [Students -> Nat]]
    /\ cohort \in [Groups -> Codes]
    /\ fyp \in [Groups -> 0..LastNumber]
    /\ prefix \in [Groups -> Codes]
    /\ lapsed \subseteq Invites
    /\ invite \in [Invites -> States]
    /\ clock \in Nat
    /\ txn \in [Procs -> Txn]
    /\ mixed \subseteq Groups

(* The operation a transaction is at tells what it remembers.              *)
LEMMA TxnShape ==
    ASSUME TypeOK, NEW p \in Procs
    PROVE  /\ txn[p].op = "create" => txn[p] \in CreateTxn
           /\ txn[p].op = "create_commit" => txn[p] \in CreatedTxn
           /\ txn[p].op = "invite" => txn[p] \in InviteTxn
           /\ txn[p].op \in {"accept", "expire", "reject", "cancel"} => txn[p] \in AnswerTxn
           /\ txn[p].op = "join" => txn[p] \in JoinTxn
           /\ txn[p].op = "leave" => txn[p] \in LeaveTxn
           /\ txn[p].op = "leave_commit" => txn[p] \in LeftTxn
           /\ txn[p].op \in {"delete", "delete_commit"} => txn[p] \in DeleteTxn
BY DEF TypeOK, Txn, Idle, CreateTxn, CreatedTxn, InviteTxn, AnswerTxn, JoinTxn, LeaveTxn, LeftTxn,
       DeleteTxn

-----------------------------------------------------------------------------
(* The invariant.                                                          *)

(* Members and invites are those of groups that exist.                     *)
NothingOutlivesGroup ==
    /\ \A g \in Groups, s \in Students : joined[g][s] > 0 => Alive(g)
    /\ \A i \in Invites : InviteExists(i) => Alive(i.g)

(* Whose rows a handler has written and not committed: two handlers never  *)
(* create or delete the same group, and nobody deletes a group somebody is *)
(* joining.                                                                *)
Writes(t, op, g) == t.op = op /\ t.g = g
LocksHold ==
    \A p, q \in Procs, g \in Groups :
        /\ Writes(txn[p], "create_commit", g) =>
              groups[g] = "unborn" /\ (Writes(txn[q], "create_commit", g) => q = p)
        /\ Writes(txn[p], "delete_commit", g) =>
              /\ Alive(g)
              /\ Writes(txn[q], "delete_commit", g) => q = p
              /\ ~(txn[q].op = "join" /\ txn[q].i.g = g)
        /\ txn[p].op = "join" /\ txn[p].i.g = g => Alive(g)

GroupInv == TypeOK /\ NothingOutlivesGroup /\ LocksHold

LEMMA InvStarts == Init => GroupInv
<1> SUFFICES ASSUME Init PROVE GroupInv
  OBVIOUS
<1>1. TypeOK
  BY MembershipAssumptions DEF Init, TypeOK, Idle, Txn, Codes, States
<1>2. NothingOutlivesGroup /\ LocksHold
  BY DEF Init, NothingOutlivesGroup, LocksHold, Idle, Writes, InviteExists
<1> QED
  BY <1>1, <1>2 DEF GroupInv

(* A handler's step that writes no group row others wait for leaves the    *)
(* locks of the others as they are.                                        *)
LEMMA Turn ==
    ASSUME TypeOK, NEW p \in Procs, NEW t, txn' = [txn EXCEPT ![p] = t]
    PROVE  /\ \A q \in Procs : txn'[q] = IF q = p THEN t ELSE txn[q]
           /\ t \in Txn => txn' \in [Procs -> Txn]
<1>1. txn \in [Procs -> Txn]
  BY DEF TypeOK
<1> HIDE DEF Txn
<1> QED
  BY <1>1

LEMMA LocksOfOthers ==
    ASSUME GroupInv, UNCHANGED groups, NEW p \in Procs, NEW t, txn' = [txn EXCEPT ![p] = t],
           t.op \notin {"create_commit", "join", "delete_commit"}
    PROVE  LocksHold'
<1>1. \A q \in Procs : txn'[q] = IF q = p THEN t ELSE txn[q]
  BY Turn DEF GroupInv
<1> QED
  BY <1>1 DEF GroupInv, LocksHold, Writes, Alive

(* A step that changes no row.                                             *)
LEMMA RowsKept ==
    ASSUME GroupInv, UNCHANGED rows, clock' \in Nat, NEW p \in Procs, NEW t \in Txn,
           txn' = [txn EXCEPT ![p] = t], mixed' \subseteq Groups
    PROVE  TypeOK' /\ NothingOutlivesGroup'
<1>1. txn' \in [Procs -> Txn]
  BY Turn DEF GroupInv
<1>2. TypeOK'
  <2> HIDE DEF Txn
  <2> QED
    BY <1>1 DEF GroupInv, TypeOK, rows
<1>3. NothingOutlivesGroup'
  BY DEF GroupInv, NothingOutlivesGroup, rows, Alive, InviteExists
<1> QED
  BY <1>2, <1>3

LEMMA QuietStep ==
    ASSUME GroupInv, UNCHANGED rows, clock' \in Nat, NEW p \in Procs, NEW t \in Txn,
           txn' = [txn EXCEPT ![p] = t], mixed' \subseteq Groups,
           t.op \notin {"create_commit", "join", "delete_commit"}
    PROVE  GroupInv'
<1>1. LocksHold'
  BY LocksOfOthers DEF rows
<1> QED
  BY <1>1, RowsKept DEF GroupInv

LEMMA CallKeeps == ASSUME GroupInv, NEW p \in Procs, Call(p) PROVE GroupInv'
<1>0. clock' \in Nat
  BY DEF Call, CreateLoad, InviteLoad, LeaveLoad, DeleteLoad, AcceptLoad, RejectLoad, CancelLoad,
         Start, GroupInv, TypeOK
<1>1. ASSUME NEW t \in Txn, NEW op, t.op \notin {"create_commit", "join", "delete_commit"},
             Start(p, op, t)
      PROVE  GroupInv'
  BY <1>0, <1>1, QuietStep DEF Start, GroupInv, TypeOK
<1>2. ASSUME NEW s \in Students, CreateLoad(p, s) PROVE GroupInv'
  BY <1>1, <1>2 DEF CreateLoad, Txn, CreateTxn
<1>3. ASSUME NEW g \in Groups, NEW s \in Students, InviteLoad(p, g, s) PROVE GroupInv'
  BY <1>1, <1>3 DEF InviteLoad, Txn, InviteTxn
<1>4. ASSUME NEW g \in Groups, NEW s \in Students, LeaveLoad(p, g, s) PROVE GroupInv'
  BY <1>1, <1>4 DEF LeaveLoad, Txn, LeaveTxn
<1>5. ASSUME NEW g \in Groups, NEW s \in Students, DeleteLoad(p, g, s) PROVE GroupInv'
  BY <1>1, <1>5 DEF DeleteLoad, Txn, DeleteTxn
<1>6. ASSUME NEW i \in Invites, AcceptLoad(p, i) PROVE GroupInv'
  BY <1>1, <1>6 DEF AcceptLoad, Txn, AnswerTxn
<1>7. ASSUME NEW i \in Invites, RejectLoad(p, i) \/ CancelLoad(p, i) PROVE GroupInv'
  BY <1>1, <1>7 DEF RejectLoad, CancelLoad, Txn, AnswerTxn
<1> QED
  BY <1>2, <1>3, <1>4, <1>5, <1>6, <1>7 DEF Call

LEMMA IdleIsQuiet == Idle \in Txn /\ Idle.op \notin {"create_commit", "join", "delete_commit"}
BY DEF Idle, Txn

(* Numbers of a prefix are bounded, so there is a largest.                 *)
LEMMA NumberInRange == ASSUME TypeOK, NEW c PROVE NextNumber(c) \in 1..LastNumber
<1>0. LastNumber \in Nat \ {0} /\ CutNumber \in 1..LastNumber
  BY MembershipAssumptions
<1> DEFINE S == Numbers(c) \cup {0}
           T == {LastNumber - n : n \in S}
<1>1. S \subseteq 0..LastNumber
  BY <1>0 DEF TypeOK, Numbers
<1>2. T \subseteq Nat /\ T # {}
  BY <1>0, <1>1
<1>3. PICK d \in T : \A k \in T : d <= k
  <2> HIDE DEF T
  <2> QED
    BY <1>2, LeastNumber
<1>4. PICK n \in S : d = LastNumber - n
  BY <1>3
<1>5. \A k \in Numbers(c) : k <= n
  <2> TAKE k \in Numbers(c)
  <2>1. k \in S /\ LastNumber - k \in T
    OBVIOUS
  <2>2. d <= LastNumber - k
    BY <2>1, <1>3
  <2>3. k \in 0..LastNumber /\ n \in 0..LastNumber
    BY <2>1, <1>1, <1>4
  <2> QED
    BY <2>2, <2>3, <1>0, <1>4
<1>6. LargestNumber(c) \in S
  BY <1>4, <1>5 DEF LargestNumber
<1> QED
  BY <1>0, <1>1, <1>6 DEF NextNumber

-----------------------------------------------------------------------------
(* The steps of a handler in flight.                                       *)

LEMMA CreateFlushKeeps ==
    ASSUME GroupInv, NEW p \in Procs, NEW g \in Groups, CreateFlush(p, g)
    PROVE  GroupInv'
<1> DEFINE t == [op |-> "create_commit", s |-> txn[p].s, g |-> g, at |-> clock + 1,
                 fyp |-> NextNumber(CohortOf[txn[p].s])]
<1>0. TypeOK
  BY DEF GroupInv
<1>1. txn' = [txn EXCEPT ![p] = t] /\ clock' = clock + 1 /\ UNCHANGED <<rows, mixed>>
  BY DEF CreateFlush, Continue
<1>2. txn[p].s \in Founders
  BY <1>0, TxnShape DEF CreateFlush, CreateTxn, Founders
<1>3. clock \in Nat
  BY <1>0 DEF TypeOK
<1>4. t \in Txn
  BY <1>0, <1>2, <1>3, NumberInRange DEF Txn, CreatedTxn
<1>5. \A q \in Procs : txn'[q] = IF q = p THEN t ELSE txn[q]
  BY <1>0, <1>1, Turn
<1>6. groups[g] = "unborn" /\ \A q \in Procs : ~Writes(txn[q], "create_commit", g)
  BY DEF CreateFlush, At, Writes
<1>7. LocksHold'
  BY <1>1, <1>5, <1>6 DEF GroupInv, LocksHold, Writes, rows, Alive
<1> QED
  <2> HIDE DEF t, Txn
  <2>1. clock' \in Nat /\ mixed' \subseteq Groups
    BY <1>0, <1>1, <1>3 DEF TypeOK
  <2> QED
    BY <1>1, <1>4, <1>7, <2>1, RowsKept DEF GroupInv

(* A new group was unborn, so it has no members but its creator.           *)
LEMMA CreateCommitKeeps ==
    ASSUME GroupInv, NEW p \in Procs, CreateCommit(p) PROVE GroupInv'
<1> DEFINE g == txn[p].g
           s == txn[p].s
           at == txn[p].at
<1>0. TypeOK
  BY DEF GroupInv
<1>1. /\ g \in Groups /\ s \in Students /\ at \in Nat \ {0} /\ txn[p].fyp \in 1..LastNumber
  BY <1>0, TxnShape DEF CreateCommit, CreatedTxn, Founders
<1>2. CohortOf[s] \in Cohorts
  BY <1>1 DEF Cohorts
<1>3. txn' = [txn EXCEPT ![p] = Idle] /\ UNCHANGED mixed
  BY DEF CreateCommit, Finish, Continue
<1>4. \A q \in Procs : txn'[q] = IF q = p THEN Idle ELSE txn[q]
  BY <1>0, <1>3, Turn
<1>5. groups[g] = "unborn"
  BY <1>1 DEF CreateCommit, GroupInv, LocksHold, Writes
<1>6. \A q \in Procs : ~Writes(txn'[q], "create_commit", g)
  BY <1>1, <1>4 DEF CreateCommit, GroupInv, LocksHold, Writes, Idle
<1>7. groups' \in [Groups -> {"unborn", "alive", "deleted"}] /\
      \A h \in Groups : groups'[h] = IF h = g THEN "alive" ELSE groups[h]
  BY <1>0, <1>1 DEF CreateCommit, TypeOK
<1>8. joined' \in [Groups -> [Students -> Nat]] /\
      \A h \in Groups, e \in Students :
          joined'[h][e] = IF h = g /\ e = s THEN at ELSE joined[h][e]
  BY <1>0, <1>1 DEF CreateCommit, TypeOK
<1>9. cohort' \in [Groups -> Codes] /\
      \A h \in Groups : cohort'[h] = IF h = g THEN CohortOf[s] ELSE cohort[h]
  BY <1>0, <1>1, <1>2 DEF CreateCommit, TypeOK, Codes
<1>10. TypeOK'
  <2>1. txn' \in [Procs -> Txn]
    BY <1>0, <1>3, Turn, IdleIsQuiet
  <2>2. fyp' \in [Groups -> 0..LastNumber] /\ prefix' \in [Groups -> Codes]
    BY <1>0, <1>1, <1>2, MembershipAssumptions DEF CreateCommit, TypeOK, Codes
  <2> HIDE DEF Txn
  <2> QED
    BY <1>0, <1>3, <1>7, <1>8, <1>9, <2>1, <2>2 DEF CreateCommit, TypeOK
<1>12. NothingOutlivesGroup'
  BY <1>0, <1>7, <1>8 DEF CreateCommit, GroupInv, NothingOutlivesGroup, Alive, InviteExists,
     Invites
<1>13. LocksHold'
  BY <1>4, <1>5, <1>6, <1>7 DEF GroupInv, LocksHold, Writes, Alive, Idle
<1> QED
  BY <1>10, <1>12, <1>13 DEF GroupInv

(* Steps that change only invites, none of them in favour of a group that  *)
(* does not exist.                                                         *)
LEMMA InviteStep ==
    ASSUME GroupInv, NEW p \in Procs, Finish(p), invite' \in [Invites -> States],
           UNCHANGED <<groups, joined, cohort, fyp, prefix, lapsed, clock>>,
           \A i \in Invites : InviteExists(i)' => InviteExists(i) \/ Alive(i.g)
    PROVE  GroupInv'
<1>1. txn' = [txn EXCEPT ![p] = Idle] /\ UNCHANGED mixed
  BY DEF Finish, Continue
<1>2. txn' \in [Procs -> Txn]
  BY <1>1, Turn, IdleIsQuiet DEF GroupInv
<1>3. TypeOK'
  <2> HIDE DEF Txn
  <2> QED
    BY <1>1, <1>2 DEF GroupInv, TypeOK
<1>4. LocksHold'
  BY <1>1, IdleIsQuiet, LocksOfOthers
<1>5. NothingOutlivesGroup'
  BY DEF GroupInv, NothingOutlivesGroup, Alive
<1> QED
  BY <1>3, <1>4, <1>5 DEF GroupInv

LEMMA InviteCommitKeeps == ASSUME GroupInv, NEW p \in Procs, InviteCommit(p) PROVE GroupInv'
<1>1. PICK i \in Unborn(txn[p].g, txn[p].s) : invite' = [invite EXCEPT ![i] = "pending"]
  BY DEF InviteCommit
<1>2. i \in Invites /\ Alive(i.g)
  BY DEF InviteCommit, Unborn
<1>3. invite \in [Invites -> States]
  BY DEF GroupInv, TypeOK
<1>4. \A j \in Invites : invite'[j] = IF j = i THEN "pending" ELSE invite[j]
  BY <1>1, <1>2, <1>3
<1>5. invite' \in [Invites -> States]
  BY <1>1, <1>3 DEF States
<1>6. \A j \in Invites : InviteExists(j)' => InviteExists(j) \/ Alive(j.g)
  BY <1>2, <1>4 DEF InviteExists
<1> QED
  BY <1>5, <1>6, InviteStep DEF InviteCommit

LEMMA AnswerKeeps ==
    ASSUME GroupInv, NEW p \in Procs, ExpireCommit(p) \/ RejectCommit(p) \/ CancelCommit(p)
    PROVE  GroupInv'
<1> DEFINE i == txn[p].i
<1>0. TypeOK
  BY DEF GroupInv
<1>1. i \in Invites
  BY <1>0, TxnShape DEF ExpireCommit, RejectCommit, CancelCommit, AnswerTxn
<1>2. invite \in [Invites -> States]
  BY <1>0 DEF TypeOK
<1>3. ASSUME NEW state \in States, invite' = [invite EXCEPT ![i] = state],
             InviteExists(i) \/ state \notin {"pending", "accepted", "declined", "expired"}
      PROVE  invite' \in [Invites -> States] /\
             \A j \in Invites : InviteExists(j)' => InviteExists(j) \/ Alive(j.g)
  BY <1>1, <1>2, <1>3 DEF InviteExists
<1>4. CASE ExpireCommit(p) \/ RejectCommit(p)
  <2>1. "expired" \in States /\ "declined" \in States
    BY DEF States
  <2>2. invite' = [invite EXCEPT ![i] = "expired"] \/ invite' = [invite EXCEPT ![i] = "declined"]
    BY <1>4 DEF ExpireCommit, RejectCommit
  <2>3. InviteExists(i)
    BY <1>4 DEF ExpireCommit, RejectCommit
  <2>4. invite' \in [Invites -> States] /\
        \A j \in Invites : InviteExists(j)' => InviteExists(j) \/ Alive(j.g)
    BY <1>3, <2>1, <2>2, <2>3
  <2> QED
    BY <1>4, <2>4, InviteStep DEF ExpireCommit, RejectCommit
<1>5. CASE CancelCommit(p)
  <2>1. AfterCancel(i) \in States
    BY <1>1, <1>2 DEF AfterCancel, States
  <2>2. InviteExists(i) \/ AfterCancel(i) \notin {"pending", "accepted", "declined", "expired"}
    BY DEF AfterCancel, InviteExists
  <2>3. invite' \in [Invites -> States] /\
        \A j \in Invites : InviteExists(j)' => InviteExists(j) \/ Alive(j.g)
    BY <1>3, <1>5, <2>1, <2>2 DEF CancelCommit
  <2> QED
    BY <1>5, <2>3, InviteStep DEF CancelCommit
<1> QED
  BY <1>4, <1>5

LEMMA CohortSeen ==
    ASSUME TypeOK, NEW g \in Groups, NEW s \in Students, NEW n \in Nat
    PROVE  DetermineCohort([joined[g] EXCEPT ![s] = n]) \in Codes
<1>1. [joined[g] EXCEPT ![s] = n] \in [Students -> Nat]
  BY DEF TypeOK
<1> QED
  BY <1>1, CohortOfMembers DEF Codes

LEMMA AcceptInsertKeeps == ASSUME GroupInv, NEW p \in Procs, AcceptInsert(p) PROVE GroupInv'
<1> DEFINE i == txn[p].i
           t == [op |-> "join", i |-> i, at |-> clock + 1,
                 seen |-> DetermineCohort([joined[i.g] EXCEPT ![i.s] = clock + 1])]
<1>0. TypeOK
  BY DEF GroupInv
<1>1. txn' = [txn EXCEPT ![p] = t] /\ clock' = clock + 1 /\ UNCHANGED rows
  BY DEF AcceptInsert, Change
<1>2. i \in Invites
  BY <1>0, TxnShape DEF AcceptInsert, AnswerTxn
<1>3. i.g \in Groups /\ i.s \in Students
  BY <1>2 DEF Invites
<1>4. clock \in Nat
  BY <1>0 DEF TypeOK
<1>5. t \in Txn
  <2>1. clock + 1 \in Nat \ {0}
    BY <1>4
  <2>2. t.seen \in Codes
    BY <1>0, <1>3, <1>4, CohortSeen
  <2> QED
    BY <1>2, <2>1, <2>2 DEF Txn, JoinTxn
<1>6. \A q \in Procs : txn'[q] = IF q = p THEN t ELSE txn[q]
  BY <1>0, <1>1, Turn
<1>7. Alive(i.g) /\ \A q \in Procs : ~Writes(txn[q], "delete_commit", i.g)
  BY DEF AcceptInsert, GroupFree, At, Writes
<1>8. t.op = "join" /\ t.i = i
  OBVIOUS
<1>9. LocksHold'
  <2> HIDE DEF t, i
  <2> QED
    BY <1>1, <1>6, <1>7, <1>8 DEF GroupInv, LocksHold, Writes, rows, Alive
<1> QED
  <2> HIDE DEF t, Txn
  <2>1. clock' \in Nat /\ mixed' \subseteq Groups
    <3>1. mixed' \in {mixed, mixed \cup {i.g}}
      BY DEF AcceptInsert, Change
    <3> QED
      BY <1>0, <1>1, <1>3, <1>4, <3>1 DEF TypeOK
  <2> QED
    BY <1>1, <1>5, <1>9, <2>1, RowsKept DEF GroupInv

(* A member row is added or removed, and the trigger follows.              *)
LEMMA MemberStep ==
    ASSUME TypeOK, NEW g \in Groups, NEW s \in Students, NEW n \in Nat, NEW seen \in Codes,
           joined' = [joined EXCEPT ![g][s] = n],
           cohort' = [cohort EXCEPT ![g] = Refreshed(seen, joined'[g])]
    PROVE  /\ joined' \in [Groups -> [Students -> Nat]]
           /\ \A h \in Groups, e \in Students :
                  joined'[h][e] = IF h = g /\ e = s THEN n ELSE joined[h][e]
           /\ cohort' \in [Groups -> Codes]
<1>1. joined' \in [Groups -> [Students -> Nat]] /\
      \A h \in Groups, e \in Students :
          joined'[h][e] = IF h = g /\ e = s THEN n ELSE joined[h][e]
  BY DEF TypeOK
<1>2. joined'[g] \in [Students -> Nat]
  BY <1>1
<1>3. Refreshed(seen, joined'[g]) \in Codes
  BY <1>2, CohortOfMembers DEF Refreshed, Codes
<1> QED
  BY <1>1, <1>3 DEF TypeOK

LEMMA AcceptCommitKeeps == ASSUME GroupInv, NEW p \in Procs, AcceptCommit(p) PROVE GroupInv'
<1> DEFINE i == txn[p].i
<1>0. TypeOK
  BY DEF GroupInv
<1>1. i \in Invites /\ txn[p].at \in Nat \ {0} /\ txn[p].seen \in Codes
  BY <1>0, TxnShape DEF AcceptCommit, JoinTxn
<1>2. i.g \in Groups /\ i.s \in Students
  BY <1>1 DEF Invites
<1>3. Alive(i.g)
  BY <1>2 DEF AcceptCommit, GroupInv, LocksHold
<1>4. /\ joined' \in [Groups -> [Students -> Nat]]
      /\ \A h \in Groups, e \in Students :
             joined'[h][e] = IF h = i.g /\ e = i.s THEN txn[p].at ELSE joined[h][e]
      /\ cohort' \in [Groups -> Codes]
  <2>1. /\ joined' = [joined EXCEPT ![i.g][i.s] = txn[p].at]
        /\ cohort' = [cohort EXCEPT ![i.g] = Refreshed(txn[p].seen, joined'[i.g])]
    BY DEF AcceptCommit
  <2>2. txn[p].at \in Nat
    BY <1>1
  <2> HIDE DEF i
  <2> QED
    BY <2>1, <2>2, <1>0, <1>1, <1>2, MemberStep
<1>5. invite' \in [Invites -> States] /\
      \A j \in Invites : invite'[j] = IF j = i THEN "accepted" ELSE invite[j]
  <2>1. invite' = [invite EXCEPT ![i] = "accepted"]
    BY DEF AcceptCommit
  <2> QED
    BY <1>0, <1>1, <2>1 DEF TypeOK, States
<1>6. /\ UNCHANGED <<groups, fyp, prefix, lapsed, clock, mixed>>
      /\ txn' = [txn EXCEPT ![p] = Idle]
  BY DEF AcceptCommit, Finish, Continue
<1>7. TypeOK'
  <2>1. txn' \in [Procs -> Txn]
    BY <1>0, <1>6, Turn, IdleIsQuiet
  <2> HIDE DEF Txn
  <2> QED
    BY <1>0, <1>4, <1>5, <1>6, <2>1 DEF TypeOK
<1>8. NothingOutlivesGroup'
  BY <1>3, <1>4, <1>5, <1>6 DEF GroupInv, NothingOutlivesGroup, Alive, InviteExists
<1>9. LocksHold'
  BY <1>6, IdleIsQuiet, LocksOfOthers
<1> QED
  BY <1>7, <1>8, <1>9 DEF GroupInv

LEMMA LeaveDeleteKeeps == ASSUME GroupInv, NEW p \in Procs, LeaveDelete(p) PROVE GroupInv'
<1> DEFINE g == txn[p].g
           s == txn[p].s
           t == [op |-> "leave_commit", g |-> g, s |-> s,
                 seen |-> DetermineCohort([joined[g] EXCEPT ![s] = 0])]
<1>0. TypeOK
  BY DEF GroupInv
<1>1. g \in Groups /\ s \in Students
  BY <1>0, TxnShape DEF LeaveDelete, LeaveTxn
<1>2. t \in Txn
  <2>1. t.seen \in Codes
    BY <1>0, <1>1, CohortSeen
  <2> QED
    BY <1>1, <2>1 DEF Txn, LeftTxn
<1>3. UNCHANGED rows /\ clock' \in Nat /\ mixed' \subseteq Groups
  <2>1. mixed' \in {mixed, mixed \cup {g}}
    BY DEF LeaveDelete, Change, Continue, Finish
  <2> QED
    BY <1>0, <1>1, <2>1 DEF LeaveDelete, TypeOK
<1>4. txn' = [txn EXCEPT ![p] = t] \/ txn' = [txn EXCEPT ![p] = Idle]
  BY DEF LeaveDelete, Change, Continue, Finish
<1>5. t.op = "leave_commit"
  OBVIOUS
<1> HIDE DEF t, Txn
<1> QED
  BY <1>2, <1>3, <1>4, <1>5, IdleIsQuiet, QuietStep

LEMMA LeaveCommitKeeps == ASSUME GroupInv, NEW p \in Procs, LeaveCommit(p) PROVE GroupInv'
<1> DEFINE g == txn[p].g
           s == txn[p].s
<1>0. TypeOK
  BY DEF GroupInv
<1>1. g \in Groups /\ s \in Students /\ txn[p].seen \in Codes
  BY <1>0, TxnShape DEF LeaveCommit, LeftTxn
<1>2. /\ joined' = [joined EXCEPT ![g][s] = 0]
      /\ cohort' = [cohort EXCEPT ![g] = Refreshed(txn[p].seen, joined'[g])]
      /\ txn' = [txn EXCEPT ![p] = Idle]
      /\ UNCHANGED <<groups, fyp, prefix, invite, lapsed, clock, mixed>>
  BY DEF LeaveCommit, Finish, Continue
<1>3. /\ joined' \in [Groups -> [Students -> Nat]]
      /\ \A h \in Groups, e \in Students :
             joined'[h][e] = IF h = g /\ e = s THEN 0 ELSE joined[h][e]
      /\ cohort' \in [Groups -> Codes]
  <2> HIDE DEF g, s
  <2> QED
    BY <1>0, <1>1, <1>2, MemberStep
<1>4. TypeOK'
  <2>1. txn' \in [Procs -> Txn]
    BY <1>0, <1>2, Turn, IdleIsQuiet
  <2> HIDE DEF Txn
  <2> QED
    BY <1>0, <1>2, <1>3, <2>1 DEF TypeOK
<1>5. NothingOutlivesGroup'
  BY <1>2, <1>3 DEF GroupInv, NothingOutlivesGroup, Alive, InviteExists
<1>6. LocksHold'
  BY <1>2, IdleIsQuiet, LocksOfOthers
<1> QED
  BY <1>4, <1>5, <1>6 DEF GroupInv

LEMMA DeleteLockKeeps == ASSUME GroupInv, NEW p \in Procs, DeleteLock(p) PROVE GroupInv'
<1> DEFINE g == txn[p].g
           t == [txn[p] EXCEPT !.op = "delete_commit"]
<1>0. TypeOK
  BY DEF GroupInv
<1>1. txn[p] \in DeleteTxn
  BY <1>0, TxnShape DEF DeleteLock
<1>2. t \in DeleteTxn /\ t.op = "delete_commit" /\ t.g = g /\ g \in Groups
  BY <1>1 DEF DeleteTxn
<1>3. UNCHANGED rows /\ clock' \in Nat /\ mixed' \subseteq Groups
  BY <1>0 DEF DeleteLock, TypeOK, Continue, Finish
<1>4. CASE Alive(g) /\ txn' = [txn EXCEPT ![p] = t]
  <2>1. \A q \in Procs : txn'[q] = IF q = p THEN t ELSE txn[q]
    BY <1>0, <1>4, Turn
  <2>2. \A q \in Procs : ~Writes(txn[q], "delete_commit", g)
    BY DEF DeleteLock, GroupFree, At, Writes
  <2>3. \A q \in Procs : ~(txn[q].op = "join" /\ txn[q].i.g = g)
    <3>2. SUFFICES ASSUME NEW q \in Procs, txn[q].op = "join", txn[q].i.g = g PROVE FALSE
      OBVIOUS
    <3>3. txn[q].i.s \in Students
      BY <1>0, <3>2, TxnShape DEF JoinTxn, Invites
    <3> QED
      BY <3>2, <3>3 DEF DeleteLock, Joining
  <2>4. LocksHold'
    <3> HIDE DEF t
    <3> QED
      BY <1>2, <1>3, <1>4, <2>1, <2>2, <2>3 DEF GroupInv, LocksHold, Writes, rows, Alive
  <2>5. t \in Txn
    BY <1>2 DEF Txn
  <2> HIDE DEF t, Txn
  <2> QED
    BY <1>3, <1>4, <2>4, <2>5, RowsKept DEF GroupInv
<1>5. CASE txn' = [txn EXCEPT ![p] = Idle]
  <2> HIDE DEF Txn
  <2> QED
    BY <1>3, <1>5, IdleIsQuiet, QuietStep
<1> QED
  BY <1>4, <1>5 DEF DeleteLock, Continue, Finish

(* The cascade takes the members, the project and the invites along.       *)
LEMMA DeleteCommitKeeps == ASSUME GroupInv, NEW p \in Procs, DeleteCommit(p) PROVE GroupInv'
<1> DEFINE g == txn[p].g
<1>0. TypeOK
  BY DEF GroupInv
<1>1. g \in Groups
  BY <1>0, TxnShape DEF DeleteCommit, DeleteTxn
<1>2. txn' = [txn EXCEPT ![p] = Idle] /\ UNCHANGED <<lapsed, clock, mixed>>
  BY DEF DeleteCommit, Finish, Continue
<1>3. \A q \in Procs : txn'[q] = IF q = p THEN Idle ELSE txn[q]
  BY <1>0, <1>2, Turn
<1>4. groups' \in [Groups -> {"unborn", "alive", "deleted"}] /\
      \A h \in Groups : groups'[h] = IF h = g THEN "deleted" ELSE groups[h]
  BY <1>0, <1>1 DEF DeleteCommit, TypeOK
<1>5. joined' \in [Groups -> [Students -> Nat]] /\
      \A h \in Groups, e \in Students : joined'[h][e] = IF h = g THEN 0 ELSE joined[h][e]
  BY <1>0, <1>1 DEF DeleteCommit, TypeOK
<1>6. invite' \in [Invites -> States] /\
      \A i \in Invites :
          invite'[i] = IF i.g = g /\ InviteExists(i) THEN "deleted" ELSE invite[i]
  BY <1>0 DEF DeleteCommit, TypeOK, States
<1>7. TypeOK'
  <2>1. txn' \in [Procs -> Txn]
    BY <1>0, <1>2, Turn, IdleIsQuiet
  <2>2. /\ fyp' \in [Groups -> 0..LastNumber] /\ prefix' \in [Groups -> Codes]
        /\ cohort' \in [Groups -> Codes]
    BY <1>0, <1>1, MembershipAssumptions DEF DeleteCommit, TypeOK, Codes
  <2> HIDE DEF Txn
  <2> QED
    BY <1>0, <1>2, <1>4, <1>5, <1>6, <2>1, <2>2 DEF TypeOK
<1>8. NothingOutlivesGroup'
  BY <1>4, <1>5, <1>6 DEF GroupInv, NothingOutlivesGroup, Alive, InviteExists, Invites
<1>9. Alive(g) /\ \A q \in Procs :
          /\ Writes(txn[q], "delete_commit", g) => q = p
          /\ ~(txn[q].op = "join" /\ txn[q].i.g = g)
  BY <1>1 DEF DeleteCommit, GroupInv, LocksHold, Writes
<1>10. LocksHold'
  BY <1>3, <1>4, <1>9 DEF GroupInv, LocksHold, Writes, Alive, Idle
<1> QED
  BY <1>7, <1>8, <1>10 DEF GroupInv

(* A refused transaction and a crash write nothing; nor does time.         *)
LEMMA NothingWritten ==
    ASSUME GroupInv,
           \/ \E p \in Procs : Abort(p)
           \/ Crash
           \/ \E i \in Invites : Lapse(i)
           \/ UNCHANGED vars
    PROVE  GroupInv'
<1>0. TypeOK /\ clock \in Nat
  BY DEF GroupInv, TypeOK
<1>1. ASSUME NEW p \in Procs, Abort(p) PROVE GroupInv'
  <2>1. /\ UNCHANGED rows /\ clock' \in Nat /\ mixed' \subseteq Groups
        /\ txn' = [txn EXCEPT ![p] = Idle]
    BY <1>0, <1>1 DEF Abort, Finish, Continue, TypeOK
  <2> HIDE DEF Txn
  <2> QED
    BY <2>1, IdleIsQuiet, QuietStep
<1>2. CASE Crash
  <2>1. UNCHANGED <<rows, clock, mixed>> /\ \A p \in Procs : txn'[p] = Idle
    BY <1>2 DEF Crash
  <2>2. txn' \in [Procs -> Txn]
    <3>1. txn' = [p \in Procs |-> Idle]
      BY <1>2 DEF Crash
    <3> HIDE DEF Txn
    <3> QED
      BY <3>1, IdleIsQuiet
  <2>3. TypeOK'
    <3> HIDE DEF Txn
    <3> QED
      BY <1>0, <2>1, <2>2 DEF TypeOK, rows
  <2>4. LocksHold'
    BY <2>1 DEF LocksHold, Writes, Idle
  <2> QED
    BY <2>1, <2>3, <2>4 DEF GroupInv, NothingOutlivesGroup, rows, Alive, InviteExists
<1>3. ASSUME NEW i \in Invites, Lapse(i) PROVE GroupInv'
  <2>1. TypeOK'
    <3> HIDE DEF Txn
    <3> QED
      BY <1>0, <1>3 DEF TypeOK, Lapse
  <2> QED
    BY <1>3, <2>1 DEF Lapse, GroupInv, NothingOutlivesGroup, LocksHold, Alive, InviteExists
<1>4. CASE UNCHANGED vars
  <2>1. TypeOK'
    <3> HIDE DEF Txn
    <3> QED
      BY <1>0, <1>4 DEF TypeOK, vars
  <2> QED
    BY <1>4, <2>1 DEF vars, GroupInv, NothingOutlivesGroup, LocksHold, Alive, InviteExists
<1> QED
  BY <1>1, <1>2, <1>3, <1>4

LEMMA InvKept == ASSUME GroupInv, [Next]_vars PROVE GroupInv'
<1>1. ASSUME NEW p \in Procs, Proceed(p), ~Abort(p) PROVE GroupInv'
  BY <1>1, CreateFlushKeeps, CreateCommitKeeps, InviteCommitKeeps, AcceptInsertKeeps,
     AcceptCommitKeeps, AnswerKeeps, LeaveDeleteKeeps, LeaveCommitKeeps, DeleteLockKeeps,
     DeleteCommitKeeps DEF Proceed
<1> QED
  BY <1>1, CallKeeps, NothingWritten DEF Next

(* Every handler remembers only ids, numbers and cohorts that exist, and a *)
(* project's number stays between 1 and the largest two-digit number       *)
(* however the numbers of its prefix are freed and given out again.        *)
THEOREM GroupTypes == Spec => []TypeOK
<1>1. GroupInv => TypeOK
  BY DEF GroupInv
<1> QED
  BY <1>1, InvStarts, InvKept, PTL DEF Spec

(* Deleting a group takes its members and invites along, and no handler    *)
(* that loaded the group before puts one back: the foreign keys make an    *)
(* INSERT lock the group row, and a delete wait for that lock.             *)
THEOREM DeletedGroupsAreEmpty == Spec => []NothingOutlivesGroup
<1>1. GroupInv => NothingOutlivesGroup
  BY DEF GroupInv
<1> QED
  BY <1>1, InvStarts, InvKept, PTL DEF Spec

-----------------------------------------------------------------------------
(* The cohort.  A handler that adds or removes a member alone has computed *)
(* the cohort that its change leaves behind.                               *)

Changes(t, g) ==
    \/ t.op = "join" /\ t.i.g = g
    \/ t.op = "leave_commit" /\ t.g = g
After(t, m) == IF t.op = "join" THEN [m EXCEPT ![t.i.s] = t.at] ELSE [m EXCEPT ![t.s] = 0]

SeenAlone ==
    \A p \in Procs, g \in Groups : Changes(txn[p], g) =>
        /\ Alive(g)
        /\ g \notin mixed =>
              /\ txn[p].seen = DetermineCohort(After(txn[p], joined[g]))
              /\ \A q \in Procs : Changes(txn[q], g) => q = p

CohortInv == GroupInv /\ SeenAlone /\ CohortFollowsEarliest

LEMMA CohortStarts == Init => CohortInv
<1> SUFFICES ASSUME Init PROVE CohortInv
  OBVIOUS
<1>1. SeenAlone
  BY DEF Init, SeenAlone, Changes, Idle
<1>2. \A g \in Groups : cohort[g] = NoCohort /\ Owed(g) = NoCohort
  BY DEF Init, Owed, Members
<1> QED
  BY <1>1, <1>2, InvStarts DEF CohortInv, CohortFollowsEarliest

(* The cohort owed to a group is what the function computes of its rows.   *)
LEMMA OwedIsDetermined ==
    ASSUME NEW m \in [Students -> Nat]
    PROVE  DetermineCohort(m) = IF {s \in Students : m[s] > 0} = {} THEN NoCohort
                                                                  ELSE CohortOf[Earliest(m)]
<1>1. CASE \A s \in Students : m[s] = 0
  BY <1>1 DEF DetermineCohort
<1>2. CASE \E s \in Students : m[s] # 0
  <2>1. PICK s \in Students : m[s] > 0
    BY <1>2
  <2> QED
    BY <2>1, CohortOfMembers
<1> QED
  BY <1>1, <1>2

(* Handlers that change other groups, or nothing, notice nothing.          *)
LEMMA OthersSeen ==
    ASSUME SeenAlone, TypeOK, UNCHANGED mixed, NEW p \in Procs, NEW t,
           txn' = [txn EXCEPT ![p] = t], t.op \notin {"join", "leave_commit"},
           \A q \in Procs \ {p}, g \in Groups : Changes(txn[q], g) =>
               Alive(g)' /\ (g \notin mixed => joined'[g] = joined[g])
    PROVE  SeenAlone'
<1>1. \A q \in Procs : txn'[q] = IF q = p THEN t ELSE txn[q]
  BY ONLY TypeOK, p \in Procs, txn' = [txn EXCEPT ![p] = t], Turn
<1>2. \A q \in Procs, g \in Groups : Changes(txn'[q], g) => q # p /\ txn'[q] = txn[q]
  BY <1>1 DEF Changes
<1> QED
  BY <1>2 DEF SeenAlone

LEMMA CohortOfRows ==
    ASSUME CohortFollowsEarliest, UNCHANGED <<joined, cohort>>, mixed \subseteq mixed'
    PROVE  CohortFollowsEarliest'
BY DEF CohortFollowsEarliest, Owed, Members

LEMMA CohortQuiet ==
    ASSUME CohortInv, UNCHANGED <<groups, joined, cohort, mixed>>, NEW p \in Procs, NEW t,
           txn' = [txn EXCEPT ![p] = t], t.op \notin {"join", "leave_commit"}
    PROVE  SeenAlone' /\ CohortFollowsEarliest'
<1>1. \A q \in Procs \ {p}, g \in Groups : Changes(txn[q], g) =>
          Alive(g)' /\ (g \notin mixed => joined'[g] = joined[g])
  BY DEF CohortInv, SeenAlone, Alive
<1> QED
  BY <1>1, OthersSeen, CohortOfRows DEF CohortInv, GroupInv

(* A statement that changes the members of a group others are changing     *)
(* makes the group mixed.                                                  *)
LEMMA CohortChange ==
    ASSUME CohortInv, UNCHANGED <<groups, joined, cohort>>, NEW p \in Procs, NEW g \in Groups,
           Alive(g), NEW t, Change(p, g, t), \A h \in Groups : Changes(t, h) <=> h = g,
           t.seen = DetermineCohort(After(t, joined[g]))
    PROVE  SeenAlone' /\ CohortFollowsEarliest'
<1>0. TypeOK
  BY DEF CohortInv, GroupInv
<1>1. \A q \in Procs : txn'[q] = IF q = p THEN t ELSE txn[q]
  BY <1>0, Turn DEF Change
<1>2. mixed \subseteq mixed' /\ mixed' \subseteq mixed \cup {g}
  BY DEF Change
<1>3. ASSUME NEW q \in Procs, Changes(txn[q], g) PROVE g \in mixed'
  <2>1. txn[q].op = "join" => txn[q].i.s \in Students
    BY <1>0, TxnShape DEF JoinTxn, Invites
  <2>2. txn[q].op = "leave_commit" => txn[q].s \in Students
    BY <1>0, TxnShape DEF LeftTxn
  <2>3. Changing(g)
    BY <1>3, <2>1, <2>2 DEF Changing, Changes, Joining, Leaving
  <2> QED
    BY <2>3 DEF Change
<1>4. SeenAlone'
  <2> SUFFICES ASSUME NEW q \in Procs, NEW h \in Groups, Changes(txn'[q], h)
               PROVE  /\ Alive(h)'
                      /\ h \notin mixed' =>
                            /\ txn'[q].seen = DetermineCohort(After(txn'[q], joined'[h]))
                            /\ \A r \in Procs : Changes(txn'[r], h) => r = q
    BY DEF SeenAlone
  <2>1. CASE q = p
    <3>1. h = g /\ txn'[q] = t
      BY <1>1, <2>1
    <3>2. ASSUME h \notin mixed', NEW r \in Procs, Changes(txn'[r], h) PROVE r = q
      BY <1>1, <1>3, <2>1, <3>1, <3>2
    <3> QED
      BY <3>1, <3>2 DEF Alive
  <2>2. CASE q # p
    <3>1. txn'[q] = txn[q] /\ Changes(txn[q], h) /\ Alive(h)
      BY <1>1, <2>2 DEF CohortInv, SeenAlone
    <3>2. ASSUME h \notin mixed', NEW r \in Procs, Changes(txn'[r], h) PROVE r = q
      <4>1. h # g
        BY <1>3, <3>1, <3>2
      <4>2. r # p /\ txn'[r] = txn[r]
        BY <1>1, <3>2, <4>1
      <4> QED
        BY <1>2, <3>1, <3>2, <4>2 DEF CohortInv, SeenAlone
    <3>3. h \notin mixed' => txn'[q].seen = DetermineCohort(After(txn'[q], joined'[h]))
      BY <1>2, <3>1 DEF CohortInv, SeenAlone
    <3> QED
      BY <3>1, <3>2, <3>3 DEF Alive
  <2> QED
    BY <2>1, <2>2
<1> QED
  BY <1>2, <1>4, CohortOfRows DEF CohortInv

(* The trigger's UPDATE computes the cohort again with the members it then *)
(* sees: a group whose earliest member has an intake gets its cohort,      *)
(* whatever the statement saw.                                             *)
LEMMA CohortCommit ==
    ASSUME CohortInv, TypeOK', UNCHANGED <<groups, mixed>>, NEW p \in Procs, NEW g \in Groups,
           Changes(txn[p], g), txn' = [txn EXCEPT ![p] = Idle],
           joined' = [joined EXCEPT ![g] = After(txn[p], joined[g])],
           cohort' = [cohort EXCEPT ![g] = Refreshed(txn[p].seen, joined'[g])]
    PROVE  SeenAlone' /\ CohortFollowsEarliest'
<1>0. TypeOK /\ SeenAlone
  BY DEF CohortInv, GroupInv
<1>1. /\ joined'[g] = After(txn[p], joined[g])
      /\ cohort'[g] = Refreshed(txn[p].seen, joined'[g])
      /\ \A h \in Groups \ {g} : joined'[h] = joined[h] /\ cohort'[h] = cohort[h]
  BY <1>0 DEF TypeOK
<1>2. \A q \in Procs \ {p}, h \in Groups : Changes(txn[q], h) =>
          Alive(h)' /\ (h \notin mixed => joined'[h] = joined[h])
  BY <1>0, <1>1 DEF SeenAlone, Alive
<1>3. SeenAlone'
  <2>1. Idle.op \notin {"join", "leave_commit"}
    BY DEF Idle
  <2> HIDE DEF Idle
  <2> QED
    BY <1>0, <1>2, <2>1, OthersSeen
<1>4. g \notin mixed => txn[p].seen = DetermineCohort(joined'[g])
  BY <1>0, <1>1 DEF SeenAlone
<1>5. Owed(g)' = DetermineCohort(joined'[g])
  BY OwedIsDetermined DEF TypeOK, Owed, Members
<1>6. CohortFollowsEarliest'
  <2> SUFFICES ASSUME NEW h \in Groups, cohort'[h] # Owed(h)'
               PROVE  Owed(h)' = NoCohort /\ h \in mixed'
    BY DEF CohortFollowsEarliest
  <2>1. CASE h = g
    BY <1>1, <1>4, <1>5, <2>1 DEF Refreshed
  <2>2. CASE h # g
    <3>1. Owed(h)' = Owed(h) /\ cohort'[h] = cohort[h]
      BY <1>1, <2>2 DEF Owed, Members
    <3> QED
      BY <3>1 DEF CohortInv, CohortFollowsEarliest
  <2> QED
    BY <2>1, <2>2
<1> QED
  BY <1>3, <1>6

LEMMA CohortOfAccept ==
    ASSUME CohortInv, TypeOK', NEW p \in Procs, AcceptCommit(p)
    PROVE  SeenAlone' /\ CohortFollowsEarliest'
<1> DEFINE g == txn[p].i.g
           s == txn[p].i.s
<1>0. TypeOK
  BY DEF CohortInv, GroupInv
<1>1. g \in Groups /\ s \in Students
  BY <1>0, TxnShape DEF AcceptCommit, JoinTxn, Invites
<1>2. Changes(txn[p], g) /\ After(txn[p], joined[g]) = [joined[g] EXCEPT ![s] = txn[p].at]
  BY DEF AcceptCommit, Changes, After
<1>3. joined' = [joined EXCEPT ![g] = [joined[g] EXCEPT ![s] = txn[p].at]]
  BY <1>0, <1>1 DEF AcceptCommit, TypeOK
<1>4. /\ cohort' = [cohort EXCEPT ![g] = Refreshed(txn[p].seen, joined'[g])]
      /\ txn' = [txn EXCEPT ![p] = Idle] /\ UNCHANGED <<groups, mixed>>
  BY DEF AcceptCommit, Finish, Continue
<1> HIDE DEF g, s
<1> QED
  BY <1>1, <1>2, <1>3, <1>4, CohortCommit

LEMMA CohortOfLeave ==
    ASSUME CohortInv, TypeOK', NEW p \in Procs, LeaveCommit(p)
    PROVE  SeenAlone' /\ CohortFollowsEarliest'
<1> DEFINE g == txn[p].g
           s == txn[p].s
<1>0. TypeOK
  BY DEF CohortInv, GroupInv
<1>1. g \in Groups /\ s \in Students
  BY <1>0, TxnShape DEF LeaveCommit, LeftTxn
<1>2. Changes(txn[p], g) /\ After(txn[p], joined[g]) = [joined[g] EXCEPT ![s] = 0]
  BY DEF LeaveCommit, Changes, After
<1>3. joined' = [joined EXCEPT ![g] = [joined[g] EXCEPT ![s] = 0]]
  BY <1>0, <1>1 DEF LeaveCommit, TypeOK
<1>4. /\ cohort' = [cohort EXCEPT ![g] = Refreshed(txn[p].seen, joined'[g])]
      /\ txn' = [txn EXCEPT ![p] = Idle] /\ UNCHANGED <<groups, mixed>>
  BY DEF LeaveCommit, Finish, Continue
<1> HIDE DEF g, s
<1> QED
  BY <1>1, <1>2, <1>3, <1>4, CohortCommit

(* Nobody joins or leaves a group that is being created or deleted.        *)
LEMMA CohortOfCreate ==
    ASSUME CohortInv, TypeOK', NEW p \in Procs, CreateCommit(p)
    PROVE  SeenAlone' /\ CohortFollowsEarliest'
<1> PICK g, s : g = txn[p].g /\ s = txn[p].s
  OBVIOUS
<1>0. TypeOK /\ SeenAlone
  BY DEF CohortInv, GroupInv
<1>1. /\ g \in Groups /\ s \in Students /\ txn[p].at \in Nat \ {0} /\ groups[g] = "unborn"
  BY <1>0, TxnShape DEF CreateCommit, CreatedTxn, Founders, CohortInv, GroupInv, LocksHold, Writes
<1>2. /\ groups' = [groups EXCEPT ![g] = "alive"]
      /\ joined' = [joined EXCEPT ![g][s] = txn[p].at]
      /\ cohort' = [cohort EXCEPT ![g] = CohortOf[s]]
      /\ txn' = [txn EXCEPT ![p] = Idle] /\ UNCHANGED mixed
  BY DEF CreateCommit, Finish, Continue
<1>3. \A h \in Groups \ {g} : joined'[h] = joined[h] /\ cohort'[h] = cohort[h]
                                 /\ groups'[h] = groups[h]
  BY <1>0, <1>1, <1>2 DEF TypeOK
<1>4. SeenAlone'
  <2>1. ~Alive(g)
    BY <1>1 DEF Alive
  <2>2. \A q \in Procs \ {p}, h \in Groups : Changes(txn[q], h) =>
            Alive(h)' /\ (h \notin mixed => joined'[h] = joined[h])
    BY <1>0, <1>3, <2>1 DEF SeenAlone, Alive
  <2>3. Idle.op \notin {"join", "leave_commit"}
    BY DEF Idle
  <2> HIDE DEF Idle
  <2> QED
    BY <1>0, <1>2, <2>2, <2>3, OthersSeen
<1>5. cohort'[g] = CohortOf[s] /\ joined'[g] \in [Students -> Nat]
  BY <1>0, <1>1, <1>2 DEF TypeOK
<1>6. joined'[g][s] = txn[p].at /\ \A e \in Students \ {s} : joined'[g][e] = 0
  <2>1. joined[g] \in [Students -> Nat] /\ joined'[g] = [joined[g] EXCEPT ![s] = txn[p].at]
    BY <1>0, <1>1, <1>2 DEF TypeOK
  <2>2. \A e \in Students : ~(joined[g][e] > 0)
    BY <1>1 DEF CohortInv, GroupInv, NothingOutlivesGroup, Alive
  <2> QED
    BY <1>1, <2>1, <2>2
<1>7. Owed(g)' = CohortOf[s]
  <2>1. joined'[g][s] > 0
    BY <1>1, <1>6
  <2>2. Earliest(joined'[g]) \in Students /\ joined'[g][Earliest(joined'[g])] > 0
    BY <1>1, <1>5, <2>1, EarliestMember
  <2>3. Earliest(joined'[g]) = s
    BY <1>6, <2>2
  <2> QED
    BY <1>1, <2>1, <2>3 DEF Owed, Members
<1>8. CohortFollowsEarliest'
  <2> SUFFICES ASSUME NEW h \in Groups, cohort'[h] # Owed(h)'
               PROVE  Owed(h)' = NoCohort /\ h \in mixed'
    BY DEF CohortFollowsEarliest
  <2>1. h # g
    BY <1>5, <1>7
  <2>2. Owed(h)' = Owed(h) /\ cohort'[h] = cohort[h]
    BY <1>3, <2>1 DEF Owed, Members
  <2> QED
    BY <1>2, <2>2 DEF CohortInv, CohortFollowsEarliest
<1> QED
  BY <1>4, <1>8

LEMMA CohortOfDelete ==
    ASSUME CohortInv, NEW p \in Procs, DeleteCommit(p)
    PROVE  SeenAlone' /\ CohortFollowsEarliest'
<1> PICK g : g = txn[p].g
  OBVIOUS
<1>0. TypeOK /\ SeenAlone
  BY DEF CohortInv, GroupInv
<1>1. g \in Groups
  BY <1>0, TxnShape DEF DeleteCommit, DeleteTxn
<1>2. /\ groups' = [groups EXCEPT ![g] = "deleted"]
      /\ joined' = [joined EXCEPT ![g] = [s \in Students |-> 0]]
      /\ cohort' = [cohort EXCEPT ![g] = NoCohort]
      /\ txn' = [txn EXCEPT ![p] = Idle] /\ UNCHANGED mixed
  BY DEF DeleteCommit, Finish, Continue
<1>3. \A h \in Groups \ {g} : joined'[h] = joined[h] /\ cohort'[h] = cohort[h]
                                 /\ groups'[h] = groups[h]
  BY <1>0, <1>1, <1>2 DEF TypeOK
<1>4. \A q \in Procs : ~Changes(txn[q], g)
  <2>1. \A q \in Procs : ~(txn[q].op = "join" /\ txn[q].i.g = g)
    BY <1>1 DEF DeleteCommit, CohortInv, GroupInv, LocksHold, Writes
  <2>2. \A q \in Procs : txn[q].op = "leave_commit" => txn[q].s \in Students
    BY <1>0, TxnShape DEF LeftTxn
  <2>3. \A q \in Procs : ~(txn[q].op = "leave_commit" /\ txn[q].g = g)
    BY <2>2 DEF DeleteCommit, Leaving
  <2> QED
    BY <2>1, <2>3 DEF Changes
<1>5. SeenAlone'
  <2>1. \A q \in Procs \ {p}, h \in Groups : Changes(txn[q], h) =>
            Alive(h)' /\ (h \notin mixed => joined'[h] = joined[h])
    BY <1>0, <1>3, <1>4 DEF SeenAlone, Alive
  <2>2. Idle.op \notin {"join", "leave_commit"}
    BY DEF Idle
  <2> HIDE DEF Idle
  <2> QED
    BY <1>0, <1>2, <2>1, <2>2, OthersSeen
<1>6. cohort'[g] = NoCohort /\ Owed(g)' = NoCohort
  <2>1. joined'[g] = [s \in Students |-> 0] /\ cohort'[g] = NoCohort
    BY <1>0, <1>1, <1>2 DEF TypeOK
  <2> QED
    BY <2>1 DEF Owed, Members
<1>7. CohortFollowsEarliest'
  <2> SUFFICES ASSUME NEW h \in Groups, cohort'[h] # Owed(h)'
               PROVE  Owed(h)' = NoCohort /\ h \in mixed'
    BY DEF CohortFollowsEarliest
  <2>1. h # g
    BY <1>6
  <2>2. Owed(h)' = Owed(h) /\ cohort'[h] = cohort[h]
    BY <1>3, <2>1 DEF Owed, Members
  <2> QED
    BY <1>2, <2>2 DEF CohortInv, CohortFollowsEarliest
<1> QED
  BY <1>5, <1>7

LEMMA CohortOfInsert ==
    ASSUME CohortInv, NEW p \in Procs, AcceptInsert(p)
    PROVE  SeenAlone' /\ CohortFollowsEarliest'
<1> DEFINE g == txn[p].i.g
           m == [joined[g] EXCEPT ![txn[p].i.s] = clock + 1]
           t == [op |-> "join", i |-> txn[p].i, at |-> clock + 1, seen |-> DetermineCohort(m)]
<1>1. g \in Groups
  BY TxnShape DEF AcceptInsert, CohortInv, GroupInv, AnswerTxn, Invites
<1>2. Change(p, g, t) /\ Alive(g) /\ UNCHANGED <<groups, joined, cohort>>
  BY DEF AcceptInsert, rows
<1>3. (\A h \in Groups : Changes(t, h) <=> h = g) /\ After(t, joined[g]) = m
      /\ t.seen = DetermineCohort(m)
  BY DEF Changes, After
<1> HIDE DEF g, m, t
<1> QED
  BY <1>1, <1>2, <1>3, CohortChange

LEMMA CohortOfRemove ==
    ASSUME CohortInv, NEW p \in Procs, LeaveDelete(p)
    PROVE  SeenAlone' /\ CohortFollowsEarliest'
<1> DEFINE g == txn[p].g
           m == [joined[g] EXCEPT ![txn[p].s] = 0]
           t == [op |-> "leave_commit", g |-> g, s |-> txn[p].s, seen |-> DetermineCohort(m)]
<1>1. g \in Groups /\ txn[p].s \in Students
  BY TxnShape DEF LeaveDelete, CohortInv, GroupInv, LeaveTxn
<1>2. UNCHANGED <<groups, joined, cohort>>
  BY DEF LeaveDelete, rows
<1>3. CASE txn[p].s \in Members(g)
  <2>1. Change(p, g, t)
    BY <1>3 DEF LeaveDelete
  <2>2. Alive(g)
    BY <1>1, <1>3 DEF Members, CohortInv, GroupInv, NothingOutlivesGroup
  <2>3. (\A h \in Groups : Changes(t, h) <=> h = g) /\ After(t, joined[g]) = m
        /\ t.seen = DetermineCohort(m)
    BY DEF Changes, After
  <2> HIDE DEF g, m, t
  <2> QED
    BY <1>1, <1>2, <2>1, <2>2, <2>3, CohortChange
<1>4. CASE txn[p].s \notin Members(g)
  <2>1. txn' = [txn EXCEPT ![p] = Idle] /\ UNCHANGED mixed
    BY <1>4 DEF LeaveDelete, Finish, Continue
  <2>2. Idle.op \notin {"join", "leave_commit"}
    BY DEF Idle
  <2> HIDE DEF Idle
  <2> QED
    BY <1>2, <2>1, <2>2, CohortQuiet
<1> QED
  BY <1>3, <1>4

LEMMA CohortOfCall ==
    ASSUME CohortInv, NEW p \in Procs, Call(p)
    PROVE  SeenAlone' /\ CohortFollowsEarliest'
<1> DEFINE Kept == SeenAlone' /\ CohortFollowsEarliest'
<1>1. ASSUME NEW op, NEW t, Start(p, op, t), t.op \notin {"join", "leave_commit"} PROVE Kept
  BY <1>1, CohortQuiet DEF Start, rows
<1> HIDE DEF Kept
<1>2. ASSUME NEW s \in Students, CreateLoad(p, s) PROVE Kept
  BY <1>1, <1>2 DEF CreateLoad
<1>3. ASSUME NEW g \in Groups, NEW s \in Students,
             InviteLoad(p, g, s) \/ LeaveLoad(p, g, s) \/ DeleteLoad(p, g, s)
      PROVE  Kept
  BY <1>1, <1>3 DEF InviteLoad, LeaveLoad, DeleteLoad
<1>4. ASSUME NEW i \in Invites, AcceptLoad(p, i) PROVE Kept
  BY <1>1, <1>4 DEF AcceptLoad
<1>5. ASSUME NEW i \in Invites, RejectLoad(p, i) \/ CancelLoad(p, i) PROVE Kept
  BY <1>1, <1>5 DEF RejectLoad, CancelLoad
<1> QED
  BY <1>2, <1>3, <1>4, <1>5 DEF Call, Kept

LEMMA CohortKept == ASSUME CohortInv, [Next]_vars PROVE CohortInv'
<1>0. GroupInv' /\ TypeOK /\ TypeOK' /\ CohortFollowsEarliest
  BY InvKept DEF CohortInv, GroupInv
<1>1. ASSUME NEW p \in Procs, Call(p) PROVE SeenAlone' /\ CohortFollowsEarliest'
  BY <1>1, CohortOfCall
<1>2. ASSUME NEW p \in Procs,
             \/ \E g \in Groups : CreateFlush(p, g)
             \/ InviteCommit(p) \/ ExpireCommit(p) \/ RejectCommit(p) \/ CancelCommit(p)
             \/ DeleteLock(p) \/ Abort(p)
      PROVE  SeenAlone' /\ CohortFollowsEarliest'
  <2>1. UNCHANGED <<groups, joined, cohort, mixed>>
    BY <1>2 DEF CreateFlush, InviteCommit, ExpireCommit, RejectCommit, CancelCommit, DeleteLock,
       Abort, rows, Finish, Continue
  <2>2. \E t : txn' = [txn EXCEPT ![p] = t] /\ t.op \notin {"join", "leave_commit"}
    <3>1. CASE DeleteLock(p)
      <4>1. [txn[p] EXCEPT !.op = "delete_commit"].op = "delete_commit"
        BY <1>0, <3>1, TxnShape DEF DeleteLock, DeleteTxn
      <4> QED
        BY <3>1, <4>1 DEF DeleteLock, Finish, Continue, Idle
    <3>2. CASE \E g \in Groups : CreateFlush(p, g)
      BY <3>2 DEF CreateFlush, Continue
    <3>3. CASE InviteCommit(p) \/ ExpireCommit(p) \/ RejectCommit(p) \/ CancelCommit(p) \/ Abort(p)
      <4>1. txn' = [txn EXCEPT ![p] = Idle]
        BY <3>3 DEF InviteCommit, ExpireCommit, RejectCommit, CancelCommit, Abort, Finish, Continue
      <4>2. Idle.op \notin {"join", "leave_commit"}
        BY DEF Idle
      <4> HIDE DEF Idle
      <4> QED
        BY <4>1, <4>2
    <3> QED
      BY <1>2, <3>1, <3>2, <3>3
  <2> QED
    BY <2>1, <2>2, CohortQuiet
<1>3. ASSUME NEW p \in Procs, Proceed(p) PROVE SeenAlone' /\ CohortFollowsEarliest'
  BY <1>0, <1>2, <1>3, CohortOfAccept, CohortOfLeave, CohortOfCreate, CohortOfDelete,
     CohortOfInsert, CohortOfRemove DEF Proceed
<1>4. CASE (\E i \in Invites : Lapse(i)) \/ UNCHANGED vars
  <2>1. UNCHANGED <<groups, joined, cohort, txn, mixed>>
    BY <1>4 DEF Lapse, vars
  <2>2. SeenAlone'
    BY <2>1 DEF CohortInv, SeenAlone, Alive
  <2> QED
    BY <2>1, <2>2, CohortOfRows, <1>0 DEF CohortInv
<1>5. CASE Crash
  <2>1. UNCHANGED <<joined, cohort, mixed>> /\ \A q \in Procs : txn'[q] = Idle
    BY <1>5 DEF Crash, rows
  <2>2. SeenAlone'
    BY <2>1 DEF SeenAlone, Changes, Idle
  <2> QED
    BY <2>1, <2>2, CohortOfRows, <1>0 DEF CohortInv
<1> QED
  BY <1>0, <1>1, <1>3, <1>4, <1>5 DEF CohortInv, Next

(* However many students join and leave at once, the cohort of a group is  *)
(* that of its earliest member; a group whose earliest member has no       *)
(* intake, or that is empty, has none, unless two handlers were changing   *)
(* its members at the same moment.                                         *)
THEOREM CohortIsEarliest == Spec => []CohortFollowsEarliest
<1>1. CohortInv => CohortFollowsEarliest
  BY DEF CohortInv
<1> QED
  BY <1>1, CohortStarts, CohortKept, PTL DEF Spec

-----------------------------------------------------------------------------
(* Who joins.                                                              *)

LEMMA OnlyInvitedJoin ==
    ASSUME GroupInv, Next, NEW g \in Groups, NEW s \in Students,
           Alive(g), joined[g][s] = 0, joined'[g][s] > 0
    PROVE  \E i \in Invites : /\ i.g = g /\ i.s = s
                               /\ InviteExists(i) /\ invite'[i] = "accepted"
<1>0. TypeOK /\ joined \in [Groups -> [Students -> Nat]]
  BY DEF GroupInv, TypeOK
<1>1. ~UNCHANGED joined
  OBVIOUS
<1>2. PICK p \in Procs : CreateCommit(p) \/ AcceptCommit(p) \/ LeaveCommit(p) \/ DeleteCommit(p)
  <2>1. ASSUME NEW p \in Procs, Call(p) PROVE UNCHANGED joined
    BY <2>1 DEF Call, CreateLoad, InviteLoad, LeaveLoad, DeleteLoad, AcceptLoad, RejectLoad,
       CancelLoad, Start, rows
  <2>2. ASSUME NEW p \in Procs, Proceed(p)
        PROVE  UNCHANGED joined \/ CreateCommit(p) \/ AcceptCommit(p) \/ LeaveCommit(p)
               \/ DeleteCommit(p)
    BY <2>2 DEF Proceed, CreateFlush, InviteCommit, AcceptInsert, ExpireCommit, RejectCommit,
       CancelCommit, LeaveDelete, DeleteLock, Abort, rows
  <2>3. ASSUME NEW i \in Invites, Lapse(i) PROVE UNCHANGED joined
    BY <2>3 DEF Lapse
  <2>4. Crash => UNCHANGED joined
    BY DEF Crash, rows
  <2> QED
    BY <1>1, <2>1, <2>2, <2>3, <2>4 DEF Next
<1>3. CASE CreateCommit(p)
  <2>1. txn[p].g \in Groups /\ groups[txn[p].g] = "unborn"
    BY <1>0, <1>3, TxnShape DEF CreateCommit, CreatedTxn, GroupInv, LocksHold, Writes
  <2>2. joined'[g] = joined[g]
    BY <1>0, <1>3, <2>1 DEF CreateCommit, Alive
  <2> QED
    BY <2>2
<1>4. CASE AcceptCommit(p)
  <2>1. /\ txn[p].i \in Invites /\ txn[p].i.g \in Groups /\ txn[p].i.s \in Students
    BY <1>0, <1>4, TxnShape DEF AcceptCommit, JoinTxn, Invites
  <2>2. txn[p].i.g = g /\ txn[p].i.s = s
    BY <1>0, <1>4, <2>1 DEF AcceptCommit
  <2>3. invite'[txn[p].i] = "accepted" /\ InviteExists(txn[p].i)
    BY <1>0, <1>4, <2>1 DEF AcceptCommit, InviteFound, TypeOK
  <2> QED
    BY <2>1, <2>2, <2>3
<1>5. CASE LeaveCommit(p)
  <2>1. joined'[g][s] = 0 \/ joined'[g][s] = joined[g][s]
    BY <1>0, <1>5 DEF LeaveCommit
  <2> QED
    BY <2>1
<1>6. CASE DeleteCommit(p)
  <2>1. joined'[g][s] = 0 \/ joined'[g][s] = joined[g][s]
    BY <1>0, <1>6 DEF DeleteCommit
  <2> QED
    BY <2>1
<1> QED
  BY <1>2, <1>3, <1>4, <1>5, <1>6

(* Nobody becomes a member of an existing group but through an invite that *)
(* exists at that moment, and joining marks it accepted: cancelling it     *)
(* while accept_invite runs keeps the invitee out.                         *)
THEOREM OnlyInvitedStudentsJoin == Spec => JoinsByInvite
<1> DEFINE Joins == \A g \in Groups, s \in Students :
                        Alive(g) /\ joined[g][s] = 0 /\ joined'[g][s] > 0
                        => \E i \in Invites : /\ i.g = g /\ i.s = s
                                               /\ InviteExists(i) /\ invite'[i] = "accepted"
<1>1. ASSUME GroupInv, [Next]_vars PROVE [Joins]_vars
  BY <1>1, OnlyInvitedJoin
<1>2. Spec => []GroupInv
  BY InvStarts, InvKept, PTL DEF Spec
<1>3. [][Joins]_vars => JoinsByInvite
  BY PTL DEF JoinsByInvite
<1> QED
  BY <1>1, <1>2, <1>3, PTL DEF Spec
-----------------------------------------------------------------------------
(* The handlers implement the roster.  Two things must be known of those   *)
(* in flight: no time of joining is used twice, whether its row is         *)
(* committed or not, and nobody else adds or removes the row that a        *)
(* handler is adding or removing.                                          *)

Adds(t) == t.op \in {"create_commit", "join"}

TimesApart ==
    /\ \A g \in Groups, s \in Students : joined[g][s] <= clock
    /\ \A g \in Groups, s, e \in Students :
           s # e /\ joined[g][s] > 0 => joined[g][s] # joined[g][e]
    /\ \A p \in Procs : Adds(txn[p]) =>
           /\ txn[p].at <= clock
           /\ \A g \in Groups, s \in Students : joined[g][s] # txn[p].at
           /\ \A q \in Procs \ {p} : Adds(txn[q]) => txn[q].at # txn[p].at

MembersLocked ==
    \A p, q \in Procs :
        /\ txn[p].op = "join" =>
              /\ joined[txn[p].i.g][txn[p].i.s] = 0
              /\ txn[q].op = "join" /\ txn[q].i.g = txn[p].i.g /\ txn[q].i.s = txn[p].i.s => q = p
        /\ txn[p].op = "leave_commit" =>
              /\ joined[txn[p].g][txn[p].s] > 0
              /\ txn[q].op = "leave_commit" /\ txn[q].g = txn[p].g /\ txn[q].s = txn[p].s => q = p

RosterInv == GroupInv /\ TimesApart /\ MembersLocked

LEMMA RosterStarts == Init => RosterInv
<1> SUFFICES ASSUME Init PROVE RosterInv
  OBVIOUS
<1>1. GroupInv
  BY InvStarts
<1>2. TimesApart /\ MembersLocked
  BY DEF Init, TimesApart, MembersLocked, Adds, Idle
<1> QED
  BY <1>1, <1>2 DEF RosterInv

(* A step of one handler that adds and removes no row.                     *)
LEMMA RowsApart ==
    ASSUME RosterInv, UNCHANGED <<joined, clock>>, NEW p \in Procs, NEW t,
           \A q \in Procs : txn'[q] = IF q = p THEN t ELSE txn[q],
           t.op \notin {"create_commit", "join", "leave_commit"}
    PROVE  TimesApart' /\ MembersLocked'
<1>1. TimesApart'
  BY DEF RosterInv, TimesApart, Adds
<1>2. MembersLocked'
  BY DEF RosterInv, MembersLocked
<1> QED
  BY <1>1, <1>2

(* A handler that has inserted a row has a time that nobody had before.    *)
LEMMA InsertApart ==
    ASSUME RosterInv, UNCHANGED joined, clock' = clock + 1, NEW p \in Procs, NEW t,
           \A q \in Procs : txn'[q] = IF q = p THEN t ELSE txn[q],
           Adds(t), t.at = clock + 1,
           t.op = "join" =>
              /\ joined[t.i.g][t.i.s] = 0
              /\ \A q \in Procs : ~(txn[q].op = "join" /\ txn[q].i.g = t.i.g
                                                        /\ txn[q].i.s = t.i.s)
    PROVE  TimesApart' /\ MembersLocked'
<1>1. clock \in Nat /\ joined \in [Groups -> [Students -> Nat]]
  BY DEF RosterInv, GroupInv, TypeOK
<1>2. \A q \in Procs : Adds(txn[q]) => txn[q].at \in Nat
  BY TxnShape DEF RosterInv, GroupInv, Adds, CreatedTxn, JoinTxn
<1>3. TimesApart'
  BY <1>1, <1>2 DEF RosterInv, TimesApart, Adds
<1>4. MembersLocked'
  BY DEF RosterInv, MembersLocked, Adds
<1> QED
  BY <1>3, <1>4

(* The row of a handler that commits an insert.                            *)
LEMMA AddApart ==
    ASSUME RosterInv, UNCHANGED clock, NEW p \in Procs, Adds(txn[p]),
           NEW g \in Groups, NEW s \in Students,
           \A q \in Procs : txn'[q] = IF q = p THEN Idle ELSE txn[q],
           \A h \in Groups, e \in Students :
               joined'[h][e] = IF h = g /\ e = s THEN txn[p].at ELSE joined[h][e],
           \A q \in Procs \ {p} : ~(txn[q].op = "join" /\ txn[q].i.g = g /\ txn[q].i.s = s)
    PROVE  TimesApart' /\ MembersLocked'
<1>1. txn[p].at \in Nat \ {0} /\ joined \in [Groups -> [Students -> Nat]] /\ clock \in Nat
  BY TxnShape DEF RosterInv, GroupInv, TypeOK, Adds, CreatedTxn, JoinTxn
<1>2. TimesApart'
  BY <1>1 DEF RosterInv, TimesApart, Adds, Idle
<1>3. MembersLocked'
  <2>1. \A q \in Procs : txn[q].op = "join" => txn[q].i.g \in Groups /\ txn[q].i.s \in Students
    BY TxnShape DEF RosterInv, GroupInv, JoinTxn, Invites
  <2>2. \A q \in Procs : txn[q].op = "leave_commit" => txn[q].g \in Groups /\ txn[q].s \in Students
    BY TxnShape DEF RosterInv, GroupInv, LeftTxn
  <2>3. ASSUME NEW q \in Procs, txn'[q].op \in {"join", "leave_commit"}
        PROVE  q # p /\ txn'[q] = txn[q]
    BY <2>3 DEF Idle
  <2>4. ASSUME NEW q \in Procs, txn'[q].op = "join"
        PROVE  joined'[txn'[q].i.g][txn'[q].i.s] = 0
    <3>1. q # p /\ txn'[q] = txn[q]
      BY <2>3, <2>4
    <3> QED
      BY <3>1, <2>1, <2>4 DEF RosterInv, MembersLocked
  <2>5. ASSUME NEW q \in Procs, txn'[q].op = "leave_commit"
        PROVE  joined'[txn'[q].g][txn'[q].s] > 0
    <3>1. q # p /\ txn'[q] = txn[q]
      BY <2>3, <2>5
    <3>2. joined[txn[q].g][txn[q].s] > 0
      BY <3>1, <2>5 DEF RosterInv, MembersLocked
    <3> QED
      BY <3>1, <3>2, <1>1, <2>2, <2>5
  <2>6. ASSUME NEW q \in Procs, NEW r \in Procs
        PROVE  /\ txn'[q].op = "join" /\ txn'[r].op = "join" /\ txn'[r].i.g = txn'[q].i.g
                     /\ txn'[r].i.s = txn'[q].i.s => r = q
               /\ txn'[q].op = "leave_commit" /\ txn'[r].op = "leave_commit"
                     /\ txn'[r].g = txn'[q].g /\ txn'[r].s = txn'[q].s => r = q
    BY <2>3 DEF RosterInv, MembersLocked
  <2> QED
    BY <2>4, <2>5, <2>6 DEF MembersLocked
<1> QED
  BY <1>2, <1>3

(* Rows go: one that a leave had locked, or all of a group nobody leaves.  *)
LEMMA RemoveApart ==
    ASSUME RosterInv, UNCHANGED clock, NEW p \in Procs, NEW gone \in SUBSET (Groups \X Students),
           \A q \in Procs : txn'[q] = IF q = p THEN Idle ELSE txn[q],
           \A h \in Groups, e \in Students :
               joined'[h][e] = IF <<h, e>> \in gone THEN 0 ELSE joined[h][e],
           \A q \in Procs \ {p} :
               txn[q].op = "leave_commit" => <<txn[q].g, txn[q].s>> \notin gone
    PROVE  TimesApart' /\ MembersLocked'
<1>1. joined \in [Groups -> [Students -> Nat]] /\ clock \in Nat
  BY DEF RosterInv, GroupInv, TypeOK
<1>2. \A q \in Procs : Adds(txn[q]) => txn[q].at \in Nat \ {0}
  BY TxnShape DEF RosterInv, GroupInv, Adds, CreatedTxn, JoinTxn
<1>3. TimesApart'
  <2>1. \A h \in Groups, e \in Students : joined'[h][e] \in {0, joined[h][e]}
    OBVIOUS
  <2>2. /\ \A h \in Groups, e \in Students : joined'[h][e] <= clock'
        /\ \A h \in Groups, e, f \in Students :
               e # f /\ joined'[h][e] > 0 => joined'[h][e] # joined'[h][f]
    BY <1>1, <2>1 DEF RosterInv, TimesApart
  <2>3. ASSUME NEW q \in Procs, Adds(txn'[q])
        PROVE  /\ txn'[q].at <= clock'
               /\ \A h \in Groups, e \in Students : joined'[h][e] # txn'[q].at
               /\ \A r \in Procs \ {q} : Adds(txn'[r]) => txn'[r].at # txn'[q].at
    <3>1. \A r \in Procs : Adds(txn'[r]) => txn'[r] = txn[r]
      BY DEF Adds, Idle
    <3>2. txn'[q] = txn[q] /\ Adds(txn[q]) /\ txn[q].at \in Nat \ {0}
      BY <1>2, <2>3, <3>1
    <3> QED
      BY <1>1, <2>1, <3>1, <3>2 DEF RosterInv, TimesApart
  <2> QED
    BY <2>2, <2>3 DEF TimesApart
<1>4. MembersLocked'
  <2>1. \A q \in Procs : txn[q].op = "join" => txn[q].i.g \in Groups /\ txn[q].i.s \in Students
    BY TxnShape DEF RosterInv, GroupInv, JoinTxn, Invites
  <2>2. \A q \in Procs : txn[q].op = "leave_commit" => txn[q].g \in Groups /\ txn[q].s \in Students
    BY TxnShape DEF RosterInv, GroupInv, LeftTxn
  <2>3. ASSUME NEW q \in Procs, txn'[q].op \in {"join", "leave_commit"}
        PROVE  q # p /\ txn'[q] = txn[q]
    BY <2>3 DEF Idle
  <2>4. ASSUME NEW q \in Procs, txn'[q].op = "join"
        PROVE  joined'[txn'[q].i.g][txn'[q].i.s] = 0
    <3>1. q # p /\ txn'[q] = txn[q]
      BY <2>3, <2>4
    <3>2. /\ txn[q].i.g \in Groups /\ txn[q].i.s \in Students
          /\ joined[txn[q].i.g][txn[q].i.s] = 0
      BY <3>1, <2>1, <2>4 DEF RosterInv, MembersLocked
    <3>3. joined'[txn[q].i.g][txn[q].i.s] = 0
      BY <3>2
    <3> QED
      BY <3>1, <3>3
  <2>5. ASSUME NEW q \in Procs, txn'[q].op = "leave_commit"
        PROVE  joined'[txn'[q].g][txn'[q].s] > 0
    <3>1. q # p /\ txn'[q] = txn[q]
      BY <2>3, <2>5
    <3>2. joined[txn[q].g][txn[q].s] > 0
      BY <3>1, <2>5 DEF RosterInv, MembersLocked
    <3>3. <<txn[q].g, txn[q].s>> \notin gone /\ txn[q].g \in Groups /\ txn[q].s \in Students
      BY <3>1, <2>2, <2>5
    <3>4. joined'[txn[q].g][txn[q].s] = joined[txn[q].g][txn[q].s]
      BY <3>3
    <3> QED
      BY <3>1, <3>2, <3>4
  <2>6. ASSUME NEW q \in Procs, NEW r \in Procs
        PROVE  /\ txn'[q].op = "join" /\ txn'[r].op = "join" /\ txn'[r].i.g = txn'[q].i.g
                     /\ txn'[r].i.s = txn'[q].i.s => r = q
               /\ txn'[q].op = "leave_commit" /\ txn'[r].op = "leave_commit"
                     /\ txn'[r].g = txn'[q].g /\ txn'[r].s = txn'[q].s => r = q
    BY <2>3 DEF RosterInv, MembersLocked
  <2> QED
    BY <2>4, <2>5, <2>6 DEF MembersLocked
<1> QED
  BY <1>3, <1>4

LEMMA TurnOf ==
    ASSUME RosterInv, NEW p \in Procs, NEW t, txn' = [txn EXCEPT ![p] = t]
    PROVE  \A q \in Procs : txn'[q] = IF q = p THEN t ELSE txn[q]
BY Turn DEF RosterInv, GroupInv

(* What a handler reads and what it is refused, nobody sees.               *)
LEMMA UnseenStep ==
    ASSUME RosterInv, NEW p \in Procs, NEW t, txn' = [txn EXCEPT ![p] = t],
           UNCHANGED <<groups, joined, cohort, invite, clock, mixed>>,
           t.op \notin {"create_commit", "join", "leave_commit"}
    PROVE  TimesApart' /\ MembersLocked' /\ UNCHANGED Roster!roster
<1>1. \A q \in Procs : txn'[q] = IF q = p THEN t ELSE txn[q]
  BY TurnOf
<1>2. TimesApart' /\ MembersLocked'
  BY <1>1, RowsApart
<1> QED
  BY <1>2 DEF Roster!roster

LEMMA CallUnseen ==
    ASSUME RosterInv, NEW p \in Procs, Call(p)
    PROVE  TimesApart' /\ MembersLocked' /\ UNCHANGED Roster!roster
<1> DEFINE Kept == TimesApart' /\ MembersLocked' /\ UNCHANGED Roster!roster
<1>1. ASSUME NEW op, NEW t, Start(p, op, t),
             t.op \notin {"create_commit", "join", "leave_commit"}
      PROVE  Kept
  BY <1>1, UnseenStep DEF Start, rows
<1> HIDE DEF Kept
<1>2. ASSUME NEW s \in Students, CreateLoad(p, s) PROVE Kept
  BY <1>1, <1>2 DEF CreateLoad
<1>3. ASSUME NEW g \in Groups, NEW s \in Students,
             InviteLoad(p, g, s) \/ LeaveLoad(p, g, s) \/ DeleteLoad(p, g, s)
      PROVE  Kept
  BY <1>1, <1>3 DEF InviteLoad, LeaveLoad, DeleteLoad
<1>4. ASSUME NEW i \in Invites, AcceptLoad(p, i) PROVE Kept
  BY <1>1, <1>4 DEF AcceptLoad
<1>5. ASSUME NEW i \in Invites, RejectLoad(p, i) \/ CancelLoad(p, i) PROVE Kept
  BY <1>1, <1>5 DEF RejectLoad, CancelLoad
<1> QED
  BY <1>2, <1>3, <1>4, <1>5 DEF Call, Kept

(* Of a statement whose row is not committed others see at most that it    *)
(* overlaps with theirs.                                                   *)
LEMMA ChangeSeen ==
    ASSUME UNCHANGED <<groups, joined, cohort, invite>>, NEW p, NEW t, NEW g \in Groups,
           Change(p, g, t)
    PROVE  Roster!Next \/ UNCHANGED Roster!roster
<1>1. CASE mixed' = mixed
  BY <1>1 DEF Roster!roster
<1>2. CASE mixed' = mixed \cup {g}
  BY <1>2 DEF Roster!Next, Roster!Overlap
<1> QED
  BY <1>1, <1>2 DEF Change

LEMMA InsertApplies ==
    ASSUME RosterInv, NEW p \in Procs, AcceptInsert(p) \/ \E g \in Groups : CreateFlush(p, g)
    PROVE  TimesApart' /\ MembersLocked' /\ (Roster!Next \/ UNCHANGED Roster!roster)
<1>0. UNCHANGED rows /\ clock' = clock + 1
  BY DEF AcceptInsert, CreateFlush
<1>1. PICK t : txn' = [txn EXCEPT ![p] = t] /\ Adds(t) /\ t.at = clock + 1
               /\ (t.op = "join" => AcceptInsert(p) /\ t.i = txn[p].i)
  <2>1. CASE AcceptInsert(p)
    <3> DEFINE t == [op |-> "join", i |-> txn[p].i, at |-> clock + 1,
                     seen |-> DetermineCohort([joined[txn[p].i.g] EXCEPT
                                                  ![txn[p].i.s] = clock + 1])]
    <3>1. txn' = [txn EXCEPT ![p] = t]
      BY <2>1 DEF AcceptInsert, Change
    <3>2. Adds(t) /\ t.at = clock + 1 /\ t.i = txn[p].i
      BY DEF Adds
    <3> HIDE DEF t
    <3> QED
      BY <2>1, <3>1, <3>2
  <2>2. ASSUME NEW g \in Groups, CreateFlush(p, g)
        PROVE  \E t : txn' = [txn EXCEPT ![p] = t] /\ Adds(t) /\ t.at = clock + 1
                      /\ t.op # "join"
    <3> DEFINE t == [op |-> "create_commit", s |-> txn[p].s, g |-> g, at |-> clock + 1,
                     fyp |-> NextNumber(CohortOf[txn[p].s])]
    <3>1. txn' = [txn EXCEPT ![p] = t]
      BY <2>2 DEF CreateFlush, Continue
    <3>2. Adds(t) /\ t.at = clock + 1 /\ t.op # "join"
      BY DEF Adds
    <3> HIDE DEF t
    <3> QED
      BY <3>1, <3>2
  <2> QED
    BY <2>1, <2>2
<1>2. ASSUME t.op = "join"
      PROVE  /\ joined[t.i.g][t.i.s] = 0
             /\ \A q \in Procs : ~(txn[q].op = "join" /\ txn[q].i.g = t.i.g
                                                       /\ txn[q].i.s = t.i.s)
  <2>1. AcceptInsert(p) /\ t.i = txn[p].i
    BY <1>1, <1>2
  <2>2. t.i.g \in Groups /\ t.i.s \in Students
    BY <2>1, TxnShape DEF RosterInv, GroupInv, AcceptInsert, AnswerTxn, Invites
  <2>3. joined[t.i.g][t.i.s] = 0
    <3>1. t.i.s \notin Members(t.i.g) /\ joined[t.i.g][t.i.s] \in Nat
      BY <2>1, <2>2 DEF AcceptInsert, RosterInv, GroupInv, TypeOK
    <3> QED
      BY <2>2, <3>1 DEF Members
  <2> QED
    BY <2>1, <2>3 DEF AcceptInsert, Joining
<1>3. \A q \in Procs : txn'[q] = IF q = p THEN t ELSE txn[q]
  BY <1>1, TurnOf
<1>4. Roster!Next \/ UNCHANGED Roster!roster
  <2>1. CASE AcceptInsert(p)
    <3>1. txn[p].i.g \in Groups
      BY <2>1, TxnShape DEF RosterInv, GroupInv, AcceptInsert, AnswerTxn, Invites
    <3> QED
      BY <1>0, <2>1, <3>1, ChangeSeen DEF AcceptInsert, rows
  <2>2. CASE \E g \in Groups : CreateFlush(p, g)
    BY <1>0, <2>2 DEF CreateFlush, Continue, rows, Roster!roster
  <2> QED
    BY <2>1, <2>2
<1> QED
  BY <1>0, <1>1, <1>2, <1>3, <1>4, InsertApart DEF rows

LEMMA RemoveApplies ==
    ASSUME RosterInv, NEW p \in Procs, LeaveDelete(p)
    PROVE  TimesApart' /\ MembersLocked' /\ (Roster!Next \/ UNCHANGED Roster!roster)
<1>0. UNCHANGED <<groups, joined, cohort, invite, clock>>
  BY DEF LeaveDelete, rows
<1>1. CASE txn[p].s \notin Members(txn[p].g)
  <2>1. txn' = [txn EXCEPT ![p] = Idle] /\ UNCHANGED mixed
    BY <1>1 DEF LeaveDelete, Finish, Continue
  <2> QED
    BY <1>0, <2>1, UnseenStep DEF Idle
<1>2. ASSUME NEW t, Change(p, txn[p].g, t), txn[p].s \in Members(txn[p].g),
             t.op = "leave_commit", t.g = txn[p].g, t.s = txn[p].s
      PROVE  TimesApart' /\ MembersLocked' /\ (Roster!Next \/ UNCHANGED Roster!roster)
  <2>1. \A q \in Procs : txn'[q] = IF q = p THEN t ELSE txn[q]
    BY <1>2, TurnOf DEF Change
  <2>2. joined[t.g][t.s] > 0
    BY <1>2 DEF Members
  <2>3. \A q \in Procs : ~(txn[q].op = "leave_commit" /\ txn[q].g = t.g /\ txn[q].s = t.s)
    BY <1>2 DEF LeaveDelete, Leaving
  <2>4. TimesApart'
    BY <1>0, <1>2, <2>1 DEF RosterInv, TimesApart, Adds
  <2>5. MembersLocked'
    BY <1>0, <1>2, <2>1, <2>2, <2>3 DEF RosterInv, MembersLocked
  <2>6. txn[p].g \in Groups
    BY TxnShape DEF LeaveDelete, RosterInv, GroupInv, LeaveTxn
  <2> QED
    BY <1>0, <1>2, <2>4, <2>5, <2>6, ChangeSeen
<1> QED
  BY <1>1, <1>2 DEF LeaveDelete

-----------------------------------------------------------------------------
(* The steps others see.                                                   *)

(* With no two members of one time, the cohort the trigger computes is     *)
(* that of the member who joined before all others.                        *)
LEMMA CohortSuits ==
    ASSUME NEW m \in [Students -> Nat], NEW seen \in Codes, NEW g,
           g \in mixed \/ seen = DetermineCohort(m),
           \A s, e \in Students : s # e /\ m[s] > 0 => m[s] # m[e]
    PROVE  Refreshed(seen, m) \in Roster!Codes /\ Roster!Suits(g, Refreshed(seen, m), m)
<1>1. Refreshed(seen, m) \in Roster!Codes
  BY CohortOfMembers DEF Refreshed, Codes, Cohorts, Roster!Codes
<1>2. ASSUME NEW s \in Students, m[s] > 0
      PROVE  /\ Earliest(m) \in Students /\ Roster!First(m, Earliest(m))
             /\ DetermineCohort(m) = CohortOf[Earliest(m)]
             /\ Roster!First(m, s) => s = Earliest(m)
  <2>1. /\ Earliest(m) \in Students /\ m[Earliest(m)] > 0
        /\ \A e \in Students : m[e] > 0 => m[Earliest(m)] <= m[e]
    BY <1>2, EarliestMember
  <2>2. Roster!First(m, Earliest(m))
    BY <2>1 DEF Roster!First
  <2>3. Roster!First(m, s) => s = Earliest(m)
    BY <2>1 DEF Roster!First
  <2> QED
    BY <1>2, <2>1, <2>2, <2>3, CohortOfMembers
<1>3. CASE DetermineCohort(m) # NoCohort
  <2>1. PICK s \in Students : m[s] > 0
    BY <1>3 DEF DetermineCohort
  <2> QED
    BY <1>1, <1>2, <1>3, <2>1 DEF Refreshed, Roster!Suits
<1>4. CASE DetermineCohort(m) = NoCohort
  <2>1. \A f \in Students : Roster!First(m, f) => CohortOf[f] = NoCohort
    BY <1>2, <1>4 DEF Roster!First
  <2> QED
    BY <1>1, <1>4, <2>1 DEF Refreshed, Roster!Suits
<1> QED
  BY <1>3, <1>4

LEMMA ExistsAlike ==
    ASSUME TypeOK
    PROVE  \A i \in Invites : InviteExists(i) <=> Roster!Exists(i)
BY DEF TypeOK, States, InviteExists, Roster!Exists

LEMMA CreateIsFound ==
    ASSUME RosterInv, GroupInv', NEW p \in Procs, CreateCommit(p)
    PROVE  TimesApart' /\ MembersLocked' /\ Roster!Next
<1> DEFINE g == txn[p].g
           s == txn[p].s
           at == txn[p].at
<1>0. TypeOK /\ TimesApart /\ MembersLocked
  BY DEF RosterInv, GroupInv
<1>1. /\ g \in Groups /\ s \in Students /\ CohortOf[s] # NoCohort
      /\ at \in Nat \ {0} /\ groups[g] = "unborn"
  BY <1>0, TxnShape DEF CreateCommit, CreatedTxn, Founders, RosterInv, GroupInv, LocksHold, Writes
<1>2. \A q \in Procs : txn'[q] = IF q = p THEN Idle ELSE txn[q]
  BY TurnOf DEF CreateCommit, Finish, Continue
<1>3. \A h \in Groups, e \in Students :
          joined'[h][e] = IF h = g /\ e = s THEN at ELSE joined[h][e]
  BY <1>0, <1>1 DEF CreateCommit, TypeOK
<1>4. \A q \in Procs : ~(txn[q].op = "join" /\ txn[q].i.g = g)
  BY <1>1 DEF RosterInv, GroupInv, LocksHold, Alive
<1>5. TimesApart' /\ MembersLocked'
  <2>1. UNCHANGED clock /\ Adds(txn[p])
    BY DEF CreateCommit, Adds
  <2> HIDE DEF g, s
  <2> QED
    BY <1>1, <1>2, <1>3, <1>4, <2>1, AddApart
<1>6. \A e \in Students : joined[g][e] = 0
  <2>1. \A e \in Students : joined[g][e] \in Nat /\ ~(joined[g][e] > 0)
    BY <1>0, <1>1 DEF TypeOK, RosterInv, GroupInv, NothingOutlivesGroup, Alive
  <2> HIDE DEF g
  <2> QED
    BY <2>1
<1> DEFINE m == [e \in Students |-> IF e = s THEN joined'[g][s] ELSE 0]
<1>7. joined'[g][s] > 0 /\ joined' = [joined EXCEPT ![g] = m]
  <2>1. joined'[g][s] = at
    BY <1>1, <1>3
  <2>2. joined[g] \in [Students -> Nat]
    BY <1>0, <1>1 DEF TypeOK
  <2>3. [joined[g] EXCEPT ![s] = at] = m
    BY <1>1, <1>6, <2>1, <2>2
  <2>4. joined' = [joined EXCEPT ![g] = [joined[g] EXCEPT ![s] = at]]
    BY <1>0, <1>1 DEF CreateCommit, TypeOK
  <2>5. joined'[g][s] > 0
    BY <1>1, <2>1
  <2>6. joined' = [joined EXCEPT ![g] = m]
    BY ONLY <2>3, <2>4
  <2> QED
    BY ONLY <2>5, <2>6
<1>8. CohortOf[s] \in Roster!Codes /\ Roster!Suits(g, CohortOf[s], m)
  <2>1. Roster!First(m, s)
    BY <1>1, <1>7 DEF Roster!First
  <2> QED
    BY <1>1, <2>1 DEF Roster!Codes, Roster!Suits
<1>9. cohort' = [cohort EXCEPT ![g] = CohortOf[s]] /\ UNCHANGED mixed
  BY DEF CreateCommit, Finish, Continue
<1>10. Roster!Enrol(g, m)
  <2> HIDE DEF m, g, s
  <2> QED
    BY <1>7, <1>8, <1>9 DEF Roster!Enrol
<1>11. Roster!Found(g, s)
  BY <1>1, <1>7, <1>10 DEF Roster!Found, CreateCommit
<1> QED
  BY <1>1, <1>5, <1>11 DEF Roster!Next

(* A member row is added or removed, and the trigger follows.              *)
LEMMA MemberEnrols ==
    ASSUME RosterInv, GroupInv', TimesApart', NEW g \in Groups, NEW s \in Students, NEW n \in Nat,
           NEW seen \in Codes, g \in mixed \/ seen = DetermineCohort([joined[g] EXCEPT ![s] = n]),
           joined' = [joined EXCEPT ![g][s] = n], UNCHANGED mixed,
           cohort' = [cohort EXCEPT ![g] = Refreshed(seen, joined'[g])]
    PROVE  joined'[g][s] = n /\ Roster!Enrol(g, [joined[g] EXCEPT ![s] = n])
<1> DEFINE m == [joined[g] EXCEPT ![s] = n]
<1>1. joined \in [Groups -> [Students -> Nat]] /\ joined' \in [Groups -> [Students -> Nat]]
  BY DEF RosterInv, GroupInv, TypeOK
<1>2. joined' = [joined EXCEPT ![g] = m] /\ joined'[g] = m /\ joined'[g][s] = n
  BY <1>1
<1>3. \A f, e \in Students : f # e /\ m[f] > 0 => m[f] # m[e]
  BY <1>2 DEF TimesApart
<1>4. Refreshed(seen, m) \in Roster!Codes /\ Roster!Suits(g, Refreshed(seen, m), m)
  <2>1. m \in [Students -> Nat]
    BY <1>1, <1>2
  <2>2. g \in mixed \/ seen = DetermineCohort(m)
    OBVIOUS
  <2> HIDE DEF m
  <2> QED
    BY <1>3, <2>1, <2>2, CohortSuits
<1>5. Roster!Enrol(g, m)
  <2> HIDE DEF m
  <2> QED
    BY <1>2, <1>4 DEF Roster!Enrol
<1> QED
  BY <1>2, <1>5

LEMMA AcceptIsJoin ==
    ASSUME RosterInv, CohortInv, GroupInv', NEW p \in Procs, AcceptCommit(p)
    PROVE  TimesApart' /\ MembersLocked' /\ Roster!Next
<1> DEFINE i == txn[p].i
           at == txn[p].at
<1>0. TypeOK /\ TimesApart /\ MembersLocked
  BY DEF RosterInv, GroupInv
<1>1. /\ i \in Invites /\ i.g \in Groups /\ i.s \in Students
      /\ at \in Nat \ {0} /\ txn[p].seen \in Codes
  BY <1>0, TxnShape DEF AcceptCommit, JoinTxn, Invites
<1>2. \A q \in Procs : txn'[q] = IF q = p THEN Idle ELSE txn[q]
  BY TurnOf DEF AcceptCommit, Finish, Continue
<1>3. \A h \in Groups, e \in Students :
          joined'[h][e] = IF h = i.g /\ e = i.s THEN at ELSE joined[h][e]
  BY <1>0, <1>1 DEF AcceptCommit, TypeOK
<1>4. /\ groups[i.g] = "alive" /\ joined[i.g][i.s] = 0
      /\ \A q \in Procs \ {p} :
             ~(txn[q].op = "join" /\ txn[q].i.g = i.g /\ txn[q].i.s = i.s)
  BY <1>0, <1>1 DEF AcceptCommit, MembersLocked, RosterInv, GroupInv, LocksHold, Alive
<1>5. TimesApart' /\ MembersLocked'
  <2>1. UNCHANGED clock /\ Adds(txn[p])
    BY DEF AcceptCommit, Adds
  <2> HIDE DEF i
  <2> QED
    BY <1>1, <1>2, <1>3, <1>4, <2>1, AddApart
<1>6. joined'[i.g][i.s] = at /\ Roster!Enrol(i.g, [joined[i.g] EXCEPT ![i.s] = at])
  <2>1. /\ joined' = [joined EXCEPT ![i.g][i.s] = at]
        /\ cohort' = [cohort EXCEPT ![i.g] = Refreshed(txn[p].seen, joined'[i.g])]
        /\ UNCHANGED mixed
    BY DEF AcceptCommit, Finish, Continue
  <2>2. at \in Nat
    BY <1>1
  <2>3. i.g \in mixed \/ txn[p].seen = DetermineCohort([joined[i.g] EXCEPT ![i.s] = at])
    BY <1>1 DEF AcceptCommit, CohortInv, SeenAlone, Changes, After
  <2> HIDE DEF i, at
  <2> QED
    BY <1>1, <1>5, <2>1, <2>2, <2>3, MemberEnrols
<1>7. \A e \in Students : joined[i.g][e] # at
  BY <1>0, <1>1 DEF AcceptCommit, TimesApart, Adds
<1>8. Roster!Exists(i)
  BY <1>0, <1>1, ExistsAlike DEF AcceptCommit, InviteFound
<1>9. invite' = [invite EXCEPT ![i] = "accepted"] /\ UNCHANGED groups
  BY DEF AcceptCommit
<1>10. Roster!Join(i)
  <2>1. joined'[i.g][i.s] > 0
    BY <1>1, <1>6
  <2> HIDE DEF i, at
  <2> QED
    BY <1>4, <1>6, <1>7, <1>8, <1>9, <2>1 DEF Roster!Join
<1> QED
  BY <1>1, <1>5, <1>10 DEF Roster!Next

LEMMA LeaveIsLeave ==
    ASSUME RosterInv, CohortInv, GroupInv', NEW p \in Procs, LeaveCommit(p)
    PROVE  TimesApart' /\ MembersLocked' /\ Roster!Next
<1> DEFINE g == txn[p].g
           s == txn[p].s
<1>0. TypeOK /\ TimesApart /\ MembersLocked
  BY DEF RosterInv, GroupInv
<1>1. g \in Groups /\ s \in Students /\ txn[p].seen \in Codes
  BY <1>0, TxnShape DEF LeaveCommit, LeftTxn
<1>2. \A q \in Procs : txn'[q] = IF q = p THEN Idle ELSE txn[q]
  BY TurnOf DEF LeaveCommit, Finish, Continue
<1>3. \A h \in Groups, e \in Students :
          joined'[h][e] = IF <<h, e>> \in {<<g, s>>} THEN 0 ELSE joined[h][e]
  BY <1>0, <1>1 DEF LeaveCommit, TypeOK
<1>4. /\ joined[g][s] > 0
      /\ \A q \in Procs \ {p} :
             txn[q].op = "leave_commit" => <<txn[q].g, txn[q].s>> \notin {<<g, s>>}
  BY <1>0 DEF LeaveCommit, MembersLocked
<1>5. TimesApart' /\ MembersLocked'
  <2>1. UNCHANGED clock /\ {<<g, s>>} \in SUBSET (Groups \X Students)
    BY <1>1 DEF LeaveCommit
  <2> HIDE DEF g, s
  <2> QED
    BY <1>2, <1>3, <1>4, <2>1, RemoveApart
<1>6. Roster!Enrol(g, [joined[g] EXCEPT ![s] = 0])
  <2>1. /\ joined' = [joined EXCEPT ![g][s] = 0]
        /\ cohort' = [cohort EXCEPT ![g] = Refreshed(txn[p].seen, joined'[g])]
        /\ UNCHANGED mixed
    BY DEF LeaveCommit, Finish, Continue
  <2>2. g \in mixed \/ txn[p].seen = DetermineCohort([joined[g] EXCEPT ![s] = 0])
    BY <1>1 DEF LeaveCommit, CohortInv, SeenAlone, Changes, After
  <2> HIDE DEF g, s
  <2> QED
    BY <1>1, <1>5, <2>1, <2>2, MemberEnrols
<1>7. joined'[g][s] = 0 /\ UNCHANGED <<groups, invite>>
  BY <1>1, <1>3 DEF LeaveCommit
<1>8. Roster!Leave(g, s)
  BY <1>4, <1>6, <1>7 DEF Roster!Leave
<1> QED
  BY <1>1, <1>5, <1>8 DEF Roster!Next

LEMMA DeleteIsDelete ==
    ASSUME RosterInv, NEW p \in Procs, DeleteCommit(p)
    PROVE  TimesApart' /\ MembersLocked' /\ Roster!Next
<1> DEFINE g == txn[p].g
<1>0. TypeOK
  BY DEF RosterInv, GroupInv
<1>1. g \in Groups /\ groups[g] = "alive"
  BY <1>0, TxnShape DEF DeleteCommit, DeleteTxn, RosterInv, GroupInv, LocksHold, Writes, Alive
<1>2. \A q \in Procs : txn'[q] = IF q = p THEN Idle ELSE txn[q]
  BY TurnOf DEF DeleteCommit, Finish, Continue
<1>3. \A h \in Groups, e \in Students :
          joined'[h][e] = IF <<h, e>> \in {g} \X Students THEN 0 ELSE joined[h][e]
  BY <1>0, <1>1 DEF DeleteCommit, TypeOK
<1>4. ASSUME NEW q \in Procs, txn[q].op = "leave_commit"
      PROVE  <<txn[q].g, txn[q].s>> \notin {g} \X Students
  BY <1>4 DEF DeleteCommit, Leaving
<1>5. TimesApart' /\ MembersLocked'
  <2>1. UNCHANGED clock /\ {g} \X Students \in SUBSET (Groups \X Students)
    BY <1>1 DEF DeleteCommit
  <2> HIDE DEF g
  <2> QED
    BY <1>2, <1>3, <1>4, <2>1, RemoveApart
<1>6. invite' = [i \in Invites |-> IF i.g = g /\ Roster!Exists(i) THEN "deleted" ELSE invite[i]]
  BY <1>0, ExistsAlike DEF DeleteCommit
<1>7. Roster!Delete(g)
  BY <1>1, <1>6 DEF Roster!Delete, DeleteCommit, Finish, Continue
<1> QED
  BY <1>1, <1>5, <1>7 DEF Roster!Next

(* An invite is sent, answered or withdrawn; withdrawing one that is gone  *)
(* changes nothing.                                                        *)
LEMMA InvitesFollow ==
    ASSUME RosterInv, NEW p \in Procs,
           InviteCommit(p) \/ ExpireCommit(p) \/ RejectCommit(p) \/ CancelCommit(p)
    PROVE  TimesApart' /\ MembersLocked' /\ (Roster!Next \/ UNCHANGED Roster!roster)
<1>0. TypeOK
  BY DEF RosterInv, GroupInv
<1>1. UNCHANGED <<groups, joined, cohort, clock, mixed>> /\ txn' = [txn EXCEPT ![p] = Idle]
  BY DEF InviteCommit, ExpireCommit, RejectCommit, CancelCommit, Finish, Continue
<1>2. TimesApart' /\ MembersLocked'
  <2>1. \A q \in Procs : txn'[q] = IF q = p THEN Idle ELSE txn[q]
    BY <1>1, TurnOf
  <2>2. Idle.op \notin {"create_commit", "join", "leave_commit"}
    BY DEF Idle
  <2> QED
    BY <1>1, <2>1, <2>2, RowsApart
<1>3. CASE InviteCommit(p)
  <2>1. PICK i \in Unborn(txn[p].g, txn[p].s) : invite' = [invite EXCEPT ![i] = "pending"]
    BY <1>3 DEF InviteCommit
  <2>2. i \in Invites /\ invite[i] = "unborn" /\ groups[i.g] = "alive"
    BY <1>3 DEF InviteCommit, Unborn, Alive
  <2>3. Roster!Invite(i)
    BY <1>1, <2>1, <2>2 DEF Roster!Invite
  <2> QED
    BY <1>2, <2>2, <2>3 DEF Roster!Next
<1>4. ASSUME NEW to \in {"expired", "declined", "deleted"}, txn[p].i \in Invites,
             InviteExists(txn[p].i), invite' = [invite EXCEPT ![txn[p].i] = to]
      PROVE  Roster!Next
  <2>1. invite'[txn[p].i] = to
    BY <1>0, <1>4 DEF TypeOK
  <2>2. Roster!Answer(txn[p].i)
    BY <1>0, <1>1, <1>4, <2>1, ExistsAlike DEF Roster!Answer
  <2> QED
    BY <1>4, <2>2 DEF Roster!Next
<1>5. CASE ExpireCommit(p) \/ RejectCommit(p) \/ CancelCommit(p)
  <2>1. txn[p].i \in Invites
    BY <1>0, <1>5, TxnShape DEF ExpireCommit, RejectCommit, CancelCommit, AnswerTxn
  <2>2. CASE ExpireCommit(p) \/ RejectCommit(p)
    BY <1>2, <1>4, <2>1, <2>2 DEF ExpireCommit, RejectCommit
  <2>3. CASE CancelCommit(p) /\ InviteExists(txn[p].i)
    BY <1>2, <1>4, <2>1, <2>3 DEF CancelCommit, AfterCancel
  <2>4. CASE CancelCommit(p) /\ ~InviteExists(txn[p].i)
    <3>1. invite' = invite
      BY <1>0, <2>1, <2>4 DEF CancelCommit, AfterCancel, TypeOK
    <3> QED
      BY <1>1, <1>2, <3>1 DEF Roster!roster
  <2> QED
    BY <1>5, <2>2, <2>3, <2>4
<1> QED
  BY <1>3, <1>5

LEMMA RosterStep ==
    ASSUME RosterInv, CohortInv, [Next]_vars
    PROVE  RosterInv' /\ [Roster!Next]_(Roster!roster)
<1>0. GroupInv'
  BY InvKept DEF RosterInv
<1>1. ASSUME NEW p \in Procs, Proceed(p)
      PROVE  TimesApart' /\ MembersLocked' /\ (Roster!Next \/ UNCHANGED Roster!roster)
  <2>1. CASE DeleteLock(p) \/ Abort(p)
    <3>1. PICK t \in {Idle, [txn[p] EXCEPT !.op = "delete_commit"]} :
              /\ txn' = [txn EXCEPT ![p] = t]
              /\ t = Idle \/ txn[p].op = "delete"
      BY <2>1 DEF DeleteLock, Abort, Continue, Finish
    <3>3. t.op \notin {"create_commit", "join", "leave_commit"}
      BY <3>1, TxnShape DEF RosterInv, GroupInv, DeleteTxn, Idle
    <3>2. UNCHANGED <<groups, joined, cohort, invite, clock, mixed>>
      BY <2>1 DEF DeleteLock, Abort, rows, Finish, Continue
    <3> QED
      BY <3>1, <3>2, <3>3, UnseenStep
  <2> QED
    BY <1>0, <1>1, <2>1, InsertApplies, RemoveApplies, CreateIsFound, AcceptIsJoin,
       LeaveIsLeave, DeleteIsDelete, InvitesFollow DEF Proceed
<1>2. CASE (\E i \in Invites : Lapse(i)) \/ UNCHANGED vars
  <2>1. UNCHANGED <<groups, joined, cohort, invite, clock, txn, mixed>>
    BY <1>2 DEF Lapse, vars
  <2> QED
    BY <1>0, <2>1 DEF RosterInv, TimesApart, MembersLocked, Adds, Roster!roster
<1>3. CASE Crash
  <2>1. UNCHANGED <<groups, joined, cohort, invite, clock, mixed>> /\ \A q \in Procs : txn'[q] = Idle
    BY <1>3 DEF Crash, rows
  <2> QED
    BY <1>0, <2>1 DEF RosterInv, TimesApart, MembersLocked, Adds, Idle, Roster!roster
<1> QED
  BY <1>0, <1>1, <1>2, <1>3, CallUnseen DEF Next, RosterInv

(* Founding, joining, leaving, deleting and inviting take effect in single *)
(* steps of the roster, whatever handlers interleave, wait for each other, *)
(* are refused or die: a join or a leave never undoes another, and a       *)
(* group's cohort is that of whoever joined before all others, also when   *)
(* the earliest time is committed last; only where that member has no      *)
(* intake, or nobody is left, may an overlap of two leave another.         *)
THEOREM HandlersKeepRoster == Spec => ImplementsRoster
<1>1. Init => Roster!Init
  BY DEF Init, Roster!Init
<1> QED
  BY <1>1, RosterStarts, RosterStep, CohortStarts, CohortKept, PTL
     DEF Spec, ImplementsRoster, Roster!Spec
=============================================================================
