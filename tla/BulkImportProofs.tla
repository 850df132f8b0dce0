--------------------------- MODULE BulkImportProofs ---------------------------
(* What holds of rows, jobs and accounts for any files, however many       *)
(* handlers and background tasks are in flight and however they interleave. *)
EXTENDS BulkImport, FiniteSetTheorems, WellFoundedInduction, TLAPS

-----------------------------------------------------------------------------
(* The first and the last row of a set.                                    *)

LEMMA LessThanRelation == OpToRel(<, Nat) = {ss \in Nat \X Nat : ss[1] < ss[2]}
BY Zenon DEF OpToRel

LEMMA FirstRow ==
    ASSUME NEW S \in SUBSET Items, S # {}
    PROVE  Min(S) \in S /\ \A k \in S : Min(S) <= k
<1> DEFINE R == {ss \in Nat \X Nat : ss[1] < ss[2]}
<1>1. IsWellFoundedOn(R, Nat)
  BY NatLessThanWellFounded, LessThanRelation
<1>2. S \subseteq Nat
  BY BulkAssumptions
<1>3. PICK n \in S : \A k \in S : <<k, n>> \notin R
  <2> HIDE DEF R
  <2>. QED
    BY <1>1, <1>2, WFMin
<1>4. \A k \in S : n <= k
  <2> SUFFICES ASSUME NEW k \in S PROVE n <= k
    OBVIOUS
  <2>1. <<k, n>> \in Nat \X Nat
    BY <1>2
  <2>2. ~(k < n)
    BY <1>3, <2>1
  <2>. QED
    BY <2>2, <1>2
<1>. QED
  BY <1>4 DEF Min

LEMMA LastRow ==
    ASSUME NEW S \in SUBSET Items, NEW x \in S, \A y \in S : y <= x
    PROVE  Max(S) = x
<1>1. S \subseteq Nat
  BY BulkAssumptions
<1>2. \A y \in S : x >= y
  BY <1>1
<1>3. Max(S) \in S /\ \A y \in S : Max(S) >= y
  BY <1>2 DEF Max
<1>4. PICK m \in Nat : m = Max(S)
  BY <1>1, <1>3
<1>5. x \in Nat /\ x >= m /\ m >= x
  BY <1>1, <1>2, <1>3, <1>4
<1>. QED
  BY <1>4, <1>5

-----------------------------------------------------------------------------

(* What a handler or task can be in the middle of.                         *)
Rulings == UNION {[S -> Verdicts] : S \in SUBSET Items}
Counts == [Jobs -> [Verdicts -> Nat]]
Txn == [op : {"none", "task", "run", "resume"}, job : Jobs \cup {None},
        stage : {"idle", "open", "mark", "load", "check", "flush", "save", "count", "finish",
                 "commit", "close"},
        todo : SUBSET Items, verdict : Rulings, mine : SUBSET Items,
        goal : {"none", "pending", "processing", "done", "failed"}, counts : Counts]

BulkType ==
    /\ txn \in [Procs -> Txn]
    /\ job \in [Jobs -> {"none", "pending", "processing", "done", "failed"}]
    /\ item \in [Items -> {"none", "pending"} \cup Verdicts]
    /\ owner \in [Emails -> Items \cup {None, Other}]
    /\ rolls \in [Rolls -> Items \cup {None, Other}]

(* The verdicts say which rows are valid, and which have an account.       *)
Judged(t) ==
    /\ \A i \in DOMAIN t.verdict : i \in Invalid <=> t.verdict[i] = "failed"
    /\ t.op \in {"none", "resume"} => t.mine = {}
    /\ t.op = "run" \/ (t.op = "task" /\ t.stage # "flush") =>
         t.mine = {i \in DOMAIN t.verdict : t.verdict[i] = "success"}
    /\ t.op \in {"task", "resume"} => t.job \in Jobs /\ (t.stage # "open" => t.goal # "none")
    /\ t.op = "task" =>
         /\ t.stage \in {"count", "finish"} => t.todo = {}
         /\ t.stage \notin {"flush", "save"} => t.mine = {}
         /\ t.stage = "flush" => t.mine = {} /\ t.verdict[Min(t.todo)] = "success"
         /\ t.stage \in {"flush", "save"} => DOMAIN t.verdict = {Min(t.todo)}
    /\ t.op = "run" =>
         /\ \A d \in DOMAIN t.verdict, i \in t.todo : d < i
         /\ t.stage = "flush" => Min(t.todo) \notin Invalid
    /\ t.stage \in {"check", "flush", "save"} => t.todo # {}
    /\ t.mine # {} => \E x \in t.mine : \A y \in t.mine : y <= x

Held(p) == txn[p].mine
Sure(p) == txn[p].mine \ Latest(p)

AccountsInv ==
    /\ AccountsMatchRows
    /\ \A e \in Emails : owner[e] \in Items => EmailOf[owner[e]] = e /\ owner[e] \notin Invalid
    /\ \A p \in Procs : \A i \in Held(p) : owner[EmailOf[i]] = None
    /\ \A p \in Procs : \A i \in Sure(p) : RollOf[i] # NoRoll => rolls[RollOf[i]] = None
    /\ \A p, q \in Procs : \A i \in Held(p), k \in Held(q) :
          EmailOf[i] = EmailOf[k] => i = k /\ p = q
    /\ \A p, q \in Procs : \A i \in Sure(p), k \in Sure(q) :
          RollOf[i] = RollOf[k] /\ RollOf[i] # NoRoll => i = k /\ p = q
    /\ \A p \in Procs : txn[p].op = "run" /\ txn[p].stage = "flush" =>
          EmailOf[First(p)] \notin HeldEmails(p)

(* The rows in a handler's hands, and those it may take up.                *)
AtHand(t) == t.todo \cup DOMAIN t.verdict
Reach(p) == AtHand(txn[p]) \cup {i \in Items : item[i] = "pending"}

Uploaded ==
    /\ \A i \in Items : job[JobOf[i]] = "none" => item[i] = "none"
    /\ \A p \in Procs : \A i \in AtHand(txn[p]) : item[i] # "none"

BulkInv == BulkType /\ (\A p \in Procs : Judged(txn[p])) /\ AccountsInv /\ Uploaded

(* What a handler that runs alone knows of the rows.                       *)
Knows(t) ==
    /\ t.op = "task" /\ t.stage \in {"check", "flush", "save"} =>
         \A i \in t.todo : item[i] = "pending"
    /\ /\ t.op = "task" /\ t.goal = "done"
       /\ t.stage \in {"check", "flush", "save", "count", "finish"}
       => \A i \in RowsOf(t.job) : item[i] = "pending" => i \in t.todo
    /\ t.op = "run" /\ t.stage # "close" =>
         \A i \in t.todo \cup DOMAIN t.verdict : item[i] = "pending"
    /\ t.op = "resume" /\ t.stage = "finish" /\ t.goal = "done" =>
         \A i \in RowsOf(t.job) : item[i] # "pending"

CountedAll(p) ==
    \A j \in Completed(p) : \A i \in RowsOf(j) :
       /\ At(p, "run", "commit") /\ item[i] = "pending" => i \in DOMAIN txn[p].verdict
       /\ At(p, "run", "close") => item[i] # "pending"

Settled == \A j \in Jobs : job[j] = "done" => \A i \in RowsOf(j) : item[i] # "pending"

LoneInv ==
    lone =>
      /\ \A p, q \in Procs : txn[p] # Idle /\ txn[q] # Idle => p = q
      /\ Settled
      /\ \A p \in Procs : Knows(txn[p]) /\ CountedAll(p)

LEMMA RulingTypes ==
    /\ <<>> \in Rulings /\ DOMAIN <<>> = {}
    /\ \A f \in Rulings : DOMAIN f \subseteq Items /\ \A i \in DOMAIN f : f[i] \in Verdicts
BY DEF Rulings

LEMMA RuledTypes ==
    ASSUME NEW f \in Rulings, NEW i \in Items, NEW v \in Verdicts
    PROVE  /\ Ruled(f, i, v) \in Rulings
           /\ DOMAIN Ruled(f, i, v) = DOMAIN f \cup {i} /\ Ruled(f, i, v)[i] = v
           /\ \A k \in DOMAIN f \ {i} : Ruled(f, i, v)[k] = f[k]
<1>1. DOMAIN f \subseteq Items /\ \A k \in DOMAIN f : f[k] \in Verdicts
  BY RulingTypes
<1>2. Ruled(f, i, v) \in [DOMAIN f \cup {i} -> Verdicts]
  BY <1>1 DEF Ruled
<1>3. DOMAIN f \cup {i} \in SUBSET Items
  BY <1>1
<1>4. Ruled(f, i, v) \in Rulings
  BY <1>2, <1>3 DEF Rulings
<1>. QED
  BY <1>4 DEF Ruled

LEMMA VerdictTypes ==
    ASSUME NEW p, NEW i
    PROVE  /\ Verdict(p, i) \in Verdicts
           /\ i \in Invalid <=> Verdict(p, i) = "failed"
           /\ Verdict(p, i) = "success" =>
                EmailOf[i] \notin HeldEmails(p) /\ RollOf[i] \notin HeldRolls(p)
BY DEF Verdict, Verdicts, EmailSeen, RollSeen

LEMMA CountedTypes == \A seen, j : Counted(seen, j) \in [Verdicts -> Nat]
<1> SUFFICES ASSUME NEW seen, NEW j, NEW v \in Verdicts
             PROVE  Cardinality({i \in RowsOf(j) : seen[i] = v}) \in Nat
  BY DEF Counted
<1>1. {i \in RowsOf(j) : seen[i] = v} \in SUBSET Items /\ IsFiniteSet(Items)
  BY BulkAssumptions DEF RowsOf
<1>2. IsFiniteSet({i \in RowsOf(j) : seen[i] = v})
  BY <1>1, FS_Subset
<1>. QED
  BY <1>2, FS_CardinalityType

LEMMA BeganTypes ==
    ASSUME NEW op \in {"none", "task", "run", "resume"}, NEW j \in Jobs \cup {None},
           NEW stage \in {"idle", "open", "check", "close", "finish"}
    PROVE  LET t == Began(op, j, stage) IN
           /\ t \in Txn /\ t.op = op /\ t.job = j /\ t.stage = stage /\ t.todo = {}
           /\ t.verdict = <<>> /\ t.mine = {} /\ t.goal = "none"
           /\ t.counts = [k \in Jobs |-> Zero]
<1>1. [k \in Jobs |-> Zero] \in Counts
  BY DEF Counts, Zero
<1>. QED
  BY <1>1, RulingTypes DEF Began, Txn

LEMMA IdleTypes == Idle \in Txn /\ Judged(Idle) /\ Idle.op = "none" /\ Idle.stage = "idle"
                   /\ Idle.mine = {} /\ Idle.todo = {}
<1>1. Idle \in Txn /\ Idle.op = "none" /\ Idle.stage = "idle" /\ Idle.mine = {}
      /\ Idle.verdict = <<>> /\ Idle.todo = {}
  BY BeganTypes DEF Idle
<1>. QED
  BY <1>1, RulingTypes DEF Judged

LEMMA FailingTypes ==
    ASSUME NEW p, txn[p] \in Txn, txn[p].op = "task", Judged(txn[p])
    PROVE  /\ Failing(p) \in Txn /\ Judged(Failing(p)) /\ Failing(p).mine = {}
           /\ Failing(p).op = "task" /\ Failing(p).stage = "count" /\ Failing(p).goal = "failed"
           /\ Failing(p).todo = {} /\ Failing(p).job = txn[p].job
<1>1. /\ Failing(p) \in Txn /\ Failing(p).mine = {} /\ Failing(p).verdict = <<>>
      /\ Failing(p).op = "task" /\ Failing(p).stage = "count" /\ Failing(p).goal = "failed"
      /\ Failing(p).todo = {} /\ Failing(p).job = txn[p].job
  BY RulingTypes DEF Failing, Txn
<1>. QED
  BY <1>1, RulingTypes DEF Judged

-----------------------------------------------------------------------------
(* What each step makes of its handler.                                    *)

LEMMA Went ==
    ASSUME BulkType, NEW p \in Procs, NEW t \in Txn, Goto(p, t)
    PROVE  /\ txn' \in [Procs -> Txn] /\ txn'[p] = t
           /\ \A q \in Procs \ {p} : txn'[q] = txn[q]
           /\ lone' => lone /\ \A q \in Procs \ {p} : txn[q] = Idle /\ txn'[q] = Idle
BY DEF Goto, BulkType

LEMMA OpenGoes ==
    ASSUME BulkType, NEW p \in Procs, Judged(txn[p]), TaskOpen(p)
    PROVE  \E t \in Txn : /\ Goto(p, t) /\ Judged(t) /\ t.mine = {}
                          /\ t.op # "run" /\ t.stage \in {"idle", "mark"}
<1>1. txn[p] \in Txn /\ txn[p].op = "task" /\ txn[p].stage = "open"
  BY DEF BulkType, TaskOpen, At
<1>2. CASE Goto(p, Idle)
  BY <1>2, IdleTypes
<1>3. ASSUME NEW seen \in {"pending", "processing"},
             Goto(p, [txn[p] EXCEPT !.stage = "mark", !.goal = seen])
      PROVE  \E t \in Txn : /\ Goto(p, t) /\ Judged(t) /\ t.mine = {}
                            /\ t.op # "run" /\ t.stage \in {"idle", "mark"}
  <2> DEFINE t == [txn[p] EXCEPT !.stage = "mark", !.goal = seen]
  <2>1. /\ t \in Txn /\ t.op = "task" /\ t.stage = "mark" /\ t.job = txn[p].job
        /\ t.goal = seen /\ t.mine = txn[p].mine /\ t.verdict = txn[p].verdict
    BY <1>1 DEF Txn
  <2>2. Goto(p, t)
    BY <1>3
  <2> HIDE DEF t
  <2>3. Judged(t) /\ t.mine = {}
    BY <1>1, <2>1 DEF Judged
  <2>. QED
    BY <2>1, <2>2, <2>3
<1>. QED
  BY <1>2, <1>3 DEF TaskOpen

LEMMA MarkGoes ==
    ASSUME BulkType, NEW p \in Procs, Judged(txn[p]), TaskMark(p)
    PROVE  \E t \in Txn :
              Goto(p, t) /\ Judged(t) /\ t.mine = {} /\ t.stage = "load" /\ t.op = "task"
<1>1. txn[p] \in Txn /\ txn[p].op = "task" /\ txn[p].stage = "mark"
  BY DEF BulkType, TaskMark, At
<1> DEFINE t == [txn[p] EXCEPT !.stage = "load", !.goal = "done"]
<1>2. /\ t \in Txn /\ t.op = "task" /\ t.stage = "load" /\ t.job = txn[p].job
      /\ t.goal = "done" /\ t.mine = txn[p].mine /\ t.verdict = txn[p].verdict
  BY <1>1 DEF Txn
<1>3. Goto(p, t)
  BY DEF TaskMark
<1> HIDE DEF t
<1>4. Judged(t) /\ t.mine = {}
  BY <1>1, <1>2 DEF Judged
<1>. QED
  BY <1>2, <1>3, <1>4

LEMMA LoadGoes ==
    ASSUME BulkType, NEW p \in Procs, Judged(txn[p]), TaskLoad(p)
    PROVE  \E t \in Txn :
              /\ Goto(p, t) /\ Judged(t) /\ t.mine = {} /\ t.stage \in {"count", "check"}
              /\ t.op = "task" /\ t.job \in Jobs
              /\ t.todo = {i \in RowsOf(t.job) : item[i] = "pending"}
<1>1. txn[p] \in Txn /\ txn[p].op = "task" /\ txn[p].stage = "load"
  BY DEF BulkType, TaskLoad, At
<1> DEFINE rows == {i \in RowsOf(txn[p].job) : item[i] = "pending"}
           stage == IF rows = {} THEN "count" ELSE "check"
           t == [txn[p] EXCEPT !.todo = rows, !.stage = stage]
<1>2. rows \in SUBSET Items /\ stage \in {"count", "check"} /\ (stage = "check" <=> rows # {})
  BY DEF RowsOf
<1>3. Goto(p, t) /\ rows = {i \in RowsOf(txn[p].job) : item[i] = "pending"}
  BY DEF TaskLoad
<1> HIDE DEF rows, stage
<1>4. /\ t \in Txn /\ t.op = "task" /\ t.stage = stage /\ t.job = txn[p].job /\ t.todo = rows
      /\ t.goal = txn[p].goal /\ t.mine = txn[p].mine /\ t.verdict = txn[p].verdict
  BY <1>1, <1>2 DEF Txn
<1> HIDE DEF t
<1>5. Judged(t) /\ t.mine = {} /\ t.job \in Jobs
  BY <1>1, <1>2, <1>4 DEF Judged
<1>. QED
  BY <1>2, <1>3, <1>4, <1>5

LEMMA CheckGoes ==
    ASSUME BulkType, NEW p \in Procs, Judged(txn[p]), TaskCheck(p)
    PROVE  \E t \in Txn :
              /\ Goto(p, t) /\ Judged(t) /\ t.mine = {} /\ t.stage \in {"flush", "save"}
              /\ t.op = "task" /\ t.job = txn[p].job /\ t.goal = txn[p].goal /\ t.todo = txn[p].todo
<1>1. txn[p] \in Txn /\ txn[p].op = "task" /\ txn[p].stage = "check"
  BY DEF BulkType, TaskCheck, At
<1>2. txn[p].todo \in SUBSET Items /\ txn[p].todo # {} /\ txn[p].mine = {}
  BY <1>1 DEF Judged, Txn
<1> DEFINE i == First(p)
           v == Verdict(p, i)
           f == Ruled(<<>>, i, v)
           stage == IF v = "success" THEN "flush" ELSE "save"
           t == [txn[p] EXCEPT !.verdict = f, !.stage = stage]
<1>3. i \in Items /\ i = Min(txn[p].todo)
  BY <1>2, FirstRow DEF First
<1>4. v \in Verdicts /\ (i \in Invalid <=> v = "failed")
  BY VerdictTypes
<1>5. Goto(p, t)
  BY DEF TaskCheck
<1> HIDE DEF i, v
<1>6. f \in Rulings /\ DOMAIN f = {i} /\ f[i] = v
  <2>1. <<>> \in Rulings /\ DOMAIN <<>> \cup {i} = {i}
    BY RulingTypes
  <2>2. /\ Ruled(<<>>, i, v) \in Rulings /\ Ruled(<<>>, i, v)[i] = v
        /\ DOMAIN Ruled(<<>>, i, v) = DOMAIN <<>> \cup {i}
    BY <1>3, <1>4, <2>1, RuledTypes
  <2>. QED
    BY <2>1, <2>2
<1>7. stage \in {"flush", "save"} /\ (stage = "flush" <=> v = "success")
  OBVIOUS
<1> HIDE DEF f, stage
<1>8. /\ t \in Txn /\ t.op = "task" /\ t.stage = stage /\ t.job = txn[p].job
      /\ t.todo = txn[p].todo /\ t.mine = txn[p].mine /\ t.verdict = f /\ t.goal = txn[p].goal
  BY <1>1, <1>6, <1>7 DEF Txn
<1> HIDE DEF t
<1>9. Judged(t)
  BY <1>1, <1>2, <1>3, <1>4, <1>6, <1>7, <1>8 DEF Judged
<1>. QED
  BY <1>2, <1>5, <1>7, <1>8, <1>9

(* The row at hand, while one is.                                          *)
LEMMA AtRow ==
    ASSUME BulkType, NEW p \in Procs, Judged(txn[p]), txn[p].stage \in {"check", "flush", "save"}
    PROVE  /\ First(p) \in Items /\ First(p) \in txn[p].todo /\ First(p) = Min(txn[p].todo)
           /\ \A k \in txn[p].todo : First(p) <= k
           /\ txn[p].todo \in SUBSET Items /\ txn[p].todo # {}
<1>1. txn[p].todo \in SUBSET Items /\ txn[p].todo # {}
  BY DEF BulkType, Txn, Judged
<1>. QED
  BY <1>1, FirstRow DEF First

LEMMA FlushGoes ==
    ASSUME BulkType, NEW p \in Procs, Judged(txn[p]), TaskFlush(p)
    PROVE  \E t \in Txn :
              /\ Goto(p, t) /\ Judged(t) /\ t.op = "task" /\ t.job = txn[p].job
              /\ \/ t.mine = {} /\ t.stage = "count" /\ t.goal = "failed"
                 \/ /\ ~EmailTaken(EmailOf[First(p)]) /\ t.mine = {First(p)} /\ t.stage = "save"
                    /\ t.goal = txn[p].goal /\ t.todo = txn[p].todo
<1>1. txn[p] \in Txn /\ txn[p].op = "task" /\ txn[p].stage = "flush"
  BY DEF BulkType, TaskFlush, At
<1>2. CASE Goto(p, Failing(p))
  BY <1>1, <1>2, FailingTypes
<1>3. CASE /\ ~EmailTaken(EmailOf[First(p)])
           /\ Goto(p, [txn[p] EXCEPT !.mine = {First(p)}, !.stage = "save"])
  <2> DEFINE t == [txn[p] EXCEPT !.mine = {First(p)}, !.stage = "save"]
  <2>1. First(p) \in Items /\ First(p) = Min(txn[p].todo) /\ txn[p].todo # {} /\ First(p) \in Nat
    BY <1>1, AtRow, BulkAssumptions
  <2>2. /\ t \in Txn /\ t.op = "task" /\ t.stage = "save" /\ t.job = txn[p].job
        /\ t.todo = txn[p].todo /\ t.mine = {First(p)} /\ t.verdict = txn[p].verdict
        /\ t.goal = txn[p].goal
    BY <1>1, <2>1 DEF Txn
  <2>3. Goto(p, t)
    BY <1>3
  <2> HIDE DEF t
  <2>4. /\ DOMAIN txn[p].verdict = {First(p)} /\ txn[p].verdict[First(p)] = "success"
        /\ txn[p].job \in Jobs /\ txn[p].goal # "none"
        /\ \A i \in DOMAIN txn[p].verdict : i \in Invalid <=> txn[p].verdict[i] = "failed"
    BY <1>1, <2>1 DEF Judged
  <2>5. t.mine = {i \in DOMAIN t.verdict : t.verdict[i] = "success"}
    BY <2>2, <2>4
  <2>6. Judged(t)
    BY <2>1, <2>2, <2>4, <2>5 DEF Judged
  <2>. QED
    BY <1>3, <2>2, <2>3, <2>6
<1>. QED
  BY <1>2, <1>3 DEF TaskFlush

LEMMA SaveGoes ==
    ASSUME BulkType, NEW p \in Procs, Judged(txn[p]), TaskSave(p)
    PROVE  \E t \in Txn :
              /\ Goto(p, t) /\ Judged(t) /\ t.mine = {} /\ t.op = "task" /\ t.job = txn[p].job
              /\ \/ RollClash(p) /\ t.stage = "count" /\ t.goal = "failed"
                 \/ /\ ~RollClash(p) /\ t.stage \in {"count", "check"} /\ t.goal = txn[p].goal
                    /\ t.todo = txn[p].todo \ {First(p)}
<1>1. txn[p] \in Txn /\ txn[p].op = "task" /\ txn[p].stage = "save"
  BY DEF BulkType, TaskSave, At
<1>2. CASE RollClash(p)
  BY <1>1, <1>2, FailingTypes DEF TaskSave
<1>3. CASE ~RollClash(p)
  <2> DEFINE rest == txn[p].todo \ {First(p)}
             stage == IF rest = {} THEN "count" ELSE "check"
             t == [txn[p] EXCEPT !.todo = rest, !.verdict = <<>>, !.mine = {}, !.stage = stage]
  <2>1. rest \in SUBSET Items /\ stage \in {"count", "check"} /\ (stage = "check" <=> rest # {})
    BY <1>1, AtRow
  <2>2. Goto(p, t) /\ rest = txn[p].todo \ {First(p)}
    BY <1>3 DEF TaskSave
  <2> HIDE DEF rest, stage
  <2>3. /\ t \in Txn /\ t.op = "task" /\ t.stage = stage /\ t.job = txn[p].job
        /\ t.todo = rest /\ t.mine = {} /\ t.verdict = <<>> /\ t.goal = txn[p].goal
    BY <1>1, <2>1, RulingTypes DEF Txn
  <2> HIDE DEF t
  <2>4. Judged(t)
    BY <1>1, <2>1, <2>3, RulingTypes DEF Judged
  <2>. QED
    BY <1>3, <2>1, <2>2, <2>3, <2>4
<1>. QED
  BY <1>2, <1>3

LEMMA CountGoes ==
    ASSUME BulkType, NEW p \in Procs, Judged(txn[p]), TaskCount(p)
    PROVE  \E t \in Txn :
              /\ Goto(p, t) /\ Judged(t) /\ t.mine = {} /\ t.op = "task" /\ t.job = txn[p].job
              /\ t.stage = "finish" /\ t.goal = txn[p].goal /\ t.todo = txn[p].todo
<1>1. txn[p] \in Txn /\ txn[p].op = "task" /\ txn[p].stage = "count"
  BY DEF BulkType, TaskCount, At
<1>2. txn[p].job \in Jobs /\ txn[p].counts \in Counts
  BY <1>1 DEF Judged, Txn
<1> DEFINE c == [txn[p].counts EXCEPT ![txn[p].job] = Counted(item, txn[p].job)]
           t == [txn[p] EXCEPT !.stage = "finish", !.counts = c]
<1>3. Goto(p, t)
  BY DEF TaskCount
<1>4. c \in Counts
  BY <1>2, CountedTypes DEF Counts
<1> HIDE DEF c
<1>5. /\ t \in Txn /\ t.op = "task" /\ t.stage = "finish" /\ t.job = txn[p].job
      /\ t.todo = txn[p].todo /\ t.mine = txn[p].mine /\ t.verdict = txn[p].verdict
      /\ t.goal = txn[p].goal
  BY <1>1, <1>4 DEF Txn
<1> HIDE DEF t
<1>6. Judged(t) /\ t.mine = {}
  BY <1>1, <1>5 DEF Judged
<1>. QED
  BY <1>3, <1>5, <1>6

LEMMA RunLoadGoes ==
    ASSUME BulkType, NEW p \in Procs, RunLoad(p)
    PROVE  \E t \in Txn :
              /\ Goto(p, t) /\ Judged(t) /\ t.mine = {} /\ t.op = "run" /\ t.stage = "check"
              /\ DOMAIN t.verdict = {} /\ \A i \in t.todo : item[i] = "pending"
<1> DEFINE batch == {i \in Available : Cardinality({k \in Available : k < i}) < BatchSize}
           b == Began("run", None, "check")
           t == [b EXCEPT !.todo = batch]
<1>1. Goto(p, t) /\ Available # {}
  BY DEF RunLoad
<1>2. Available \in SUBSET Items /\ \A i \in Available : item[i] = "pending"
  BY DEF Available
<1>3. PICK n \in Available : \A k \in Available : n <= k
  BY <1>1, <1>2, FirstRow
<1>4. {k \in Available : k < n} = {}
  <2>1. \A k \in Available : k \in Nat /\ n \in Nat
    BY <1>2, BulkAssumptions
  <2>. QED
    BY <1>3, <2>1
<1>5. n \in batch
  BY <1>3, <1>4, FS_EmptySet, BulkAssumptions
<1>6. batch \in SUBSET Items /\ batch # {} /\ \A i \in batch : item[i] = "pending"
  BY <1>2, <1>5
<1> HIDE DEF batch
<1>7. /\ b \in Txn /\ b.op = "run" /\ b.stage = "check" /\ b.mine = {} /\ b.verdict = <<>>
  BY BeganTypes
<1> HIDE DEF b
<1>8. /\ t \in Txn /\ t.op = "run" /\ t.stage = "check" /\ t.mine = {} /\ t.verdict = <<>>
      /\ t.todo = batch
  BY <1>6, <1>7 DEF Txn
<1> HIDE DEF t
<1>9. Judged(t)
  BY <1>6, <1>8, RulingTypes DEF Judged
<1>. QED
  BY <1>1, <1>6, <1>8, <1>9, RulingTypes

LEMMA RunCheckGoes ==
    ASSUME BulkType, NEW p \in Procs, Judged(txn[p]), RunCheck(p)
    PROVE  \E t \in Txn :
              /\ Goto(p, t) /\ Judged(t) /\ t.mine = txn[p].mine /\ t.op = "run"
              /\ t.stage \in {"flush", "check", "count"}
              /\ t.stage = "flush" => /\ Min(t.todo) = First(p)
                                      /\ EmailOf[First(p)] \notin HeldEmails(p)
              /\ t.todo \cup DOMAIN t.verdict = txn[p].todo \cup DOMAIN txn[p].verdict
<1>1. txn[p] \in Txn /\ txn[p].op = "run" /\ txn[p].stage = "check"
  BY DEF BulkType, RunCheck, At
<1>2. /\ First(p) \in Items /\ First(p) \in txn[p].todo /\ First(p) = Min(txn[p].todo)
      /\ \A k \in txn[p].todo : First(p) <= k
      /\ txn[p].todo \in SUBSET Items /\ txn[p].todo # {}
  BY <1>1, AtRow
<1>3. PICK i \in Items, v \in Verdicts :
         /\ i = First(p) /\ v = Verdict(p, i) /\ (i \in Invalid <=> v = "failed")
         /\ v = "success" => EmailOf[i] \notin HeldEmails(p)
  BY <1>2, VerdictTypes
<1>4. CASE v = "success"
  <2> DEFINE t == [txn[p] EXCEPT !.stage = "flush"]
  <2>1. /\ t \in Txn /\ t.op = "run" /\ t.stage = "flush" /\ t.todo = txn[p].todo
        /\ t.mine = txn[p].mine /\ t.verdict = txn[p].verdict
    BY <1>1 DEF Txn
  <2>2. Goto(p, t)
    BY <1>3, <1>4 DEF RunCheck
  <2> HIDE DEF t
  <2>3. Judged(t)
    BY <1>1, <1>2, <1>3, <1>4, <2>1 DEF Judged
  <2>. QED
    BY <1>2, <1>3, <1>4, <2>1, <2>2, <2>3
<1>5. CASE v # "success"
  <2> DEFINE rest == txn[p].todo \ {i}
             f == Ruled(txn[p].verdict, i, v)
             stage == IF rest = {} THEN "count" ELSE "check"
             t == [txn[p] EXCEPT !.todo = rest, !.verdict = f, !.stage = stage]
  <2>1. Goto(p, t)
    BY <1>3, <1>5 DEF RunCheck
  <2>2. rest \in SUBSET Items /\ stage \in {"count", "check"} /\ (stage = "check" <=> rest # {})
    BY <1>2
  <2>3. /\ f \in Rulings /\ DOMAIN f = DOMAIN txn[p].verdict \cup {i} /\ f[i] = v
        /\ \A k \in DOMAIN txn[p].verdict \ {i} : f[k] = txn[p].verdict[k]
    BY <1>1, RuledTypes DEF Txn
  <2>a. rest = txn[p].todo \ {i}
    OBVIOUS
  <2> HIDE DEF f, stage, rest
  <2>4. /\ t \in Txn /\ t.op = "run" /\ t.stage = stage /\ t.todo = rest
        /\ t.mine = txn[p].mine /\ t.verdict = f
    BY <1>1, <2>2, <2>3 DEF Txn
  <2> HIDE DEF t
  <2>5. /\ i \notin DOMAIN txn[p].verdict
        /\ \A d \in DOMAIN f, k \in rest : d < k
    <3>1. \A d \in DOMAIN txn[p].verdict, k \in txn[p].todo : d < k
      BY <1>1 DEF Judged
    <3>2. \A k \in rest : i <= k /\ i # k /\ i \in Nat /\ k \in Nat
      BY <1>2, <1>3, <2>a, BulkAssumptions
    <3>3. \A k \in rest : i < k
      BY <3>2
    <3>4. ~(i < i)
      BY BulkAssumptions
    <3>. QED
      BY <1>2, <1>3, <2>3, <2>a, <3>1, <3>3, <3>4
  <2>6. t.mine = {k \in DOMAIN f : f[k] = "success"}
    <3>1. txn[p].mine = {k \in DOMAIN txn[p].verdict : txn[p].verdict[k] = "success"}
      BY <1>1 DEF Judged
    <3>. QED
      BY <3>1, <1>5, <2>3, <2>4, <2>5
  <2>7. \A k \in DOMAIN f : k \in Invalid <=> f[k] = "failed"
    BY <1>3, <2>3 DEF Judged
  <2>8. Judged(t)
    BY <1>1, <2>2, <2>4, <2>5, <2>6, <2>7 DEF Judged
  <2>9. t.todo \cup DOMAIN t.verdict = txn[p].todo \cup DOMAIN txn[p].verdict
    BY <1>2, <1>3, <2>3, <2>4, <2>a
  <2>. QED
    BY <2>1, <2>2, <2>4, <2>8, <2>9
<1>. QED
  BY <1>4, <1>5

LEMMA RunFlushGoes ==
    ASSUME BulkType, NEW p \in Procs, Judged(txn[p]), RunFlush(p)
    PROVE  \E t \in Txn :
              /\ Goto(p, t) /\ Judged(t) /\ t.stage # "flush"
              /\ \/ t = Idle
                 \/ /\ ~Doomed(p) /\ t.op = "run" /\ t.mine = txn[p].mine \cup {First(p)}
                    /\ \A k \in txn[p].mine : k < First(p)
                    /\ t.stage \in {"check", "count"}
                    /\ t.todo \cup DOMAIN t.verdict = txn[p].todo \cup DOMAIN txn[p].verdict
<1>1. txn[p] \in Txn /\ txn[p].op = "run" /\ txn[p].stage = "flush"
  BY DEF BulkType, RunFlush, At
<1>2. CASE Doomed(p)
  BY <1>2, IdleTypes DEF RunFlush
<1>3. CASE ~Doomed(p)
  <2>1. PICK i \in Items :
           /\ i = First(p) /\ i \in txn[p].todo /\ i = Min(txn[p].todo) /\ i \notin Invalid
           /\ \A k \in txn[p].todo : i <= k
           /\ txn[p].todo \in SUBSET Items
    BY <1>1, AtRow DEF Judged
  <2> DEFINE rest == txn[p].todo \ {i}
             f == Ruled(txn[p].verdict, i, "success")
             mine == txn[p].mine \cup {i}
             stage == IF rest = {} THEN "count" ELSE "check"
             t == [txn[p] EXCEPT !.todo = rest, !.mine = mine, !.verdict = f, !.stage = stage]
  <2>2. Goto(p, t)
    BY <1>3, <2>1 DEF RunFlush
  <2>3. /\ rest \in SUBSET Items /\ stage \in {"count", "check"} /\ (stage = "check" <=> rest # {})
        /\ mine \in SUBSET Items
    BY <1>1, <2>1 DEF Txn
  <2>4. /\ f \in Rulings /\ DOMAIN f = DOMAIN txn[p].verdict \cup {i} /\ f[i] = "success"
        /\ \A k \in DOMAIN txn[p].verdict \ {i} : f[k] = txn[p].verdict[k]
    BY <1>1, RuledTypes DEF Txn, Verdicts
  <2>a. rest = txn[p].todo \ {i} /\ mine = txn[p].mine \cup {i}
    OBVIOUS
  <2> HIDE DEF f, stage, rest, mine
  <2>5. /\ t \in Txn /\ t.op = "run" /\ t.stage = stage /\ t.todo = rest
        /\ t.mine = mine /\ t.verdict = f
    BY <1>1, <2>3, <2>4 DEF Txn
  <2> HIDE DEF t
  <2>6. /\ \A d \in DOMAIN txn[p].verdict, k \in txn[p].todo : d < k
        /\ txn[p].mine = {k \in DOMAIN txn[p].verdict : txn[p].verdict[k] = "success"}
        /\ \A k \in DOMAIN txn[p].verdict : k \in Invalid <=> txn[p].verdict[k] = "failed"
    BY <1>1 DEF Judged
  <2>7. i \in Nat /\ ~(i < i) /\ txn[p].mine \subseteq Nat
    <3>1. txn[p].mine \in SUBSET Items
      BY <1>1 DEF Txn
    <3>2. Items \subseteq Nat
      BY BulkAssumptions
    <3>3. i \in Nat
      BY <2>1, <3>2
    <3>4. ~(i < i)
      BY <3>3
    <3>5. txn[p].mine \subseteq Nat
      BY <3>1, <3>2
    <3>. QED
      BY <3>3, <3>4, <3>5
  <2>8. \A d \in DOMAIN f, k \in rest : d < k
    <3>1. \A k \in rest : i <= k /\ i # k /\ i \in Nat /\ k \in Nat
      BY <2>1, <2>a, BulkAssumptions
    <3>2. \A k \in rest : i < k
      BY <3>1
    <3>. QED
      BY <2>1, <2>4, <2>6, <2>a, <3>2
  <2>9. i \notin DOMAIN txn[p].verdict
    BY <2>1, <2>6, <2>7
  <2>10. mine = {k \in DOMAIN f : f[k] = "success"}
    BY <2>4, <2>6, <2>9, <2>a
  <2>11. \A k \in DOMAIN f : k \in Invalid <=> f[k] = "failed"
    BY <2>1, <2>4, <2>6
  <2>12. /\ \A k \in txn[p].mine : k < i
         /\ \A k \in mine : k <= i
    BY <2>1, <2>6, <2>7, <2>a
  <2>13. Judged(t)
    BY <2>3, <2>5, <2>8, <2>10, <2>11, <2>12, <2>a DEF Judged
  <2>14. t.todo \cup DOMAIN t.verdict = txn[p].todo \cup DOMAIN txn[p].verdict
    BY <2>1, <2>4, <2>5, <2>a
  <2>. QED
    BY <1>3, <2>1, <2>2, <2>3, <2>5, <2>12, <2>13, <2>14, <2>a
<1>. QED
  BY <1>2, <1>3

LEMMA RunCountGoes ==
    ASSUME BulkType, NEW p \in Procs, Judged(txn[p]), RunCount(p)
    PROVE  \E t \in Txn :
              /\ Goto(p, t) /\ Judged(t) /\ t.mine = txn[p].mine /\ t.op = "run"
              /\ t.stage = "commit" /\ t.todo = txn[p].todo /\ t.verdict = txn[p].verdict
              /\ \A j \in Jobs :
                   \/ t.counts[j] = Zero
                   \/ \E seen \in [Items -> {"none", "pending"} \cup Verdicts] :
                        /\ t.counts[j] = Counted(seen, j)
                        /\ \A i \in Items \ DOMAIN txn[p].verdict : seen[i] = item[i]
<1>1. txn[p] \in Txn /\ txn[p].op = "run" /\ txn[p].stage = "count"
  BY DEF BulkType, RunCount, At
<1> DEFINE seen == [i \in Items |-> IF i \in Flushed(p) THEN txn[p].verdict[i] ELSE item[i]]
           c == [j \in Jobs |-> IF j \in LockedJobs(p) THEN Counted(seen, j) ELSE Zero]
           t == [txn[p] EXCEPT !.stage = "commit", !.counts = c]
<1>2. Goto(p, t)
  BY DEF RunCount
<1>3. c \in Counts
  BY CountedTypes DEF Counts, Zero
<1>4. /\ seen \in [Items -> {"none", "pending"} \cup Verdicts]
      /\ \A i \in Items \ DOMAIN txn[p].verdict : seen[i] = item[i]
  <2>1. Flushed(p) \subseteq DOMAIN txn[p].verdict /\ txn[p].verdict \in Rulings
    BY <1>1 DEF Flushed, Txn
  <2>2. \A i \in DOMAIN txn[p].verdict : txn[p].verdict[i] \in Verdicts
    BY <2>1, RulingTypes
  <2>. QED
    BY <2>1, <2>2 DEF BulkType
<1>5. \A j \in Jobs : c[j] = Zero \/ c[j] = Counted(seen, j)
  OBVIOUS
<1> HIDE DEF c, seen
<1>6. /\ t \in Txn /\ t.op = "run" /\ t.stage = "commit" /\ t.todo = txn[p].todo
      /\ t.mine = txn[p].mine /\ t.verdict = txn[p].verdict /\ t.counts = c
  BY <1>1, <1>3 DEF Txn
<1> HIDE DEF t
<1>7. Judged(t)
  BY <1>1, <1>6 DEF Judged
<1>. QED
  BY <1>2, <1>4, <1>5, <1>6, <1>7

LEMMA RunCommitGoes ==
    ASSUME BulkType, NEW p \in Procs, Judged(txn[p]), RunCommit(p)
    PROVE  \E t \in Txn :
              /\ Goto(p, t) /\ Judged(t) /\ t.mine = {}
              /\ \/ Doomed(p) /\ t = Idle
                 \/ /\ ~Doomed(p) /\ t.op = "run" /\ t.stage = "close"
                    /\ t.counts = txn[p].counts
<1>1. txn[p] \in Txn /\ txn[p].op = "run" /\ txn[p].stage = "commit"
  BY DEF BulkType, RunCommit, At
<1>2. CASE Doomed(p)
  BY <1>2, IdleTypes DEF RunCommit
<1>3. CASE ~Doomed(p)
  <2> DEFINE b == Began("run", None, "close")
             t == [b EXCEPT !.counts = txn[p].counts]
  <2>1. Goto(p, t)
    BY <1>3 DEF RunCommit
  <2>2. /\ b \in Txn /\ b.op = "run" /\ b.stage = "close" /\ b.mine = {} /\ b.verdict = <<>>
        /\ b.todo = {}
    BY BeganTypes
  <2> HIDE DEF b
  <2>3. /\ t \in Txn /\ t.op = "run" /\ t.stage = "close" /\ t.mine = {} /\ t.verdict = <<>>
        /\ t.todo = {} /\ t.counts = txn[p].counts
    BY <1>1, <2>2 DEF Txn
  <2> HIDE DEF t
  <2>4. Judged(t)
    BY <2>3, RulingTypes DEF Judged
  <2>. QED
    BY <1>3, <2>1, <2>3, <2>4
<1>. QED
  BY <1>2, <1>3

LEMMA TaskBegins ==
    ASSUME NEW j \in Jobs
    PROVE  LET t == Began("task", j, "open") IN
           t \in Txn /\ Judged(t) /\ t.op = "task" /\ t.stage = "open" /\ t.mine = {}
<1> DEFINE t == Began("task", j, "open")
<1>1. /\ t \in Txn /\ t.op = "task" /\ t.stage = "open" /\ t.mine = {} /\ t.job = j
      /\ t.verdict = <<>>
  BY BeganTypes
<1> HIDE DEF t
<1>2. Judged(t)
  BY <1>1, RulingTypes DEF Judged
<1>. QED
  BY <1>1, <1>2 DEF t

LEMMA ResumeGoes ==
    ASSUME BulkType, NEW p \in Procs, NEW j \in Jobs, ResumeLoad(p, j)
    PROVE  \E t \in Txn :
              /\ Goto(p, t) /\ Judged(t) /\ t.mine = {} /\ t.op = "resume" /\ t.stage = "finish"
              /\ t.job = j /\ t.goal \in {"pending", "done"}
              /\ t.goal = "done" => \A i \in RowsOf(j) : item[i] # "pending"
<1> DEFINE goal == IF \E i \in RowsOf(j) : item[i] = "pending" THEN "pending" ELSE "done"
           b == Began("resume", j, "finish")
           t == [b EXCEPT !.goal = goal]
<1>1. Goto(p, t)
  BY DEF ResumeLoad
<1>2. /\ b \in Txn /\ b.op = "resume" /\ b.stage = "finish" /\ b.mine = {} /\ b.verdict = <<>>
      /\ b.todo = {} /\ b.job = j
  BY BeganTypes
<1>3. goal \in {"pending", "done"} /\ (goal = "done" => \A i \in RowsOf(j) : item[i] # "pending")
  OBVIOUS
<1> HIDE DEF b, goal
<1>4. /\ t \in Txn /\ t.op = "resume" /\ t.stage = "finish" /\ t.mine = {} /\ t.verdict = <<>>
      /\ t.todo = {} /\ t.job = j /\ t.goal = goal
  BY <1>2, <1>3 DEF Txn
<1> HIDE DEF t
<1>5. Judged(t)
  BY <1>3, <1>4, RulingTypes DEF Judged
<1>. QED
  BY <1>1, <1>3, <1>4, <1>5

LEMMA ResumeCommitGoes ==
    ASSUME BulkType, NEW p \in Procs, Judged(txn[p]), ResumeCommit(p)
    PROVE  \E t \in Txn :
              /\ Goto(p, t) /\ Judged(t) /\ t.mine = {}
              /\ t = Idle \/ (t.op = "task" /\ t.stage = "open")
<1>1. CASE Goto(p, Idle)
  BY <1>1, IdleTypes
<1>2. CASE Goto(p, Began("task", txn[p].job, "open"))
  <2>1. txn[p].job \in Jobs
    BY DEF Judged, ResumeCommit, At
  <2>. QED
    BY <1>2, <2>1, TaskBegins
<1>. QED
  BY <1>1, <1>2 DEF ResumeCommit

LEMMA VictimGoes ==
    ASSUME BulkType, NEW p \in Procs, Judged(txn[p]), Victim(p)
    PROVE  \E t \in Txn :
              /\ Goto(p, t) /\ Judged(t) /\ t.mine = {}
              /\ t = Idle \/ (t.op = "task" /\ t.stage = "count" /\ t.goal = "failed")
BY IdleTypes, FailingTypes DEF Victim, BulkType

(* A handler takes up pending rows and no others.                          *)
LEMMA HandsGo ==
    ASSUME BulkType, NEW p \in Procs, Judged(txn[p]),
           \/ Task(p) \/ RunLoad(p) \/ Run(p) \/ ResumeCommit(p) \/ Victim(p)
           \/ \E j \in Jobs : Upload(p, j) \/ Retry(p, j) \/ ResumeLoad(p, j)
    PROVE  AtHand(txn'[p]) \subseteq Reach(p)
<1>1. /\ txn \in [Procs -> Txn] /\ txn[p] \in Txn
      /\ DOMAIN txn[p].verdict \subseteq Items /\ txn[p].verdict \in Rulings
  BY RulingTypes DEF BulkType, Txn
<1>2. ASSUME NEW t, Goto(p, t) PROVE txn'[p] = t
  BY <1>1, <1>2 DEF Goto
<1>3. AtHand(Idle) = {} /\ AtHand(Failing(p)) = {}
  <2>1. DOMAIN <<>> = {}
    BY RulingTypes
  <2>. QED
    BY <1>1, <2>1 DEF AtHand, Idle, Began, Failing, Txn
<1>4. \A op, j, stage : AtHand(Began(op, j, stage)) = {}
  BY RulingTypes DEF AtHand, Began
<1>5. \A f : \A i, v : DOMAIN Ruled(f, i, v) = DOMAIN f \cup {i}
  BY DEF Ruled
<1>6. txn[p].stage \in {"check", "flush", "save"} => First(p) \in txn[p].todo
  BY AtRow
<1>7. CASE TaskOpen(p)
  BY <1>1, <1>2, <1>3, <1>7 DEF TaskOpen, AtHand, Reach, Txn
<1>8. CASE TaskMark(p)
  BY <1>1, <1>2, <1>8 DEF TaskMark, AtHand, Reach, Txn
<1>9. CASE TaskLoad(p)
  <2> DEFINE rows == {i \in RowsOf(txn[p].job) : item[i] = "pending"}
  <2>a. PICK s : Goto(p, [txn[p] EXCEPT !.todo = rows, !.stage = s])
    BY <1>9 DEF TaskLoad
  <2>b. txn'[p] = [txn[p] EXCEPT !.todo = rows, !.stage = s]
    BY <2>a, <1>2
  <2>1. \A i \in txn'[p].todo : i \in Items /\ item[i] = "pending"
    BY <1>1, <2>b DEF RowsOf, Txn
  <2>2. txn'[p].verdict = txn[p].verdict
    BY <1>1, <2>b DEF Txn
  <2>. QED
    BY <2>1, <2>2 DEF AtHand, Reach
<1>10. CASE TaskCheck(p)
  <2>1. PICK v : txn'[p].verdict = Ruled(<<>>, First(p), v) /\ txn'[p].todo = txn[p].todo
    BY <1>1, <1>2, <1>10 DEF TaskCheck, Txn
  <2>2. DOMAIN txn'[p].verdict = {First(p)}
    <3>1. DOMAIN Ruled(<<>>, First(p), v) = DOMAIN <<>> \cup {First(p)}
      BY DEF Ruled
    <3>. QED
      BY <2>1, <3>1, RulingTypes
  <2>. QED
    BY <1>6, <1>10, <2>1, <2>2 DEF TaskCheck, At, AtHand, Reach
<1>11. CASE TaskFlush(p)
  BY <1>1, <1>2, <1>3, <1>11 DEF TaskFlush, AtHand, Reach, Txn
<1>12. CASE TaskSave(p)
  <2>1. CASE Goto(p, Failing(p))
    BY <1>2, <1>3, <2>1
  <2>2. CASE ~Goto(p, Failing(p))
    <3>1. txn'[p].verdict = <<>> /\ txn'[p].todo = txn[p].todo \ {First(p)}
      BY <1>1, <1>2, <1>12, <2>2 DEF TaskSave, Txn
    <3>. QED
      BY <3>1, RulingTypes DEF AtHand, Reach
  <2>. QED
    BY <2>1, <2>2
<1>13. CASE TaskCount(p)
  BY <1>1, <1>2, <1>13 DEF TaskCount, AtHand, Reach, Txn
<1>14. CASE TaskFinish(p) \/ RunClose(p)
  BY <1>2, <1>3, <1>14 DEF TaskFinish, RunClose
<1>15. CASE RunLoad(p)
  <2> DEFINE batch == {i \in Available : Cardinality({k \in Available : k < i}) < BatchSize}
  <2>a. txn'[p] = [Began("run", None, "check") EXCEPT !.todo = batch]
    BY <1>2, <1>15 DEF RunLoad
  <2>b. \A i \in batch : i \in Items /\ item[i] = "pending"
    BY DEF Available
  <2> HIDE DEF batch
  <2>1. txn'[p].verdict = <<>> /\ \A i \in txn'[p].todo : i \in Items /\ item[i] = "pending"
    BY <2>a, <2>b DEF Began
  <2>. QED
    BY <2>1, RulingTypes DEF AtHand, Reach
<1>16. CASE RunCheck(p)
  <2>a. PICK v, s : \/ Goto(p, [txn[p] EXCEPT !.stage = "flush"])
                   \/ Goto(p, [txn[p] EXCEPT !.todo = @ \ {First(p)},
                                            !.verdict = Ruled(@, First(p), v), !.stage = s])
    BY <1>16 DEF RunCheck
  <2>b. \/ txn'[p] = [txn[p] EXCEPT !.stage = "flush"]
        \/ txn'[p] = [txn[p] EXCEPT !.todo = @ \ {First(p)},
                                   !.verdict = Ruled(@, First(p), v), !.stage = s]
    BY <2>a, <1>2
  <2>1. txn'[p].todo \subseteq txn[p].todo
    BY <1>1, <2>b DEF Txn
  <2>2. DOMAIN txn'[p].verdict \subseteq DOMAIN txn[p].verdict \cup {First(p)}
    <3>1. \/ txn'[p].verdict = txn[p].verdict
          \/ txn'[p].verdict = Ruled(txn[p].verdict, First(p), v)
      BY <1>1, <2>b DEF Txn
    <3>2. DOMAIN Ruled(txn[p].verdict, First(p), v) = DOMAIN txn[p].verdict \cup {First(p)}
      BY DEF Ruled
    <3>. QED
      BY <3>1, <3>2
  <2>. QED
    BY <1>6, <1>16, <2>1, <2>2 DEF RunCheck, At, AtHand, Reach
<1>17. CASE RunFlush(p)
  <2>1. CASE Goto(p, Idle)
    BY <1>2, <1>3, <2>1
  <2>2. CASE ~Goto(p, Idle)
    <3>a. PICK s : Goto(p, [txn[p] EXCEPT !.todo = @ \ {First(p)}, !.mine = @ \cup {First(p)},
                                          !.verdict = Ruled(@, First(p), "success"), !.stage = s])
      BY <1>17, <2>2 DEF RunFlush
    <3>b. txn'[p] = [txn[p] EXCEPT !.todo = @ \ {First(p)}, !.mine = @ \cup {First(p)},
                                   !.verdict = Ruled(@, First(p), "success"), !.stage = s]
      BY <3>a, <1>2
    <3>1. txn'[p].todo \subseteq txn[p].todo
      BY <1>1, <3>b DEF Txn
    <3>2. DOMAIN txn'[p].verdict = DOMAIN txn[p].verdict \cup {First(p)}
      <4>1. txn'[p].verdict = Ruled(txn[p].verdict, First(p), "success")
        BY <1>1, <3>b DEF Txn
      <4>. QED
        BY <4>1, <1>5
    <3>. QED
      BY <1>6, <1>17, <3>1, <3>2 DEF RunFlush, At, AtHand, Reach
  <2>. QED
    BY <2>1, <2>2
<1>18. CASE RunCount(p)
  BY <1>1, <1>2, <1>18 DEF RunCount, AtHand, Reach, Txn
<1>19. CASE RunCommit(p)
  <2>1. CASE Goto(p, Idle)
    BY <1>2, <1>3, <2>1
  <2>2. CASE ~Goto(p, Idle)
    <3>1. txn'[p] = [Began("run", None, "close") EXCEPT !.counts = txn[p].counts]
      BY <1>2, <1>19, <2>2 DEF RunCommit
    <3>2. txn'[p].verdict = <<>> /\ txn'[p].todo = {}
      BY <3>1 DEF Began
    <3>. QED
      BY <3>2, RulingTypes DEF AtHand
  <2>. QED
    BY <2>1, <2>2
<1>20. CASE ResumeCommit(p) \/ Victim(p)
  BY <1>2, <1>3, <1>4, <1>20 DEF ResumeCommit, Victim
<1>21. ASSUME NEW j \in Jobs, Upload(p, j) \/ Retry(p, j)
       PROVE  AtHand(txn'[p]) \subseteq Reach(p)
  BY <1>2, <1>4, <1>21 DEF Upload, Retry
<1>22. ASSUME NEW j \in Jobs, ResumeLoad(p, j) PROVE AtHand(txn'[p]) \subseteq Reach(p)
  <2>1. txn'[p].verdict = <<>> /\ txn'[p].todo = {}
    BY <1>2, <1>22 DEF ResumeLoad, Began
  <2>. QED
    BY <2>1, RulingTypes DEF AtHand
<1>. QED
  BY <1>7, <1>8, <1>9, <1>10, <1>11, <1>12, <1>13, <1>14, <1>15, <1>16, <1>17, <1>18, <1>19,
     <1>20, <1>21, <1>22 DEF Task, Run

(* Rows exist from the upload of their job on.                             *)
LEMMA UploadedKeeps ==
    ASSUME BulkType, Uploaded, NEW p \in Procs, NEW t \in Txn, Goto(p, t),
           AtHand(txn'[p]) \subseteq Reach(p),
           \A j \in Jobs : job[j] # "none" => job'[j] # "none",
           \A i \in Items : item[i] # "none" => item'[i] # "none",
           \A i \in Items : job'[JobOf[i]] = "none" /\ item[i] = "none" => item'[i] = "none"
    PROVE  Uploaded'
<1>1. \A i \in Items : JobOf[i] \in Jobs
  BY BulkAssumptions
<1>2. ASSUME NEW q \in Procs PROVE AtHand(txn[q]) \subseteq Items
  BY RulingTypes DEF AtHand, BulkType, Txn
<1>3. ASSUME NEW q \in Procs, NEW i \in AtHand(txn'[q]) PROVE item'[i] # "none"
  <2>1. CASE q = p
    <3>1. i \in AtHand(txn[p]) \/ (i \in Items /\ item[i] = "pending")
      BY <1>3, <2>1 DEF Reach
    <3>2. i \in Items /\ item[i] # "none"
      BY <3>1, <1>2 DEF Uploaded
    <3>. QED
      BY <3>2
  <2>2. CASE q # p
    <3>1. i \in AtHand(txn[q])
      BY <1>3, <2>2, Went
    <3>. QED
      BY <3>1, <1>2 DEF Uploaded
  <2>. QED
    BY <2>1, <2>2
<1>4. \A i \in Items : job'[JobOf[i]] = "none" => item'[i] = "none"
  BY <1>1 DEF Uploaded
<1>. QED
  BY <1>3, <1>4 DEF Uploaded, AtHand

-----------------------------------------------------------------------------
(* Accounts.                                                               *)

LEMMA MineOf ==
    ASSUME BulkType, NEW p \in Procs, NEW t \in Txn, Goto(p, t)
    PROVE  /\ Held(p)' = t.mine
           /\ Sure(p)' = t.mine \ (IF t.mine = {} THEN {} ELSE {Max(t.mine)})
           /\ \A q \in Procs \ {p} : Held(q)' = Held(q) /\ Sure(q)' = Sure(q)
           /\ \A q \in Procs : Held(q) \in SUBSET Items /\ Sure(q) \subseteq Held(q)
BY Went DEF Held, Sure, Latest, BulkType, Txn

(* A step that makes no account, and at most gives some up.                *)
LEMMA CalmKeeps ==
    ASSUME BulkType, AccountsInv, NEW p \in Procs, NEW t \in Txn, Goto(p, t),
           UNCHANGED <<owner, rolls>>, t.mine = {} \/ t.mine = txn[p].mine,
           \A i \in Items : item'[i] # item[i] =>
             item[i] \in {"none", "failed"} /\ item'[i] = "pending",
           t.op = "run" /\ t.stage = "flush" =>
              EmailOf[Min(t.todo)] \notin {EmailOf[i] : i \in t.mine}
    PROVE  AccountsInv'
<1>1. \A q \in Procs : (Held(q)' \subseteq Held(q)) /\ (Sure(q)' \subseteq Sure(q))
  BY MineOf DEF Held, Sure, Latest
<1>2. ASSUME NEW q \in Procs, txn'[q].op = "run", txn'[q].stage = "flush"
      PROVE  EmailOf[First(q)'] \notin HeldEmails(q)'
  <2>1. CASE q = p
    BY <1>2, <2>1, Went DEF First, HeldEmails
  <2>2. CASE q # p
    BY <1>2, <2>2, Went DEF First, HeldEmails, AccountsInv
  <2>. QED
    BY <2>1, <2>2
<1>3. AccountsMatchRows'
  <2>1. \A i \in Items : item'[i] = "success" => item[i] = "success"
    OBVIOUS
  <2>2. \A i \in Items : item[i] \in {"success", "skipped"} => item'[i] = item[i]
    OBVIOUS
  <2>. QED
    BY <2>1, <2>2 DEF AccountsInv, AccountsMatchRows
<1>. QED
  BY <1>1, <1>2, <1>3 DEF AccountsInv

(* A roll number is claimed when its student row is inserted.              *)
Settles(p) ==
    \A i \in Latest(p) : RollOf[i] # NoRoll =>
        rolls[RollOf[i]] = None /\ \A q \in Procs : RollOf[i] \notin HeldRolls(q)

LEMMA NoClash ==
    ASSUME BulkType, NEW p \in Procs, ~RollClash(p),
           \A q \in Procs \ {p} : RollsToInsert(p) \cap HeldRolls(q) = {}
    PROVE  Settles(p)
<1> SUFFICES ASSUME NEW i \in Latest(p), RollOf[i] # NoRoll
             PROVE  /\ rolls[RollOf[i]] = None
                    /\ \A q \in Procs : RollOf[i] \notin HeldRolls(q)
  BY DEF Settles
<1>1. RollOf[i] \in RollsToInsert(p)
  BY DEF RollsToInsert
<1>2. ~RollTaken(RollOf[i]) /\ RollOf[i] \notin HeldRolls(p)
  BY <1>1 DEF RollClash, RollSeen
<1>. QED
  BY <1>1, <1>2 DEF RollTaken

LEMMA SureRolls ==
    ASSUME NEW q, NEW k \in Sure(q), RollOf[k] # NoRoll
    PROVE  RollOf[k] \in HeldRolls(q)
BY DEF Sure, HeldRolls

(* The step that inserts an account.                                       *)
LEMMA FlushKeeps ==
    ASSUME BulkType, AccountsInv, NEW p \in Procs, NEW t \in Txn, Goto(p, t),
           UNCHANGED <<item, owner, rolls>>, NEW f \in Items, t.mine = Held(p) \cup {f},
           \A k \in Held(p) : k < f, t.stage # "flush", owner[EmailOf[f]] = None,
           \A q \in Procs : EmailOf[f] \notin HeldEmails(q), Settles(p)
    PROVE  AccountsInv'
<1>1. /\ Held(p)' = Held(p) \cup {f}
      /\ \A q \in Procs \ {p} : Held(q)' = Held(q) /\ Sure(q)' = Sure(q)
      /\ Held(p) \in SUBSET Items /\ f \in Held(p)'
      /\ \A q \in Procs : Held(q) \in SUBSET Items /\ Sure(q) \subseteq Held(q)
  BY MineOf
<1>2. Sure(p)' \subseteq Sure(p) \cup Latest(p)
  <2>1. Items \subseteq Nat
    BY BulkAssumptions
  <2>2. \A k \in t.mine : k <= f
    <3>1. \A k \in Held(p) : k < f /\ k \in Nat /\ f \in Nat
      BY <1>1, <2>1
    <3>2. \A k \in Held(p) : k <= f
      BY <3>1
    <3>3. f <= f
      BY <2>1
    <3>. QED
      BY <3>2, <3>3
  <2>3. t.mine \in SUBSET Items /\ f \in t.mine
    BY <1>1
  <2>4. Max(t.mine) = f
    BY <2>2, <2>3, LastRow
  <2>5. Sure(p)' = t.mine \ {f}
    BY <2>3, <2>4, MineOf
  <2>. QED
    BY <2>5 DEF Sure, Held
<1>3. \A q \in Procs : \A k \in Held(q) : EmailOf[k] # EmailOf[f]
  BY DEF HeldEmails, Held
<1>4. \A q \in Procs : \A i \in Held(q)' : owner[EmailOf[i]] = None
  BY <1>1 DEF AccountsInv
<1>5. \A q \in Procs : \A i \in Sure(q)' : RollOf[i] # NoRoll => rolls[RollOf[i]] = None
  BY <1>1, <1>2 DEF AccountsInv, Settles
<1>6. ASSUME NEW q \in Procs, NEW r \in Procs, NEW i \in Held(q)', NEW k \in Held(r)',
             EmailOf[i] = EmailOf[k]
      PROVE  i = k /\ q = r
  <2>1. \A s \in Procs : \A x \in Held(s)' : x \in Held(s) \/ (x = f /\ s = p)
    BY <1>1
  <2>. QED
    BY <1>3, <1>6, <2>1 DEF AccountsInv
<1>7. ASSUME NEW q \in Procs, NEW r \in Procs, NEW i \in Sure(q)', NEW k \in Sure(r)',
             RollOf[i] = RollOf[k], RollOf[i] # NoRoll
      PROVE  i = k /\ q = r
  <2>1. \A s \in Procs : \A x \in Sure(s)' : x \in Sure(s) \/ (x \in Latest(p) /\ s = p)
    BY <1>1, <1>2
  <2>2. \A s \in Procs : \A x \in Sure(s), y \in Latest(p) :
           RollOf[y] # NoRoll => RollOf[x] # RollOf[y]
    BY SureRolls DEF Settles
  <2>3. \A x, y \in Latest(p) : x = y
    BY DEF Latest
  <2>. QED
    BY <1>7, <2>1, <2>2, <2>3 DEF AccountsInv
<1>8. ASSUME NEW q \in Procs, txn'[q].op = "run", txn'[q].stage = "flush"
      PROVE  EmailOf[First(q)'] \notin HeldEmails(q)'
  <2>1. q # p
    BY <1>8, Went
  <2>. QED
    BY <1>8, <2>1, Went DEF First, HeldEmails, AccountsInv
<1>9. AccountsMatchRows'
  BY DEF AccountsInv, AccountsMatchRows
<1>. QED
  BY <1>4, <1>5, <1>6, <1>7, <1>8, <1>9 DEF AccountsInv

(* The commit that makes accounts, and writes the verdicts on their rows.  *)
LEMMA SavedKeeps ==
    ASSUME BulkType, AccountsInv, NEW p \in Procs, NEW t \in Txn, Goto(p, t), t.mine = {},
           t.stage # "flush", NEW f \in Rulings,
           Held(p) = {i \in DOMAIN f : f[i] = "success"},
           \A i \in DOMAIN f : i \in Invalid <=> f[i] = "failed",
           item' = [i \in Items |-> IF i \in DOMAIN f THEN f[i] ELSE item[i]],
           owner' = Owned(Held(p)), rolls' = Enrolled(Held(p)), Settles(p)
    PROVE  AccountsInv'
<1>1. /\ Held(p)' = {} /\ Sure(p)' = {} /\ Held(p) \in SUBSET Items
      /\ \A q \in Procs \ {p} : Held(q)' = Held(q) /\ Sure(q)' = Sure(q)
      /\ \A q \in Procs : Held(q) \in SUBSET Items /\ Sure(q) \subseteq Held(q)
  BY MineOf
<1>2. /\ EmailOf \in [Items -> Emails] /\ RollOf \in [Items -> Rolls \cup {NoRoll}]
      /\ NoRoll \notin Rolls /\ None \notin Items /\ Other \notin Items /\ None # Other
  BY BulkAssumptions
<1>3. /\ \A i \in Held(p) : owner'[EmailOf[i]] = i
      /\ \A e \in Emails : owner'[e] = owner[e] \/ \E i \in Held(p) : e = EmailOf[i]
  <2>1. \A i, k \in Held(p) : EmailOf[i] = EmailOf[k] => i = k
    BY DEF AccountsInv
  <2>2. \A e \in Emails : owner'[e] = IF \E i \in Held(p) : EmailOf[i] = e
                                      THEN CHOOSE i \in Held(p) : EmailOf[i] = e ELSE owner[e]
    BY DEF Owned
  <2>3. ASSUME NEW i \in Held(p) PROVE owner'[EmailOf[i]] = i
    <3>1. EmailOf[i] \in Emails
      BY <1>1, <1>2
    <3>2. owner'[EmailOf[i]] = CHOOSE k \in Held(p) : EmailOf[k] = EmailOf[i]
      BY <2>2, <3>1
    <3>. QED
      BY <2>1, <3>2
  <2>. QED
    BY <2>2, <2>3
<1>4. /\ \A i \in Held(p) : RollOf[i] # NoRoll => rolls'[RollOf[i]] = i
      /\ \A r \in Rolls : rolls'[r] = rolls[r] \/ \E i \in Held(p) : r = RollOf[i]
  <2>1. \A i, k \in Held(p) : RollOf[i] = RollOf[k] /\ RollOf[i] # NoRoll => i = k
    <3>1. \A i \in Held(p) : i \in Sure(p) \/ i \in Latest(p)
      BY DEF Sure, Held
    <3>2. \A x \in Sure(p), y \in Latest(p) : RollOf[y] # NoRoll => RollOf[x] # RollOf[y]
      BY SureRolls DEF Settles
    <3>3. \A x, y \in Latest(p) : x = y
      BY DEF Latest
    <3>. QED
      BY <3>1, <3>2, <3>3 DEF AccountsInv
  <2>2. \A r \in Rolls : rolls'[r] = IF \E i \in Held(p) : RollOf[i] = r
                                     THEN CHOOSE i \in Held(p) : RollOf[i] = r ELSE rolls[r]
    BY DEF Enrolled
  <2>3. ASSUME NEW i \in Held(p), RollOf[i] # NoRoll PROVE rolls'[RollOf[i]] = i
    <3>1. RollOf[i] \in Rolls
      BY <2>3, <1>1, <1>2
    <3>2. rolls'[RollOf[i]] = CHOOSE k \in Held(p) : RollOf[k] = RollOf[i]
      BY <2>2, <3>1
    <3>. QED
      BY <2>1, <2>3, <3>2
  <2>. QED
    BY <2>2, <2>3
<1>5. /\ \A i \in Held(p) : owner[EmailOf[i]] = None
      /\ \A i \in Held(p) : RollOf[i] # NoRoll => rolls[RollOf[i]] = None
  <2>1. \A i \in Held(p) : i \in Sure(p) \/ i \in Latest(p)
    BY DEF Sure, Held
  <2>. QED
    BY <2>1 DEF AccountsInv, Settles
<1>6. \A i \in Items : item'[i] = IF i \in DOMAIN f THEN f[i] ELSE item[i]
  OBVIOUS
<1>7. \A i \in DOMAIN f : i \in Items /\ f[i] \in Verdicts
  BY RulingTypes
<1>8. ASSUME NEW i \in Items, item'[i] = "success"
      PROVE  owner'[EmailOf[i]] = i /\ (RollOf[i] # NoRoll => rolls'[RollOf[i]] = i)
  <2>1. CASE i \in Held(p)
    BY <2>1, <1>3, <1>4
  <2>2. CASE i \notin Held(p)
    <3>1. item[i] = "success"
      BY <2>2, <1>6, <1>8
    <3>2. owner[EmailOf[i]] = i /\ (RollOf[i] # NoRoll => rolls[RollOf[i]] = i)
      BY <3>1 DEF AccountsInv, AccountsMatchRows
    <3>3. EmailOf[i] \in Emails /\ (RollOf[i] # NoRoll => RollOf[i] \in Rolls) /\ i # None
      BY <1>2
    <3>. QED
      BY <3>2, <3>3, <1>3, <1>4, <1>5
  <2>. QED
    BY <2>1, <2>2
<1>9. ASSUME NEW e \in Emails, owner'[e] \in Items
      PROVE  /\ item'[owner'[e]] \in {"success", "skipped"}
             /\ EmailOf[owner'[e]] = e /\ owner'[e] \notin Invalid
  <2>1. CASE \E i \in Held(p) : e = EmailOf[i]
    <3>1. PICK i \in Held(p) : e = EmailOf[i]
      BY <2>1
    <3>2. owner'[e] = i /\ f[i] = "success" /\ i \in DOMAIN f /\ i \in Items
      BY <3>1, <1>1, <1>3
    <3>. QED
      BY <3>1, <3>2, <1>6
  <2>2. CASE owner'[e] = owner[e]
    <3>1. PICK i \in Items : i = owner[e] /\ i = owner'[e]
      BY <2>2, <1>9
    <3>2. item[i] \in {"success", "skipped"} /\ EmailOf[i] = e /\ i \notin Invalid
      <4>1. owner[e] \in Items
        BY <3>1
      <4>2. item[owner[e]] \in {"success", "skipped"}
        BY <4>1 DEF AccountsInv, AccountsMatchRows
      <4>3. EmailOf[owner[e]] = e /\ owner[e] \notin Invalid
        BY <4>1 DEF AccountsInv
      <4>. QED
        BY <3>1, <4>2, <4>3
    <3>3. i \in DOMAIN f => f[i] \in {"success", "skipped"}
      BY <3>2, <1>7 DEF Verdicts
    <3>. QED
      BY <3>1, <3>2, <3>3, <1>6
  <2>. QED
    BY <2>1, <2>2, <1>3
<1>10. AccountsMatchRows'
  BY <1>8, <1>9 DEF AccountsMatchRows
<1>11. ASSUME NEW q \in Procs, NEW i \in Held(q)' PROVE owner'[EmailOf[i]] = None
  <2>1. q # p /\ i \in Held(q) /\ i \in Items
    BY <1>1, <1>11
  <2>2. owner[EmailOf[i]] = None /\ EmailOf[i] \in Emails
    BY <2>1, <1>2 DEF AccountsInv
  <2>3. \A k \in Held(p) : EmailOf[k] # EmailOf[i]
    BY <2>1 DEF AccountsInv
  <2>. QED
    BY <2>2, <2>3, <1>3
<1>12. ASSUME NEW q \in Procs, NEW i \in Sure(q)', RollOf[i] # NoRoll PROVE rolls'[RollOf[i]] = None
  <2>1. q # p /\ i \in Sure(q) /\ i \in Items
    BY <1>1, <1>12
  <2>2. rolls[RollOf[i]] = None /\ RollOf[i] \in Rolls
    BY <2>1, <1>2, <1>12 DEF AccountsInv
  <2>3. ASSUME NEW k \in Held(p) PROVE RollOf[k] # RollOf[i]
    <3>1. CASE k \in Sure(p)
      BY <3>1, <2>1, <1>12 DEF AccountsInv
    <3>2. CASE k \in Latest(p)
      BY <3>2, <2>1, <1>12, SureRolls DEF Settles
    <3>. QED
      BY <3>1, <3>2 DEF Sure, Held
  <2>. QED
    BY <2>2, <2>3, <1>4
<1>13. ASSUME NEW q \in Procs, txn'[q].op = "run", txn'[q].stage = "flush"
       PROVE  EmailOf[First(q)'] \notin HeldEmails(q)'
  <2>1. q # p
    BY <1>13, Went
  <2>. QED
    BY <1>13, <2>1, Went DEF First, HeldEmails, AccountsInv
<1>14. /\ \A q, r \in Procs : \A i \in Held(q)', k \in Held(r)' :
             EmailOf[i] = EmailOf[k] => i = k /\ q = r
       /\ \A q, r \in Procs : \A i \in Sure(q)', k \in Sure(r)' :
             RollOf[i] = RollOf[k] /\ RollOf[i] # NoRoll => i = k /\ q = r
  <2>1. \A q \in Procs : (Held(q)' \subseteq Held(q)) /\ (Sure(q)' \subseteq Sure(q))
    BY <1>1
  <2>. QED
    BY <2>1 DEF AccountsInv
<1>. QED
  BY <1>9, <1>10, <1>11, <1>12, <1>13, <1>14 DEF AccountsInv

-----------------------------------------------------------------------------
(* Every step keeps the invariant.                                         *)

JobStates == {"none", "pending", "processing", "done", "failed"}

LEMMA JudgedSteps ==
    ASSUME BulkInv, NEW p \in Procs, NEW t \in Txn, Goto(p, t), Judged(t)
    PROVE  \A q \in Procs : txn'[q] \in Txn /\ Judged(txn'[q])
<1> SUFFICES ASSUME NEW q \in Procs PROVE txn'[q] \in Txn /\ Judged(txn'[q])
  OBVIOUS
<1>1. CASE q = p
  BY <1>1, Went DEF BulkInv
<1>2. CASE q # p
  BY <1>2, Went DEF BulkInv, BulkType
<1>. QED
  BY <1>1, <1>2

LEMMA HandlerKeeps ==
    ASSUME BulkInv, NEW p \in Procs, NEW t \in Txn, Goto(p, t), Judged(t), AccountsInv', Uploaded',
           job' \in [Jobs -> JobStates], item' \in [Items -> {"none", "pending"} \cup Verdicts],
           owner' \in [Emails -> Items \cup {None, Other}],
           rolls' \in [Rolls -> Items \cup {None, Other}]
    PROVE  BulkInv'
<1>1. \A q \in Procs : Judged(txn'[q])
  BY JudgedSteps
<1>2. txn' \in [Procs -> Txn]
  BY Went DEF BulkInv
<1>3. BulkType'
  BY <1>2 DEF BulkType, JobStates
<1>. QED
  BY <1>1, <1>3 DEF BulkInv

(* A step that leaves rows and accounts as they are.                       *)
LEMMA CalmSteps ==
    ASSUME BulkInv, NEW p \in Procs, NEW t \in Txn, Goto(p, t), Judged(t),
           t.mine = {} \/ t.mine = txn[p].mine, job' \in [Jobs -> JobStates],
           AtHand(txn'[p]) \subseteq Reach(p), \A j \in Jobs : job[j] # "none" => job'[j] # "none",
           t.op = "run" /\ t.stage = "flush" =>
              EmailOf[Min(t.todo)] \notin {EmailOf[i] : i \in t.mine},
           UNCHANGED <<item, owner, rolls>>
    PROVE  BulkInv'
<1>1. AccountsInv'
  <2>1. \A i \in Items : item'[i] = item[i]
    OBVIOUS
  <2>. QED
    BY <2>1, CalmKeeps DEF BulkInv
<1>2. Uploaded'
  BY UploadedKeeps DEF BulkInv, BulkType
<1>. QED
  BY <1>1, <1>2, HandlerKeeps DEF BulkInv, BulkType

LEMMA OpenSteps == ASSUME BulkInv, NEW p \in Procs, TaskOpen(p) PROVE BulkInv'
<1>1. PICK t \in Txn : Goto(p, t) /\ Judged(t) /\ t.mine = {} /\ t.stage # "flush"
  BY OpenGoes DEF BulkInv
<1>. QED
  BY <1>1, HandsGo, CalmSteps DEF TaskOpen, Task, BulkInv, BulkType, JobStates

LEMMA MarkSteps == ASSUME BulkInv, NEW p \in Procs, TaskMark(p) PROVE BulkInv'
<1>1. PICK t \in Txn : Goto(p, t) /\ Judged(t) /\ t.mine = {} /\ t.stage # "flush"
  BY MarkGoes DEF BulkInv
<1>2. /\ job' \in [Jobs -> JobStates] /\ UNCHANGED <<item, owner, rolls>>
      /\ \A j \in Jobs : job[j] # "none" => job'[j] # "none"
  BY DEF TaskMark, BulkInv, BulkType, JobStates
<1>3. AtHand(txn'[p]) \subseteq Reach(p)
  BY HandsGo DEF Task, BulkInv
<1>. QED
  BY <1>1, <1>2, <1>3, CalmSteps

LEMMA LoadSteps == ASSUME BulkInv, NEW p \in Procs, TaskLoad(p) PROVE BulkInv'
<1>1. PICK t \in Txn : Goto(p, t) /\ Judged(t) /\ t.mine = {} /\ t.stage # "flush"
  BY LoadGoes DEF BulkInv
<1>. QED
  BY <1>1, HandsGo, CalmSteps DEF TaskLoad, Task, BulkInv, BulkType, JobStates

LEMMA CheckSteps == ASSUME BulkInv, NEW p \in Procs, TaskCheck(p) PROVE BulkInv'
<1>1. PICK t \in Txn : Goto(p, t) /\ Judged(t) /\ t.mine = {} /\ t.op = "task"
  BY CheckGoes DEF BulkInv
<1>. QED
  BY <1>1, HandsGo, CalmSteps DEF TaskCheck, Task, BulkInv, BulkType, JobStates

LEMMA CountSteps == ASSUME BulkInv, NEW p \in Procs, TaskCount(p) PROVE BulkInv'
<1>1. PICK t \in Txn : Goto(p, t) /\ Judged(t) /\ t.mine = {} /\ t.stage # "flush"
  BY CountGoes DEF BulkInv
<1>. QED
  BY <1>1, HandsGo, CalmSteps DEF TaskCount, Task, BulkInv, BulkType, JobStates

LEMMA FinishSteps == ASSUME BulkInv, NEW p \in Procs, TaskFinish(p) PROVE BulkInv'
<1>1. Goto(p, Idle) /\ UNCHANGED <<item, owner, rolls>>
  BY DEF TaskFinish
<1>2. txn[p].goal \in JobStates \ {"none"}
  <2>1. txn[p] \in Txn /\ txn[p].op = "task" /\ txn[p].stage = "finish" /\ Judged(txn[p])
    BY DEF TaskFinish, At, BulkInv, BulkType
  <2>. QED
    BY <2>1 DEF Txn, Judged, JobStates
<1>3. /\ job' \in [Jobs -> JobStates]
      /\ \A j \in Jobs : job[j] # "none" => job'[j] # "none"
  BY <1>2 DEF TaskFinish, BulkInv, BulkType, JobStates
<1>4. AtHand(txn'[p]) \subseteq Reach(p)
  BY HandsGo DEF Task, BulkInv
<1>. QED
  BY <1>1, <1>3, <1>4, IdleTypes, CalmSteps

LEMMA VictimSteps == ASSUME BulkInv, NEW p \in Procs, Victim(p) PROVE BulkInv'
<1>1. PICK t \in Txn : Goto(p, t) /\ Judged(t) /\ t.mine = {} /\ t.stage # "flush"
  BY VictimGoes, IdleTypes DEF BulkInv
<1>. QED
  BY <1>1, HandsGo, CalmSteps DEF Victim, BulkInv, BulkType, JobStates

LEMMA RunLoadSteps == ASSUME BulkInv, NEW p \in Procs, RunLoad(p) PROVE BulkInv'
<1>1. PICK t \in Txn : Goto(p, t) /\ Judged(t) /\ t.mine = {} /\ t.stage # "flush"
  BY RunLoadGoes DEF BulkInv
<1>. QED
  BY <1>1, HandsGo, CalmSteps DEF RunLoad, BulkInv, BulkType, JobStates

LEMMA RunCheckSteps == ASSUME BulkInv, NEW p \in Procs, RunCheck(p) PROVE BulkInv'
<1>1. PICK t \in Txn :
         /\ Goto(p, t) /\ Judged(t) /\ t.mine = txn[p].mine
         /\ t.stage = "flush" => /\ Min(t.todo) = First(p)
                                 /\ EmailOf[First(p)] \notin HeldEmails(p)
  BY RunCheckGoes DEF BulkInv
<1>2. t.stage = "flush" => EmailOf[Min(t.todo)] \notin {EmailOf[i] : i \in t.mine}
  BY <1>1 DEF HeldEmails
<1>. QED
  BY <1>1, <1>2, HandsGo, CalmSteps DEF RunCheck, Run, BulkInv, BulkType, JobStates

LEMMA RunCountSteps == ASSUME BulkInv, NEW p \in Procs, RunCount(p) PROVE BulkInv'
<1>1. PICK t \in Txn : Goto(p, t) /\ Judged(t) /\ t.mine = txn[p].mine /\ t.stage = "commit"
  BY RunCountGoes DEF BulkInv
<1>. QED
  BY <1>1, HandsGo, CalmSteps DEF RunCount, Run, BulkInv, BulkType, JobStates

LEMMA CloseSteps == ASSUME BulkInv, NEW p \in Procs, RunClose(p) PROVE BulkInv'
<1>1. Goto(p, Idle) /\ UNCHANGED <<item, owner, rolls>>
  BY DEF RunClose
<1>2. /\ job' \in [Jobs -> JobStates]
      /\ \A j \in Jobs : job[j] # "none" => job'[j] # "none"
  BY DEF RunClose, BulkInv, BulkType, JobStates
<1>3. AtHand(txn'[p]) \subseteq Reach(p)
  BY HandsGo DEF Run, BulkInv
<1>. QED
  BY <1>1, <1>2, <1>3, IdleTypes, CalmSteps

LEMMA ResumeSteps ==
    ASSUME BulkInv, NEW p \in Procs, NEW j \in Jobs, ResumeLoad(p, j) PROVE BulkInv'
<1>1. PICK t \in Txn : Goto(p, t) /\ Judged(t) /\ t.mine = {} /\ t.stage # "flush"
  BY ResumeGoes DEF BulkInv
<1>. QED
  BY <1>1, HandsGo, CalmSteps DEF ResumeLoad, BulkInv, BulkType, JobStates

LEMMA ResumeCommitSteps == ASSUME BulkInv, NEW p \in Procs, ResumeCommit(p) PROVE BulkInv'
<1>1. PICK t \in Txn : Goto(p, t) /\ Judged(t) /\ t.mine = {} /\ t.stage # "flush"
  BY ResumeCommitGoes, IdleTypes DEF BulkInv
<1>2. txn[p].goal \in JobStates \ {"none"}
  <2>1. txn[p] \in Txn /\ txn[p].op = "resume" /\ txn[p].stage = "finish" /\ Judged(txn[p])
    BY DEF ResumeCommit, At, BulkInv, BulkType
  <2>. QED
    BY <2>1 DEF Txn, Judged, JobStates
<1>3. /\ job' \in [Jobs -> JobStates] /\ UNCHANGED <<item, owner, rolls>>
      /\ \A j \in Jobs : job[j] # "none" => job'[j] # "none"
  BY <1>2 DEF ResumeCommit, BulkInv, BulkType, JobStates
<1>4. AtHand(txn'[p]) \subseteq Reach(p)
  BY HandsGo DEF BulkInv
<1>. QED
  BY <1>1, <1>3, <1>4, CalmSteps

(* The steps that make accounts.                                           *)

LEMMA FlushSteps == ASSUME BulkInv, NEW p \in Procs, TaskFlush(p) PROVE BulkInv'
<1>1. PICK t \in Txn :
         /\ Goto(p, t) /\ Judged(t) /\ t.stage # "flush"
         /\ t.mine = {} \/ (~EmailTaken(EmailOf[First(p)]) /\ t.mine = {First(p)})
  BY FlushGoes DEF BulkInv
<1>2. AtHand(txn'[p]) \subseteq Reach(p) /\ UNCHANGED <<job, item, owner, rolls>>
  BY HandsGo DEF Task, TaskFlush, BulkInv
<1>3. Held(p) = {} /\ First(p) \in Items
  BY AtRow DEF TaskFlush, At, BulkInv, Judged, Held
<1>4. CASE t.mine = {}
  BY <1>1, <1>2, <1>4, CalmSteps DEF BulkInv, BulkType, JobStates
<1>5. CASE t.mine # {}
  <2>1. \A q \in Procs : EmailOf[First(p)] \notin HeldEmails(q)
    BY <1>3 DEF TaskFlush, At, Unblocked, WaitsFor, HeldEmails, Held
  <2>2. owner[EmailOf[First(p)]] = None /\ t.mine = Held(p) \cup {First(p)}
    BY <1>1, <1>3, <1>5 DEF EmailTaken
  <2>3. Settles(p)
    BY <1>3 DEF Settles, Latest, Held
  <2>4. PICK f \in Items : f = First(p)
    BY <1>3
  <2>5. AccountsInv'
    BY <1>1, <1>2, <1>3, <2>1, <2>2, <2>3, <2>4, FlushKeeps DEF BulkInv
  <2>6. Uploaded'
    BY <1>1, <1>2, UploadedKeeps DEF BulkInv, BulkType
  <2>. QED
    BY <1>1, <1>2, <2>5, <2>6, HandlerKeeps DEF BulkInv, BulkType, JobStates
<1>. QED
  BY <1>4, <1>5

LEMMA RunFlushSteps == ASSUME BulkInv, NEW p \in Procs, RunFlush(p) PROVE BulkInv'
<1>1. PICK t \in Txn :
         /\ Goto(p, t) /\ Judged(t) /\ t.stage # "flush"
         /\ \/ t = Idle
            \/ /\ ~Doomed(p) /\ t.mine = txn[p].mine \cup {First(p)}
               /\ \A k \in txn[p].mine : k < First(p)
  BY RunFlushGoes DEF BulkInv
<1>2. AtHand(txn'[p]) \subseteq Reach(p) /\ UNCHANGED <<job, item, owner, rolls>>
  BY HandsGo DEF Run, RunFlush, BulkInv
<1>3. First(p) \in Items
  BY AtRow DEF RunFlush, At, BulkInv
<1>4. CASE t = Idle
  BY <1>1, <1>2, <1>4, IdleTypes, CalmSteps DEF BulkInv, BulkType, JobStates
<1>5. CASE t # Idle
  <2>1. \A q \in Procs : EmailOf[First(p)] \notin HeldEmails(q)
    <3>1. EmailOf[First(p)] \notin HeldEmails(p)
      BY DEF RunFlush, At, BulkInv, AccountsInv
    <3>. QED
      BY <3>1 DEF RunFlush, At, Unblocked, WaitsFor
  <2>2. owner[EmailOf[First(p)]] = None /\ ~RollClash(p)
    BY <1>1, <1>5 DEF RunFlush, At, Doomed, EmailTaken
  <2>3. Settles(p)
    <3>1. \A q \in Procs \ {p} : RollsToInsert(p) \cap HeldRolls(q) = {}
      BY DEF RunFlush, At, Unblocked, WaitsFor
    <3>. QED
      BY <2>2, <3>1, NoClash DEF BulkInv
  <2>4. PICK f \in Items : f = First(p)
    BY <1>3
  <2>5. t.mine = Held(p) \cup {f} /\ \A k \in Held(p) : k < f
    BY <1>1, <1>5, <2>4 DEF Held
  <2>6. AccountsInv'
    BY <1>1, <1>2, <2>1, <2>2, <2>3, <2>4, <2>5, FlushKeeps DEF BulkInv
  <2>7. Uploaded'
    BY <1>1, <1>2, UploadedKeeps DEF BulkInv, BulkType
  <2>. QED
    BY <1>1, <1>2, <2>6, <2>7, HandlerKeeps DEF BulkInv, BulkType, JobStates
<1>. QED
  BY <1>4, <1>5

LEMMA Rewritten ==
    ASSUME BulkType, NEW f \in Rulings,
           item' = [i \in Items |-> IF i \in DOMAIN f THEN f[i] ELSE item[i]]
    PROVE  /\ item' \in [Items -> {"none", "pending"} \cup Verdicts]
           /\ \A i \in Items : item[i] # "none" => item'[i] # "none"
           /\ \A i \in Items : i \notin DOMAIN f => item'[i] = item[i]
<1>1. \A i \in DOMAIN f : i \in Items /\ f[i] \in Verdicts
  BY RulingTypes
<1>2. \A i \in Items : item[i] \in {"none", "pending"} \cup Verdicts
  BY DEF BulkType
<1>. QED
  BY <1>1, <1>2 DEF Verdicts

LEMMA AccountTypes ==
    ASSUME BulkType, NEW p \in Procs, owner' = Owned(Held(p)), rolls' = Enrolled(Held(p))
    PROVE  /\ owner' \in [Emails -> Items \cup {None, Other}]
           /\ rolls' \in [Rolls -> Items \cup {None, Other}]
<1>1. Held(p) \subseteq Items
  BY DEF Held, BulkType, Txn
<1>2. ASSUME NEW e \in Emails PROVE owner'[e] \in Items \cup {None, Other}
  BY <1>1 DEF Owned, BulkType
<1>3. ASSUME NEW r \in Rolls PROVE rolls'[r] \in Items \cup {None, Other}
  BY <1>1 DEF Enrolled, BulkType
<1>. QED
  BY <1>2, <1>3 DEF Owned, Enrolled

(* What a commit of rows writes.                                           *)

Writes(p, f) ==
    /\ f = txn[p].verdict
    /\ Held(p) = {i \in DOMAIN f : f[i] = "success"}
    /\ \A i \in DOMAIN f : i \in Items /\ item[i] # "none" /\ (i \in Invalid <=> f[i] = "failed")
    /\ item' = [i \in Items |-> IF i \in DOMAIN f THEN f[i] ELSE item[i]]
    /\ owner' = Owned(Held(p)) /\ rolls' = Enrolled(Held(p))
    /\ Settles(p)

LEMMA SaveWrites ==
    ASSUME BulkInv, NEW p \in Procs, TaskSave(p), ~RollClash(p)
    PROVE  Writes(p, txn[p].verdict)
<1>1. /\ txn[p] \in Txn /\ txn[p].op = "task" /\ txn[p].stage = "save" /\ Judged(txn[p])
  BY DEF TaskSave, At, BulkInv, BulkType
<1>2. /\ DOMAIN txn[p].verdict = {First(p)} /\ First(p) \in Items /\ First(p) \in txn[p].todo
      /\ Held(p) = {k \in DOMAIN txn[p].verdict : txn[p].verdict[k] = "success"}
      /\ \A k \in DOMAIN txn[p].verdict : k \in Invalid <=> txn[p].verdict[k] = "failed"
  BY <1>1, AtRow DEF Judged, Held, BulkInv
<1>3. item[First(p)] # "none"
  BY <1>2 DEF BulkInv, Uploaded, AtHand
<1>4. item' = [i \in Items |-> IF i \in DOMAIN txn[p].verdict THEN txn[p].verdict[i] ELSE item[i]]
  <2>1. item' = [item EXCEPT ![First(p)] = txn[p].verdict[First(p)]] /\ DOMAIN item = Items
    BY DEF TaskSave, BulkInv, BulkType
  <2>. QED
    BY <1>2, <2>1
<1>5. Settles(p)
  <2>1. \A q \in Procs \ {p} : RollsToInsert(p) \cap HeldRolls(q) = {}
    BY DEF TaskSave, At, Unblocked, WaitsFor
  <2>. QED
    BY <2>1, NoClash DEF BulkInv
<1>. QED
  BY <1>2, <1>3, <1>4, <1>5 DEF Writes, TaskSave, Held

LEMMA RunWrites ==
    ASSUME BulkInv, NEW p \in Procs, RunCommit(p), ~Doomed(p)
    PROVE  Writes(p, txn[p].verdict)
<1>1. /\ txn[p] \in Txn /\ txn[p].op = "run" /\ txn[p].stage = "commit" /\ Judged(txn[p])
  BY DEF RunCommit, At, BulkInv, BulkType
<1>2. /\ DOMAIN txn[p].verdict \subseteq Items
      /\ Held(p) = {k \in DOMAIN txn[p].verdict : txn[p].verdict[k] = "success"}
      /\ \A k \in DOMAIN txn[p].verdict : k \in Invalid <=> txn[p].verdict[k] = "failed"
  BY <1>1, RulingTypes DEF Judged, Held, Txn
<1>3. \A k \in DOMAIN txn[p].verdict : item[k] # "none"
  BY DEF BulkInv, Uploaded, AtHand
<1>4. Settles(p)
  <2>1. \A q \in Procs \ {p} : RollsToInsert(p) \cap HeldRolls(q) = {}
    BY <1>1 DEF RunCommit, Unblocked, WaitsFor
  <2>2. ~RollClash(p)
    BY <1>1 DEF Doomed
  <2>. QED
    BY <2>1, <2>2, NoClash DEF BulkInv
<1>. QED
  BY <1>2, <1>3, <1>4 DEF Writes, RunCommit, Held

LEMMA WritesKeep ==
    ASSUME BulkInv, NEW p \in Procs, NEW t \in Txn, Goto(p, t), Judged(t), t.mine = {},
           t.stage # "flush", Writes(p, txn[p].verdict), AtHand(txn'[p]) \subseteq Reach(p),
           job' \in [Jobs -> JobStates], \A j \in Jobs : job[j] # "none" => job'[j] # "none"
    PROVE  BulkInv'
<1>. DEFINE f == txn[p].verdict
<1>1. f \in Rulings
  BY DEF BulkInv, BulkType, Txn
<1>2. AccountsInv'
  BY <1>1, SavedKeeps DEF BulkInv, Writes
<1>3. /\ item' \in [Items -> {"none", "pending"} \cup Verdicts]
      /\ \A k \in Items : item[k] # "none" => item'[k] # "none"
      /\ \A k \in Items : k \notin DOMAIN f => item'[k] = item[k]
  BY <1>1, Rewritten DEF BulkInv, Writes
<1>4. Uploaded'
  BY <1>3, UploadedKeeps DEF BulkInv, Writes
<1>. QED
  BY <1>2, <1>3, <1>4, AccountTypes, HandlerKeeps DEF BulkInv, Writes

LEMMA SaveSteps == ASSUME BulkInv, NEW p \in Procs, TaskSave(p) PROVE BulkInv'
<1>1. PICK t \in Txn : Goto(p, t) /\ Judged(t) /\ t.mine = {} /\ t.stage # "flush"
  BY SaveGoes DEF BulkInv
<1>2. AtHand(txn'[p]) \subseteq Reach(p) /\ UNCHANGED job
  BY HandsGo DEF Task, TaskSave, BulkInv
<1>3. CASE RollClash(p)
  BY <1>1, <1>2, <1>3, CalmSteps DEF TaskSave, BulkInv, BulkType, JobStates
<1>4. CASE ~RollClash(p)
  BY <1>1, <1>2, <1>4, SaveWrites, WritesKeep DEF BulkInv, BulkType, JobStates
<1>. QED
  BY <1>3, <1>4

LEMMA CommitSteps == ASSUME BulkInv, NEW p \in Procs, RunCommit(p) PROVE BulkInv'
<1>1. PICK t \in Txn : Goto(p, t) /\ Judged(t) /\ t.mine = {} /\ t.stage # "flush"
  BY RunCommitGoes, IdleTypes DEF BulkInv
<1>2. AtHand(txn'[p]) \subseteq Reach(p)
  BY HandsGo DEF Run, BulkInv
<1>3. CASE Doomed(p)
  BY <1>1, <1>2, <1>3, CalmSteps DEF RunCommit, BulkInv, BulkType, JobStates
<1>4. CASE ~Doomed(p)
  <2>1. /\ job' \in [Jobs -> JobStates]
        /\ \A j \in Jobs : job[j] # "none" => job'[j] # "none"
    BY <1>4 DEF RunCommit, BulkInv, BulkType, JobStates
  <2>. QED
    BY <1>1, <1>2, <1>4, <2>1, RunWrites, WritesKeep
<1>. QED
  BY <1>3, <1>4

(* Uploads, retries, registrations and restarts.                           *)

LEMMA UploadSteps ==
    ASSUME BulkInv, NEW p \in Procs, NEW j \in Jobs, Upload(p, j) PROVE BulkInv'
<1>1. PICK t \in Txn : Goto(p, t) /\ Judged(t) /\ t.mine = {} /\ t.stage = "open"
  BY TaskBegins DEF Upload
<1>2. \A i \in Items : item'[i] = IF JobOf[i] = j THEN "pending" ELSE item[i]
  BY DEF Upload
<1>3. /\ item' \in [Items -> {"none", "pending"} \cup Verdicts]
      /\ job' = [job EXCEPT ![j] = "pending"] /\ job' \in [Jobs -> JobStates]
      /\ UNCHANGED <<owner, rolls>> /\ job[j] = "none"
  BY DEF Upload, BulkInv, BulkType, JobStates
<1>4. \A i \in Items : item'[i] # item[i] =>
        item[i] \in {"none", "failed"} /\ item'[i] = "pending"
  <2> SUFFICES ASSUME NEW i \in Items, item'[i] # item[i]
               PROVE  item[i] \in {"none", "failed"} /\ item'[i] = "pending"
    OBVIOUS
  <2>1. JobOf[i] = j
    BY <1>2
  <2>2. item[i] = "none"
    BY <1>3, <2>1 DEF BulkInv, Uploaded
  <2>. QED
    BY <1>2, <2>1, <2>2
<1>5. AtHand(txn'[p]) \subseteq Reach(p)
  BY HandsGo DEF BulkInv
<1>6. AccountsInv'
  BY <1>1, <1>3, <1>4, CalmKeeps DEF BulkInv
<1>7. Uploaded'
  <2>1. \A i \in Items : item[i] # "none" => item'[i] # "none"
    BY <1>2
  <2>2. \A k \in Jobs : job'[k] = IF k = j THEN "pending" ELSE job[k]
    BY <1>3 DEF BulkInv, BulkType
  <2>3. \A i \in Items : job'[JobOf[i]] = "none" /\ item[i] = "none" => item'[i] = "none"
    BY <1>2, <2>2
  <2>. QED
    BY <1>1, <1>5, <2>1, <2>2, <2>3, UploadedKeeps DEF BulkInv
<1>. QED
  BY <1>1, <1>3, <1>6, <1>7, HandlerKeeps DEF BulkInv, BulkType

LEMMA RetrySteps ==
    ASSUME BulkInv, NEW p \in Procs, NEW j \in Jobs, Retry(p, j) PROVE BulkInv'
<1>1. PICK t \in Txn : Goto(p, t) /\ Judged(t) /\ t.mine = {} /\ t.stage = "open"
  BY TaskBegins DEF Retry
<1>2. \A i \in Items :
         item'[i] = IF JobOf[i] = j /\ item[i] = "failed" THEN "pending" ELSE item[i]
  BY DEF Retry, RetryReset
<1>3. /\ item' \in [Items -> {"none", "pending"} \cup Verdicts]
      /\ job' = [job EXCEPT ![j] = "pending"] /\ job' \in [Jobs -> JobStates]
      /\ UNCHANGED <<owner, rolls>>
  BY DEF Retry, RetryReset, BulkInv, BulkType, JobStates
<1>4. \A i \in Items : item'[i] # item[i] =>
        item[i] \in {"none", "failed"} /\ item'[i] = "pending"
  <2> SUFFICES ASSUME NEW i \in Items, item'[i] # item[i]
               PROVE  item[i] \in {"none", "failed"} /\ item'[i] = "pending"
    OBVIOUS
  <2>. QED
    BY <1>2
<1>5. AtHand(txn'[p]) \subseteq Reach(p)
  BY HandsGo DEF BulkInv
<1>6. AccountsInv'
  BY <1>1, <1>3, <1>4, CalmKeeps DEF BulkInv
<1>7. Uploaded'
  <2>1. \A i \in Items : item[i] # "none" => item'[i] # "none"
    BY <1>2
  <2>2. \A k \in Jobs : job'[k] = IF k = j THEN "pending" ELSE job[k]
    BY <1>3 DEF BulkInv, BulkType
  <2>3. \A i \in Items : item[i] = "none" => item'[i] = "none"
    BY <1>2
  <2>. QED
    BY <1>1, <1>5, <2>1, <2>2, <2>3, UploadedKeeps DEF BulkInv
<1>. QED
  BY <1>1, <1>3, <1>6, <1>7, HandlerKeeps DEF BulkInv, BulkType

LEMMA RegisterSteps ==
    ASSUME BulkInv, NEW e \in Emails, NEW r \in Rolls \cup {NoRoll}, Register(e, r)
    PROVE  BulkInv'
<1>1. /\ UNCHANGED <<job, item, txn>> /\ owner[e] = None /\ (r # NoRoll => rolls[r] = None)
      /\ owner' = [owner EXCEPT ![e] = Other]
      /\ rolls' = IF r = NoRoll THEN rolls ELSE [rolls EXCEPT ![r] = Other]
      /\ \A q \in Procs : e \notin HeldEmails(q) /\ r \notin HeldRolls(q)
  BY DEF Register, EmailTaken, RollTaken
<1>2. BulkType'
  BY <1>1 DEF BulkInv, BulkType
<1>3. (\A x \in Emails : owner'[x] = IF x = e THEN Other ELSE owner[x])
      /\ \A x \in Rolls : rolls'[x] = IF x = r THEN Other ELSE rolls[x]
  <2>1. NoRoll \notin Rolls
    BY BulkAssumptions
  <2>. QED
    BY <1>1, <2>1 DEF BulkInv, BulkType
<1>4. /\ \A q \in Procs : (Held(q)' = Held(q)) /\ (Sure(q)' = Sure(q)) /\ Held(q) \subseteq Items
      /\ \A i \in Items : EmailOf[i] \in Emails /\ (RollOf[i] # NoRoll => RollOf[i] \in Rolls)
      /\ None \notin Items /\ Other \notin Items
  BY <1>1, BulkAssumptions DEF Held, Sure, Latest, BulkInv, BulkType, Txn
<1>5. AccountsMatchRows'
  <2>1. ASSUME NEW i \in Items, item[i] = "success"
        PROVE  owner'[EmailOf[i]] = i /\ (RollOf[i] # NoRoll => rolls'[RollOf[i]] = i)
    <3>1. owner[EmailOf[i]] = i /\ (RollOf[i] # NoRoll => rolls[RollOf[i]] = i)
      BY <2>1 DEF BulkInv, AccountsInv, AccountsMatchRows
    <3>2. EmailOf[i] # e /\ (RollOf[i] # NoRoll => RollOf[i] # r)
      BY <1>1, <1>4, <3>1
    <3>. QED
      BY <1>3, <1>4, <3>1, <3>2
  <2>2. \A x \in Emails : owner'[x] \in Items => owner[x] = owner'[x]
    BY <1>3, <1>4
  <2>. QED
    BY <1>1, <2>1, <2>2 DEF BulkInv, AccountsInv, AccountsMatchRows
<1>6. \A x \in Emails :
         owner'[x] \in Items => EmailOf[owner'[x]] = x /\ owner'[x] \notin Invalid
  BY <1>3, <1>4 DEF BulkInv, AccountsInv
<1>7. ASSUME NEW q \in Procs, NEW i \in Held(q) PROVE owner'[EmailOf[i]] = None
  <2>1. EmailOf[i] # e /\ EmailOf[i] \in Emails
    BY <1>1, <1>4 DEF HeldEmails, Held
  <2>. QED
    BY <1>3, <2>1 DEF BulkInv, AccountsInv
<1>8. ASSUME NEW q \in Procs, NEW i \in Sure(q), RollOf[i] # NoRoll
      PROVE  rolls'[RollOf[i]] = None
  <2>1. RollOf[i] \in HeldRolls(q) /\ i \in Items
    BY <1>4, <1>8, SureRolls DEF Sure, Held
  <2>2. RollOf[i] # r /\ RollOf[i] \in Rolls
    BY <1>1, <1>4, <1>8, <2>1
  <2>. QED
    BY <1>3, <1>8, <2>2 DEF BulkInv, AccountsInv
<1>9. \A q \in Procs : (HeldEmails(q)' = HeldEmails(q)) /\ (First(q)' = First(q))
  BY <1>1 DEF HeldEmails, First
<1>10. AccountsInv'
  BY <1>1, <1>4, <1>5, <1>6, <1>7, <1>8, <1>9 DEF BulkInv, AccountsInv
<1>11. Uploaded'
  BY <1>1 DEF BulkInv, Uploaded
<1>. QED
  BY <1>1, <1>2, <1>10, <1>11 DEF BulkInv

LEMMA AllIdle ==
    ASSUME txn = [p \in Procs |-> Idle]
    PROVE  \A p \in Procs : /\ txn[p] \in Txn /\ Judged(txn[p]) /\ Held(p) = {} /\ Sure(p) = {}
                            /\ txn[p].op = "none" /\ AtHand(txn[p]) = {}
<1>1. AtHand(Idle) = {}
  BY RulingTypes DEF AtHand, Idle, Began
<1>. QED
  BY <1>1, IdleTypes DEF Held, Sure

LEMMA CrashSteps == ASSUME BulkInv, Crash PROVE BulkInv'
<1>1. txn' = [p \in Procs |-> Idle] /\ UNCHANGED <<job, item, owner, rolls>>
  BY DEF Crash
<1>2. \A p \in Procs : txn'[p] = Idle
  BY <1>1
<1>3. Idle.mine = {} /\ AtHand(Idle) = {} /\ Idle.op = "none" /\ Idle \in Txn /\ Judged(Idle)
  BY RulingTypes, IdleTypes DEF AtHand, Idle, Began
<1>4. \A p \in Procs : Held(p)' = {} /\ Sure(p)' = {}
  BY <1>2, <1>3 DEF Held, Sure
<1>5. BulkType'
  BY <1>1, <1>3 DEF BulkInv, BulkType
<1>6. AccountsMatchRows'
  BY <1>1 DEF BulkInv, AccountsInv, AccountsMatchRows
<1>7. AccountsInv'
  BY <1>1, <1>2, <1>3, <1>4, <1>6 DEF BulkInv, AccountsInv
<1>8. Uploaded'
  BY <1>1, <1>2, <1>3 DEF BulkInv, Uploaded
<1>9. \A p \in Procs : Judged(txn'[p])
  BY <1>2, <1>3
<1>. QED
  BY <1>5, <1>7, <1>8, <1>9 DEF BulkInv

LEMMA BulkStarts == Init => BulkInv
<1> SUFFICES ASSUME Init PROVE BulkInv
  OBVIOUS
<1>1. /\ txn = [p \in Procs |-> Idle] /\ job = [j \in Jobs |-> "none"]
      /\ item = [i \in Items |-> "none"] /\ owner = [x \in Emails |-> None]
      /\ rolls = [x \in Rolls |-> None]
  BY DEF Init
<1>2. \A p \in Procs : /\ txn[p] \in Txn /\ Judged(txn[p]) /\ Held(p) = {} /\ Sure(p) = {}
                       /\ txn[p].op = "none" /\ AtHand(txn[p]) = {}
  BY <1>1, AllIdle
<1>3. BulkType
  BY <1>1, <1>2, IdleTypes DEF BulkType
<1>4. AccountsMatchRows /\ \A x \in Emails : owner[x] \notin Items
  BY <1>1, BulkAssumptions DEF AccountsMatchRows
<1>5. AccountsInv
  BY <1>2, <1>4 DEF AccountsInv
<1>6. Uploaded
  BY <1>1, <1>2 DEF Uploaded
<1>. QED
  BY <1>2, <1>3, <1>5, <1>6 DEF BulkInv

LEMMA BulkSteps == BulkInv /\ [Next]_vars => BulkInv'
<1> SUFFICES ASSUME BulkInv, [Next]_vars PROVE BulkInv'
  OBVIOUS
<1>1. ASSUME NEW p \in Procs, Task(p) PROVE BulkInv'
  BY <1>1, OpenSteps, MarkSteps, LoadSteps, CheckSteps, FlushSteps, SaveSteps, CountSteps,
     FinishSteps DEF Task
<1>2. ASSUME NEW p \in Procs, RunLoad(p) \/ Run(p) PROVE BulkInv'
  BY <1>2, RunLoadSteps, RunCheckSteps, RunFlushSteps, RunCountSteps, CommitSteps, CloseSteps
     DEF Run
<1>3. ASSUME NEW p \in Procs, ResumeCommit(p) \/ Victim(p) PROVE BulkInv'
  BY <1>3, ResumeCommitSteps, VictimSteps
<1>4. ASSUME NEW p \in Procs, NEW j \in Jobs, Upload(p, j) \/ Retry(p, j) \/ ResumeLoad(p, j)
      PROVE  BulkInv'
  BY <1>4, UploadSteps, RetrySteps, ResumeSteps
<1>5. ASSUME NEW e \in Emails, NEW r \in Rolls \cup {NoRoll}, Register(e, r) PROVE BulkInv'
  BY <1>5, RegisterSteps
<1>6. CASE Crash
  BY <1>6, CrashSteps
<1>7. CASE UNCHANGED vars
  <2>1. UNCHANGED <<job, item, owner, rolls, txn>>
    BY <1>7 DEF vars
  <2>2. BulkType' /\ Uploaded' /\ AccountsMatchRows'
    BY <2>1 DEF BulkInv, BulkType, Uploaded, AccountsInv, AccountsMatchRows
  <2>3. AccountsInv'
    BY <2>1, <2>2 DEF BulkInv, AccountsInv, Held, Sure, Latest, HeldEmails, First
  <2>. QED
    BY <2>1, <2>2, <2>3 DEF BulkInv
<1>. QED
  BY <1>1, <1>2, <1>3, <1>4, <1>5, <1>6, <1>7 DEF Next

(* A row reported as success has its own account and roll number, which no *)
(* other row or form has got, and the row of an account is never offered   *)
(* to a retry or left pending: however the handlers, tasks and             *)
(* registrations interleave, and wherever a restart cuts them off.         *)
THEOREM AccountsFollowRows == Spec => []AccountsMatchRows
<1>1. BulkInv => AccountsMatchRows
  BY DEF BulkInv, AccountsInv
<1>. QED
  BY <1>1, BulkStarts, BulkSteps, PTL DEF Spec

(* Rows, jobs and transactions keep their form.                            *)
THEOREM BulkTypes == Spec => []BulkType
<1>1. BulkInv => BulkType
  BY DEF BulkInv
<1>. QED
  BY <1>1, BulkStarts, BulkSteps, PTL DEF Spec

-----------------------------------------------------------------------------
(* Handlers that run alone.                                                *)

LEMMA LoneKeeps ==
    ASSUME BulkType, LoneInv, NEW p \in Procs, NEW t \in Txn, Goto(p, t),
           lone' => Knows(t)' /\ CountedAll(p)' /\ Settled'
    PROVE  LoneInv'
<1> SUFFICES ASSUME lone' PROVE LoneInv'
  BY DEF LoneInv
<1>1. /\ lone /\ txn'[p] = t
      /\ \A q \in Procs \ {p} : txn[q] = Idle /\ txn'[q] = Idle
  BY Went
<1>2. Knows(t)' /\ CountedAll(p)' /\ Settled'
  OBVIOUS
<1>3. Idle.op = "none"
  BY IdleTypes
<1>4. ASSUME NEW q \in Procs PROVE Knows(txn[q])' /\ CountedAll(q)'
  <2>1. CASE q = p
    BY <1>1, <1>2, <2>1 DEF Knows
  <2>2. CASE q # p
    BY <1>1, <1>3, <2>2 DEF Knows, CountedAll, At
  <2>. QED
    BY <2>1, <2>2
<1>5. \A q, r \in Procs : txn'[q] # Idle /\ txn'[r] # Idle => q = r
  BY <1>1
<1>. QED
  BY <1>2, <1>4, <1>5 DEF LoneInv

LEMMA IsAlone ==
    ASSUME BulkInv, LoneInv, NEW p \in Procs, NEW t \in Txn, Goto(p, t), lone'
    PROVE  /\ lone /\ txn'[p] = t /\ Knows(txn[p]) /\ CountedAll(p) /\ Settled
           /\ txn[p] \in Txn /\ Judged(txn[p])
BY Went DEF LoneInv, BulkInv, BulkType

LEMMA OpenAlone == ASSUME BulkInv, LoneInv, NEW p \in Procs, TaskOpen(p) PROVE LoneInv'
<1>1. PICK t \in Txn : Goto(p, t) /\ t.op # "run" /\ t.stage \in {"idle", "mark"}
  BY OpenGoes DEF BulkInv
<1>2. UNCHANGED <<job, item>>
  BY DEF TaskOpen
<1>3. ASSUME lone' PROVE Knows(t)' /\ CountedAll(p)' /\ Settled'
  BY <1>1, <1>2, <1>3, IsAlone DEF Knows, CountedAll, At, Settled
<1>. QED
  BY <1>1, <1>3, LoneKeeps DEF BulkInv

LEMMA MarkAlone == ASSUME BulkInv, LoneInv, NEW p \in Procs, TaskMark(p) PROVE LoneInv'
<1>1. PICK t \in Txn : Goto(p, t) /\ t.op = "task" /\ t.stage = "load"
  BY MarkGoes DEF BulkInv
<1>2. UNCHANGED item /\ \A j \in Jobs : job'[j] = "done" => job[j] = "done"
  BY DEF TaskMark, BulkInv, BulkType
<1>3. ASSUME lone' PROVE Knows(t)' /\ CountedAll(p)' /\ Settled'
  BY <1>1, <1>2, <1>3, IsAlone DEF Knows, CountedAll, At, Settled
<1>. QED
  BY <1>1, <1>3, LoneKeeps DEF BulkInv

LEMMA LoadAlone == ASSUME BulkInv, LoneInv, NEW p \in Procs, TaskLoad(p) PROVE LoneInv'
<1>1. PICK t \in Txn :
         /\ Goto(p, t) /\ t.op = "task" /\ t.stage \in {"count", "check"}
         /\ t.todo = {i \in RowsOf(t.job) : item[i] = "pending"}
  BY LoadGoes DEF BulkInv
<1>2. UNCHANGED <<job, item>>
  BY DEF TaskLoad
<1>3. ASSUME lone' PROVE Knows(t)' /\ CountedAll(p)' /\ Settled'
  BY <1>1, <1>2, <1>3, IsAlone DEF Knows, CountedAll, At, Settled
<1>. QED
  BY <1>1, <1>3, LoneKeeps DEF BulkInv

LEMMA CheckAlone == ASSUME BulkInv, LoneInv, NEW p \in Procs, TaskCheck(p) PROVE LoneInv'
<1>1. PICK t \in Txn :
         /\ Goto(p, t) /\ t.op = "task" /\ t.stage \in {"flush", "save"}
         /\ t.job = txn[p].job /\ t.goal = txn[p].goal /\ t.todo = txn[p].todo
  BY CheckGoes DEF BulkInv
<1>2. UNCHANGED <<job, item>> /\ txn[p].op = "task" /\ txn[p].stage = "check"
  BY DEF TaskCheck, At
<1>3. ASSUME lone' PROVE Knows(t)' /\ CountedAll(p)' /\ Settled'
  BY <1>1, <1>2, <1>3, IsAlone DEF Knows, CountedAll, At, Settled
<1>. QED
  BY <1>1, <1>3, LoneKeeps DEF BulkInv

LEMMA FlushAlone == ASSUME BulkInv, LoneInv, NEW p \in Procs, TaskFlush(p) PROVE LoneInv'
<1>1. PICK t \in Txn :
         /\ Goto(p, t) /\ t.op = "task" /\ t.job = txn[p].job
         /\ \/ t.stage = "count" /\ t.goal = "failed"
            \/ t.stage = "save" /\ t.goal = txn[p].goal /\ t.todo = txn[p].todo
  BY FlushGoes DEF BulkInv
<1>2. UNCHANGED <<job, item>> /\ txn[p].op = "task" /\ txn[p].stage = "flush"
  BY DEF TaskFlush, At
<1>3. ASSUME lone' PROVE Knows(t)' /\ CountedAll(p)' /\ Settled'
  BY <1>1, <1>2, <1>3, IsAlone DEF Knows, CountedAll, At, Settled
<1>. QED
  BY <1>1, <1>3, LoneKeeps DEF BulkInv

LEMMA SaveAlone ==
    ASSUME BulkInv, LoneInv, NEW p \in Procs, TaskSave(p)
    PROVE  LoneInv' /\ (lone' => \A i \in Items : item[i] = "success" => item'[i] = "success")
<1>1. PICK t \in Txn :
         /\ Goto(p, t) /\ t.op = "task" /\ t.job = txn[p].job
         /\ \/ RollClash(p) /\ t.stage = "count" /\ t.goal = "failed"
            \/ /\ ~RollClash(p) /\ t.stage \in {"count", "check"} /\ t.goal = txn[p].goal
               /\ t.todo = txn[p].todo \ {First(p)}
  BY SaveGoes DEF BulkInv
<1>2. UNCHANGED job /\ txn[p].op = "task" /\ txn[p].stage = "save"
  BY DEF TaskSave, At
<1>3. CASE RollClash(p)
  <2>1. UNCHANGED item
    BY <1>3 DEF TaskSave
  <2>2. ASSUME lone' PROVE Knows(t)' /\ CountedAll(p)' /\ Settled'
    BY <1>1, <1>2, <1>3, <2>1, <2>2, IsAlone DEF Knows, CountedAll, At, Settled
  <2>. QED
    BY <1>1, <2>1, <2>2, LoneKeeps DEF BulkInv
<1>4. CASE ~RollClash(p)
  <2>1. PICK i \in Items, v \in Verdicts :
           i = First(p) /\ i \in txn[p].todo /\ item' = [item EXCEPT ![i] = v]
    <3>1. First(p) \in Items /\ First(p) \in txn[p].todo /\ First(p) = Min(txn[p].todo)
      BY <1>2, AtRow DEF BulkInv
    <3>2. txn[p].verdict[First(p)] \in Verdicts
      <4>1. txn[p].verdict \in Rulings
        BY DEF BulkInv, BulkType, Txn
      <4>2. DOMAIN txn[p].verdict = {First(p)}
        BY <1>2, <3>1 DEF BulkInv, Judged
      <4>. QED
        BY <4>1, <4>2, RulingTypes
    <3>. QED
      BY <1>4, <3>1, <3>2 DEF TaskSave
  <2>2. \A k \in Items : item'[k] = IF k = i THEN v ELSE item[k]
    BY <2>1 DEF BulkInv, BulkType
  <2>3. v # "pending" /\ \A j \in Jobs : RowsOf(j) \subseteq Items
    BY DEF Verdicts, RowsOf
  <2>4. t.stage \in {"count", "check"} /\ t.goal = txn[p].goal /\ t.todo = txn[p].todo \ {i}
    BY <1>1, <1>4, <2>1
  <2>5. ASSUME lone' PROVE Knows(t)' /\ CountedAll(p)' /\ Settled'
    <3>1. Knows(txn[p]) /\ Settled /\ txn[p] \in Txn /\ Judged(txn[p]) /\ txn'[p] = t
      BY <1>1, <2>5, IsAlone
    <3>2. \A k \in txn[p].todo : item[k] = "pending" /\ k \in Items
      BY <1>2, <3>1 DEF Knows, Txn
    <3>3. txn[p].job \in Jobs
      BY <1>2, <3>1 DEF Judged
    <3>4. t.goal = "done" => \A k \in RowsOf(t.job) : item[k] = "pending" => k \in txn[p].todo
      BY <1>1, <1>2, <2>4, <3>1 DEF Knows
    <3>5. Knows(t)'
      BY <1>1, <2>2, <2>3, <2>4, <3>2, <3>3, <3>4 DEF Knows
    <3>6. CountedAll(p)'
      BY <1>1, <3>1 DEF CountedAll, At
    <3>7. Settled'
      BY <1>2, <2>2, <2>3, <3>1 DEF Settled
    <3>. QED
      BY <3>5, <3>6, <3>7
  <2>6. ASSUME lone' PROVE item[i] = "pending"
    <3>1. Knows(txn[p])
      BY <1>1, <2>6, IsAlone
    <3>. QED
      BY <1>2, <2>1, <3>1 DEF Knows
  <2>. QED
    BY <1>1, <2>2, <2>5, <2>6, LoneKeeps DEF BulkInv
<1>. QED
  BY <1>3, <1>4

LEMMA FinishAlone == ASSUME BulkInv, LoneInv, NEW p \in Procs, TaskFinish(p) PROVE LoneInv'
<1>1. /\ Goto(p, Idle) /\ UNCHANGED item /\ txn[p].op = "task" /\ txn[p].stage = "finish"
      /\ job' = [job EXCEPT ![txn[p].job] = txn[p].goal] /\ Idle \in Txn /\ Idle.op = "none"
  BY IdleTypes DEF TaskFinish, At
<1>2. ASSUME lone' PROVE Knows(Idle)' /\ CountedAll(p)' /\ Settled'
  <2>1. /\ Knows(txn[p]) /\ Settled /\ txn[p] \in Txn /\ Judged(txn[p]) /\ txn'[p] = Idle
    BY <1>1, <1>2, IsAlone
  <2>2. txn[p].job \in Jobs /\ txn[p].todo = {}
    BY <1>1, <2>1 DEF Judged
  <2>3. txn[p].goal = "done" => \A i \in RowsOf(txn[p].job) : item[i] # "pending"
    BY <1>1, <2>1, <2>2 DEF Knows
  <2>4. \A j \in Jobs : job'[j] = IF j = txn[p].job THEN txn[p].goal ELSE job[j]
    BY <1>1, <2>2 DEF BulkInv, BulkType
  <2>5. Settled'
    BY <1>1, <2>1, <2>3, <2>4 DEF Settled
  <2>. QED
    BY <1>1, <2>1, <2>5 DEF Knows, CountedAll, At
<1>. QED
  BY <1>1, <1>2, LoneKeeps DEF BulkInv

LEMMA CountAlone == ASSUME BulkInv, LoneInv, NEW p \in Procs, TaskCount(p) PROVE LoneInv'
<1>1. PICK t \in Txn :
         /\ Goto(p, t) /\ t.op = "task" /\ t.stage = "finish"
         /\ t.job = txn[p].job /\ t.goal = txn[p].goal /\ t.todo = txn[p].todo
  BY CountGoes DEF BulkInv
<1>2. UNCHANGED <<job, item>> /\ txn[p].op = "task" /\ txn[p].stage = "count"
  BY DEF TaskCount, At
<1>3. ASSUME lone' PROVE Knows(t)' /\ CountedAll(p)' /\ Settled'
  BY <1>1, <1>2, <1>3, IsAlone DEF Knows, CountedAll, At, Settled
<1>. QED
  BY <1>1, <1>3, LoneKeeps DEF BulkInv

LEMMA VictimAlone == ASSUME BulkInv, LoneInv, NEW p \in Procs, Victim(p) PROVE LoneInv'
<1>1. PICK t \in Txn :
         Goto(p, t) /\ (t.op = "none" \/ (t.op = "task" /\ t.stage = "count" /\ t.goal = "failed"))
  BY VictimGoes, IdleTypes DEF BulkInv
<1>2. UNCHANGED <<job, item>>
  BY DEF Victim
<1>3. ASSUME lone' PROVE Knows(t)' /\ CountedAll(p)' /\ Settled'
  BY <1>1, <1>2, <1>3, IsAlone DEF Knows, CountedAll, At, Settled
<1>. QED
  BY <1>1, <1>3, LoneKeeps DEF BulkInv

LEMMA RunLoadAlone == ASSUME BulkInv, LoneInv, NEW p \in Procs, RunLoad(p) PROVE LoneInv'
<1>1. PICK t \in Txn :
         /\ Goto(p, t) /\ t.op = "run" /\ t.stage = "check"
         /\ DOMAIN t.verdict = {} /\ \A i \in t.todo : item[i] = "pending"
  BY RunLoadGoes DEF BulkInv
<1>2. UNCHANGED <<job, item>>
  BY DEF RunLoad
<1>3. ASSUME lone' PROVE Knows(t)' /\ CountedAll(p)' /\ Settled'
  BY <1>1, <1>2, <1>3, IsAlone DEF Knows, CountedAll, At, Settled
<1>. QED
  BY <1>1, <1>3, LoneKeeps DEF BulkInv

LEMMA RunCheckAlone == ASSUME BulkInv, LoneInv, NEW p \in Procs, RunCheck(p) PROVE LoneInv'
<1>1. PICK t \in Txn :
         /\ Goto(p, t) /\ t.op = "run" /\ t.stage \in {"flush", "check", "count"}
         /\ t.todo \cup DOMAIN t.verdict = txn[p].todo \cup DOMAIN txn[p].verdict
  BY RunCheckGoes DEF BulkInv
<1>2. UNCHANGED <<job, item>> /\ txn[p].op = "run" /\ txn[p].stage = "check"
  BY DEF RunCheck, At
<1>3. ASSUME lone' PROVE Knows(t)' /\ CountedAll(p)' /\ Settled'
  BY <1>1, <1>2, <1>3, IsAlone DEF Knows, CountedAll, At, Settled
<1>. QED
  BY <1>1, <1>3, LoneKeeps DEF BulkInv

LEMMA RunFlushAlone == ASSUME BulkInv, LoneInv, NEW p \in Procs, RunFlush(p) PROVE LoneInv'
<1>1. PICK t \in Txn :
         /\ Goto(p, t)
         /\ \/ t.op = "none"
            \/ /\ t.op = "run" /\ t.stage \in {"check", "count"}
               /\ t.todo \cup DOMAIN t.verdict = txn[p].todo \cup DOMAIN txn[p].verdict
  BY RunFlushGoes, IdleTypes DEF BulkInv
<1>2. UNCHANGED <<job, item>> /\ txn[p].op = "run" /\ txn[p].stage = "flush"
  BY DEF RunFlush, At
<1>3. ASSUME lone' PROVE Knows(t)' /\ CountedAll(p)' /\ Settled'
  BY <1>1, <1>2, <1>3, IsAlone DEF Knows, CountedAll, At, Settled
<1>. QED
  BY <1>1, <1>3, LoneKeeps DEF BulkInv

(* A job whose counts reach the number of its rows has only settled rows.  *)
LEMMA CountsCover ==
    ASSUME NEW j \in Jobs, NEW seen, Processed(Counted(seen, j)) >= Cardinality(RowsOf(j))
    PROVE  \A i \in RowsOf(j) : seen[i] \in Verdicts
<1> DEFINE R == RowsOf(j)
           A == {i \in R : seen[i] = "success"}
           B == {i \in R : seen[i] = "failed"}
           C == {i \in R : seen[i] = "skipped"}
<1>1. IsFiniteSet(R)
  BY BulkAssumptions, FS_Subset DEF RowsOf
<1>2. Processed(Counted(seen, j)) = Cardinality(A) + Cardinality(B) + Cardinality(C)
  BY DEF Processed, Counted, Verdicts
<1>3. /\ A \in SUBSET R /\ B \in SUBSET R /\ C \in SUBSET R
      /\ A \cap B = {} /\ (A \cup B) \cap C = {}
      /\ \A i \in A \cup B \cup C : seen[i] \in Verdicts
  BY DEF Verdicts
<1>4. Processed(Counted(seen, j)) >= Cardinality(R)
  OBVIOUS
<1> HIDE DEF R, A, B, C
<1>5. IsFiniteSet(A) /\ IsFiniteSet(B) /\ IsFiniteSet(C) /\ IsFiniteSet(A \cup B)
  BY <1>1, <1>3, FS_Subset
<1>6. Cardinality(A \cup B) = Cardinality(A) + Cardinality(B)
  <2>1. Cardinality(A \cup B) = Cardinality(A) + Cardinality(B) - Cardinality(A \cap B)
    BY <1>5, FS_Union
  <2>2. Cardinality(A \cap B) = 0
    BY <1>3, FS_EmptySet
  <2>3. Cardinality(A) \in Nat /\ Cardinality(B) \in Nat
    BY <1>5, FS_CardinalityType
  <2>. QED
    BY <2>1, <2>2, <2>3
<1>7. Cardinality(A \cup B \cup C) = Cardinality(A \cup B) + Cardinality(C)
  <2>1. Cardinality((A \cup B) \cup C) =
           Cardinality(A \cup B) + Cardinality(C) - Cardinality((A \cup B) \cap C)
    BY <1>5, FS_Union
  <2>2. Cardinality((A \cup B) \cap C) = 0
    BY <1>3, FS_EmptySet
  <2>3. Cardinality(A \cup B) \in Nat /\ Cardinality(C) \in Nat
    BY <1>5, FS_CardinalityType
  <2>. QED
    BY <2>1, <2>2, <2>3
<1>8. A \cup B \cup C \in SUBSET R
  BY <1>3
<1>9. /\ Cardinality(A \cup B \cup C) <= Cardinality(R)
      /\ Cardinality(R) = Cardinality(A \cup B \cup C) => R = A \cup B \cup C
  BY <1>1, <1>8, FS_Subset
<1>10. /\ Cardinality(R) \in Nat /\ Cardinality(A) \in Nat /\ Cardinality(B) \in Nat
       /\ Cardinality(C) \in Nat
  BY <1>1, <1>5, FS_CardinalityType
<1>11. Cardinality(R) = Cardinality(A \cup B \cup C)
  BY <1>2, <1>4, <1>6, <1>7, <1>9, <1>10
<1>12. R = A \cup B \cup C
  BY <1>9, <1>11
<1>. QED
  BY <1>3, <1>12 DEF R

LEMMA NoneCounted == ASSUME NEW j \in Jobs, RowsOf(j) # {}
                     PROVE  ~(Processed(Zero) >= Cardinality(RowsOf(j)))
<1>1. IsFiniteSet(RowsOf(j))
  BY BulkAssumptions, FS_Subset DEF RowsOf
<1>2. Cardinality(RowsOf(j)) \in Nat /\ Cardinality(RowsOf(j)) # 0
  BY <1>1, FS_CardinalityType, FS_EmptySet
<1>3. Processed(Zero) = 0
  BY DEF Processed, Zero, Verdicts
<1>. QED
  BY <1>2, <1>3

LEMMA RunCountAlone == ASSUME BulkInv, LoneInv, NEW p \in Procs, RunCount(p) PROVE LoneInv'
<1>1. PICK t \in Txn :
         /\ Goto(p, t) /\ t.op = "run" /\ t.stage = "commit"
         /\ t.todo = txn[p].todo /\ t.verdict = txn[p].verdict
         /\ \A j \in Jobs :
              \/ t.counts[j] = Zero
              \/ \E seen \in [Items -> {"none", "pending"} \cup Verdicts] :
                   /\ t.counts[j] = Counted(seen, j)
                   /\ \A i \in Items \ DOMAIN txn[p].verdict : seen[i] = item[i]
  BY RunCountGoes DEF BulkInv
<1>2. UNCHANGED <<job, item>> /\ txn[p].op = "run" /\ txn[p].stage = "count"
  BY DEF RunCount, At
<1>3. ASSUME NEW j \in Jobs, RowsOf(j) # {}, Processed(t.counts[j]) >= Cardinality(RowsOf(j)),
             NEW i \in RowsOf(j), item[i] = "pending"
      PROVE  i \in DOMAIN txn[p].verdict
  <2>1. PICK seen \in [Items -> {"none", "pending"} \cup Verdicts] :
           /\ t.counts[j] = Counted(seen, j)
           /\ \A k \in Items \ DOMAIN txn[p].verdict : seen[k] = item[k]
    BY <1>1, <1>3, NoneCounted
  <2>2. seen[i] \in Verdicts
    BY <1>3, <2>1, CountsCover
  <2>3. i \in Items
    BY DEF RowsOf
  <2>. QED
    BY <1>3, <2>1, <2>2, <2>3 DEF Verdicts
<1>4. ASSUME lone' PROVE Knows(t)' /\ CountedAll(p)' /\ Settled'
  <2>1. Knows(txn[p]) /\ Settled /\ txn'[p] = t
    BY <1>1, <1>4, IsAlone
  <2>2. Knows(t)' /\ Settled'
    BY <1>1, <1>2, <2>1 DEF Knows, Settled
  <2>3. CountedAll(p)'
    BY <1>1, <1>2, <1>3, <2>1 DEF CountedAll, At, Completed
  <2>. QED
    BY <2>2, <2>3
<1>. QED
  BY <1>1, <1>4, LoneKeeps DEF BulkInv

LEMMA CommitAlone ==
    ASSUME BulkInv, LoneInv, NEW p \in Procs, RunCommit(p)
    PROVE  LoneInv' /\ (lone' => \A i \in Items : item[i] = "success" => item'[i] = "success")
<1>1. PICK t \in Txn :
         /\ Goto(p, t)
         /\ \/ Doomed(p) /\ t.op = "none"
            \/ ~Doomed(p) /\ t.op = "run" /\ t.stage = "close" /\ t.counts = txn[p].counts
  BY RunCommitGoes, IdleTypes DEF BulkInv
<1>2. txn[p].op = "run" /\ txn[p].stage = "commit"
  BY DEF RunCommit, At
<1>3. CASE Doomed(p)
  <2>1. UNCHANGED <<job, item>>
    BY <1>3 DEF RunCommit
  <2>2. ASSUME lone' PROVE Knows(t)' /\ CountedAll(p)' /\ Settled'
    BY <1>1, <1>3, <2>1, <2>2, IsAlone DEF Knows, CountedAll, At, Settled
  <2>. QED
    BY <1>1, <2>1, <2>2, LoneKeeps DEF BulkInv
<1>4. CASE ~Doomed(p)
  <2>1. PICK f \in Rulings : f = txn[p].verdict
    BY DEF BulkInv, BulkType, Txn
  <2>2. \A i \in Items : item'[i] = IF i \in DOMAIN f THEN f[i] ELSE item[i]
    BY <1>4, <2>1 DEF RunCommit
  <2>3. \A j \in Jobs : job'[j] = "done" => job[j] = "done"
    BY <1>4 DEF RunCommit
  <2>4. \A i \in DOMAIN f : i \in Items /\ f[i] # "pending"
    BY RulingTypes DEF Verdicts
  <2>5. \A j \in Jobs : RowsOf(j) \subseteq Items
    BY DEF RowsOf
  <2>6. ASSUME lone' PROVE Knows(t)' /\ CountedAll(p)' /\ Settled'
    <3>1. CountedAll(p) /\ Settled /\ txn'[p] = t
      BY <1>1, <2>6, IsAlone
    <3>2. Completed(p)' = Completed(p)
      BY <1>1, <1>4, <3>1 DEF Completed
    <3>3. \A j \in Completed(p) : \A i \in RowsOf(j) : item'[i] # "pending"
      BY <1>2, <2>1, <2>2, <2>4, <2>5, <3>1 DEF CountedAll, At, Completed
    <3>4. CountedAll(p)'
      BY <1>1, <1>4, <3>1, <3>2, <3>3 DEF CountedAll, At
    <3>5. Knows(t)'
      BY <1>1, <1>4 DEF Knows
    <3>6. Settled'
      BY <2>2, <2>3, <2>4, <2>5, <3>1 DEF Settled
    <3>. QED
      BY <3>4, <3>5, <3>6
  <2>7. ASSUME lone' PROVE \A i \in DOMAIN f : item[i] = "pending"
    <3>1. Knows(txn[p])
      BY <1>1, <2>7, IsAlone
    <3>. QED
      BY <1>2, <2>1, <3>1 DEF Knows
  <2>. QED
    BY <1>1, <2>2, <2>6, <2>7, LoneKeeps DEF BulkInv
<1>. QED
  BY <1>3, <1>4

LEMMA CloseAlone == ASSUME BulkInv, LoneInv, NEW p \in Procs, RunClose(p) PROVE LoneInv'
<1>1. /\ Goto(p, Idle) /\ UNCHANGED item /\ Idle \in Txn /\ Idle.op = "none"
      /\ \A j \in Jobs : job'[j] = "done" => job[j] = "done" \/ j \in Completed(p)
  BY IdleTypes DEF RunClose
<1>2. ASSUME lone' PROVE Knows(Idle)' /\ CountedAll(p)' /\ Settled'
  <2>1. CountedAll(p) /\ Settled /\ txn'[p] = Idle
    BY <1>1, <1>2, IsAlone
  <2>2. \A j \in Completed(p) : \A i \in RowsOf(j) : item[i] # "pending"
    BY <2>1 DEF CountedAll, RunClose
  <2>3. Settled'
    BY <1>1, <2>1, <2>2 DEF Settled
  <2>. QED
    BY <1>1, <2>1, <2>3 DEF Knows, CountedAll, At
<1>. QED
  BY <1>1, <1>2, LoneKeeps DEF BulkInv

LEMMA UploadAlone ==
    ASSUME BulkInv, LoneInv, NEW p \in Procs, NEW j \in Jobs, Upload(p, j)
    PROVE  LoneInv' /\ \A i \in Items : item[i] = "success" => item'[i] = "success"
<1>1. PICK t \in Txn : Goto(p, t) /\ t.op = "task" /\ t.stage = "open"
  BY TaskBegins DEF Upload
<1>2. /\ \A i \in Items : item'[i] = IF JobOf[i] = j THEN "pending" ELSE item[i]
      /\ job' = [job EXCEPT ![j] = "pending"] /\ job[j] = "none"
  BY DEF Upload
<1>3. \A k \in Jobs : job'[k] = IF k = j THEN "pending" ELSE job[k]
  BY <1>2 DEF BulkInv, BulkType
<1>4. ASSUME lone' PROVE Knows(t)' /\ CountedAll(p)' /\ Settled'
  <2>1. Settled /\ txn'[p] = t
    BY <1>1, <1>4, IsAlone
  <2>2. Settled'
    BY <1>2, <1>3, <2>1 DEF Settled, RowsOf
  <2>. QED
    BY <1>1, <2>1, <2>2 DEF Knows, CountedAll, At
<1>5. \A i \in Items : JobOf[i] = j => item[i] = "none"
  BY <1>2 DEF BulkInv, Uploaded
<1>. QED
  BY <1>1, <1>2, <1>4, <1>5, LoneKeeps DEF BulkInv

LEMMA RetryAlone ==
    ASSUME BulkInv, LoneInv, NEW p \in Procs, NEW j \in Jobs, Retry(p, j)
    PROVE  LoneInv' /\ \A i \in Items : item[i] = "success" => item'[i] = "success"
<1>1. PICK t \in Txn : Goto(p, t) /\ t.op = "task" /\ t.stage = "open"
  BY TaskBegins DEF Retry
<1>2. /\ \A i \in Items :
            item'[i] = IF JobOf[i] = j /\ item[i] = "failed" THEN "pending" ELSE item[i]
      /\ job' = [job EXCEPT ![j] = "pending"]
  BY DEF Retry, RetryReset
<1>3. \A k \in Jobs : job'[k] = IF k = j THEN "pending" ELSE job[k]
  BY <1>2 DEF BulkInv, BulkType
<1>4. ASSUME lone' PROVE Knows(t)' /\ CountedAll(p)' /\ Settled'
  <2>1. Settled /\ txn'[p] = t
    BY <1>1, <1>4, IsAlone
  <2>2. Settled'
    BY <1>2, <1>3, <2>1 DEF Settled, RowsOf
  <2>. QED
    BY <1>1, <2>1, <2>2 DEF Knows, CountedAll, At
<1>. QED
  BY <1>1, <1>2, <1>4, LoneKeeps DEF BulkInv

LEMMA ResumeAlone ==
    ASSUME BulkInv, LoneInv, NEW p \in Procs, NEW j \in Jobs, ResumeLoad(p, j) PROVE LoneInv'
<1>1. PICK t \in Txn :
         /\ Goto(p, t) /\ t.op = "resume" /\ t.stage = "finish" /\ t.job = j
         /\ t.goal = "done" => \A i \in RowsOf(j) : item[i] # "pending"
  BY ResumeGoes DEF BulkInv
<1>2. UNCHANGED <<job, item>>
  BY DEF ResumeLoad
<1>3. ASSUME lone' PROVE Knows(t)' /\ CountedAll(p)' /\ Settled'
  BY <1>1, <1>2, <1>3, IsAlone DEF Knows, CountedAll, At, Settled
<1>. QED
  BY <1>1, <1>3, LoneKeeps DEF BulkInv

LEMMA ResumeCommitAlone ==
    ASSUME BulkInv, LoneInv, NEW p \in Procs, ResumeCommit(p) PROVE LoneInv'
<1>1. PICK t \in Txn : Goto(p, t) /\ (t.op = "none" \/ (t.op = "task" /\ t.stage = "open"))
  BY ResumeCommitGoes, IdleTypes DEF BulkInv
<1>2. /\ UNCHANGED item /\ txn[p].op = "resume" /\ txn[p].stage = "finish"
      /\ job' = [job EXCEPT ![txn[p].job] = txn[p].goal]
  BY DEF ResumeCommit, At
<1>3. ASSUME lone' PROVE Knows(t)' /\ CountedAll(p)' /\ Settled'
  <2>1. Knows(txn[p]) /\ Settled /\ Judged(txn[p]) /\ txn'[p] = t
    BY <1>1, <1>3, IsAlone
  <2>2. txn[p].job \in Jobs
    BY <1>2, <2>1 DEF Judged
  <2>3. txn[p].goal = "done" => \A i \in RowsOf(txn[p].job) : item[i] # "pending"
    BY <1>2, <2>1 DEF Knows
  <2>4. \A j \in Jobs : job'[j] = IF j = txn[p].job THEN txn[p].goal ELSE job[j]
    BY <1>2, <2>2 DEF BulkInv, BulkType
  <2>5. Settled'
    BY <1>2, <2>1, <2>3, <2>4 DEF Settled
  <2>. QED
    BY <1>1, <2>1, <2>5 DEF Knows, CountedAll, At
<1>. QED
  BY <1>1, <1>3, LoneKeeps DEF BulkInv

LEMMA LoneStarts == Init => LoneInv
<1> SUFFICES ASSUME Init PROVE LoneInv
  OBVIOUS
<1>1. (\A p \in Procs : txn[p] = Idle) /\ job = [j \in Jobs |-> "none"] /\ Idle.op = "none"
  BY IdleTypes DEF Init
<1>2. Settled
  BY <1>1 DEF Settled
<1>3. \A p \in Procs : Knows(txn[p]) /\ CountedAll(p)
  BY <1>1 DEF Knows, CountedAll, At
<1>. QED
  BY <1>1, <1>2, <1>3 DEF LoneInv

LEMMA LoneSteps ==
    BulkInv /\ LoneInv /\ [Next]_vars
    => LoneInv' /\ (lone' => \A i \in Items : item[i] = "success" => item'[i] = "success")
<1> SUFFICES ASSUME BulkInv, LoneInv, [Next]_vars
             PROVE  /\ LoneInv'
                    /\ lone' => \A i \in Items : item[i] = "success" => item'[i] = "success"
  OBVIOUS
<1> DEFINE Kept == lone' => \A i \in Items : item[i] = "success" => item'[i] = "success"
<1>1. ASSUME NEW p \in Procs, Task(p) PROVE LoneInv' /\ Kept
  <2>1. CASE TaskSave(p)
    BY <2>1, SaveAlone
  <2>2. CASE ~TaskSave(p)
    <3>1. UNCHANGED item
      BY <1>1, <2>2 DEF Task, TaskOpen, TaskMark, TaskLoad, TaskCheck, TaskFlush, TaskCount,
                        TaskFinish
    <3>2. LoneInv'
      BY <1>1, <2>2, OpenAlone, MarkAlone, LoadAlone, CheckAlone, FlushAlone, CountAlone,
         FinishAlone DEF Task
    <3>. QED
      BY <3>1, <3>2
  <2>. QED
    BY <2>1, <2>2
<1>2. ASSUME NEW p \in Procs, RunLoad(p) \/ Run(p) PROVE LoneInv' /\ Kept
  <2>1. CASE RunCommit(p)
    BY <2>1, CommitAlone
  <2>2. CASE ~RunCommit(p)
    <3>1. UNCHANGED item
      BY <1>2, <2>2 DEF Run, RunLoad, RunCheck, RunFlush, RunCount, RunClose
    <3>2. LoneInv'
      BY <1>2, <2>2, RunLoadAlone, RunCheckAlone, RunFlushAlone, RunCountAlone, CloseAlone DEF Run
    <3>. QED
      BY <3>1, <3>2
  <2>. QED
    BY <2>1, <2>2
<1>3. ASSUME NEW p \in Procs, ResumeCommit(p) \/ Victim(p) PROVE LoneInv' /\ Kept
  <2>1. UNCHANGED item
    BY <1>3 DEF ResumeCommit, Victim
  <2>. QED
    BY <1>3, <2>1, ResumeCommitAlone, VictimAlone
<1>4. ASSUME NEW p \in Procs, NEW j \in Jobs, Upload(p, j) \/ Retry(p, j) \/ ResumeLoad(p, j)
      PROVE  LoneInv' /\ Kept
  <2>1. CASE Upload(p, j) \/ Retry(p, j)
    BY <2>1, UploadAlone, RetryAlone
  <2>2. CASE ResumeLoad(p, j)
    <3>1. UNCHANGED item
      BY <2>2 DEF ResumeLoad
    <3>. QED
      BY <2>2, <3>1, ResumeAlone
  <2>. QED
    BY <1>4, <2>1, <2>2
<1>5. ASSUME NEW e \in Emails, NEW r \in Rolls \cup {NoRoll}, Register(e, r)
      PROVE  LoneInv' /\ Kept
  <2>1. UNCHANGED <<job, item, txn>> /\ (lone' => lone)
    BY <1>5 DEF Register
  <2>2. ASSUME NEW p \in Procs, Knows(txn[p]) PROVE Knows(txn[p])'
    BY <2>1, <2>2 DEF Knows
  <2>. QED
    BY <2>1, <2>2 DEF LoneInv, Settled, CountedAll, At, Completed
<1>6. CASE Crash
  <2>1. /\ \A p \in Procs : txn'[p] = Idle
        /\ UNCHANGED <<job, item, lone>> /\ Idle.op = "none"
    BY <1>6, IdleTypes DEF Crash
  <2>2. \A p \in Procs : Knows(txn[p])' /\ CountedAll(p)'
    BY <2>1 DEF Knows, CountedAll, At
  <2>. QED
    BY <2>1, <2>2 DEF LoneInv, Settled
<1>7. CASE UNCHANGED vars
  <2>1. UNCHANGED <<job, item, txn, lone>>
    BY <1>7 DEF vars
  <2>2. ASSUME NEW p \in Procs, Knows(txn[p]) PROVE Knows(txn[p])'
    BY <2>1, <2>2 DEF Knows
  <2>. QED
    BY <2>1, <2>2 DEF LoneInv, Settled, CountedAll, At, Completed
<1>8. CASE \E p \in Procs : \/ Task(p) \/ RunLoad(p) \/ Run(p) \/ ResumeCommit(p) \/ Victim(p)
  BY <1>1, <1>2, <1>3, <1>8
<1>9. CASE \E p \in Procs, j \in Jobs : Upload(p, j) \/ Retry(p, j) \/ ResumeLoad(p, j)
  BY <1>4, <1>9
<1>10. CASE \E e \in Emails, r \in Rolls \cup {NoRoll} : Register(e, r)
  BY <1>5, <1>10
<1>. QED
  BY <1>6, <1>7, <1>8, <1>9, <1>10 DEF Next

(* While one handler or task runs at a time, restarts included, a job that *)
(* is marked done has no pending row: neither a resume nor a run that has  *)
(* counted the job to the end nor the task of a retry closes it with work  *)
(* left.                                                                   *)
THEOREM DoneJobsAreSettled == Spec => []DoneIsSettled
<1>1. LoneInv => DoneIsSettled
  BY DEF LoneInv, Settled, DoneIsSettled
<1>. QED
  BY <1>1, BulkStarts, BulkSteps, LoneStarts, LoneSteps, PTL DEF Spec

(* While one handler or task runs at a time, no retry, resume, run or      *)
(* restart takes a row out of success.                                     *)
THEOREM SuccessStays == Spec => SuccessIsFinal
<1>1. BulkInv /\ LoneInv /\ [Next]_vars
      => [lone' => \A i \in Items : item[i] = "success" => item'[i] = "success"]_vars
  BY LoneSteps
<1>. QED
  BY <1>1, BulkStarts, BulkSteps, LoneStarts, LoneSteps, PTL DEF Spec, SuccessIsFinal

-----------------------------------------------------------------------------
(* The register of accounts.  A row is skipped for a reason that lasts:    *)
(* its email or roll number is in use, or taken by the same transaction.   *)

Backed(mine, i) ==
    \/ EmailTaken(EmailOf[i]) \/ RollTaken(RollOf[i])
    \/ \E k \in mine : EmailOf[k] = EmailOf[i] \/ (RollOf[i] # NoRoll /\ RollOf[k] = RollOf[i])
Grounded(t) == \A i \in DOMAIN t.verdict : t.verdict[i] = "skipped" => Backed(t.mine, i)
RegisterInv == BulkInv /\ \A p \in Procs : Grounded(txn[p])

LEMMA VerdictGrounded ==
    ASSUME NEW p, NEW i, Verdict(p, i) = "skipped"
    PROVE  Backed(txn[p].mine, i)
<1>1. EmailSeen(p, EmailOf[i]) \/ RollSeen(p, RollOf[i])
  BY DEF Verdict
<1>. QED
  BY <1>1 DEF EmailSeen, RollSeen, HeldEmails, HeldRolls, Backed

LEMMA NothingRuled ==
    /\ Grounded(Idle)
    /\ \A p : Grounded(Failing(p)) \/ txn[p] \notin Txn
    /\ \A op, j, stage : Grounded(Began(op, j, stage)) /\ Began(op, j, stage).verdict = <<>>
<1>1. \A t : t.verdict = <<>> => Grounded(t)
  BY RulingTypes DEF Grounded
<1>2. \A op, j, stage : Began(op, j, stage).verdict = <<>>
  BY DEF Began
<1>3. \A p : txn[p] \in Txn => Failing(p).verdict = <<>>
  BY DEF Failing, Txn
<1>. QED
  BY <1>1, <1>2, <1>3 DEF Idle

LEMMA StaysGrounded ==
    ASSUME NEW t, Grounded(t), NEW s, s.verdict = t.verdict, t.mine \subseteq s.mine
    PROVE  Grounded(s)
BY DEF Grounded, Backed

LEMMA RuledGrounded ==
    ASSUME NEW t, Grounded(t), NEW i, NEW v, v = "skipped" => Backed(t.mine, i),
           NEW s, s.verdict = Ruled(t.verdict, i, v), t.mine \subseteq s.mine
    PROVE  Grounded(s)
<1>1. \A k \in DOMAIN s.verdict :
         IF k = i THEN s.verdict[k] = v ELSE k \in DOMAIN t.verdict /\ s.verdict[k] = t.verdict[k]
  BY DEF Ruled
<1>2. \A k : Backed(t.mine, k) => Backed(s.mine, k)
  BY DEF Backed
<1>. QED
  BY <1>1, <1>2 DEF Grounded

LEMMA TaskGrounded ==
    ASSUME BulkInv, NEW p \in Procs, Grounded(txn[p]), Task(p)
    PROVE  \E t : Goto(p, t) /\ Grounded(t)
<1>0. txn[p] \in Txn /\ Judged(txn[p])
  BY DEF BulkInv, BulkType
<1>1. CASE TaskOpen(p)
  <2>. DEFINE t == [txn[p] EXCEPT !.stage = "mark", !.goal = job[txn[p].job]]
  <2>1. CASE Goto(p, t)
    <3>1. t.verdict = txn[p].verdict /\ t.mine = txn[p].mine
      BY <1>0 DEF Txn
    <3>. HIDE DEF t
    <3>. QED
      BY <2>1, <3>1, StaysGrounded
  <2>2. CASE Goto(p, Idle)
    BY <2>2, NothingRuled
  <2>. QED
    BY <1>1, <2>1, <2>2 DEF TaskOpen
<1>2. CASE TaskMark(p)
  <2>. DEFINE t == [txn[p] EXCEPT !.stage = "load", !.goal = "done"]
  <2>1. t.verdict = txn[p].verdict /\ t.mine = txn[p].mine /\ Goto(p, t)
    BY <1>0, <1>2 DEF Txn, TaskMark
  <2>. QED
    BY <2>1, StaysGrounded
<1>3. CASE TaskLoad(p)
  <2>. DEFINE rows == {i \in RowsOf(txn[p].job) : item[i] = "pending"}
              t == [txn[p] EXCEPT !.todo = rows, !.stage = IF rows = {} THEN "count" ELSE "check"]
  <2>1. t.verdict = txn[p].verdict /\ t.mine = txn[p].mine /\ Goto(p, t)
    BY <1>0, <1>3 DEF Txn, TaskLoad
  <2>. QED
    BY <2>1, StaysGrounded
<1>4. CASE TaskCheck(p)
  <2>. DEFINE v == Verdict(p, First(p))
              stage == IF v = "success" THEN "flush" ELSE "save"
              t == [txn[p] EXCEPT !.verdict = Ruled(<<>>, First(p), v), !.stage = stage]
  <2>1. /\ t.verdict = Ruled(<<>>, First(p), v) /\ t.mine = txn[p].mine /\ Goto(p, t)
    BY <1>0, <1>4 DEF Txn, TaskCheck
  <2>2. \A k \in DOMAIN t.verdict : k = First(p) /\ t.verdict[k] = v
    BY <2>1, RulingTypes DEF Ruled
  <2>3. v = "skipped" => Backed(txn[p].mine, First(p))
    BY VerdictGrounded
  <2>. HIDE DEF t, v
  <2>. QED
    BY <2>1, <2>2, <2>3 DEF Grounded
<1>5. CASE TaskFlush(p)
  <2>1. CASE Goto(p, Failing(p))
    BY <1>0, <2>1, NothingRuled
  <2>2. CASE Goto(p, [txn[p] EXCEPT !.mine = {First(p)}, !.stage = "save"])
    <3>. DEFINE t == [txn[p] EXCEPT !.mine = {First(p)}, !.stage = "save"]
    <3>1. t.verdict = txn[p].verdict
      BY <1>0 DEF Txn
    <3>2. txn[p].mine = {}
      BY <1>0, <1>5 DEF Judged, TaskFlush, At
    <3>. QED
      BY <2>2, <3>1, <3>2, StaysGrounded
  <2>. QED
    BY <1>5, <2>1, <2>2 DEF TaskFlush
<1>6. CASE TaskSave(p)
  <2>1. CASE Goto(p, Failing(p))
    BY <1>0, <2>1, NothingRuled
  <2>2. CASE ~RollClash(p)
    <3>. DEFINE rest == txn[p].todo \ {First(p)}
                t == [txn[p] EXCEPT !.todo = rest, !.verdict = <<>>, !.mine = {},
                                    !.stage = IF rest = {} THEN "count" ELSE "check"]
    <3>1. t.verdict = <<>> /\ Goto(p, t)
      BY <1>0, <1>6, <2>2 DEF Txn, TaskSave
    <3>. QED
      BY <3>1, RulingTypes DEF Grounded
  <2>. QED
    BY <1>6, <2>1, <2>2 DEF TaskSave
<1>7. CASE TaskCount(p)
  <2>. DEFINE t == [txn[p] EXCEPT !.stage = "finish",
                                  !.counts[txn[p].job] = Counted(item, txn[p].job)]
  <2>1. t.verdict = txn[p].verdict /\ t.mine = txn[p].mine /\ Goto(p, t)
    BY <1>0, <1>7 DEF Txn, TaskCount
  <2>. QED
    BY <2>1, StaysGrounded
<1>8. CASE TaskFinish(p)
  BY <1>8, NothingRuled DEF TaskFinish
<1>. QED
  BY <1>1, <1>2, <1>3, <1>4, <1>5, <1>6, <1>7, <1>8 DEF Task

LEMMA RunGrounded ==
    ASSUME BulkInv, NEW p \in Procs, Grounded(txn[p]), RunLoad(p) \/ Run(p)
    PROVE  \E t : Goto(p, t) /\ Grounded(t)
<1>0. txn[p] \in Txn /\ Judged(txn[p])
  BY DEF BulkInv, BulkType
<1>1. CASE RunLoad(p)
  <2>. DEFINE b == Began("run", None, "check")
  <2>1. PICK batch : Goto(p, [b EXCEPT !.todo = batch])
    BY <1>1 DEF RunLoad
  <2>2. [b EXCEPT !.todo = batch].verdict = <<>>
    BY DEF Began
  <2>. QED
    BY <2>1, <2>2, RulingTypes DEF Grounded
<1>2. CASE RunCheck(p)
  <2>. DEFINE v == Verdict(p, First(p))
              rest == txn[p].todo \ {First(p)}
  <2>1. CASE v = "success"
    <3>. DEFINE t == [txn[p] EXCEPT !.stage = "flush"]
    <3>1. t.verdict = txn[p].verdict /\ t.mine = txn[p].mine /\ Goto(p, t)
      BY <1>0, <1>2, <2>1 DEF Txn, RunCheck
    <3>. QED
      BY <3>1, StaysGrounded
  <2>2. CASE v # "success"
    <3>. DEFINE t == [txn[p] EXCEPT !.todo = rest, !.verdict = Ruled(@, First(p), v),
                                    !.stage = IF rest = {} THEN "count" ELSE "check"]
    <3>1. /\ t.verdict = Ruled(txn[p].verdict, First(p), v) /\ t.mine = txn[p].mine
          /\ Goto(p, t)
      BY <1>0, <1>2, <2>2 DEF Txn, RunCheck
    <3>2. v = "skipped" => Backed(txn[p].mine, First(p))
      BY VerdictGrounded
    <3>. HIDE DEF t, v
    <3>. QED
      BY <3>1, <3>2, RuledGrounded
  <2>. QED
    BY <2>1, <2>2
<1>3. CASE RunFlush(p)
  <2>1. CASE Doomed(p)
    BY <1>3, <2>1, NothingRuled DEF RunFlush
  <2>2. CASE ~Doomed(p)
    <3>. DEFINE rest == txn[p].todo \ {First(p)}
                t == [txn[p] EXCEPT !.todo = rest, !.mine = @ \cup {First(p)},
                                    !.verdict = Ruled(@, First(p), "success"),
                                    !.stage = IF rest = {} THEN "count" ELSE "check"]
    <3>1. /\ t.verdict = Ruled(txn[p].verdict, First(p), "success")
          /\ t.mine = txn[p].mine \cup {First(p)} /\ Goto(p, t)
      BY <1>0, <1>3, <2>2 DEF Txn, RunFlush
    <3>. HIDE DEF t
    <3>. QED
      BY <3>1, RuledGrounded
  <2>. QED
    BY <2>1, <2>2
<1>4. CASE RunCount(p)
  <2>. DEFINE seen == [i \in Items |-> IF i \in Flushed(p) THEN txn[p].verdict[i] ELSE item[i]]
              counts == [j \in Jobs |-> IF j \in LockedJobs(p) THEN Counted(seen, j) ELSE Zero]
              t == [txn[p] EXCEPT !.stage = "commit", !.counts = counts]
  <2>1. Goto(p, t)
    BY <1>4 DEF RunCount
  <2>. HIDE DEF counts
  <2>2. t.verdict = txn[p].verdict /\ t.mine = txn[p].mine
    BY <1>0 DEF Txn
  <2>. QED
    BY <2>1, <2>2, StaysGrounded
<1>5. CASE RunCommit(p)
  <2>1. CASE Goto(p, Idle)
    BY <2>1, NothingRuled
  <2>2. CASE Goto(p, [Began("run", None, "close") EXCEPT !.counts = txn[p].counts])
    <3>1. [Began("run", None, "close") EXCEPT !.counts = txn[p].counts].verdict = <<>>
      BY DEF Began
    <3>. QED
      BY <2>2, <3>1, RulingTypes DEF Grounded
  <2>. QED
    BY <1>5, <2>1, <2>2 DEF RunCommit
<1>6. CASE RunClose(p)
  BY <1>6, NothingRuled DEF RunClose
<1>. QED
  BY <1>1, <1>2, <1>3, <1>4, <1>5, <1>6 DEF Run

-----------------------------------------------------------------------------
(* A commit of rows is one step of the register.                           *)

(* Emails and roll numbers in use stay in use.                             *)
UseGrows ==
    /\ \A e \in Emails : owner[e] # None => owner'[e] # None
    /\ \A r \in Rolls : rolls[r] # None => rolls'[r] # None

LEMMA HeldAreFree ==
    ASSUME BulkInv, NEW p \in Procs, Settles(p)
    PROVE  /\ \A i \in Held(p) : Registry!Free(i)
           /\ \A i, k \in Held(p) : i # k => Registry!Apart(i, k)
<1>1. \A i \in Held(p) : i \in Sure(p) \/ i \in Latest(p)
  BY DEF Held, Sure
<1>2. \A i, k \in Latest(p) : i = k
  BY DEF Latest
<1>3. \A i \in Sure(p) : RollOf[i] # NoRoll => RollOf[i] \in HeldRolls(p)
  BY SureRolls
<1>4. \A i \in Held(p) : Registry!Free(i)
  BY <1>1 DEF BulkInv, AccountsInv, Settles, Registry!Free, Registry!Numbered
<1>5. ASSUME NEW i \in Held(p), NEW k \in Held(p), i # k PROVE Registry!Apart(i, k)
  <2>1. EmailOf[i] # EmailOf[k]
    BY <1>5 DEF BulkInv, AccountsInv
  <2>2. ASSUME RollOf[i] # NoRoll PROVE RollOf[i] # RollOf[k]
    <3>1. CASE i \in Sure(p) /\ k \in Sure(p)
      BY <1>5, <2>2, <3>1 DEF BulkInv, AccountsInv
    <3>2. CASE i \in Latest(p) /\ k \in Sure(p)
      BY <1>3, <2>2, <3>2 DEF Settles
    <3>3. CASE i \in Sure(p) /\ k \in Latest(p)
      BY <1>3, <2>2, <3>3 DEF Settles
    <3>. QED
      BY <1>1, <1>2, <1>5, <3>1, <3>2, <3>3
  <2>. QED
    BY <2>1, <2>2 DEF Registry!Apart, Registry!Numbered
<1>. QED
  BY <1>4, <1>5

LEMMA WritesSettle ==
    ASSUME RegisterInv, NEW p \in Procs, Writes(p, txn[p].verdict)
    PROVE  UseGrows /\ Registry!Next
<1>. DEFINE f == txn[p].verdict
            rows == DOMAIN f
            ruling == [i \in rows |-> item'[i]]
            made == {i \in rows : ruling[i] = "success"}
<1>0. BulkInv /\ Grounded(txn[p]) /\ BulkType /\ txn[p].mine = Held(p)
  BY DEF RegisterInv, BulkInv, Held
<1>1. /\ rows \subseteq Items /\ f \in Rulings /\ \A i \in rows : f[i] \in Verdicts
  BY <1>0, RulingTypes DEF BulkType, Txn
<1>2. \A i \in rows : ruling[i] = f[i]
  BY <1>1 DEF Writes
<1>3. made = Held(p)
  BY <1>2 DEF Writes
<1>4. /\ \A i \in made : i \in Items /\ i \notin Invalid /\ Registry!Free(i)
      /\ \A i, k \in made : i # k => Registry!Apart(i, k)
  <2>1. \A i \in made : i \notin Invalid /\ i \in Items
    BY <1>1, <1>2 DEF Writes
  <2>. QED
    BY <1>0, <1>3, <2>1, HeldAreFree DEF Writes
<1>5. /\ owner' = Registry!Given(owner, EmailOf, made) /\ rolls' = Registry!Given(rolls, RollOf, made)
  <2>1. DOMAIN owner = Emails /\ DOMAIN rolls = Rolls
    BY <1>0 DEF BulkType
  <2>2. owner' = Owned(made) /\ rolls' = Enrolled(made)
    BY <1>3 DEF Writes
  <2>. HIDE DEF made
  <2>3. Registry!Given(owner, EmailOf, made) = Owned(made)
    BY <2>1 DEF Owned, Registry!Given
  <2>4. Registry!Given(rolls, RollOf, made) = Enrolled(made)
    BY <2>1 DEF Enrolled, Registry!Given
  <2>. QED
    BY <2>2, <2>3, <2>4
<1>6. /\ \A e \in Emails : IF \E i \in made : EmailOf[i] = e THEN owner'[e] \in made
                           ELSE owner'[e] = owner[e]
      /\ \A r \in Rolls : IF \E i \in made : RollOf[i] = r THEN rolls'[r] \in made
                          ELSE rolls'[r] = rolls[r]
  BY <1>3 DEF Writes, Owned, Enrolled
<1>7. None \notin made
  BY <1>4, BulkAssumptions
<1>8. UseGrows
  BY <1>6, <1>7 DEF UseGrows
<1>9. ASSUME NEW i \in rows \ made
      PROVE  IF i \in Invalid THEN ruling[i] = "failed"
             ELSE ruling[i] = "skipped" /\ Registry!InUse(i)'
  <2>1. CASE i \in Invalid
    BY <1>2, <2>1 DEF Writes
  <2>2. CASE i \notin Invalid
    <3>1. ruling[i] = "skipped" /\ f[i] = "skipped"
      BY <1>1, <1>2, <2>2, <1>9 DEF Writes, Verdicts
    <3>2. Backed(made, i)
      BY <1>0, <1>3, <1>9, <3>1 DEF Grounded
    <3>3. EmailOf[i] \in Emails /\ (RollOf[i] # NoRoll => RollOf[i] \in Rolls)
      BY <1>1, BulkAssumptions
    <3>4. CASE EmailTaken(EmailOf[i]) \/ \E k \in made : EmailOf[k] = EmailOf[i]
      <4>1. owner'[EmailOf[i]] # None
        BY <1>6, <1>7, <3>3, <3>4 DEF EmailTaken
      <4>. QED
        BY <2>2, <3>1, <4>1 DEF Registry!InUse
    <3>5. CASE \/ RollTaken(RollOf[i])
               \/ RollOf[i] # NoRoll /\ \E k \in made : RollOf[k] = RollOf[i]
      <4>1. RollOf[i] # NoRoll /\ rolls'[RollOf[i]] # None
        BY <1>6, <1>7, <3>3, <3>5 DEF RollTaken
      <4>. QED
        BY <2>2, <3>1, <4>1 DEF Registry!InUse, Registry!Numbered
    <3>. QED
      BY <3>2, <3>4, <3>5 DEF Backed
  <2>. QED
    BY <2>1, <2>2
<1>10. Registry!Settle(ruling)
  <2>1. DOMAIN ruling = rows
    OBVIOUS
  <2>2. item' = [i \in Items |-> IF i \in rows THEN ruling[i] ELSE item[i]]
    BY <1>2 DEF Writes
  <2>3. \A i \in rows : item[i] # "none"
    BY DEF Writes
  <2>. HIDE DEF ruling, rows
  <2>. QED
    BY <1>4, <1>5, <1>9, <2>1, <2>2, <2>3 DEF Registry!Settle
<1>. QED
  BY <1>1, <1>8, <1>10 DEF Registry!Next

LEMMA GroundedKept ==
    ASSUME RegisterInv, BulkInv', UseGrows, NEW p \in Procs, NEW t, Goto(p, t), Grounded(t),
           \A i \in DOMAIN t.verdict : i \in Items
    PROVE  RegisterInv'
<1> SUFFICES ASSUME NEW q \in Procs PROVE Grounded(txn[q])'
  BY DEF RegisterInv
<1>1. Grounded(txn'[q]) /\ \A i \in DOMAIN txn'[q].verdict : i \in Items
  <2>1. txn' = [txn EXCEPT ![p] = t] /\ txn \in [Procs -> Txn]
    BY DEF Goto, RegisterInv, BulkInv, BulkType
  <2>2. CASE q = p
    BY <2>1, <2>2
  <2>3. CASE q # p
    BY <2>1, <2>3, RulingTypes DEF RegisterInv, Txn
  <2>. QED
    BY <2>2, <2>3
<1>2. \A i \in Items : EmailOf[i] \in Emails /\ (RollOf[i] # NoRoll => RollOf[i] \in Rolls)
  BY BulkAssumptions
<1>3. \A i \in Items : /\ EmailTaken(EmailOf[i]) => EmailTaken(EmailOf[i])'
                       /\ RollTaken(RollOf[i]) => RollTaken(RollOf[i])'
  BY <1>2 DEF UseGrows, EmailTaken, RollTaken
<1>. QED
  BY <1>1, <1>3 DEF Grounded, Backed

LEMMA AccountSteps ==
    RegisterInv /\ [Next]_vars => RegisterInv' /\ [Registry!Next]_Registry!register
<1> SUFFICES ASSUME RegisterInv, [Next]_vars
             PROVE  RegisterInv' /\ [Registry!Next]_Registry!register
  OBVIOUS
<1>0. BulkInv /\ BulkInv' /\ BulkType /\ BulkType' /\ \A p \in Procs : Grounded(txn[p])
  BY BulkSteps DEF RegisterInv, BulkInv
<1>1. ASSUME NEW p \in Procs, NEW t, Goto(p, t), Grounded(t), UseGrows
      PROVE  RegisterInv'
  <2>1. txn' = [txn EXCEPT ![p] = t]
    BY <1>1 DEF Goto
  <2>2. txn'[p] = t /\ t \in Txn
    BY <1>0, <2>1 DEF BulkType
  <2>. QED
    BY <1>0, <1>1, <2>2, GroundedKept, RulingTypes DEF Txn
<1>2. ASSUME UNCHANGED <<item, owner, rolls>>
      PROVE  UseGrows /\ [Registry!Next]_Registry!register
  BY <1>2 DEF UseGrows, Registry!register
<1>3. ASSUME NEW p \in Procs, TaskSave(p)
      PROVE  UseGrows /\ [Registry!Next]_Registry!register
  <2>1. CASE RollClash(p)
    BY <1>2, <1>3, <2>1 DEF TaskSave
  <2>2. CASE ~RollClash(p)
    BY <1>0, <1>3, <2>2, SaveWrites, WritesSettle
  <2>. QED
    BY <2>1, <2>2
<1>4. ASSUME NEW p \in Procs, RunCommit(p)
      PROVE  UseGrows /\ [Registry!Next]_Registry!register
  <2>1. CASE Doomed(p)
    BY <1>2, <1>4, <2>1 DEF RunCommit
  <2>2. CASE ~Doomed(p)
    BY <1>0, <1>4, <2>2, RunWrites, WritesSettle
  <2>. QED
    BY <2>1, <2>2
<1>5. ASSUME NEW p \in Procs, Task(p)
      PROVE  RegisterInv' /\ [Registry!Next]_Registry!register
  <2>1. UseGrows /\ [Registry!Next]_Registry!register
    BY <1>2, <1>3, <1>5
    DEF Task, TaskOpen, TaskMark, TaskLoad, TaskCheck, TaskFlush, TaskCount, TaskFinish
  <2>. QED
    BY <1>0, <1>1, <1>5, <2>1, TaskGrounded
<1>6. ASSUME NEW p \in Procs, RunLoad(p) \/ Run(p)
      PROVE  RegisterInv' /\ [Registry!Next]_Registry!register
  <2>1. UseGrows /\ [Registry!Next]_Registry!register
    BY <1>2, <1>4, <1>6 DEF Run, RunLoad, RunCheck, RunFlush, RunCount, RunClose
  <2>. QED
    BY <1>0, <1>1, <1>6, <2>1, RunGrounded
<1>7. ASSUME NEW p \in Procs, ResumeCommit(p) \/ Victim(p)
      PROVE  RegisterInv' /\ [Registry!Next]_Registry!register
  <2>1. UNCHANGED <<item, owner, rolls>>
    BY <1>7 DEF ResumeCommit, Victim
  <2>2. \E t : Goto(p, t) /\ Grounded(t)
    BY <1>0, <1>7, NothingRuled DEF ResumeCommit, Victim, BulkType
  <2>. QED
    BY <1>1, <1>2, <2>1, <2>2
<1>8. ASSUME NEW p \in Procs, NEW j \in Jobs, ResumeLoad(p, j)
      PROVE  RegisterInv' /\ [Registry!Next]_Registry!register
  <2>. DEFINE b == Began("resume", j, "finish")
              goal == IF \E i \in RowsOf(j) : item[i] = "pending" THEN "pending" ELSE "done"
              t == [b EXCEPT !.goal = goal]
  <2>1. Goto(p, t) /\ UNCHANGED <<item, owner, rolls>>
    BY <1>8 DEF ResumeLoad
  <2>. HIDE DEF goal
  <2>2. t.verdict = <<>>
    BY DEF Began
  <2>. HIDE DEF t
  <2>3. Grounded(t)
    BY <2>2, RulingTypes DEF Grounded
  <2>. QED
    BY <1>1, <1>2, <2>1, <2>3
<1>9. ASSUME NEW p \in Procs, NEW j \in Jobs, Upload(p, j) \/ Retry(p, j)
      PROVE  RegisterInv' /\ [Registry!Next]_Registry!register
  <2>1. Goto(p, Began("task", j, "open")) /\ UNCHANGED <<owner, rolls>>
    BY <1>9 DEF Upload, Retry
  <2>2. Registry!Offer(j, "none") \/ Registry!Offer(j, "failed")
    <3>1. CASE Upload(p, j)
      <4>1. \A i \in Items : JobOf[i] = j => item[i] = "none"
        BY <1>0, <3>1 DEF Upload, BulkInv, Uploaded
      <4>. QED
        BY <3>1, <4>1, <2>1 DEF Upload, Registry!Offer
    <3>2. CASE Retry(p, j)
      BY <3>2, <2>1 DEF Retry, RetryReset, Registry!Offer
    <3>. QED
      BY <1>9, <3>1, <3>2
  <2>3. UseGrows
    BY <2>1 DEF UseGrows
  <2>4. RegisterInv'
    BY <1>1, <2>1, <2>3, NothingRuled
  <2>. QED
    BY <2>2, <2>4 DEF Registry!Next
<1>10. ASSUME NEW e \in Emails, NEW r \in Rolls \cup {NoRoll}, Register(e, r)
       PROVE  RegisterInv' /\ [Registry!Next]_Registry!register
  <2>1. Registry!Register(e, r)
    BY <1>10 DEF Register, EmailTaken, RollTaken, Registry!Register
  <2>2. UseGrows
    BY <1>0, <1>10, BulkAssumptions DEF Register, UseGrows, BulkType
  <2>3. txn' = txn
    BY <1>10 DEF Register
  <2>4. \A p \in Procs : \A i \in DOMAIN txn[p].verdict :
           /\ EmailTaken(EmailOf[i]) => EmailTaken(EmailOf[i])'
           /\ RollTaken(RollOf[i]) => RollTaken(RollOf[i])'
    <3>1. \A p \in Procs : \A i \in DOMAIN txn[p].verdict :
             EmailOf[i] \in Emails /\ (RollOf[i] # NoRoll => RollOf[i] \in Rolls)
      BY <1>0, RulingTypes, BulkAssumptions DEF BulkType, Txn
    <3>. QED
      BY <2>2, <3>1 DEF UseGrows, EmailTaken, RollTaken
  <2>5. RegisterInv'
    BY <1>0, <2>3, <2>4 DEF RegisterInv, Grounded, Backed
  <2>. QED
    BY <2>1, <2>5 DEF Registry!Next
<1>11. CASE Crash
  <2>1. UNCHANGED <<item, owner, rolls>> /\ \A p \in Procs : txn'[p] = Idle
    BY <1>11 DEF Crash
  <2>2. RegisterInv'
    <3>1. Idle.verdict = <<>>
      BY DEF Idle, Began
    <3>. QED
      BY <1>0, <2>1, <3>1, RulingTypes DEF RegisterInv, Grounded
  <2>. QED
    BY <1>2, <2>1, <2>2
<1>12. CASE UNCHANGED vars
  <2>1. UNCHANGED <<item, owner, rolls, txn>>
    BY <1>12 DEF vars
  <2>. QED
    BY <1>0, <1>2, <2>1 DEF RegisterInv, Grounded, Backed, EmailTaken, RollTaken
<1>. QED
  BY <1>5, <1>6, <1>7, <1>8, <1>9, <1>10, <1>11, <1>12 DEF Next

(* Rows settle in one step with the accounts they make, under emails and   *)
(* roll numbers that nobody has, and are skipped only for one in use, for  *)
(* any files, handlers, runs and registrations and wherever a restart      *)
(* cuts them off (process_single_item, process_job_inline, the manual run, *)
(* retry_failed_items, create_single_student).                             *)
THEOREM ImportsKeepRegister == Spec => ImplementsAccounts
<1>1. Init => RegisterInv /\ Registry!Init
  <2> SUFFICES ASSUME Init PROVE RegisterInv /\ Registry!Init
    OBVIOUS
  <2>1. BulkInv
    BY BulkStarts
  <2>2. \A p \in Procs : Grounded(txn[p])
    BY NothingRuled DEF Init
  <2>3. Registry!Init
    BY DEF Init, Registry!Init
  <2>. QED
    BY <2>1, <2>2, <2>3 DEF RegisterInv
<1>2. RegisterInv /\ [Next]_vars => RegisterInv' /\ [Registry!Next]_Registry!register
  BY AccountSteps
<1>. QED
  BY <1>1, <1>2, PTL DEF Spec, ImplementsAccounts, Registry!Spec
=============================================================================
