-------------------------- MODULE SubmissionsProofs --------------------------
(* The files the database names stay in storage, task groups have rows and *)
(* graded work stands, for any number of groups, announcements, rows,      *)
(* files and handlers, refused removals and uploads, and crashes.          *)
EXTENDS Submissions, WellFoundedInduction, TLAPS

-----------------------------------------------------------------------------
(* Types.                                                                  *)

RowOps == {"submit", "create", "delete", "grade", "admin_grade"}
AnnOps == {"post", "edit", "admin_edit", "update", "admin_update", "withdraw"}
Grading == {"grade", "admin_grade"}
Status == {"absent", "pending", "submitted", "graded", "deleted"}
Targets == SUBSET (Groups \cup Roles \cup {None})

Txn ==
    [op : RowOps \cup AnnOps \cup {"idle"}, o : Owners \cup {None},
     phase : {"idle", "sync", "commit", "delete", "waiting"},
     seen : Status \cup Kinds \cup Roles \cup {"none"}, drop : SUBSET Files, gone : SUBSET Files,
     up : SUBSET Files, to : Targets, new : SUBSET Groups, cut : SUBSET TargetRows]

(* What a handler works on, and what it may hold at each phase.            *)
Fit(t) ==
    /\ t.op \in RowOps => t.o \in Rows
    /\ t.op \in AnnOps => t.o \in Anns
    /\ t.op = "delete" => t.o.ann = Own
    /\ t.op = "post" => t.seen \in Kinds /\ (t.seen = "task" => t.to \subseteq Groups)
    /\ t.op = "edit" => t.to = {None} \/ t.to \subseteq Groups
    /\ t.op = "admin_update" => t.seen \in Roles \/ (t.seen = "none" /\ t.cut = {})
    /\ t.op = "idle" => t.phase = "idle"
    /\ t.op \in Grading => t.phase = "commit"
    /\ t.op \in Grading \cup {"idle"} => t.drop = {} /\ t.gone = {} /\ t.up = {}
    /\ t.phase \in {"delete", "waiting"} =>
          t.op \in AnnOps \ {"admin_update"} /\ t.to # {None}

TablesType ==
    /\ alive \subseteq {g \in Groups : cycle[g] # None}
    /\ cycle \in [Groups -> Cycles \cup {None}]
    /\ kind \in [Anns -> Kinds \cup {"absent", "deleted"}]
    /\ targets \in [Anns -> [TargetRows -> Groups \cup Roles \cup {None}]]
    /\ row \in [Rows -> Status]
    /\ files \in [Owners -> SUBSET Files]

TxnType ==
    /\ txn \in [Procs -> Txn]
    /\ \A p \in Procs : Fit(txn[p])

SubType == TablesType /\ TxnType

-----------------------------------------------------------------------------
(* The keys a handler has read, removed or stored.                         *)
Claims(t) == t.drop \cup t.gone \cup t.up

Owned ==
    /\ \A o \in Owners : files[o] \subseteq used
    /\ \A o1, o2 \in Owners : o1 # o2 => files[o1] \cap files[o2] = {}

Held(t) ==
    /\ Claims(t) \subseteq used
    /\ \A o \in Owners \ {t.o} : Claims(t) \cap files[o] = {}
    /\ t.up \subseteq blobs
    /\ \A o \in Owners : t.up \cap files[o] = {}
    /\ t.up \cap (t.drop \cup t.gone) = {}

Unshared == \A p, q \in Procs : p # q => txn[p].up \cap Claims(txn[q]) = {}

FilesInv ==
    /\ Owned /\ Unshared /\ NamedFilesExist
    /\ \A p \in Procs : Held(txn[p])

-----------------------------------------------------------------------------
(* A group has, or is to get, a row for an announcement.                   *)
Has(a, g) == RowsOf(a, g) # {}

Aims(t) ==
    /\ t.op = "post" => kind[t.o] = "absent"
    /\ t.op = "withdraw" => kind[t.o] # "absent"
    /\ t.op \in {"post", "edit"} => \A g \in t.to \cap Groups : cycle[g] # None
    /\ t.op = "post" /\ t.phase = "commit" =>
          /\ t.seen = "task" => t.to \subseteq t.new
          /\ t.seen = "admin_task" =>
                \A g \in Audience(t.to) : g \in t.new \/ <<t.o, g>> \in newcomers
    /\ t.op = "edit" => kind[t.o] \in {"task", "notice", "deleted"}
    /\ t.op = "edit" /\ t.phase = "sync" /\ Retargets(t) =>
          \A g \in t.to \cap alive : g \in t.new \/ Has(t.o, g)

(* Groups not yet deleted; rows of an announcement go only with them.      *)
Lives(g) == g \in alive \/ cycle[g] = None
Lasting == \A r \in Rows : r.ann \in Anns /\ Lives(r.g) => row[r] # "deleted"

PostsAlone == \A p, q \in Procs :
    txn[p].op = "post" /\ txn[q].op = "post" /\ txn[p].o = txn[q].o => p = q

(* A target a task route set gave rows to the groups it reached; what      *)
(* became of the target since does not matter.                             *)
GaveRows(a, v) ==
    /\ kind[a] # "absent"
    /\ v \in Groups => cycle[v] # None
    /\ kind[a] = "task" /\ v \in alive => Has(a, v)
    /\ kind[a] = "admin_task" =>
          \A g \in Audience({v}) : Has(a, g) \/ <<a, g>> \in newcomers
PlacedHave == \A a \in Anns : \A v \in Groups \cup Roles : <<a, v>> \in placed => GaveRows(a, v)

TargetsInv ==
    /\ Lasting /\ PostsAlone /\ PlacedHave
    /\ \A p \in Procs : Aims(txn[p])

LEMMA RowsAndAnns ==
    /\ Anns \subseteq Owners /\ Rows \subseteq Owners
    /\ \A a \in Anns : a \notin Rows
BY TablesApart DEF Owners

LEMMA IdleFits == Idle \in Txn /\ Fit(Idle) /\ Claims(Idle) = {} /\ Idle.op = "idle"
<1>1. Idle \in Txn
  BY DEF Idle, Began, Txn, Targets
<1>. QED
  BY <1>1 DEF Idle, Began, Fit, Claims, RowOps, AnnOps, Grading

LEMMA TurnFits ==
    ASSUME TxnType, NEW p \in Procs, NEW x \in Txn, Fit(x), txn' = [txn EXCEPT ![p] = x]
    PROVE  /\ TxnType' /\ txn'[p] = x
           /\ \A q \in Procs \ {p} : txn'[q] = txn[q]
BY DEF TxnType

(* What a handler may begin with.                                          *)
Begun(t) ==
    /\ t \in Txn /\ Fit(t)
    /\ t.op # "idle" /\ t.o \in Owners /\ t.gone = {} /\ t.up = {} /\ t.drop \subseteq files[t.o]
    /\ t.op = "post" => /\ t.phase = "sync" /\ kind[t.o] = "absent"
                        /\ \A q \in Procs : txn[q].o # t.o
    /\ t.op = "edit" => /\ kind[t.o] \in {"task", "notice"}
                        /\ t.phase = "sync" => ~Retargets(t)
    /\ t.op = "withdraw" => kind[t.o] # "absent"
    /\ t.op \in {"post", "edit"} => \A g \in t.to \cap Groups : cycle[g] # None

LEMMA WorkBegins ==
    ASSUME SubType, NEW p \in Procs, NEW r \in Rows, NEW drop \in SUBSET files[r],
           \/ SubmitLoad(p, r, drop) \/ ReviseLoad(p, r, drop)
           \/ DeleteLoad(p, r) \/ SupervisorGradeLoad(p, r) \/ AdminGradeLoad(p, r)
    PROVE  \E t : Begun(t) /\ Start(p, t)
<1>1. /\ r \in Owners /\ files[r] \in SUBSET Files /\ row[r] \in Status
      /\ {None} \in Targets /\ {} \in SUBSET Groups
  BY RowsAndAnns DEF SubType, TablesType, Targets
<1>2. CASE SubmitLoad(p, r, drop) \/ ReviseLoad(p, r, drop)
  <2>. DEFINE t == [Began("submit", r, "sync") EXCEPT !.seen = row[r], !.drop = drop]
  <2>1. /\ t \in Txn /\ t.op = "submit" /\ t.o = r /\ t.phase = "sync" /\ t.drop = drop
        /\ t.gone = {} /\ t.up = {}
    BY <1>1 DEF Began, Txn, RowOps
  <2>2. Begun(t)
    BY <1>1, <2>1 DEF Begun, Fit, RowOps, AnnOps, Grading
  <2>. QED
    BY <1>2, <2>2 DEF SubmitLoad, ReviseLoad
<1>3. CASE DeleteLoad(p, r)
  <2>. DEFINE t == [Began("delete", r, "sync") EXCEPT !.drop = files[r]]
  <2>1. /\ t \in Txn /\ t.op = "delete" /\ t.o = r /\ t.phase = "sync" /\ t.drop = files[r]
        /\ t.gone = {} /\ t.up = {}
    BY <1>1 DEF Began, Txn, RowOps
  <2>2. Begun(t)
    BY <1>1, <1>3, <2>1 DEF Begun, Fit, RowOps, AnnOps, Grading, DeleteLoad, UnofficialOf
  <2>. QED
    BY <1>3, <2>2 DEF DeleteLoad
<1>4. ASSUME NEW who \in Grading, GradeLoad(p, r, who)
      PROVE  \E t : Begun(t) /\ Start(p, t)
  <2>. DEFINE t == [Began(who, r, "commit") EXCEPT !.seen = row[r]]
  <2>1. /\ t \in Txn /\ t.op = who /\ t.o = r /\ t.phase = "commit" /\ t.drop = {}
        /\ t.gone = {} /\ t.up = {}
    BY <1>1, <1>4 DEF Began, Txn, RowOps, Grading
  <2>2. Begun(t)
    BY <1>1, <1>4, <2>1 DEF Begun, Fit, RowOps, AnnOps, Grading
  <2>. QED
    BY <1>4, <2>2 DEF GradeLoad
<1>. QED
  BY <1>2, <1>3, <1>4 DEF SupervisorGradeLoad, AdminGradeLoad, Grading

LEMMA CreationBegins ==
    ASSUME SubType, NEW p \in Procs, NEW g \in Groups, CreateLoad(p, g)
    PROVE  \E t : Begun(t) /\ Start(p, t)
<1>1. PICK r \in Rows : Start(p, [Began("create", r, "sync") EXCEPT !.new = {g}])
  BY DEF CreateLoad
<1>2. r \in Owners /\ {None} \in Targets
  BY RowsAndAnns DEF Targets
<1>. DEFINE t == [Began("create", r, "sync") EXCEPT !.new = {g}]
<1>3. /\ t \in Txn /\ t.op = "create" /\ t.o = r /\ t.phase = "sync" /\ t.drop = {}
      /\ t.gone = {} /\ t.up = {}
  BY <1>2 DEF Began, Txn, RowOps
<1>4. Begun(t)
  BY <1>2, <1>3 DEF Begun, Fit, RowOps, AnnOps, Grading
<1>. QED
  BY <1>1, <1>4

LEMMA Addressed ==
    SubType =>
        /\ \A to \in GroupChoices \cup RoleChoices : to \in Targets
        /\ \A to \in GroupChoices : to \subseteq Groups
        /\ \A to \in {{None}} \cup GroupChoices \cup RoleChoices :
              \A g \in to \cap Groups : cycle[g] # None
BY SubmissionAssumptions
   DEF GroupChoices, RoleChoices, Targets, SubType, TablesType

LEMMA PostBegins ==
    ASSUME SubType, NEW p \in Procs, NEW a \in Anns,
           \/ SupervisorTaskLoad(p, a) \/ SupervisorPostLoad(p, a)
           \/ AdminTaskLoad(p, a) \/ AdminPostLoad(p, a)
    PROVE  \E t : Begun(t) /\ Start(p, t)
<1>1. PICK k \in Kinds, to \in GroupChoices \cup RoleChoices :
         PostLoad(p, a, k, to) /\ (k = "task" => to \in GroupChoices)
  BY DEF SupervisorTaskLoad, SupervisorPostLoad, AdminTaskLoad, AdminPostLoad, Kinds, Tasks
<1>2. /\ a \in Owners /\ to \in Targets /\ (k = "task" => to \subseteq Groups)
      /\ \A g \in to \cap Groups : cycle[g] # None
  BY <1>1, RowsAndAnns, Addressed
<1>. DEFINE t == [Began("post", a, "sync") EXCEPT !.seen = k, !.to = to]
<1>3. /\ t \in Txn /\ t.op = "post" /\ t.o = a /\ t.phase = "sync" /\ t.drop = {}
      /\ t.gone = {} /\ t.up = {} /\ t.seen = k /\ t.to = to
  BY <1>2 DEF Began, Txn, AnnOps
<1>4. Start(p, t) /\ kind[a] = "absent" /\ \A q \in Procs : txn[q].o # a
  BY <1>1 DEF PostLoad
<1>5. Begun(t)
  BY <1>2, <1>3, <1>4 DEF Begun, Fit, RowOps, AnnOps, Grading
<1>. QED
  BY <1>4, <1>5

LEMMA EditBegins ==
    ASSUME SubType, NEW p \in Procs, NEW a \in Anns, NEW drop \in SUBSET files[a],
           \/ SupervisorTaskEdit(p, a, drop) \/ AdminTaskEdit(p, a, drop)
           \/ SupervisorUpdate(p, a, drop)
    PROVE  \E t : Begun(t) /\ Start(p, t)
<1>1. PICK op \in {"edit", "admin_edit", "update"},
           to \in {{None}} \cup GroupChoices \cup RoleChoices :
         /\ EditLoad(p, op, a, drop, to)
         /\ op = "edit" => kind[a] \in {"task", "notice"} /\ to \in {{None}} \cup GroupChoices
  BY DEF SupervisorTaskEdit, AdminTaskEdit, SupervisorUpdate
<1>2. /\ a \in Owners /\ to \in Targets /\ drop \in SUBSET Files
      /\ op = "edit" => to = {None} \/ to \subseteq Groups
      /\ \A g \in to \cap Groups : cycle[g] # None
  BY <1>1, RowsAndAnns, Addressed DEF SubType, TablesType, Targets
<1>3. PICK phase \in {"sync", "delete"} : phase = IF to = {None} THEN "sync" ELSE "delete"
  OBVIOUS
<1>. DEFINE t == [Began(op, a, phase) EXCEPT !.drop = drop, !.to = to]
<1>4. /\ t \in Txn /\ t.op = op /\ t.o = a /\ t.phase = phase /\ t.drop = drop
      /\ t.gone = {} /\ t.up = {} /\ t.to = to
  BY <1>2 DEF Began, Txn, AnnOps
<1>5. t.op \in AnnOps
      /\ t.op \notin RowOps \cup Grading \cup {"post", "idle", "delete", "admin_update"}
  BY <1>4 DEF AnnOps, RowOps, Grading
<1>6. Fit(t)
  BY <1>2, <1>3, <1>4, <1>5 DEF Fit
<1>7. Begun(t)
  BY <1>1, <1>2, <1>3, <1>4, <1>5, <1>6 DEF Begun, Retargets
<1>. QED
  BY <1>1, <1>3, <1>7 DEF EditLoad

LEMMA RoleBegins ==
    ASSUME SubType, NEW p \in Procs, NEW a \in Anns, NEW drop \in SUBSET files[a],
           AdminUpdate(p, a, drop)
    PROVE  \E t : Begun(t) /\ Start(p, t)
<1>1. PICK role \in Roles \cup {"none"}, cut \in SUBSET TargetRows :
         /\ role = "none" => cut = {}
         /\ Start(p, [Began("admin_update", a, "sync") EXCEPT
                      !.drop = drop, !.seen = role, !.cut = cut])
  BY DEF AdminUpdate, Listed
<1>2. a \in Owners /\ {None} \in Targets /\ drop \in SUBSET Files
  BY RowsAndAnns DEF SubType, TablesType, Targets
<1>. DEFINE t == [Began("admin_update", a, "sync") EXCEPT
                  !.drop = drop, !.seen = role, !.cut = cut]
<1>3. /\ t \in Txn /\ t.op = "admin_update" /\ t.o = a /\ t.phase = "sync" /\ t.drop = drop
      /\ t.gone = {} /\ t.up = {} /\ t.seen = role /\ t.cut = cut
  BY <1>2 DEF Began, Txn, AnnOps
<1>4. Begun(t)
  BY <1>1, <1>2, <1>3 DEF Begun, Fit, RowOps, AnnOps, Grading
<1>. QED
  BY <1>1, <1>4

LEMMA WithdrawalBegins ==
    ASSUME SubType, NEW p \in Procs, NEW a \in Anns, WithdrawLoad(p, a)
    PROVE  \E t : Begun(t) /\ Start(p, t)
<1>0. kind[a] # "absent"
  BY DEF WithdrawLoad, Made, Kinds, Tasks
<1>1. a \in Owners /\ {None} \in Targets /\ files[a] \in SUBSET Files
  BY RowsAndAnns DEF SubType, TablesType, Targets
<1>. DEFINE t == [Began("withdraw", a, "sync") EXCEPT !.drop = files[a]]
<1>2. /\ t \in Txn /\ t.op = "withdraw" /\ t.o = a /\ t.phase = "sync" /\ t.drop = files[a]
      /\ t.gone = {} /\ t.up = {}
  BY <1>1 DEF Began, Txn, AnnOps
<1>3. Begun(t)
  BY <1>0, <1>1, <1>2 DEF Begun, Fit, RowOps, AnnOps, Grading
<1>. QED
  BY <1>3 DEF WithdrawLoad

LEMMA CallBegins ==
    ASSUME SubType, NEW p \in Procs, Call(p)
    PROVE  \E t : Begun(t) /\ Start(p, t)
<1>1. \A r \in Rows : {} \in SUBSET files[r]
  OBVIOUS
<1>. QED
  BY <1>1, WorkBegins, CreationBegins, PostBegins, EditBegins, RoleBegins, WithdrawalBegins
     DEF Call

LEMMA TypesStart == Init => SubType
<1>1. Init => TablesType
  BY SubmissionAssumptions DEF Init, TablesType, Targets, Status
<1>2. Init => TxnType
  BY IdleFits DEF Init, TxnType
<1>. QED
  BY <1>1, <1>2 DEF SubType

(* A handler in flight works on a row or an announcement.                  *)
LEMMA Working ==
    ASSUME SubType, NEW p \in Procs
    PROVE  /\ txn[p] \in Txn /\ Fit(txn[p])
           /\ txn[p].phase # "idle" => txn[p].o \in Owners
           /\ txn[p].op \in RowOps => txn[p].o \in Rows /\ txn[p].o \in Owners
           /\ txn[p].op \in AnnOps => txn[p].o \in Anns /\ txn[p].o \in Owners
           /\ At(p, "sync") => txn[p].op \notin Grading \cup {"idle"}
<1>1. txn[p] \in Txn /\ Fit(txn[p])
  BY DEF SubType, TxnType
<1>2. txn[p].op \in RowOps \cup AnnOps \cup {"idle"}
  BY <1>1 DEF Txn
<1>. QED
  BY <1>1, <1>2, RowsAndAnns DEF Fit, At

LEMMA TablesKept == ASSUME SubType, UNCHANGED tables PROVE TablesType'
BY DEF SubType, TablesType, tables

LEMMA IdleTurn ==
    ASSUME SubType, NEW p \in Procs, Goto(p, Idle)
    PROVE  TxnType' /\ txn'[p] = Idle /\ \A q \in Procs \ {p} : txn'[q] = txn[q]
BY IdleFits, TurnFits DEF Goto, SubType

(* What a step inside a handler makes of it.                               *)
LEMMA DropTurn ==
    ASSUME SubType, NEW p \in Procs, Drop(p)
    PROVE  \E k \in txn[p].drop, x \in Txn :
              /\ Fit(x) /\ Goto(p, x) /\ blobs' \in {blobs, blobs \ {k}}
              /\ x.o = txn[p].o /\ x.op = txn[p].op /\ x.phase = "sync" /\ x.seen = txn[p].seen
              /\ x.to = txn[p].to /\ x.new = txn[p].new /\ x.up = txn[p].up
              /\ x.drop = txn[p].drop \ {k} /\ x.gone = txn[p].gone \cup {k}
<1>1. PICK k \in txn[p].drop :
         /\ Goto(p, [txn[p] EXCEPT !.drop = @ \ {k}, !.gone = @ \cup {k}])
         /\ blobs' \in {blobs, blobs \ {k}}
  BY DEF Drop
<1>2. txn[p] \in Txn /\ Fit(txn[p]) /\ txn[p].op \notin Grading \cup {"idle"}
      /\ txn[p].phase = "sync"
  BY Working DEF Drop, At
<1>. DEFINE x == [txn[p] EXCEPT !.drop = @ \ {k}, !.gone = @ \cup {k}]
<1>3. /\ x \in Txn
      /\ x.o = txn[p].o /\ x.op = txn[p].op /\ x.phase = "sync" /\ x.seen = txn[p].seen
      /\ x.to = txn[p].to /\ x.new = txn[p].new /\ x.up = txn[p].up
      /\ x.drop = txn[p].drop \ {k} /\ x.gone = txn[p].gone \cup {k} /\ x.cut = txn[p].cut
  BY <1>2 DEF Txn
<1>4. Fit(x)
  BY <1>2, <1>3 DEF Fit
<1>. QED
  BY <1>1, <1>3, <1>4

LEMMA UploadTurn ==
    ASSUME SubType, NEW p \in Procs, Upload(p)
    PROVE  \E k \in Files \ used, x \in Txn :
              /\ Fit(x) /\ Goto(p, x) /\ blobs' = blobs \cup {k} /\ used' = used \cup {k}
              /\ x.o = txn[p].o /\ x.op = txn[p].op /\ x.phase = "sync" /\ x.seen = txn[p].seen
              /\ x.to = txn[p].to /\ x.new = txn[p].new /\ x.up = {k}
              /\ x.drop = {} /\ x.gone = txn[p].gone /\ txn[p].drop = {} /\ txn[p].up = {}
              /\ txn[p].phase = "sync"
<1>1. PICK k \in Files \ used :
         /\ Goto(p, [txn[p] EXCEPT !.up = {k}])
         /\ blobs' = blobs \cup {k} /\ used' = used \cup {k}
  BY DEF Upload
<1>2. /\ txn[p] \in Txn /\ Fit(txn[p]) /\ txn[p].op \notin Grading \cup {"idle"}
      /\ txn[p].phase = "sync" /\ txn[p].drop = {} /\ txn[p].up = {}
  BY Working DEF Upload, MayUpload, At
<1>. DEFINE x == [txn[p] EXCEPT !.up = {k}]
<1>3. /\ x \in Txn
      /\ x.o = txn[p].o /\ x.op = txn[p].op /\ x.phase = "sync" /\ x.seen = txn[p].seen
      /\ x.to = txn[p].to /\ x.new = txn[p].new /\ x.up = {k}
      /\ x.drop = {} /\ x.gone = txn[p].gone /\ x.cut = txn[p].cut
  BY <1>2 DEF Txn
<1>4. Fit(x)
  BY <1>2, <1>3 DEF Fit
<1>. QED
  BY <1>1, <1>2, <1>3, <1>4

(* The other steps of a handler that leave its files alone.                *)
Onward(t, x) ==
    /\ x \in Txn /\ Fit(x)
    /\ x.op = t.op /\ x.o = t.o /\ x.seen = t.seen /\ x.to = t.to
    /\ x.drop = t.drop /\ x.gone = t.gone /\ x.up = t.up

LEMMA PlaceTurn ==
    ASSUME SubType, NEW p \in Procs, PostPlace(p)
    PROVE  \E x : /\ Onward(txn[p], x) /\ Goto(p, x) /\ x.phase = "commit" /\ x.op = "post"
                  /\ x.seen = "task" => x.new = x.to
                  /\ x.seen = "admin_task" => x.new = Audience(x.to)
<1>1. /\ txn[p] \in Txn /\ Fit(txn[p]) /\ txn[p].op = "post"
      /\ UNCHANGED tables /\ txn[p].phase = "sync"
  BY Working DEF PostPlace, Ready, At, tables
<1>2. PICK new : new = IF txn[p].seen = "task" THEN txn[p].to
                       ELSE IF txn[p].seen = "admin_task" THEN Audience(txn[p].to) ELSE {}
  OBVIOUS
<1>3. new \in SUBSET Groups
  BY <1>1, <1>2 DEF Fit, Audience, SubType, TablesType
<1>. DEFINE x == [txn[p] EXCEPT !.phase = "commit", !.new = new]
<1>4. /\ x \in Txn /\ x.phase = "commit" /\ x.op = "post" /\ x.new = new
      /\ x.op = txn[p].op /\ x.o = txn[p].o /\ x.seen = txn[p].seen /\ x.to = txn[p].to
      /\ x.drop = txn[p].drop /\ x.gone = txn[p].gone /\ x.up = txn[p].up
  BY <1>1, <1>3 DEF Txn
<1>5. Fit(x)
  BY <1>1, <1>4 DEF Fit, Grading
<1>6. Goto(p, x)
  BY <1>2 DEF PostPlace
<1>7. Onward(txn[p], x)
  BY <1>4, <1>5 DEF Onward
<1>. HIDE DEF x
<1>. QED
  BY <1>2, <1>4, <1>6, <1>7

LEMMA RetargetTurn ==
    ASSUME SubType, NEW p \in Procs, RetargetWait(p) \/ Retarget(p)
    PROVE  \E x : /\ Onward(txn[p], x) /\ Goto(p, x) /\ x.phase \in {"sync", "waiting"}
                  /\ x.op \in AnnOps
                  /\ x.op = "edit" /\ x.phase = "sync" => x.new = Placeable(x.o, x.to)
<1>1. /\ txn[p] \in Txn /\ Fit(txn[p]) /\ txn[p].op \in AnnOps \ {"admin_update"}
      /\ txn[p].phase \in {"delete", "waiting"}
  BY Working DEF RetargetWait, Retarget, At, Fit
<1>2. PICK phase \in {"sync", "waiting"}, cut \in SUBSET TargetRows, new \in SUBSET Groups :
         /\ Goto(p, [txn[p] EXCEPT !.phase = phase, !.cut = cut, !.new = new])
         /\ txn[p].op = "edit" /\ phase = "sync" => new = Placeable(txn[p].o, txn[p].to)
  <2>1. CASE RetargetWait(p)
    <3>1. [txn[p] EXCEPT !.phase = "waiting", !.cut = Listed(txn[p].o)]
          = [txn[p] EXCEPT !.phase = "waiting", !.cut = Listed(txn[p].o), !.new = txn[p].new]
      BY <1>1 DEF Txn
    <3>2. Listed(txn[p].o) \in SUBSET TargetRows /\ txn[p].new \in SUBSET Groups
      BY <1>1 DEF Listed, Txn
    <3>. QED
      BY <2>1, <3>1, <3>2 DEF RetargetWait
  <2>2. CASE Retarget(p)
    <3>1. PICK new : new = IF txn[p].op = "edit" THEN Placeable(txn[p].o, txn[p].to) ELSE {}
      OBVIOUS
    <3>2. new \in SUBSET Groups
      BY <1>1, <3>1 DEF Fit, Placeable
    <3>3. PICK cut \in SUBSET TargetRows : cut = Sees(txn[p])
      BY DEF Sees, Listed
    <3>. QED
      BY <2>2, <3>1, <3>2, <3>3 DEF Retarget
  <2>. QED
    BY <2>1, <2>2
<1>. DEFINE x == [txn[p] EXCEPT !.phase = phase, !.cut = cut, !.new = new]
<1>3. /\ x \in Txn /\ x.phase = phase /\ x.new = new
      /\ x.op = txn[p].op /\ x.o = txn[p].o /\ x.seen = txn[p].seen /\ x.to = txn[p].to
      /\ x.drop = txn[p].drop /\ x.gone = txn[p].gone /\ x.up = txn[p].up
  BY <1>1 DEF Txn
<1>4. Fit(x)
  BY <1>1, <1>3 DEF Fit, Grading, AnnOps
<1>5. Onward(txn[p], x)
  BY <1>3, <1>4 DEF Onward
<1>6. Goto(p, x)
  BY <1>2
<1>7. x.op = "edit" /\ x.phase = "sync" => x.new = Placeable(x.o, x.to)
  <2>. HIDE DEF x
  <2>. QED
    BY <1>2, <1>3
<1>. HIDE DEF x
<1>. QED
  BY <1>1, <1>3, <1>5, <1>6, <1>7

(* A commit ends its handler and writes rows.                              *)
Commits(p) ==
    \/ SubmitCommit(p) \/ CreateCommit(p) \/ DeleteCommit(p) \/ GradeCommit(p)
    \/ PostCommit(p) \/ EditCommit(p) \/ AdminUpdateCommit(p) \/ WithdrawCommit(p)

LEMMA PlacesType ==
    ASSUME SubType, NEW a, NEW gs
    PROVE  Places(a, gs) \in [Rows -> Status]
BY DEF SubType, TablesType, Places, Status

LEMMA CommitEnds ==
    ASSUME SubType, NEW p \in Procs, Commits(p)
    PROVE  TxnType' /\ txn'[p] = Idle /\ \A q \in Procs \ {p} : txn'[q] = txn[q]
BY IdleTurn DEF Commits, SubmitCommit, CreateCommit, DeleteCommit, GradeCommit, PostCommit,
   EditCommit, AdminUpdateCommit, WithdrawCommit

(* What a commit writes of the files and where.                            *)
LEMMA CommitFiles ==
    ASSUME SubType, NEW p \in Procs, Commits(p)
    PROVE  /\ txn[p].o \in Owners /\ txn[p].op # "idle"
           /\ UNCHANGED <<blobs, used, lost>>
           /\ \/ files' = files /\ txn[p].gone = {}
              \/ \E F \in {Synced(p), txn[p].up, {}} : files' = [files EXCEPT ![txn[p].o] = F]
<1>0. txn[p] \in Txn /\ Fit(txn[p])
  BY Working
<1>1. CASE GradeCommit(p)
  BY <1>0, <1>1, Working DEF GradeCommit, Fit, Grading, RowOps, history
<1>2. CASE SubmitCommit(p) \/ CreateCommit(p) \/ DeleteCommit(p) \/ WithdrawCommit(p)
  <2>1. txn[p].o \in Owners
    BY <1>2, Working DEF SubmitCommit, CreateCommit, DeleteCommit, WithdrawCommit, Ready, RowOps,
       AnnOps
  <2>. QED
    BY <1>2, <2>1 DEF SubmitCommit, CreateCommit, DeleteCommit, WithdrawCommit, Ready, history
<1>3. CASE PostCommit(p)
  BY <1>3, Working DEF PostCommit, AnnOps, NotePlaced
<1>4. CASE EditCommit(p)
  BY <1>4, Working DEF EditCommit, Editing, AnnOps, NotePlaced
<1>5. CASE AdminUpdateCommit(p)
  BY <1>5, Working DEF AdminUpdateCommit, Ready, AnnOps, history
<1>. QED
  BY <1>1, <1>2, <1>3, <1>4, <1>5 DEF Commits

(* What the target rows of an announcement may hold.                       *)
TargetMap == [TargetRows -> Groups \cup Roles \cup {None}]

LEMMA RetargetType ==
    ASSUME SubType, NEW p \in Procs, txn[p].o \in Anns
    PROVE  Retargeted(p) \in TargetMap
<1>1. targets[txn[p].o] \in TargetMap /\ \A k \in TargetRows : k[1] \in Groups \cup Roles
  BY DEF SubType, TablesType, TargetMap, TargetRows
<1>. QED
  BY <1>1 DEF Retargeted, TargetMap

LEMMA CommitTables ==
    ASSUME SubType, NEW p \in Procs, Commits(p)
    PROVE  TablesType'
<1>0. /\ txn[p] \in Txn /\ Fit(txn[p]) /\ TablesType
      /\ txn[p].op \in RowOps => txn[p].o \in Rows
      /\ txn[p].op \in AnnOps => txn[p].o \in Anns
  BY Working DEF SubType
<1>1. files' \in [Owners -> SUBSET Files]
  <2>1. Synced(p) \in SUBSET Files /\ txn[p].up \in SUBSET Files
    BY <1>0, CommitFiles DEF Synced, TablesType, Txn
  <2>. QED
    BY <1>0, <2>1, CommitFiles DEF TablesType
<1>2. CASE SubmitCommit(p)
  <2>1. Resubmitted(txn[p]) \in Status /\ txn[p].o \in Rows
    BY <1>0, <1>2 DEF Resubmitted, SubmitCommit, Ready, RowOps, Status, TablesType
  <2>. QED
    BY <1>0, <1>1, <1>2, <2>1 DEF SubmitCommit, TablesType
<1>3. CASE CreateCommit(p) \/ DeleteCommit(p)
  BY <1>0, <1>1, <1>3 DEF CreateCommit, DeleteCommit, TablesType, Status
<1>4. CASE GradeCommit(p)
  <2>1. Graded(txn[p]) \in Status /\ txn[p].o \in Rows
    BY <1>0, <1>4 DEF Graded, GradeCommit, RowOps, Status, TablesType
  <2>. QED
    BY <1>0, <1>1, <1>4, <2>1 DEF GradeCommit, TablesType
<1>5. CASE PostCommit(p)
  <2>1. txn[p].seen \in Kinds /\ txn[p].o \in Anns
    BY <1>0, <1>5 DEF PostCommit, Fit, Txn, AnnOps
  <2>2. row' \in [Rows -> Status] /\ Retargeted(p) \in TargetMap
    BY <1>5, <2>1, PlacesType, RetargetType DEF PostCommit
  <2>. QED
    BY <1>0, <1>1, <1>5, <2>1, <2>2 DEF PostCommit, TablesType, TargetMap
<1>6. CASE EditCommit(p)
  <2>1. txn[p].o \in Anns
    BY <1>0, <1>6 DEF EditCommit, Editing, AnnOps
  <2>2. row' \in [Rows -> Status] /\ Retargeted(p) \in TargetMap
    BY <1>6, <2>1, PlacesType, RetargetType DEF EditCommit
  <2>. QED
    BY <1>0, <1>1, <1>6, <2>1, <2>2 DEF EditCommit, TablesType, TargetMap
<1>7. CASE AdminUpdateCommit(p)
  <2>1. txn[p].o \in Anns /\ (txn[p].seen \in Roles \/ txn[p].cut = {})
    BY <1>0, <1>7 DEF AdminUpdateCommit, Ready, AnnOps, Fit
  <2>2. Reroled(txn[p]) \in TargetMap
    BY <1>0, <2>1 DEF Reroled, TargetMap, TablesType
  <2>. QED
    BY <1>0, <1>1, <1>7, <2>1, <2>2 DEF AdminUpdateCommit, TablesType, TargetMap
<1>8. CASE WithdrawCommit(p)
  BY <1>0, <1>1, <1>8 DEF WithdrawCommit, TablesType
<1>. QED
  BY <1>2, <1>3, <1>4, <1>5, <1>6, <1>7, <1>8 DEF Commits

LEMMA CrashEnds ==
    ASSUME SubType, Crash
    PROVE  TxnType' /\ \A p \in Procs : txn'[p] = Idle
BY IdleFits DEF Crash, TxnType

LEMMA SomeCycle == "fyp1" \in Cycles
BY DEF Cycles

LEMMA ArrivalTypes ==
    ASSUME SubType, NEW g \in Groups, NEW c \in Cycles, GroupCreate(g) \/ GroupMove(g, c)
    PROVE  SubType'
<1>1. PICK d \in Cycles : Comes(g, d)
  BY SomeCycle DEF GroupCreate, GroupMove
<1>2. cycle' \in [Groups -> Cycles \cup {None}] /\ cycle'[g] = d
      /\ \A h \in Groups \ {g} : cycle'[h] = cycle[h]
  BY <1>1 DEF Comes, SubType, TablesType
<1>3. d # None
  BY SubmissionAssumptions DEF Roles
<1>4. alive' \subseteq alive \cup {g}
  BY DEF GroupCreate, GroupMove
<1>5. alive' \subseteq {h \in Groups : cycle'[h] # None}
  BY <1>2, <1>3, <1>4 DEF SubType, TablesType
<1>. QED
  BY <1>1, <1>2, <1>5 DEF Comes, SubType, TablesType, TxnType

LEMMA TypesStep == SubType /\ [Next]_vars => SubType'
<1> SUFFICES ASSUME SubType, [Next]_vars PROVE SubType'
  OBVIOUS
<1>1. ASSUME NEW p \in Procs, Call(p) PROVE SubType'
  <2>1. PICK t : Begun(t) /\ Start(p, t)
    BY <1>1, CallBegins
  <2>. QED
    BY <2>1, TurnFits, TablesKept DEF Start, Begun, SubType
<1>2. ASSUME NEW p \in Procs, NEW x \in Txn, Fit(x), Goto(p, x), UNCHANGED tables PROVE SubType'
  BY <1>2, TurnFits, TablesKept DEF Goto, SubType
<1>3. ASSUME NEW p \in Procs, Drop(p) PROVE SubType'
  BY <1>2, <1>3, DropTurn DEF Drop
<1>4. ASSUME NEW p \in Procs, Upload(p) PROVE SubType'
  BY <1>2, <1>4, UploadTurn DEF Upload
<1>5. ASSUME NEW p \in Procs, UploadFail(p) \/ Abort(p) PROVE SubType'
  <2>1. Goto(p, Idle) /\ UNCHANGED tables
    BY <1>5 DEF UploadFail, Abort, Forget
  <2>. QED
    BY <1>2, <2>1, IdleFits
<1>6. ASSUME NEW p \in Procs, PostPlace(p) PROVE SubType'
  BY <1>2, <1>6, PlaceTurn DEF PostPlace, Onward
<1>7. ASSUME NEW p \in Procs, RetargetWait(p) \/ Retarget(p) PROVE SubType'
  <2>1. PICK x : Onward(txn[p], x) /\ Goto(p, x)
    BY <1>7, RetargetTurn
  <2>. QED
    BY <1>2, <1>7, <2>1 DEF RetargetWait, Retarget, Onward
<1>8. ASSUME NEW p \in Procs, Commits(p) PROVE SubType'
  BY <1>8, CommitEnds, CommitTables DEF SubType
<1>9. ASSUME NEW g \in Groups, GroupDelete(g) PROVE SubType'
  <2>1. TablesType
    BY DEF SubType
  <2>2. /\ alive' \subseteq alive /\ UNCHANGED <<cycle, kind>>
        /\ files' \in [Owners -> SUBSET Files]
        /\ row' \in [Rows -> Status]
    BY <1>9, <2>1 DEF GroupDelete, TablesType, Status
  <2>3. targets' \in [Anns -> TargetMap]
    BY <1>9, <2>1 DEF GroupDelete, TablesType, TargetMap
  <2>4. TxnType'
    BY <1>9 DEF GroupDelete, SubType, TxnType
  <2>. QED
    BY <2>1, <2>2, <2>3, <2>4 DEF SubType, TablesType, TargetMap
<1>12. ASSUME NEW g \in Groups, NEW c \in Cycles, GroupCreate(g) \/ GroupMove(g, c) PROVE SubType'
  BY <1>12, ArrivalTypes
<1>10. CASE Crash
  BY <1>10, CrashEnds, TablesKept DEF Crash, SubType
<1>11. CASE UNCHANGED vars
  BY <1>11, TablesKept DEF vars, SubType, TxnType
<1>. QED
  BY <1>1, <1>3, <1>4, <1>5, <1>6, <1>7, <1>8, <1>9, <1>10, <1>11, <1>12, SomeCycle
     DEF Next, Proceed, Commits

\* Rows, announcements, files and the handlers of student_submissions.py,
\* supervisor_submissions.py and admin_submissions.py keep their shapes: what a handler
\* is about to write fits the row it loaded.
THEOREM SubmissionTypes == Spec => []SubType
BY TypesStart, TypesStep, PTL DEF Spec

\* Work that stays graded changes its files only under a student who loaded it before
\* it was graded, for any number of groups, announcements and handlers.
THEOREM GradesStandOverFiles == Spec => GradedWorkStands
<1>. DEFINE Stands == \A r \in Rows :
         row[r] = "graded" /\ row'[r] = "graded" /\ files'[r] # files[r] =>
            \E p \in Procs : txn[p].o = r /\ txn[p].seen = "submitted"
<1>1. ASSUME SubType, Next PROVE Stands
  <2>1. CASE files' = files
    BY <2>1
  <2>2. ASSUME NEW p \in Procs, Commits(p) PROVE Stands
    <3> SUFFICES ASSUME NEW r \in Rows, row[r] = "graded", row'[r] = "graded", files'[r] # files[r]
                 PROVE  txn[p].o = r /\ txn[p].seen = "submitted"
      BY <2>2
    <3>1. files \in [Owners -> SUBSET Files] /\ row \in [Rows -> Status] /\ r \in Owners
      BY <1>1, RowsAndAnns DEF SubType, TablesType
    <3>2. txn[p].o = r
      BY <1>1, <2>2, <3>1, CommitFiles
    <3>3. txn[p].op \in RowOps
      BY <1>1, <2>2, <3>2, CommitFiles, Working, TablesApart DEF Txn
    <3>4. SubmitCommit(p) \/ CreateCommit(p) \/ DeleteCommit(p)
      BY <1>1, <2>2, <3>3 DEF Commits, GradeCommit, PostCommit, EditCommit, Editing,
         AdminUpdateCommit, WithdrawCommit, Ready, RowOps
    <3>. QED
      BY <3>1, <3>2, <3>4 DEF SubmitCommit, CreateCommit, DeleteCommit, Resubmitted
  <2>3. ASSUME NEW g \in Groups, GroupDelete(g) PROVE Stands
    <3>1. row \in [Rows -> Status] /\ files \in [Owners -> SUBSET Files]
      BY <1>1 DEF SubType, TablesType
    <3> SUFFICES ASSUME NEW r \in Rows, row[r] = "graded", files'[r] # files[r]
                 PROVE  row'[r] # "graded"
      OBVIOUS
    <3>2. r \in Owners
      BY RowsAndAnns
    <3>3. r.g = g
      BY <2>3, <3>1, <3>2 DEF GroupDelete
    <3>. QED
      BY <2>3, <3>1, <3>3 DEF GroupDelete, Exists
  <2>4. ASSUME NEW p \in Procs, Call(p) PROVE files' = files
    BY <1>1, <2>4, CallBegins DEF Start, tables
  <2>5. ASSUME NEW p \in Procs, Proceed(p), ~Commits(p) PROVE files' = files
    BY <2>5 DEF Proceed, Commits, Drop, Upload, UploadFail, PostPlace, RetargetWait, Retarget,
       Abort, tables
  <2>6. CASE Crash
    BY <2>6 DEF Crash, tables
  <2>7. ASSUME NEW g \in Groups, NEW c \in Cycles, GroupCreate(g) \/ GroupMove(g, c)
        PROVE  files' = files
    BY <2>7 DEF GroupCreate, GroupMove, Comes
  <2>. QED
    BY <1>1, <2>1, <2>2, <2>3, <2>4, <2>5, <2>6, <2>7, SomeCycle DEF Next
<1>2. SubType /\ [Next]_vars => [Stands]_vars
  BY <1>1
<1>. QED
  BY <1>2, TypesStart, TypesStep, PTL DEF Spec, GradedWorkStands

-----------------------------------------------------------------------------
(* Files.                                                                  *)

LEMMA FilesStart == Init => FilesInv
<1>1. Init => \A p \in Procs : /\ txn[p].drop = {} /\ txn[p].gone = {} /\ txn[p].up = {}
  BY DEF Init, Idle, Began
<1>2. Init => \A o \in Owners : files[o] = {}
  BY DEF Init
<1>. QED
  BY <1>1, <1>2 DEF FilesInv, Owned, Unshared, NamedFilesExist, Held, Claims, FilesShown

(* The files of the database stay; what a handler of none holds is none.   *)
LEMMA FilesKept ==
    ASSUME FilesInv, UNCHANGED files, blobs \subseteq blobs', used \subseteq used',
           lost \subseteq lost',
           \A p \in Procs :
              \/ /\ txn'[p].o = txn[p].o /\ txn'[p].up = txn[p].up
                 /\ txn'[p].drop = txn[p].drop /\ txn'[p].gone = txn[p].gone
              \/ /\ txn'[p].up = {} /\ txn'[p].gone = {} /\ txn[p].gone \subseteq lost'
                 /\ \/ txn'[p].drop = {}
                    \/ txn'[p].o \in Owners /\ txn'[p].drop \subseteq files[txn'[p].o]
    PROVE  FilesInv'
<1>1. ASSUME NEW p \in Procs PROVE Held(txn[p])'
  <2>1. Held(txn[p]) /\ Owned
    BY DEF FilesInv
  <2>. QED
    BY <2>1 DEF Held, Claims, Owned
<1>2. Owned'
  BY DEF FilesInv, Owned
<1>3. Unshared'
  <2> SUFFICES ASSUME NEW p \in Procs, NEW q \in Procs, p # q, NEW k \in txn'[p].up
               PROVE  k \notin Claims(txn[q])'
    BY DEF Unshared
  <2>1. k \in txn[p].up /\ k \notin Claims(txn[q]) /\ \A o \in Owners : k \notin files[o]
    BY DEF FilesInv, Unshared, Held
  <2>. QED
    BY <2>1 DEF Claims
<1>4. NamedFilesExist'
  <2> SUFFICES ASSUME NEW o \in Owners, NEW k \in files[o]
               PROVE  k \in blobs' \/ Explained(k)'
    BY DEF NamedFilesExist, FilesShown
  <2>1. k \in blobs \/ Explained(k)
    BY DEF FilesInv, NamedFilesExist, FilesShown
  <2>. QED
    BY <2>1 DEF Explained
<1>. QED
  BY <1>1, <1>2, <1>3, <1>4 DEF FilesInv

LEMMA DropKeepsFiles ==
    ASSUME SubType, FilesInv, NEW p \in Procs, Drop(p)
    PROVE  FilesInv'
<1>1. PICK k \in txn[p].drop, x \in Txn :
         /\ Fit(x) /\ Goto(p, x) /\ blobs' \in {blobs, blobs \ {k}}
         /\ x.o = txn[p].o /\ x.up = txn[p].up
         /\ x.drop = txn[p].drop \ {k} /\ x.gone = txn[p].gone \cup {k}
  BY DropTurn
<1>2. /\ txn'[p] = x /\ \A q \in Procs \ {p} : txn'[q] = txn[q]
      /\ UNCHANGED <<files, used, lost>>
  BY <1>1, TurnFits DEF Goto, SubType, Drop, tables, history
<1>3. Claims(txn[p])' = Claims(txn[p]) /\ \A q \in Procs : Held(txn[q])
  BY <1>1, <1>2 DEF Claims, FilesInv
<1>4. Owned' /\ Unshared'
  BY <1>1, <1>2, <1>3 DEF FilesInv, Owned, Unshared, Claims
<1>5. ASSUME NEW q \in Procs PROVE Held(txn[q])'
  <2>1. k \notin txn[q].up
    BY <1>1, <1>3 DEF FilesInv, Unshared, Claims, Held
  <2>2. txn'[q].up = txn[q].up /\ Claims(txn[q])' = Claims(txn[q]) /\ txn'[q].o = txn[q].o
        /\ (txn[q].drop \cup txn[q].gone)' = txn[q].drop \cup txn[q].gone
    BY <1>1, <1>2, <1>3 DEF Claims
  <2>. QED
    BY <1>1, <1>2, <1>3, <2>1, <2>2 DEF Held
<1>6. NamedFilesExist'
  <2> SUFFICES ASSUME NEW o \in Owners, NEW j \in files[o]
               PROVE  j \in blobs' \/ Explained(j)'
    BY <1>2 DEF NamedFilesExist, FilesShown
  <2>1. j \in blobs \/ Explained(j)
    BY DEF FilesInv, NamedFilesExist, FilesShown
  <2>2. k \in txn'[p].gone /\ \A q \in Procs : txn[q].gone \subseteq txn'[q].gone
    BY <1>1, <1>2
  <2>. QED
    BY <1>1, <1>2, <2>1, <2>2 DEF Explained
<1>. QED
  BY <1>4, <1>5, <1>6 DEF FilesInv

LEMMA UploadKeepsFiles ==
    ASSUME SubType, FilesInv, NEW p \in Procs, Upload(p)
    PROVE  FilesInv'
<1>1. PICK k \in Files \ used, x \in Txn :
         /\ Fit(x) /\ Goto(p, x) /\ blobs' = blobs \cup {k} /\ used' = used \cup {k}
         /\ x.o = txn[p].o /\ x.up = {k} /\ x.drop = {} /\ x.gone = txn[p].gone
         /\ txn[p].drop = {} /\ txn[p].up = {}
  BY UploadTurn
<1>2. /\ txn'[p] = x /\ \A q \in Procs \ {p} : txn'[q] = txn[q]
      /\ UNCHANGED <<files, lost>>
  BY <1>1, TurnFits DEF Goto, SubType, Upload, tables, history
<1>3. /\ \A q \in Procs : Held(txn[q]) /\ k \notin Claims(txn[q])
      /\ \A o \in Owners : k \notin files[o]
      /\ Owned /\ Unshared
  BY <1>1 DEF FilesInv, Held, Owned
<1>4. Claims(txn[p])' = Claims(txn[p]) \cup {k}
      /\ \A q \in Procs \ {p} : Claims(txn[q])' = Claims(txn[q])
  BY <1>1, <1>2 DEF Claims
<1>5. Owned'
  BY <1>1, <1>2, <1>3 DEF Owned
<1>6. Unshared'
  <2> SUFFICES ASSUME NEW i \in Procs, NEW j \in Procs, i # j, NEW y \in txn'[i].up
               PROVE  y \notin Claims(txn[j])'
    BY DEF Unshared
  <2>1. CASE i = p
    BY <1>1, <1>2, <1>3, <1>4, <2>1
  <2>2. CASE i # p
    <3>1. y \in txn[i].up /\ y \in Claims(txn[i])
      BY <1>2, <2>2 DEF Claims
    <3>2. y \notin Claims(txn[j]) /\ y # k
      BY <1>3, <3>1 DEF Unshared
    <3>. QED
      BY <1>4, <3>2
  <2>. QED
    BY <2>1, <2>2
<1>7. ASSUME NEW q \in Procs PROVE Held(txn[q])'
  <2>1. CASE q = p
    BY <1>1, <1>2, <1>3, <1>4, <2>1 DEF Held, Claims
  <2>2. CASE q # p
    BY <1>1, <1>2, <1>3, <1>4, <2>2 DEF Held
  <2>. QED
    BY <2>1, <2>2
<1>8. NamedFilesExist'
  <2>1. \A q \in Procs : txn'[q].gone = txn[q].gone
    BY <1>1, <1>2
  <2>. QED
    BY <1>1, <1>2, <2>1 DEF FilesInv, NamedFilesExist, FilesShown, Explained
<1>. QED
  BY <1>5, <1>6, <1>7, <1>8 DEF FilesInv

LEMMA CommitKeepsFiles ==
    ASSUME SubType, FilesInv, NEW p \in Procs, Commits(p)
    PROVE  FilesInv'
<1>1. /\ txn[p].o \in Owners /\ blobs' = blobs /\ used' = used /\ lost' = lost
      /\ \/ files' = files /\ txn[p].gone = {}
         \/ \E F \in {Synced(p), txn[p].up, {}} : files' = [files EXCEPT ![txn[p].o] = F]
  BY CommitFiles
<1>2. PICK o : o = txn[p].o
  OBVIOUS
<1>3. /\ o \in Owners
      /\ files'[o] \subseteq files[o] \cup txn[p].up
      /\ \A j \in Owners \ {o} : files'[j] = files[j]
      /\ files'[o] \cap txn[p].gone \subseteq txn[p].up
  <2>1. files \in [Owners -> SUBSET Files]
    BY DEF SubType, TablesType
  <2>. QED
    BY <1>1, <1>2, <2>1 DEF Synced
<1>4. txn'[p] = Idle /\ \A q \in Procs \ {p} : txn'[q] = txn[q]
  BY CommitEnds
<1>5. Idle.drop = {} /\ Idle.gone = {} /\ Idle.up = {}
  BY DEF Idle, Began
<1>6. Owned /\ Unshared /\ NamedFilesExist /\ \A q \in Procs : Held(txn[q])
  BY DEF FilesInv
<1>7. /\ \A j \in Owners : txn[p].up \cap files[j] = {}
      /\ txn[p].up \subseteq used /\ txn[p].up \subseteq blobs
      /\ \A q \in Procs \ {p} : txn[p].up \cap Claims(txn[q]) = {}
  BY <1>6 DEF Held, Claims, Unshared
<1>8. Owned'
  <2>1. \A j \in Owners : files'[j] \subseteq used
    BY <1>3, <1>6, <1>7 DEF Owned
  <2>2. \A i, j \in Owners : i # j => files'[i] \cap files'[j] = {}
    BY <1>3, <1>6, <1>7 DEF Owned
  <2>. QED
    BY <1>1, <2>1, <2>2 DEF Owned
<1>9. Unshared'
  BY <1>4, <1>5, <1>6 DEF Unshared, Claims
<1>10. ASSUME NEW q \in Procs PROVE Held(txn[q])'
  <2>1. CASE q = p
    BY <1>4, <1>5, <2>1 DEF Held, Claims
  <2>2. CASE q # p
    <3>1. Claims(txn[q])' = Claims(txn[q]) /\ Held(txn[q])
      BY <1>4, <1>6, <2>2 DEF Claims
    <3>2. \A j \in Owners \ {txn[q].o} : Claims(txn[q]) \cap files'[j] = {}
      BY <1>3, <1>7, <2>2, <3>1 DEF Held
    <3>3. \A j \in Owners : txn[q].up \cap files'[j] = {}
      <4>1. txn[q].up \cap txn[p].up = {}
        BY <1>7, <2>2 DEF Claims
      <4>. QED
        BY <1>3, <3>1, <4>1 DEF Held
    <3>. QED
      BY <1>1, <1>4, <2>2, <3>1, <3>2, <3>3 DEF Held
  <2>. QED
    BY <2>1, <2>2
<1>11. NamedFilesExist'
  <2> SUFFICES ASSUME NEW j \in Owners, NEW k \in files'[j]
               PROVE  k \in blobs' \/ Explained(k)'
    BY DEF NamedFilesExist, FilesShown
  <2>1. CASE k \in txn[p].up
    BY <1>1, <1>7, <2>1
  <2>2. CASE k \notin txn[p].up
    <3>1. k \in files[j] /\ k \notin txn[p].gone
      <4>1. CASE j = o
        BY <1>3, <2>2, <4>1
      <4>2. CASE j # o
        <5>1. k \in files[j]
          BY <1>3, <4>2
        <5>2. Claims(txn[p]) \cap files[j] = {}
          BY <1>2, <1>6, <4>2 DEF Held
        <5>. QED
          BY <5>1, <5>2 DEF Claims
      <4>. QED
        BY <4>1, <4>2
    <3>2. k \in blobs \/ Explained(k)
      BY <1>6, <3>1 DEF NamedFilesExist, FilesShown
    <3>. QED
      BY <1>1, <1>4, <3>1, <3>2 DEF Explained
  <2>. QED
    BY <2>1, <2>2
<1>. QED
  BY <1>8, <1>9, <1>10, <1>11 DEF FilesInv

LEMMA DeletionKeepsFiles ==
    ASSUME SubType, FilesInv, NEW g \in Groups, GroupDelete(g)
    PROVE  FilesInv'
<1>1. \A o \in Owners : files'[o] \subseteq files[o]
  BY DEF GroupDelete, SubType, TablesType
<1>2. UNCHANGED <<blobs, used, txn, lost>>
  BY DEF GroupDelete, history
<1>3. Owned' /\ Unshared'
  BY <1>1, <1>2 DEF FilesInv, Owned, Unshared, Claims
<1>4. ASSUME NEW p \in Procs PROVE Held(txn[p])'
  <2>1. Held(txn[p])
    BY DEF FilesInv
  <2>. QED
    BY <1>1, <1>2, <2>1 DEF Held, Claims
<1>5. NamedFilesExist'
  BY <1>1, <1>2 DEF FilesInv, NamedFilesExist, FilesShown, Explained
<1>. QED
  BY <1>3, <1>4, <1>5 DEF FilesInv

LEMMA FilesStep == SubType /\ FilesInv /\ [Next]_vars => FilesInv'
<1> SUFFICES ASSUME SubType, FilesInv, [Next]_vars PROVE FilesInv'
  OBVIOUS
<1>0. Idle.drop = {} /\ Idle.gone = {} /\ Idle.up = {}
  BY DEF Idle, Began
<1>1. ASSUME NEW p \in Procs, Call(p) PROVE FilesInv'
  <2>1. PICK t : Begun(t) /\ Start(p, t)
    BY <1>1, CallBegins
  <2>2. /\ txn'[p] = t /\ \A q \in Procs \ {p} : txn'[q] = txn[q]
        /\ txn[p].gone = {}
    BY <1>0, <2>1, TurnFits DEF Start, Begun, SubType
  <2>. QED
    BY <2>1, <2>2, FilesKept DEF Start, Begun, tables, history
<1>2. ASSUME NEW p \in Procs, Drop(p) \/ Upload(p) \/ Commits(p) PROVE FilesInv'
  BY <1>2, DropKeepsFiles, UploadKeepsFiles, CommitKeepsFiles
<1>3. ASSUME NEW p \in Procs, UploadFail(p) \/ Abort(p) PROVE FilesInv'
  <2>1. /\ Goto(p, Idle) /\ files' = files /\ blobs \subseteq blobs' /\ used \subseteq used'
        /\ lost' = lost \cup txn[p].gone
    BY <1>3 DEF UploadFail, Abort, Forget, tables
  <2>2. txn'[p] = Idle /\ \A q \in Procs \ {p} : txn'[q] = txn[q]
    BY <2>1, IdleTurn
  <2>. QED
    BY <1>0, <2>1, <2>2, FilesKept
<1>4. ASSUME NEW p \in Procs, PostPlace(p) \/ RetargetWait(p) \/ Retarget(p) PROVE FilesInv'
  <2>1. PICK x : Onward(txn[p], x) /\ Goto(p, x)
    BY <1>4, PlaceTurn, RetargetTurn
  <2>2. txn'[p] = x /\ \A q \in Procs \ {p} : txn'[q] = txn[q]
    BY <2>1, TurnFits DEF Goto, Onward, SubType
  <2>3. UNCHANGED <<files, blobs, used, lost>>
    BY <1>4 DEF PostPlace, RetargetWait, Retarget, tables, history
  <2>. QED
    BY <2>1, <2>2, <2>3, FilesKept DEF Onward
<1>5. ASSUME NEW g \in Groups, GroupDelete(g) PROVE FilesInv'
  BY <1>5, DeletionKeepsFiles
<1>6. CASE Crash
  <2>1. /\ \A p \in Procs : txn'[p] = Idle /\ txn[p].gone \subseteq lost'
        /\ lost \subseteq lost' /\ UNCHANGED <<files, blobs, used>>
    BY <1>6, CrashEnds DEF Crash, tables
  <2>. QED
    BY <1>0, <2>1, FilesKept
<1>7. CASE UNCHANGED vars
  BY <1>7, FilesKept DEF vars, tables, history
<1>8. ASSUME NEW g \in Groups, NEW c \in Cycles, GroupCreate(g) \/ GroupMove(g, c)
      PROVE  FilesInv'
  <2>1. UNCHANGED <<files, blobs, used, txn, lost>>
    BY <1>8 DEF GroupCreate, GroupMove, Comes
  <2>. QED
    BY <2>1, FilesKept
<1>. QED
  BY <1>1, <1>2, <1>3, <1>4, <1>5, <1>6, <1>7, <1>8, SomeCycle DEF Next, Proceed, Commits

\* A file the database names is in storage, for any number of groups, announcements,
\* files and handlers, unless a handler removed it and has not committed.
THEOREM NamedFilesStay == Spec => []NamedFilesExist
BY TypesStart, TypesStep, FilesStart, FilesStep, PTL DEF Spec, FilesInv

-----------------------------------------------------------------------------
(* Rows of announcements.                                                  *)

LEMMA LessThanRelation == OpToRel(<, Nat) = {ss \in Nat \X Nat : ss[1] < ss[2]}
BY Zenon DEF OpToRel

LEMMA LeastNumber ==
    ASSUME NEW T, T \subseteq Nat, T # {}
    PROVE  \E n \in T : \A k \in T : n <= k
<1> DEFINE R == {ss \in Nat \X Nat : ss[1] < ss[2]}
<1>0. IsWellFoundedOn(R, Nat)
  BY NatLessThanWellFounded, LessThanRelation
<1>1. PICK n \in T : \A k \in T : <<k, n>> \notin R
  <2> HIDE DEF R
  <2> QED
    BY <1>0, WFMin
<1>2. ASSUME NEW k \in T PROVE n <= k
  <2>1. <<k, n>> \in Nat \X Nat
    OBVIOUS
  <2>2. ~(k < n)
    BY <1>1, <2>1
  <2> QED
    BY <2>2
<1> QED
  BY <1>2

(* What an insert of placeholders leaves alone, and adds.                  *)
LEMMA PlacesKeeps ==
    ASSUME SubType, NEW a, NEW gs, NEW r \in Rows
    PROVE  /\ row[r] # "absent" => Places(a, gs)[r] = row[r]
           /\ Places(a, gs)[r] \in {row[r], "pending"}
BY DEF Places, Free, Rows

LEMMA PlacesRow ==
    ASSUME SubType, Lasting, NEW a \in Anns, NEW gs, row' = Places(a, gs),
           NEW g \in alive, g \in gs
    PROVE  Has(a, g)'
<1>0. g \in Groups /\ row \in [Rows -> Status] /\ Copies \in Nat \ {0}
  BY SubmissionAssumptions DEF SubType, TablesType
<1>1. CASE Free(a, g) = {}
  <2>. DEFINE r == [ann |-> a, g |-> g, n |-> 1]
  <2>1. r \in Rows /\ r.ann = a /\ r.g = g /\ 1 \in 1..Copies
    BY <1>0 DEF Rows
  <2>2. row[r] # "absent" /\ row[r] # "deleted"
    BY <1>1, <2>1 DEF Free, Lasting, Lives
  <2>3. row'[r] \in {"pending", "submitted", "graded"}
    BY <1>0, <2>1, <2>2, PlacesKeeps DEF Status
  <2>. HIDE DEF r
  <2>. QED
    BY <2>1, <2>3 DEF Has, RowsOf, Exists
<1>2. CASE Free(a, g) # {}
  <2>0. Free(a, g) \subseteq Nat
    BY <1>0 DEF Free
  <2>1. PICK m \in Free(a, g) : \A n \in Free(a, g) : m <= n
    BY <1>2, <2>0, LeastNumber
  <2>. DEFINE r == [ann |-> a, g |-> g, n |-> m]
  <2>2. r \in Rows /\ r.ann = a /\ r.g = g /\ r.n = m
    BY <1>0, <2>1 DEF Rows, Free
  <2>3. row'[r] = "pending"
    BY <2>1, <2>2 DEF Places
  <2>. HIDE DEF r
  <2>. QED
    BY <2>2, <2>3 DEF Has, RowsOf, Exists
<1>. QED
  BY <1>1, <1>2

(* What no step does to groups and rows of announcements.                  *)
Stays ==
    /\ \A g \in Groups : cycle[g] # None => cycle'[g] # None
    /\ \A g \in alive' : g \in Groups /\ Lives(g)
    /\ \A r \in Rows : r.ann \in Anns /\ Lives(r.g)' =>
          /\ Exists(r) => Exists(r)'
          /\ row'[r] = "deleted" => row[r] = "deleted"
    /\ newcomers \subseteq newcomers'
    /\ \A a \in Anns : \A g \in alive' :
          Selected(a) => <<a, g>> \in newcomers' \/ (g \in alive /\ cycle'[g] = cycle[g])

LEMMA StaysHas ==
    ASSUME Stays
    PROVE  /\ \A g \in Groups : Lives(g)' => Lives(g)
           /\ \A a \in Anns, g \in alive' : Has(a, g) => Has(a, g)'
           /\ Lasting => Lasting'
<1>1. ASSUME NEW g \in Groups, Lives(g)' PROVE Lives(g)
  BY <1>1 DEF Stays, Lives
<1>2. ASSUME NEW a \in Anns, NEW g \in alive', Has(a, g) PROVE Has(a, g)'
  <2>1. PICK r \in Rows : r.ann = a /\ r.g = g /\ Exists(r)
    BY <1>2 DEF Has, RowsOf
  <2>2. Exists(r)'
    BY <1>2, <2>1 DEF Stays, Lives
  <2>. QED
    BY <2>1, <2>2 DEF Has, RowsOf
<1>3. Lasting => Lasting'
  <2>1. \A r \in Rows : r.g \in Groups
    BY DEF Rows
  <2>. QED
    BY <1>1, <2>1 DEF Stays, Lasting
<1>. QED
  BY <1>1, <1>2, <1>3

(* Groups that come to be addressed are newcomers.                         *)
LEMMA StaysAudience ==
    ASSUME Stays, NEW a \in Anns, NEW to, NEW g, g \in Audience(to)', Selected(a)
    PROVE  <<a, g>> \in newcomers' \/ g \in Audience(to)
<1>1. g \in alive' /\ \E v \in to : v \in {g, cycle'[g], "all"}
  BY DEF Audience, Reaches
<1>2. <<a, g>> \in newcomers' \/ (g \in alive /\ cycle'[g] = cycle[g])
  BY <1>1 DEF Stays
<1>. QED
  BY <1>1, <1>2 DEF Audience, Reaches

LEMMA CommitStays ==
    ASSUME SubType, NEW p \in Procs, Commits(p)
    PROVE  Stays /\ UNCHANGED <<alive, cycle, newcomers>>
<1>0. /\ txn[p] \in Txn /\ Fit(txn[p]) /\ row \in [Rows -> Status]
      /\ txn[p].op \in RowOps => txn[p].o \in Rows
      /\ alive \subseteq Groups
  BY Working DEF SubType, TablesType
<1>1. UNCHANGED <<alive, cycle, newcomers>>
  BY DEF Commits, SubmitCommit, CreateCommit, DeleteCommit, GradeCommit, PostCommit, EditCommit,
     AdminUpdateCommit, WithdrawCommit, NotePlaced, history
<1>2. ASSUME NEW r \in Rows, r.ann \in Anns
      PROVE  /\ Exists(r) => Exists(r)'
             /\ row'[r] = "deleted" => row[r] = "deleted"
  <2>1. CASE SubmitCommit(p)
    BY <1>0, <2>1 DEF SubmitCommit, Resubmitted, Exists
  <2>2. CASE CreateCommit(p)
    BY <1>0, <2>2 DEF CreateCommit, Exists
  <2>3. CASE DeleteCommit(p)
    <3>1. txn[p].o.ann = Own
      BY <1>0, <2>3 DEF DeleteCommit, Ready, Fit
    <3>2. txn[p].o # r
      BY <1>2, <3>1, SubmissionAssumptions
    <3>. QED
      BY <1>0, <2>3, <3>2 DEF DeleteCommit, Exists
  <2>4. CASE GradeCommit(p)
    BY <1>0, <2>4 DEF GradeCommit, Graded, Exists
  <2>5. CASE PostCommit(p) \/ EditCommit(p)
    <3>1. PICK a, gs : row' = Places(a, gs)
      BY <2>5 DEF PostCommit, EditCommit
    <3>2. row[r] # "absent" => row'[r] = row[r]
      BY <3>1, PlacesKeeps
    <3>3. row'[r] \in {row[r], "pending"}
      BY <3>1, PlacesKeeps
    <3>. QED
      BY <3>2, <3>3 DEF Exists
  <2>6. CASE AdminUpdateCommit(p) \/ WithdrawCommit(p)
    BY <2>6 DEF AdminUpdateCommit, WithdrawCommit, Exists
  <2>. QED
    BY <2>1, <2>2, <2>3, <2>4, <2>5, <2>6 DEF Commits
<1>. QED
  BY <1>0, <1>1, <1>2 DEF Stays, Lives

(* A handler that keeps its aim.                                           *)
Same(q) ==
    /\ txn'[q].op = txn[q].op /\ txn'[q].o = txn[q].o /\ txn'[q].phase = txn[q].phase
    /\ txn'[q].seen = txn[q].seen /\ txn'[q].to = txn[q].to /\ txn'[q].new = txn[q].new

LEMMA AimsKept ==
    ASSUME SubType, NEW q \in Procs, Aims(txn[q]), Same(q), Stays,
           txn[q].o \in Anns =>
              \/ kind'[txn[q].o] = kind[txn[q].o]
              \/ kind[txn[q].o] # "absent" /\ kind'[txn[q].o] = "deleted"
              \/ kind[txn[q].o] = "absent" /\ txn[q].op # "post"
    PROVE  Aims(txn[q])'
<1>1. PICK t : t = txn[q]
  OBVIOUS
<1>2. t.op \in {"post", "edit", "withdraw"} => t.o \in Anns
  BY <1>1, Working DEF AnnOps
<1>3. \A g \in t.to \cap Groups : cycle[g] # None => cycle'[g] # None
  BY DEF Stays
<1>4. t.op = "post" /\ t.phase = "commit" =>
         /\ t.seen = "task" => t.to \subseteq t.new
         /\ t.seen = "admin_task" =>
               \A g \in Audience(t.to)' : g \in t.new \/ <<t.o, g>> \in newcomers'
  <2> SUFFICES ASSUME t.op = "post", t.phase = "commit", t.seen = "admin_task",
                      NEW g \in Audience(t.to)'
               PROVE  g \in t.new \/ <<t.o, g>> \in newcomers'
    BY <1>1 DEF Aims
  <2>1. Selected(t.o)
    BY <1>1 DEF Selected, At
  <2>2. <<t.o, g>> \in newcomers' \/ g \in Audience(t.to)
    BY <1>2, <2>1, StaysAudience
  <2>3. \A h \in Audience(t.to) : h \in t.new \/ <<t.o, h>> \in newcomers
    BY <1>1 DEF Aims
  <2>. QED
    BY <2>2, <2>3 DEF Stays
<1>5. t.op = "edit" /\ t.phase = "sync" /\ Retargets(t) =>
          \A g \in t.to \cap alive' : g \in t.new \/ Has(t.o, g)'
  <2> SUFFICES ASSUME t.op = "edit", t.phase = "sync", Retargets(t), NEW g \in t.to \cap alive'
               PROVE  g \in t.new \/ Has(t.o, g)'
    OBVIOUS
  <2>1. g \in Groups /\ (g \in alive \/ cycle[g] = None)
    BY DEF Stays, Lives
  <2>2. g \in alive
    BY <1>1, <2>1 DEF Aims
  <2>3. g \in t.new \/ Has(t.o, g)
    BY <1>1, <2>2 DEF Aims
  <2>. QED
    BY <1>2, <2>3, StaysHas
<1>6. /\ t.op = "post" => kind'[t.o] = "absent"
      /\ t.op = "withdraw" => kind'[t.o] # "absent"
      /\ t.op = "edit" => kind'[t.o] \in {"task", "notice", "deleted"}
      /\ t.op \in {"post", "edit"} => \A g \in t.to \cap Groups : cycle'[g] # None
  BY <1>1, <1>2, <1>3 DEF Aims
<1>7. /\ txn'[q].op = t.op /\ txn'[q].o = t.o /\ txn'[q].phase = t.phase
      /\ txn'[q].seen = t.seen /\ txn'[q].to = t.to /\ txn'[q].new = t.new
  BY <1>1 DEF Same
<1>8. Retargets(txn[q])' <=> Retargets(t)
  BY <1>7 DEF Retargets
<1>9. Audience(txn[q].to)' = Audience(t.to)'
  BY <1>7 DEF Audience, Reaches
<1>. QED
  BY <1>4, <1>5, <1>6, <1>7, <1>8, <1>9 DEF Aims, Has, RowsOf, Exists

LEMMA PlacedKept ==
    ASSUME SubType, Stays, NEW a \in Anns, NEW v \in Groups \cup Roles, GaveRows(a, v),
           kind'[a] = kind[a] \/ kind'[a] = "deleted"
    PROVE  GaveRows(a, v)'
<1>1. v \in Groups => cycle'[v] # None
  BY DEF GaveRows, Stays
<1>2. ASSUME kind'[a] = "task", v \in alive' PROVE Has(a, v)'
  <2>1. v \in Groups /\ Lives(v)
    BY <1>2 DEF Stays
  <2>2. v \in alive
    BY <2>1 DEF GaveRows, Lives
  <2>. QED
    BY <1>2, <2>2, StaysHas DEF GaveRows
<1>3. ASSUME kind'[a] = "admin_task", NEW g \in Audience({v})'
      PROVE  Has(a, g)' \/ <<a, g>> \in newcomers'
  <2>1. kind[a] = "admin_task" /\ Selected(a)
    BY <1>3 DEF Selected, Made, Kinds, Tasks
  <2>2. <<a, g>> \in newcomers' \/ g \in Audience({v})
    BY <1>3, <2>1, StaysAudience
  <2>3. g \in alive' /\ newcomers \subseteq newcomers'
    BY <1>3 DEF Audience, Stays
  <2>4. \A h \in Audience({v}) : Has(a, h) \/ <<a, h>> \in newcomers
    BY <2>1 DEF GaveRows
  <2>. QED
    BY <2>2, <2>3, <2>4, StaysHas
<1>4. kind'[a] # "absent"
  BY DEF GaveRows
<1>. QED
  BY <1>1, <1>2, <1>3, <1>4 DEF GaveRows

LEMMA TargetsStart == Init => TargetsInv
<1>1. Init => \A p \in Procs : txn[p].op = "idle"
  BY DEF Init, Idle, Began
<1>2. Init => Lasting /\ PostsAlone /\ PlacedHave
  BY <1>1 DEF Init, Lasting, PostsAlone, PlacedHave
<1>3. Init => \A p \in Procs : Aims(txn[p])
  BY <1>1 DEF Aims
<1>. QED
  BY <1>2, <1>3 DEF TargetsInv

(* A step that sets no kinds and notes no targets.                         *)
LEMMA TargetsKept ==
    ASSUME SubType, TargetsInv, Stays, UNCHANGED <<kind, placed>>,
           \A q \in Procs : Same(q) \/ txn'[q] = Idle \/ Aims(txn[q])',
           \A p, q \in Procs : txn'[p].op = "post" /\ txn'[q].op = "post" /\ txn'[p].o = txn'[q].o
              => p = q
    PROVE  TargetsInv'
<1>1. Lasting'
  BY StaysHas DEF TargetsInv
<1>2. ASSUME NEW q \in Procs PROVE Aims(txn[q])'
  <2>1. CASE Same(q)
    BY <2>1, AimsKept DEF TargetsInv
  <2>2. CASE txn'[q] = Idle
    BY <2>2 DEF Aims, Idle, Began
  <2>. QED
    BY <2>1, <2>2
<1>3. ASSUME NEW a \in Anns, NEW v \in Groups \cup Roles, <<a, v>> \in placed'
      PROVE  GaveRows(a, v)'
  BY <1>3, PlacedKept DEF TargetsInv, PlacedHave
<1>4. PlacedHave'
  BY <1>3 DEF PlacedHave
<1>. QED
  BY <1>1, <1>2, <1>4 DEF TargetsInv, PostsAlone

(* What a commit does to the announcements.                                *)
LEMMA CommitKinds ==
    ASSUME SubType, TargetsInv, NEW p \in Procs, Commits(p), NEW q \in Procs \ {p},
           txn[q].o \in Anns
    PROVE  \/ kind'[txn[q].o] = kind[txn[q].o]
           \/ kind[txn[q].o] # "absent" /\ kind'[txn[q].o] = "deleted"
           \/ kind[txn[q].o] = "absent" /\ txn[q].op # "post"
<1>0. kind \in [Anns -> Kinds \cup {"absent", "deleted"}]
  BY DEF SubType, TablesType
<1>1. CASE PostCommit(p)
  <2>1. txn[p].op = "post" /\ kind' = [kind EXCEPT ![txn[p].o] = txn[p].seen]
    BY <1>1 DEF PostCommit
  <2>2. kind[txn[p].o] = "absent"
    BY <2>1 DEF TargetsInv, Aims
  <2>3. txn[q].op = "post" => txn[q].o # txn[p].o
    BY <2>1 DEF TargetsInv, PostsAlone
  <2>. QED
    BY <1>0, <2>1, <2>2, <2>3
<1>2. CASE WithdrawCommit(p)
  <2>1. txn[p].op = "withdraw" /\ kind' = [kind EXCEPT ![txn[p].o] = "deleted"]
    BY <1>2 DEF WithdrawCommit, Ready
  <2>2. kind[txn[p].o] # "absent"
    BY <2>1 DEF TargetsInv, Aims
  <2>. QED
    BY <1>0, <2>1, <2>2
<1>3. CASE kind' = kind
  BY <1>3
<1>. QED
  BY <1>1, <1>2, <1>3 DEF Commits, SubmitCommit, CreateCommit, DeleteCommit, GradeCommit,
     EditCommit, AdminUpdateCommit

LEMMA CommitAims ==
    ASSUME SubType, TargetsInv, NEW p \in Procs, Commits(p)
    PROVE  /\ Stays /\ Lasting'
           /\ \A q \in Procs : Aims(txn[q])'
           /\ PostsAlone'
<1>1. Stays /\ Lasting'
  BY CommitStays, StaysHas DEF TargetsInv
<1>2. /\ txn'[p] = Idle /\ \A q \in Procs \ {p} : Same(q)
  BY CommitEnds DEF Same
<1>3. ASSUME NEW q \in Procs PROVE Aims(txn[q])'
  <2>1. CASE q = p
    BY <1>2, <2>1 DEF Aims, Idle, Began
  <2>2. CASE q # p
    BY <1>1, <1>2, <2>2, AimsKept, CommitKinds DEF TargetsInv
  <2>. QED
    BY <2>1, <2>2
<1>4. PostsAlone'
  <2>1. Idle.op # "post"
    BY DEF Idle, Began
  <2>2. \A q \in Procs : txn'[q].op = "post" => q # p /\ txn[q].op = "post" /\ txn'[q].o = txn[q].o
    BY <1>2, <2>1 DEF Same
  <2>. QED
    BY <2>2 DEF TargetsInv, PostsAlone
<1>. QED
  BY <1>1, <1>3, <1>4

(* The task routes leave rows for the groups they set as targets.          *)
LEMMA PostGives ==
    ASSUME SubType, TargetsInv, NEW p \in Procs, PostCommit(p), NEW o, o = txn[p].o,
           NEW v \in (Groups \cup Roles) \cap txn[p].to
    PROVE  GaveRows(o, v)'
<1>0. PICK t : t = txn[p]
  OBVIOUS
<1>1. /\ t \in Txn /\ Fit(t) /\ t.op = "post" /\ t.phase = "commit" /\ o \in Anns
      /\ UNCHANGED <<alive, cycle, newcomers>> /\ row' = Places(o, t.new)
      /\ kind'[o] = t.seen /\ t.seen \in Kinds
  BY <1>0, Working DEF PostCommit, SubType, TablesType, AnnOps, NotePlaced, Fit
<1>2. /\ t.seen = "task" => t.to \subseteq t.new
      /\ t.seen = "admin_task" =>
            \A g \in Audience(t.to) : g \in t.new \/ <<t.o, g>> \in newcomers
      /\ \A g \in t.to \cap Groups : cycle[g] # None
  BY <1>0, <1>1 DEF TargetsInv, Aims
<1>3. \A g \in alive \cap t.new : Has(o, g)'
  BY <1>1, PlacesRow DEF TargetsInv
<1>4. kind'[o] = "task" /\ v \in alive' => Has(o, v)'
  BY <1>0, <1>1, <1>2, <1>3
<1>5. ASSUME kind'[o] = "admin_task", NEW g \in Audience({v})'
      PROVE  Has(o, g)' \/ <<o, g>> \in newcomers'
  <2>1. g \in Audience(t.to) /\ g \in alive
    BY <1>0, <1>1, <1>5 DEF Audience, Reaches
  <2>. QED
    BY <1>0, <1>1, <1>2, <1>3, <1>5, <2>1
<1>6. kind'[o] # "absent" /\ (v \in Groups => cycle'[v] # None)
  BY <1>0, <1>1, <1>2 DEF Kinds, Tasks
<1>. QED
  BY <1>4, <1>5, <1>6 DEF GaveRows

LEMMA EditGives ==
    ASSUME SubType, TargetsInv, NEW p \in Procs, EditCommit(p), NEW o, o = txn[p].o,
           txn[p].op = "edit", kind[o] \in Tasks,
           NEW v \in (Groups \cup Roles) \cap txn[p].to
    PROVE  GaveRows(o, v)'
<1>0. PICK t : t = txn[p]
  OBVIOUS
<1>1. /\ t \in Txn /\ Fit(t) /\ t.op = "edit" /\ t.phase = "sync" /\ o \in Anns
      /\ UNCHANGED <<alive, cycle>> /\ kind' = kind /\ row' = Places(o, t.new)
  BY <1>0, Working DEF EditCommit, SubType, TablesType, AnnOps
<1>2. Retargets(t)
  BY <1>0, <1>1, SubmissionAssumptions DEF Fit, Retargets
<1>3. /\ kind[o] = "task"
      /\ \A g \in t.to \cap alive : g \in t.new \/ Has(o, g)
      /\ \A g \in t.to \cap Groups : cycle[g] # None
  BY <1>0, <1>1, <1>2 DEF TargetsInv, Aims, Tasks
<1>4. \A g \in alive \cap t.new : Has(o, g)'
  BY <1>1, PlacesRow DEF TargetsInv
<1>5. \A g \in alive : Has(o, g) => Has(o, g)'
  BY <1>1, CommitStays, StaysHas DEF Commits
<1>. QED
  BY <1>0, <1>1, <1>3, <1>4, <1>5 DEF GaveRows

LEMMA CommitKeepsTargets ==
    ASSUME SubType, TargetsInv, NEW p \in Procs, Commits(p)
    PROVE  TargetsInv'
<1>0. /\ kind \in [Anns -> Kinds \cup {"absent", "deleted"}] /\ Stays
      /\ txn[p].op \in AnnOps => txn[p].o \in Anns
  BY CommitAims, Working DEF SubType, TablesType
<1>1. ASSUME NEW a \in Anns, NEW v \in Groups \cup Roles, <<a, v>> \in placed,
             kind'[a] = kind[a] \/ kind'[a] = "deleted"
      PROVE  GaveRows(a, v)'
  BY <1>0, <1>1, PlacedKept DEF TargetsInv, PlacedHave
<1>2. ASSUME NEW a \in Anns, NEW v \in Groups \cup Roles, <<a, v>> \in placed'
      PROVE  GaveRows(a, v)'
  <2>1. CASE UNCHANGED <<kind, placed>>
    BY <1>1, <1>2, <2>1
  <2>2. CASE WithdrawCommit(p)
    <3>1. placed' = placed /\ kind' = [kind EXCEPT ![txn[p].o] = "deleted"]
      BY <2>2 DEF WithdrawCommit, history
    <3>. QED
      BY <1>0, <1>1, <1>2, <3>1
  <2>3. CASE PostCommit(p)
    <3>0. txn[p].op = "post" /\ kind[txn[p].o] = "absent" /\ txn[p].o \in Anns
      BY <1>0, <2>3 DEF PostCommit, TargetsInv, Aims, AnnOps
    <3>1. /\ placed' \subseteq placed \cup ({txn[p].o} \X (txn[p].to \ {None}))
          /\ kind' = [kind EXCEPT ![txn[p].o] = txn[p].seen]
      BY <2>3 DEF PostCommit, NotePlaced
    <3>2. CASE <<a, v>> \in placed
      <4>1. a # txn[p].o
        BY <3>0, <3>2 DEF TargetsInv, PlacedHave, GaveRows
      <4>. QED
        BY <1>0, <1>1, <3>1, <3>2, <4>1
    <3>3. CASE a = txn[p].o /\ v \in txn[p].to
      BY <2>3, <3>3, PostGives
    <3>. QED
      BY <1>2, <3>1, <3>2, <3>3
  <2>4. CASE EditCommit(p)
    <3>1. /\ kind' = kind
          /\ placed' = IF kind[txn[p].o] \in Tasks /\ txn[p].op \in {"post", "edit"}
                       THEN placed \cup ({txn[p].o} \X (txn[p].to \ {None})) ELSE placed
      BY <2>4 DEF EditCommit, NotePlaced
    <3>2. CASE <<a, v>> \in placed
      BY <1>1, <3>1, <3>2
    <3>3. CASE <<a, v>> \notin placed
      <4>1. txn[p].op # "post"
        BY <2>4 DEF EditCommit, Editing
      <4>2. /\ a = txn[p].o /\ v \in txn[p].to
            /\ kind[txn[p].o] \in Tasks /\ txn[p].op = "edit"
        BY <1>2, <3>1, <3>3, <4>1
      <4>. QED
        BY <2>4, <4>2, EditGives
    <3>. QED
      BY <3>2, <3>3
  <2>. QED
    BY <2>1, <2>2, <2>3, <2>4 DEF Commits, SubmitCommit, CreateCommit, DeleteCommit, GradeCommit,
       AdminUpdateCommit, history
<1>3. PlacedHave'
  BY <1>2 DEF PlacedHave
<1>. QED
  BY <1>3, CommitAims DEF TargetsInv

(* Groups are deleted with their rows; groups made or moved have none.     *)
LEMMA GroupsStay ==
    ASSUME SubType, NEW g \in Groups, NEW c \in Cycles,
           GroupDelete(g) \/ GroupCreate(g) \/ GroupMove(g, c)
    PROVE  Stays /\ UNCHANGED <<kind, txn, placed>>
<1>0. /\ row \in [Rows -> Status] /\ alive \subseteq {h \in Groups : cycle[h] # None}
      /\ cycle \in [Groups -> Cycles \cup {None}] /\ None \notin Cycles /\ "fyp1" \in Cycles
  BY SubmissionAssumptions DEF SubType, TablesType, Roles, Cycles
<1>1. CASE GroupDelete(g)
  <2>1. /\ alive' = alive \ {g} /\ UNCHANGED <<cycle, newcomers, kind, txn, placed>> /\ g \in alive
        /\ \A r \in Rows : r.g # g => row'[r] = row[r]
    BY <1>1 DEF GroupDelete, history
  <2>2. \A r \in Rows : Lives(r.g)' => r.g # g
    BY <1>0, <2>1 DEF Lives
  <2>. QED
    BY <1>0, <2>1, <2>2 DEF Stays, Exists, Lives
<1>2. CASE GroupCreate(g) \/ GroupMove(g, c)
  <2>1. PICK d \in Cycles : Comes(g, d)
    BY <1>0, <1>2 DEF GroupCreate, GroupMove
  <2>2. /\ cycle' = [cycle EXCEPT ![g] = d] /\ UNCHANGED <<kind, row, txn, placed>>
        /\ newcomers' = newcomers \cup ({a \in Anns : Selected(a)} \X {g})
    BY <2>1 DEF Comes
  <2>3. alive' = alive \/ (alive' = alive \cup {g} /\ cycle[g] = None)
    BY <1>2 DEF GroupCreate, GroupMove
  <2>4. \A h \in alive' : h \in Groups /\ Lives(h)
    BY <1>0, <2>3 DEF Lives
  <2>5. \A a \in Anns : \A h \in alive' :
           Selected(a) => <<a, h>> \in newcomers' \/ (h \in alive /\ cycle'[h] = cycle[h])
    BY <1>0, <2>2, <2>3
  <2>6. \A h \in Groups : cycle[h] # None => cycle'[h] # None
    BY <1>0, <2>2
  <2>. QED
    BY <2>2, <2>4, <2>5, <2>6 DEF Stays, Exists
<1>. QED
  BY <1>1, <1>2

LEMMA GroupsKeepTargets ==
    ASSUME SubType, TargetsInv, NEW g \in Groups, NEW c \in Cycles,
           GroupDelete(g) \/ GroupCreate(g) \/ GroupMove(g, c)
    PROVE  TargetsInv'
<1>1. Stays /\ UNCHANGED <<kind, txn, placed>>
  BY GroupsStay
<1>2. \A q \in Procs : Same(q)
  BY <1>1 DEF Same
<1>3. \A p, q \in Procs :
         txn'[p].op = "post" /\ txn'[q].op = "post" /\ txn'[p].o = txn'[q].o => p = q
  BY <1>1 DEF TargetsInv, PostsAlone
<1>. QED
  BY <1>1, <1>2, <1>3, TargetsKept

noted == <<alive, cycle, kind, row, placed, newcomers>>

LEMMA NotedStays == ASSUME SubType, UNCHANGED noted PROVE Stays
BY DEF SubType, TablesType, noted, Stays, Lives, Exists

(* A step of a handler that writes no row.                                 *)
LEMMA TurnKeepsTargets ==
    ASSUME SubType, TargetsInv, NEW p \in Procs, NEW x, Goto(p, x), x \in Txn, Fit(x),
           UNCHANGED noted, x.op = txn[p].op /\ x.o = txn[p].o, Aims(x)
    PROVE  TargetsInv'
<1>1. txn'[p] = x /\ \A q \in Procs \ {p} : txn'[q] = txn[q]
  BY TurnFits DEF Goto, SubType
<1>2. Aims(txn[p])'
  BY <1>1 DEF noted, Aims, Audience, Reaches, Has, RowsOf, Exists, Retargets
<1>3. \A q \in Procs : Same(q) \/ Aims(txn[q])'
  BY <1>1, <1>2 DEF Same
<1>4. \A q \in Procs : txn'[q].op = txn[q].op /\ txn'[q].o = txn[q].o
  BY <1>1
<1>5. \A p1, p2 \in Procs :
         txn'[p1].op = "post" /\ txn'[p2].op = "post" /\ txn'[p1].o = txn'[p2].o => p1 = p2
  BY <1>4 DEF TargetsInv, PostsAlone
<1>6. Stays /\ UNCHANGED <<kind, placed>>
  BY NotedStays DEF noted
<1>. QED
  BY <1>3, <1>5, <1>6, TargetsKept

LEMMA TargetsStep == SubType /\ TargetsInv /\ [Next]_vars => TargetsInv'
<1> SUFFICES ASSUME SubType, TargetsInv, [Next]_vars PROVE TargetsInv'
  OBVIOUS
<1>0. Idle.op = "idle"
  BY DEF Idle, Began
<1>1. ASSUME NEW p \in Procs, Call(p) PROVE TargetsInv'
  <2>1. PICK t : Begun(t) /\ Start(p, t)
    BY <1>1, CallBegins
  <2>2. /\ txn'[p] = t /\ \A q \in Procs \ {p} : txn'[q] = txn[q]
        /\ UNCHANGED noted
    BY <2>1, TurnFits DEF Start, Begun, SubType, tables, history, noted
  <2>3. Aims(txn[p])'
    BY <2>1, <2>2 DEF Begun, Aims, Retargets, noted
  <2>4. \A q \in Procs : Same(q) \/ Aims(txn[q])'
    BY <2>2, <2>3 DEF Same
  <2>5. t.op = "post" => \A q \in Procs : txn[q].o # t.o
    BY <2>1 DEF Begun
  <2>6. \A p1, p2 \in Procs :
           txn'[p1].op = "post" /\ txn'[p2].op = "post" /\ txn'[p1].o = txn'[p2].o => p1 = p2
    BY <2>2, <2>5 DEF TargetsInv, PostsAlone
  <2>7. Stays /\ UNCHANGED <<kind, placed>>
    BY <2>2, NotedStays DEF noted
  <2>. QED
    BY <2>4, <2>6, <2>7, TargetsKept
<1>2. ASSUME NEW p \in Procs, Drop(p) PROVE TargetsInv'
  <2>1. PICK x \in Txn : /\ Fit(x) /\ Goto(p, x)
                         /\ x.o = txn[p].o /\ x.op = txn[p].op /\ x.phase = txn[p].phase
                         /\ x.seen = txn[p].seen /\ x.to = txn[p].to /\ x.new = txn[p].new
    <3>1. txn[p].phase = "sync"
      BY <1>2 DEF Drop, At
    <3>. QED
      BY <1>2, <3>1, DropTurn
  <2>2. Aims(txn[p])
    BY DEF TargetsInv
  <2>3. Aims(x)
    BY <2>1, <2>2 DEF Aims, Retargets
  <2>. QED
    BY <1>2, <2>1, <2>3, TurnKeepsTargets DEF Drop, tables, history, noted
<1>3. ASSUME NEW p \in Procs, Upload(p) PROVE TargetsInv'
  <2>1. PICK x \in Txn : /\ Fit(x) /\ Goto(p, x)
                         /\ x.o = txn[p].o /\ x.op = txn[p].op /\ x.phase = txn[p].phase
                         /\ x.seen = txn[p].seen /\ x.to = txn[p].to /\ x.new = txn[p].new
    BY <1>3, UploadTurn
  <2>2. Aims(txn[p])
    BY DEF TargetsInv
  <2>3. Aims(x)
    BY <2>1, <2>2 DEF Aims, Retargets
  <2>. QED
    BY <1>3, <2>1, <2>3, TurnKeepsTargets DEF Upload, tables, history, noted
<1>4. ASSUME NEW p \in Procs, PostPlace(p) PROVE TargetsInv'
  <2>1. PICK x : /\ Onward(txn[p], x) /\ Goto(p, x) /\ x.op = "post"
                 /\ x.seen = "task" => x.new = x.to
                 /\ x.seen = "admin_task" => x.new = Audience(x.to)
    BY <1>4, PlaceTurn
  <2>2. Aims(txn[p])
    BY DEF TargetsInv
  <2>3. Aims(x)
    BY <2>1, <2>2 DEF Aims, Onward
  <2>. QED
    BY <1>4, <2>1, <2>3, TurnKeepsTargets DEF PostPlace, Onward, tables, history, noted
<1>5. ASSUME NEW p \in Procs, RetargetWait(p) \/ Retarget(p) PROVE TargetsInv'
  <2>1. PICK x : /\ Onward(txn[p], x) /\ Goto(p, x) /\ x.phase \in {"sync", "waiting"}
                 /\ x.op = "edit" /\ x.phase = "sync" => x.new = Placeable(x.o, x.to)
    BY <1>5, RetargetTurn
  <2>2. Aims(txn[p])
    BY DEF TargetsInv
  <2>3. Aims(x)
    BY <2>1, <2>2 DEF Aims, Onward, Placeable, Has
  <2>. QED
    BY <1>5, <2>1, <2>3, TurnKeepsTargets DEF RetargetWait, Retarget, Onward, tables, history, noted
<1>6. ASSUME \A q \in Procs : txn'[q] = txn[q] \/ txn'[q] = Idle, UNCHANGED noted
      PROVE  TargetsInv'
  <2>1. \A q \in Procs : Same(q) \/ txn'[q] = Idle
    BY <1>6 DEF Same
  <2>2. \A p1, p2 \in Procs :
           txn'[p1].op = "post" /\ txn'[p2].op = "post" /\ txn'[p1].o = txn'[p2].o => p1 = p2
    BY <1>0, <1>6 DEF TargetsInv, PostsAlone
  <2>3. Stays /\ UNCHANGED <<kind, placed>>
    BY <1>6, NotedStays DEF noted
  <2>. QED
    BY <2>1, <2>2, <2>3, TargetsKept
<1>7. ASSUME NEW p \in Procs, UploadFail(p) \/ Abort(p) PROVE TargetsInv'
  <2>1. Goto(p, Idle) /\ UNCHANGED noted
    BY <1>7 DEF UploadFail, Abort, Forget, tables, noted
  <2>. QED
    BY <1>6, <2>1, IdleTurn
<1>8. ASSUME NEW p \in Procs, Commits(p) PROVE TargetsInv'
  BY <1>8, CommitKeepsTargets
<1>9. ASSUME NEW g \in Groups, NEW c \in Cycles,
             GroupDelete(g) \/ GroupCreate(g) \/ GroupMove(g, c)
      PROVE  TargetsInv'
  BY <1>9, GroupsKeepTargets
<1>10. CASE Crash
  <2>1. UNCHANGED noted /\ \A q \in Procs : txn'[q] = Idle
    BY <1>10, CrashEnds DEF Crash, tables, noted
  <2>. QED
    BY <1>6, <2>1
<1>11. CASE UNCHANGED vars
  BY <1>6, <1>11 DEF vars, tables, history, noted
<1>. QED
  BY <1>1, <1>2, <1>3, <1>4, <1>5, <1>7, <1>8, <1>9, <1>10, <1>11, SomeCycle
     DEF Next, Proceed, Commits

(* Targets set since by other routes are excused, those a task route set   *)
(* have given rows.                                                        *)
LEMMA RowsWhereShown == SubType /\ PlacedHave => TargetsHaveRows
<1> SUFFICES ASSUME SubType, PlacedHave, NEW a \in Anns
             PROVE  /\ kind[a] = "task" => \A g \in SupervisorMisses(a) : <<a, g>> \notin placed
                    /\ kind[a] = "admin_task" => \A g \in AdminMisses(a) :
                          \/ <<a, g>> \in newcomers
                          \/ \A v \in Aim(a) : Reaches(v, g) => <<a, v>> \notin placed
  BY DEF TargetsHaveRows
<1>1. Aim(a) \subseteq Groups \cup Roles /\ alive \subseteq Groups
  BY DEF SubType, TablesType, Aim, Listed
<1>2. ASSUME kind[a] = "task", NEW g \in SupervisorMisses(a) PROVE <<a, g>> \notin placed
  BY <1>1, <1>2 DEF SupervisorMisses, PlacedHave, GaveRows, Has
<1>3. ASSUME kind[a] = "admin_task", NEW g \in AdminMisses(a), <<a, g>> \notin newcomers,
             NEW v \in Aim(a), Reaches(v, g)
      PROVE  <<a, v>> \notin placed
  <2>1. g \in Audience({v}) /\ ~Has(a, g)
    BY <1>3 DEF AdminMisses, Audience, Has
  <2>. QED
    BY <1>1, <1>3, <2>1 DEF PlacedHave, GaveRows
<1>. QED
  BY <1>2, <1>3

\* A group a task route set as a target, alone or through its cycle, has a row as long as
\* it exists, for any number of groups, announcements, rows and handlers, unless it came
\* to its cycle after an administrator's task was posted.
THEOREM TaskGroupsHaveRows == Spec => []TargetsHaveRows
<1>1. SubType /\ TargetsInv => TargetsHaveRows
  BY RowsWhereShown DEF TargetsInv
<1>. QED
  BY <1>1, TypesStart, TypesStep, TargetsStart, TargetsStep, PTL DEF Spec
==============================================================================
