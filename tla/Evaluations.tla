------------------------------ MODULE Evaluations ------------------------------
(***************************************************************************)
(* Milestones that administrators set up, and the marks supervisors and    *)
(* jury members give a group for them.                                     *)
(*                                                                         *)
(* A milestone's evaluator and jury form choose the table an evaluation is *)
(* kept in: supervisor_evaluations, jury_evaluations (form "normal") or    *)
(* proposal_evaluations, whose total is the client's or else computed from *)
(* the lines of its rubric.  The columns of that table hold tenths of a    *)
(* mark and each is rounded on its own.  Handlers write only columns that  *)
(* differ from what they loaded.                                           *)
(***************************************************************************)
EXTENDS Handlers

CONSTANTS
    Milestones, Faculty,
    Marks,      \* supervisor marks and letter grades
    Tenth,      \* the unit of points and totals sent: this many make 0.1 marks
    Points,     \* points for one of the rubric's lines, of which two are kept
    Totals,     \* total_marks a client may send
    Omitted,    \* in place of a total: the field is not sent
    Deleted

ASSUME EvaluationAssumptions ==
    /\ Tenth \in Nat \ {0}
    /\ Points \subseteq Nat /\ Totals \subseteq Nat
    /\ Omitted \notin Totals \cup {None}

VARIABLES
    mil,        \* admin_milestone; None before it is made
    fellows,    \* faculty the group answers to: its supervisors and its jury pair
    given,      \* evaluations: by table, milestone and faculty, or None
    sent        \* history: evaluations whose last request gave a total of its
                \* own, or points that are no tenths

evaluations == <<mil, fellows, given, sent>>

Evaluators == {"supervisor", "jury"}
Forms == {"normal", "proposal"}
Tables == {"supervisor", "normal", "proposal"}
Set(m) == mil[m] \notin {None, Deleted}
Table(row) == IF row.evaluator = "jury" THEN row.form ELSE "supervisor"
Rubric == [first : Points, second : Points]

(* What a number of units is rounded to, in tenths of a mark: to one of    *)
(* the nearest.  Which of two depends on its float, and on who rounds.     *)
Dist(x, y) == IF x < y THEN y - x ELSE x - y
Roundings(x) == {n \in 0..x : 2 * Dist(Tenth * n, x) <= Tenth}

EvaluationsInit ==
    /\ mil = [m \in Milestones |-> None]
    /\ fellows = [supervisor |-> Faculty, jury |-> Faculty]
    /\ given = [k \in Tables \X Milestones \X Faculty |-> None]
    /\ sent = {}

-----------------------------------------------------------------------------
(* Milestones.                                                             *)

(* _apply_jury_form_rules: the form asked for, else the current one, for a *)
(* jury and none for anyone else.  A jury without a form is refused.       *)
Ruled(row) == IF row.evaluator = "jury" THEN row ELSE [row EXCEPT !.form = None]
Fits(row) == row.evaluator = "jury" => row.form # None

(* activated_at is set when the milestone becomes active and is not set.   *)
Dated(row, active) == [row EXCEPT !.active = active, !.dated = active]

(* Who evaluates a milestone, and on which form.                           *)
Handed(row, e, f) == [row EXCEPT !.evaluator = e, !.form = f]

CreateMilestone(m, e, f, active) ==
    /\ AtOnce("create_milestone") /\ mil[m] = None
    /\ active \/ "activate" \in ops                                 \* bound
    /\ LET row == Ruled([evaluator |-> e, form |-> f, active |-> active, dated |-> active]) IN
       Fits(row) /\ mil' = [mil EXCEPT ![m] = row]
    /\ UNCHANGED <<fellows, given, sent>>

(* What a PATCH asks for: fields not sent keep the loaded value.           *)
Asked(seen) ==
    {Handed(seen, e, f) : e \in Evaluators, f \in Forms \cup {seen.form}}
      \cup {Dated(seen, active) : active \in IF "activate" \in ops THEN BOOLEAN ELSE {}}    \* bound

PatchLoad(p, m) ==
    /\ Free(p, "patch") /\ Set(m)
    /\ \E row \in Asked(mil[m]) :
          /\ Fits(Ruled(row))
          /\ Start(p, [op |-> "patch", phase |-> "commit", on |-> {m}, m |-> m,
                       seen |-> mil[m], to |-> Ruled(row)])
    /\ UNCHANGED evaluations

(* A milestone deleted meanwhile is an error.                              *)
PatchCommit(p) ==
    /\ At(p, "patch", "commit")
    /\ LET t == txn[p] IN
       mil' = IF ~Set(t.m) THEN mil ELSE
              [mil EXCEPT ![t.m] = [c \in DOMAIN t.seen |->
                  IF t.to[c] # t.seen[c] THEN t.to[c] ELSE mil[t.m][c]]]
    /\ Done(p)
    /\ UNCHANGED <<fellows, given, sent>>

(* The foreign keys of the three tables cascade.                           *)
DeleteMilestone(m) ==
    /\ AtOnce("delete_milestone") /\ Set(m)
    /\ mil' = [mil EXCEPT ![m] = Deleted]
    /\ given' = [k \in DOMAIN given |-> IF k[2] = m THEN None ELSE given[k]]
    /\ UNCHANGED <<fellows, sent>>

(* Assignments of supervisors and jury pairs, by other components.         *)
Reassign ==
    /\ AtOnce("reassign")
    /\ \E side \in Evaluators, F \in SUBSET Faculty :
          fellows' = [fellows EXCEPT ![side] = F]
    /\ UNCHANGED <<mil, given, sent>>

-----------------------------------------------------------------------------
(* Evaluations.                                                            *)

(* A supervisor or co-supervisor of the group, whoever is to evaluate, and *)
(* only while the milestone is active.                                     *)
Supervises(m, f) == mil[m].active /\ f \in fellows.supervisor

(* A jury member of the group's pair; the milestone need not be active.    *)
Judges(m, f) == mil[m].evaluator = "jury" /\ mil[m].form # None /\ f \in fellows.jury

(* The evaluation as it is loaded: none for a POST, one for a PATCH.       *)
Evaluate(p, m, f, table, value, about) ==
    LET k == <<table, m, f>> IN
    /\ Start(p, [op |-> "evaluate", phase |-> "commit", on |-> {k}, k |-> k,
                 seen |-> given[k], to |-> value, sent |-> about])
    /\ UNCHANGED evaluations

EvaluateGroup(p, m, f) ==
    /\ Set(m) /\ Supervises(m, f)
    /\ \E v \in Marks : Evaluate(p, m, f, "supervisor", v, {})

(* The total a request leads to: a POST takes null for an omitted total, a *)
(* PATCH stores it.                                                        *)
Computed(seen, total) == total = Omitted \/ (seen = None /\ total = None)
Totalled(seen, sum, total) ==
    IF Computed(seen, total) THEN Roundings(sum)
    ELSE IF total = None THEN {None} ELSE Roundings(total)

(* _compute_total_from_values, over the lines of this request; a line is   *)
(* rounded when it is stored.                                              *)
BugScored(seen, r, total) ==
    [first : Roundings(r.first), second : Roundings(r.second),
     total : Totalled(seen, r.first + (IF seen = None THEN r.second ELSE Tenth * seen.second),
                      total)]
Scored(seen, r, total) ==
    [first : Roundings(r.first), second : Roundings(r.second),
     total : Totalled(seen, r.first + r.second, total)]

(* What the history keeps of a request: an own total, points finer than    *)
(* the columns.                                                            *)
Whole(x) == \E n \in 0..x : x = Tenth * n
About(seen, r, total) ==
    (IF Computed(seen, total) THEN {} ELSE {"total"})
      \cup (IF Whole(r.first) /\ Whole(r.second) THEN {} ELSE {"parts"})

EvaluateAsJury(p, m, f) ==
    /\ Free(p, "evaluate") /\ Set(m) /\ Judges(m, f)
    /\ LET table == Table(mil[m])
           seen == given[<<table, m, f>>] IN
       IF table = "normal" THEN \E v \in Marks : Evaluate(p, m, f, table, v, {})
       ELSE \E r \in Rubric, total \in Totals \cup {None, Omitted} :
            /\ r.first <= r.second                                    \* bound
            /\ total # Omitted => "own_total" \in ops                \* bound
            /\ \E v \in Scored(seen, r, total) :
                  Evaluate(p, m, f, table, v, About(seen, r, total))

(* What an UPDATE may leave of the row: columns that differ from the       *)
(* loaded ones are in it, columns that do not are at times (a float seldom *)
(* equals the loaded Decimal).                                             *)
Merged(k, seen, to) ==
    IF k[1] = "proposal"
    THEN {[c \in DOMAIN to |-> IF c \in kept THEN given[k][c] ELSE to[c]] :
             kept \in SUBSET {c \in DOMAIN to : to[c] = seen[c]}}
    ELSE {IF to # seen THEN to ELSE given[k]}

(* An INSERT the unique constraint or a foreign key refuses, and an UPDATE *)
(* that finds no row, are errors.                                          *)
Accepted(t) == IF t.seen = None THEN given[t.k] = None /\ Set(t.k[2]) ELSE given[t.k] # None

EvaluateCommit(p) ==
    /\ At(p, "evaluate", "commit")
    /\ LET t == txn[p] IN
       IF Accepted(t)
       THEN /\ \E row \in IF t.seen = None THEN {t.to} ELSE Merged(t.k, t.seen, t.to) :
                  given' = [given EXCEPT ![t.k] = row]
            /\ sent' = (sent \ ({t.k} \X {"total", "parts"})) \cup ({t.k} \X t.sent)
       ELSE UNCHANGED <<given, sent>>
    /\ Done(p)
    /\ UNCHANGED <<mil, fellows>>

EvaluationsNext ==
    \/ \E m \in Milestones, e \in Evaluators, f \in Forms \cup {None}, a \in BOOLEAN :
          CreateMilestone(m, e, f, a)
    \/ \E p \in Procs : PatchCommit(p) \/ EvaluateCommit(p)
    \/ \E p \in Procs, m \in Milestones : PatchLoad(p, m)
    \/ \E m \in Milestones : DeleteMilestone(m)
    \/ Reassign
    \/ \E p \in Procs, m \in Milestones, f \in Faculty :
          EvaluateGroup(p, m, f) \/ EvaluateAsJury(p, m, f)

-----------------------------------------------------------------------------
(* Properties.                                                             *)

(* The marks a student of the group may be shown: one of several           *)
(* evaluators' marks, whichever the database returns first; a proposal     *)
(* without a total is passed over.                                         *)
Mark(k) == IF k[1] = "proposal" THEN given[k].total ELSE given[k]
Stored(table, m) ==
    {k \in DOMAIN given : k[1] = table /\ k[2] = m /\ given[k] # None /\ Mark(k) # None}
Lines(k) == given[k].first + given[k].second

\* "auto-calculated when omitted" (jury_evaluation_schema.py:70): of a milestone
\* with the proposal form students are shown the sum of the rubric's lines, unless two
\* requests for the evaluation overlapped or the last one gave a total of its own.  Its
\* points rounded apart, the total is off by no more than the roundings: half a tenth
\* for each line and half a tenth for itself.
ShownMatchesRubric ==
    \A m \in Milestones :
        Set(m) /\ Table(mil[m]) = "proposal" =>
            \A k \in Stored("proposal", m) \ clash :
                <<k, "total">> \notin sent =>
                    /\ 2 * Dist(Mark(k), Lines(k)) <= 3
                    /\ <<k, "parts">> \notin sent => Mark(k) = Lines(k)
=============================================================================
