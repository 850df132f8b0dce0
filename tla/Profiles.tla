-------------------------------- MODULE Profiles --------------------------------
(***************************************************************************)
(* Students' profiles: the wizard that creates or overwrites one, and the  *)
(* patches that follow.  Of a profile the roll number, the skills and      *)
(* their levels are kept; the other columns, and those of the account, are *)
(* written as they are given.  A field a request leaves out is None.       *)
(***************************************************************************)
EXTENDS Workspaces

CONSTANTS
    Skills,     \* names of skills
    Rolls       \* roll numbers

Levels == UNION {[S -> {1, 2}] : S \in SUBSET Skills}     \* bound: levels

ASSUME ProfilesAssumptions == \A x \in Levels \cup SUBSET Skills : x # None

VARIABLES
    student     \* students: roll_number, skills and skills_levels, or None

ProfilesInit == student = [u \in Users |-> None]

Student(u) == SignedIn(u) /\ user[u].role = "student"
NoLevels == [s \in {} |-> 1]
Given == UNION {[S -> {2}] : S \in SUBSET Skills}     \* bound: levels a request sets
NamedSkills == {None} \cup SUBSET Skills
Or(given, otherwise) == IF given = None THEN otherwise ELSE given

(* Skills without a level get level 1.                                     *)
BugLeveled(skills, levels) == levels
Leveled(skills, levels) ==
    [s \in skills \cup DOMAIN levels |-> IF s \in DOMAIN levels THEN levels[s] ELSE 1]

Read(u) == Or(student[u], [roll |-> None, skills |-> {}, levels |-> NoLevels])

(* An empty list of skills is not stored, yet levels are computed for it   *)
(* first; base stands for levels that are not given.                       *)
Update(u, roll, skills, levels, base) ==
    LET stored == IF skills \in {None, {}} THEN Read(u).skills ELSE skills IN
    [roll |-> Or(roll, Read(u).roll),
     skills |-> stored,
     levels |-> IF skills = None /\ levels = None THEN Read(u).levels
                ELSE Leveled(stored, Leveled(Or(skills, stored), Or(levels, base)))]

(* The ORM writes the columns that differ from the row it read.            *)
Changes(u, row) ==
    [k \in DOMAIN row |-> IF student[u] # None /\ row[k] = Read(u)[k] THEN None ELSE row[k]]

Submit(p, op, u, row) ==
    /\ Start(p, [op |-> op, phase |-> "commit", on |-> {<<"profile", u>>}, u |-> u,
                 new |-> student[u] = None, set |-> Changes(u, row)])
    /\ UNCHANGED student

(* A new profile needs a roll number; levels start from those given.       *)
WizardLoad(p, u) ==
    /\ Free(p, "wizard") /\ Student(u)
    /\ \E roll \in {None} \cup Rolls, skills \in NamedSkills, levels \in {None} \cup Given :
          /\ student[u] = None => roll # None
          /\ Submit(p, "wizard", u, Update(u, roll, skills, levels, NoLevels))

ProfileLoad(p, u) ==
    /\ Free(p, "profile") /\ Student(u) /\ student[u] # None
    /\ \E skills \in NamedSkills, levels \in {None} \cup Given :
          Submit(p, "profile", u, Update(u, None, skills, levels, Read(u).levels))

(* Both keys are unique, and either undoes the whole request.              *)
Taken(t) ==
    \/ t.new /\ student[t.u] # None
    \/ t.set.roll # None /\ \E v \in Users \ {t.u} : Read(v).roll = t.set.roll

ProfileCommit(p) ==
    /\ \E op \in {"wizard", "profile"} : At(p, op, "commit")
    /\ LET t == txn[p]   row == Read(t.u) IN
       student' = IF Taken(t) THEN student
                  ELSE [student EXCEPT ![t.u] = [k \in DOMAIN row |-> Or(t.set[k], row[k])]]
    /\ Done(p)

ProfilesNext ==
    \/ \E p \in Procs, u \in Users : WizardLoad(p, u) \/ ProfileLoad(p, u)
    \/ \E p \in Procs : ProfileCommit(p)

-----------------------------------------------------------------------------
(* Properties.                                                             *)

\* "Normalize skills_levels to ensure all skills have a level"
\* (student_profile.py:31): every stored skill has a level, whichever of the two
\* columns a sequence of requests wrote, unless requests of the student overlapped.
SkillsHaveLevels ==
    \A u \in Users : \/ Read(u).skills \subseteq DOMAIN Read(u).levels
                     \/ <<"profile", u>> \in clash
=============================================================================
