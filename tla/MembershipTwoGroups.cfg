\* Founding a group while an invite to another is pending.
SPECIFICATION Spec
CONSTANTS
    Groups = {g1, g2}
    Students = {s1, s2}
    Newcomers = {}
    Unregistered = {}
    FirstCohort = F24
    SecondCohort = S25
    CohortOf <- MCCohortOf
    NoCohort = NoCohort
    Procs = {p1}
    Ops = {"create", "invite", "accept"}
    GroupLimit = 3
    LastNumber = 2
    CutNumber = 1
    MaxInvites = 1
    MaxClock = 4
SYMMETRY Symmetry
INVARIANT OneGroupPerStudent
CHECK_DEADLOCK FALSE
