\* Two handlers at a time over a group that three students join and leave by two invites.
SPECIFICATION Spec
CONSTANTS
    Groups = {g1}
    Students = {s1, s2, s3}
    Newcomers = {s2}
    Unregistered = {s3}
    FirstCohort = F24
    SecondCohort = S25
    CohortOf <- MCCohortOf
    NoCohort = NoCohort
    Procs = {p1, p2}
    Ops = {"create", "invite", "accept", "reject", "cancel", "leave", "delete"}
    GroupLimit = 2
    LastNumber = 2
    CutNumber = 1
    MaxInvites = 2
    MaxClock = 3
SYMMETRY Symmetry
INVARIANTS CohortFollowsEarliest LocksNeverJam
PROPERTY ImplementsRoster
CHECK_DEADLOCK FALSE
