\* Two handlers at a time under weak fairness: requests, answers, assignments, edits, deletions.
SPECIFICATION FairSpec
CONSTANTS
    Groups = {g1}
    Faculty = {f1, f2}
    None = None
    Procs = {p1, p2}
    Ops = {"send", "accept", "assign", "edit", "delete"}
    InitialCap = 1
    DefaultCap = 1
    CapLimit = 0
    MaxRequests = 2
INVARIANT CapacityRespected
PROPERTIES HandlersReturn AutoDeclineSparesAnswered
CHECK_DEADLOCK FALSE
