\* Six sets of endpoints, two handlers at a time, one file.
CONSTANTS
    G1 = g1
    G2 = g2
    G3 = g3
    Groups <- MCGroups
    CycleOf <- MCCycleOf
    Anns = {a1}
    Own = own
    Files = {f1}
    Procs = {p1, p2}
    OpSets <- MCOpSets
    Writers = {g1}
    Copies = 1
    TargetCopies = 2
    None = None
SPECIFICATION Spec
SYMMETRY Symmetry
INVARIANTS
    NamedFilesExist
    TargetsHaveRows
PROPERTIES
    GradedWorkStands
CHECK_DEADLOCK FALSE
