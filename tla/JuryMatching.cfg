\* Two assignment runs against two projects; two requests through the circuit.
CONSTANTS
    Batches = {b1, b2}
    J1 = j1
    J2 = j2
    C1 = c1
    C2 = c2
    Projects <- MCProjects
    Combos <- MCCombos
    Answers <- MCAnswers
    MinGroups = 1
    MaxGroups = 1
    Admin = admin
    Students = {s1, s2}
    Admins = {a1}
    Keys = {k1}
    Threshold = 2
    MaxProbes = 2
    OpSets <- MCOpSets
    None = None
SPECIFICATION Spec
INVARIANTS
    NoOrphanAssignments
    PlacesAccounted
PROPERTIES
    ImplementsBoard
    RecoveryIsEarned
    BatchSettles
CHECK_DEADLOCK FALSE
