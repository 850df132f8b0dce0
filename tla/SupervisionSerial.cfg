\* One handler at a time, every endpoint but the direct profile edits and group deletion.
SPECIFICATION Spec
CONSTANTS
    Groups = {g1, g2}
    Faculty = {f1, f2}
    None = None
    Procs = {p1}
    Ops = {"send", "accept", "reject", "cancel", "assign", "remove", "faculty", "self", "assign_co", "remove_co"}
    InitialCap = 1
    DefaultCap = 1
    CapLimit = 1
    MaxRequests = 2
SYMMETRY Symmetry
INVARIANTS FilledCoversSupervised
PROPERTIES ImplementsLedger
CHECK_DEADLOCK FALSE
