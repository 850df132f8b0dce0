\* Two handlers at a time over one document, two editors and one proposal.
SPECIFICATION Spec
CONSTANTS
    Users = {u1, u2}
    Edits = {e1, e2}
    Proposals = {x1}
    Procs = {p1, p2}
    MaxLock = 4
    MaxVersions = 3
SYMMETRY Symmetry
INVARIANTS LockNamesText AcceptedIsSaved
PROPERTIES NoLostEdit ImplementsRegister
CHECK_DEADLOCK FALSE
