\* Two handlers at a time: two sprints, two tasks and two attachments, or a milestone.
SPECIFICATION Spec
CONSTANTS
    Procs = {p1, p2}
    OpSets <- MCOpSets
    Sprints = {s1, s2}
    Tasks = {t1, t2}
    Files = {"a"}
    MaxUploads = 2
    Backlog = Backlog
    Milestones = {m1}
    Faculty = {f1}
    Marks = {A}
    Tenth = 4
    Points = {0, 5}
    Totals = {4}
    Omitted = Omitted
    None = None
    Deleted = Deleted
CHECK_DEADLOCK FALSE
SYMMETRY MCSymmetry
INVARIANTS OneActiveSprint AttachmentsStored ShownMatchesRubric
