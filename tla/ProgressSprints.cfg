\* One handler at a time, a sprint with a task.
SPECIFICATION Spec
CONSTANTS
    Procs = {p1}
    OpSets = {{"create_sprint", "delete_sprint", "create_task", "delete_task"}}
    Sprints = {s1, s2}
    Tasks = {t1, t2}
    Files = {"a"}
    MaxUploads = 2
    Backlog = Backlog
    Milestones = {m1}
    Faculty = {f1}
    Marks = {A}
    Tenth = 4
    Points = {0, 1}
    Totals = {4}
    Omitted = Omitted
    None = None
    Deleted = Deleted
CHECK_DEADLOCK FALSE
PROPERTY TasksOutliveSprints
