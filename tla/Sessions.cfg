SPECIFICATION Spec
CONSTANTS
    Procs = {p1, p2}
    OpSets <- MCOpSets
    None = None
    Deleted = Deleted
    Users = {u1, u2}
    MaxLinks = 2
    MaxSockets = 2
    DocRooms = {d}
    MaxStreams = 2
    MaxEvents = 2
    MaxChannel = 1
    MaxSpaces = 2
    MaxDocs = 2
    Window = 2
    MaxMessages = 4
    MaxBoards = 1
    MaxSaves = 3
    Supervisors = {f}
    Skills = {s}
    Rolls = {r}
SYMMETRY Symmetric
INVARIANTS LockHolderPresent PresenceSettles StreamComplete TabsListed AnswersOwnQuestion
    SavesAreKept PagesAreCurrent SkillsHaveLevels
PROPERTY NewestLinkOnly
CHECK_DEADLOCK FALSE
