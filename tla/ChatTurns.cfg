\* Two workers under fairness, two messages to one room and one to another, one restart.
SPECIFICATION FairSpec
CONSTANTS
    r1 = r1
    r2 = r2
    r3 = r3
    a = a
    b = b
    Requests = {r1, r2, r3}
    Rooms = {a, b}
    RoomOf <- TwoAndOne
    Workers = {w1, w2}
    None = None
    TurnsAreShort = TRUE
    MaxCrashes = 1
INVARIANTS OneTurnPerRoom RepliesOnce
PROPERTIES QueuedIsAnswered ImplementsRoom
CHECK_DEADLOCK FALSE
