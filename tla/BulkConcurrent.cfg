\* Two handlers or tasks at a time over two files, every operation; with restarts, and without them.
SPECIFICATION FairSpec
CONSTANTS
    Jobs = {"first", "second"}
    Items <- MCItems
    JobOf <- MCJobOf
    Emails = {"ann", "bob", "cyd"}
    EmailOf <- MCEmailOf
    Rolls = {"R1", "R2"}
    RollOf <- MCRollOf
    Invalid = {3}
    Procs = {p1, p2}
    OpSets <- MCOpSets
    BatchSize = 2
    None = None
    Other = Other
    NoRoll = NoRoll
CHECK_DEADLOCK FALSE
INVARIANT DoneIsSettled
PROPERTIES ImplementsAccounts SuccessIsFinal JobsComplete
