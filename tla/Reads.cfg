SPECIFICATION ReadSpec
CONSTANTS
    None = None
    RecordIds = {1, 2}
    ModeKnown = FALSE
    MaxWrites = 1
INVARIANTS ReadsAreServed
CHECK_DEADLOCK FALSE
