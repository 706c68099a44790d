SPECIFICATION Spec
CONSTANTS
    Script = {"foundation"}
    MaxTroubles = 2
INVARIANTS JournalLoads
CHECK_DEADLOCK FALSE
