SPECIFICATION FairSpec
CONSTANTS
    Procs <- Two
    Keys <- Keys2
    ClearKeys <- Flagged
    Values <- Vals
    Ops <- AllOps
    Budgets <- Crashes
INVARIANTS NeverTorn
PROPERTIES ReturnedIsDurable SnapshotConsistent CallsReturn
CHECK_DEADLOCK FALSE
