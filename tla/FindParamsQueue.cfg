SPECIFICATION Spec
CONSTANTS
    Procs <- One
    Keys <- Keys2
    ClearKeys <- Flagged
    Values <- Vals
    Ops <- AsyncOnly
    Budgets <- Exit
INVARIANTS QueueEmptyAtExit
CHECK_DEADLOCK FALSE
