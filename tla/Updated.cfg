SPECIFICATION FairSpec
CONSTANTS
    Released <- Three
    Local = "mine"
    OSes <- ThreeOS
    AGNOS_VERSION <- Needs
    Budgets <- Faults
INVARIANTS EditsKept BootsWhole ReadyMeansReady
PROPERTIES UpdateGetsReady
CHECK_DEADLOCK FALSE
