SPECIFICATION Spec
CONSTANTS
    Released <- Three
    Local = "mine"
    OSes <- ThreeOS
    AGNOS_VERSION <- Needs
    Budgets <- Flashes
INVARIANT ActivatesWhole
CHECK_DEADLOCK FALSE
