SPECIFICATION FairSpec
CONSTANTS
    CarModes <- Tesla
    AolConfigs <- PauseOnly
    OnBus <- TeslaCruise
    Reports <- BothOrNone
INVARIANTS CarModeHasHost UnusedControlsExit ControlsNeedCruise PauseHoldsWhileBraking
PROPERTIES HostLossEnds UnusedControlsEnd UnusedAolEnds
