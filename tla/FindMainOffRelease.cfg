SPECIFICATION Spec
CONSTANTS
    CarModes <- Vw
    AolConfigs <- PauseOnly
    OnBus <- VwPedals
    Reports <- EngagedOnly
INVARIANTS PausedAolNeedsMain
