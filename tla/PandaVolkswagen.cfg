SPECIFICATION Spec
CONSTANTS
    CarModes <- VwLong
    AolConfigs <- DisengageOnly
    OnBus <- VwDriving
    Reports <- EngagedOnly
INVARIANTS TypeOK BrakeStopsControls ControlsNeedMain AolNeedsMain RepeatedUpdatesAgree
