SPECIFICATION FairSpec
CONSTANTS Budgets <- Drives
PROPERTIES ConfiguredByThisDrive RelayCloses CarModeReached CardStops
