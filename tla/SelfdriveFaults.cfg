SPECIFICATION Spec
CONSTANTS
  SOFT_DISABLE_TIME = 3
  MISMATCH_LIMIT = 3
  Cars <- FaultCars
  CarStates <- FaultStates
  SystemEvents <- Faults
INVARIANTS TypeOK MismatchDisengages SoftDisableHasTime
PROPERTIES SoftDisableRunsOut AolSoftDisableRunsOut CanLossStopsControl
