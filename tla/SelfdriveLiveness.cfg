SPECIFICATION FairSpec
CONSTANTS
  SOFT_DISABLE_TIME = 3
  MISMATCH_LIMIT = 1
  Cars <- LivenessCars
  CarStates <- LivenessStates
  SystemEvents <- NoFaults
PROPERTIES SoftDisableEnds PauseEnds
