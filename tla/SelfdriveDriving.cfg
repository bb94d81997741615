SPECIFICATION Spec
CONSTANTS
  SOFT_DISABLE_TIME = 3
  MISMATCH_LIMIT = 2
  Cars <- DrivingCars
  CarStates <- DrivingStates
  SystemEvents <- NoFaults
PROPERTIES BrakeStopsSteering MainOffStopsSteering AolStartsOnlyOnRequest UnifiedEngagement
