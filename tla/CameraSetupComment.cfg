SPECIFICATION Spec
CONSTANTS
  Formats <- MCFormats
  Known <- MCKnown
  PassedOn <- MCPassedOn
  Cameras <- MCCameras
INVARIANT IntervalsComplete
CHECK_DEADLOCK FALSE
