SPECIFICATION Spec
CONSTANTS
  Formats <- MCFormats
  Known <- MCKnown
  PassedOn <- MCPassedOn
  Cameras <- MCCameras
INVARIANTS
  TypeOK
  FormatsAndSizesComplete
  ConverterMatchesCamera
PROPERTY SetupEnds
CHECK_DEADLOCK FALSE
