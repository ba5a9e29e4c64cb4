CONSTANTS
  WordMod = 256
  QOne = 4
  NanosPerSecond = 8
  None = None
  CALIBRATION_TIME_NS = 2
  NUM_SAMPLES = 3
  Boot = 253
  Rate = 2
  MaxSkew = 1
  QuietGap = 1
  MaxSample = 4
SPECIFICATION Spec
INVARIANTS
  TypeOK
  QuietSampleAccurate
  MedianAccurate
  ScaleAccurate
PROPERTY
  Terminates
CHECK_DEADLOCK FALSE
