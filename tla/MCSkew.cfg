CONSTANTS
  WordMod = 64
  QOne = 2
  NanosPerSecond = 8
  None = None
  c1 = c1
  c2 = c2
  CPUs = {c1, c2}
  Skew <- MCOffset
  MaxSkew = 1
  TrueScale = 8
  Scales = {7, 9}
  MaxErr = 1
  MaxTime = 5
  SampleCounts = {0, 1, 3}
  Interval = 1
  QuietGap = 0
SPECIFICATION Spec
INVARIANTS
  TypeOK
  SkewExplained
  MedianRobust
  ReportsAllSamples
CHECK_DEADLOCK FALSE
