CONSTANTS
  WordMod = 64
  QOne = 2
  NanosPerSecond = 8
  None = None
  c1 = c1
  c2 = c2
  CPUs = {c1, c2}
  Skew <- MCSkew
  MaxSkew = 1
  TrueScale = 6
  Scales = {3, 10}
  MaxErr = 4
  MaxTime = 1
  Threads = 2
  Bracket = 1
  Buckets <- MCBuckets
  NumBuckets = 3
  MaxReads = 2
SPECIFICATION Spec
INVARIANTS
  TypeOK
  ViolationsBounded
  ReportAddsUp
PROPERTY
  AlwaysReports
CHECK_DEADLOCK FALSE
