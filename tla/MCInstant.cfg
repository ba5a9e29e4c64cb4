CONSTANTS
  WordMod = 64
  QOne = 4
  NanosPerSecond = 8
  None = None
  c1 = c1
  c2 = c2
  CPUs = {c1, c2}
  Skew <- MCSkew
  MaxSkew = 2
  Boots = {0, 52}
  Scales = {3, 4, 6}
  MinScale = 3
  MaxScale = 6
  Durations <- MCDurations
  MaxTime = 12
  MaxOps = 3
SPECIFICATION Spec
INVARIANTS
  TypeOK
  NoSilentWrap
  ElapsedExact
  CrossCpuDurationBounded
  CrossCpuElapsedBounded
  RoundingBounded
  DeadlineAgreesWithElapsed

