CONSTANTS
  WordMod = 64
  QOne = 4
  NanosPerSecond = 8
  None = None
  c1 = c1
  c2 = c2
  CPUs = {c1, c2}
  Skew <- MCSkew
  MaxSkew = 2
  TrueScale = 4
  Scales = {3, 4, 6}
  MaxErr = 2
  MaxTime = 4
  BudgetPeriod = 2
  BudgetMod = 4
  Budget = 2
  MaxReads = 6
SPECIFICATION Spec
INVARIANTS
  TypeOK
  ViolationsExact
  CoversConsecutiveDrops
  ViolationExplained
  StopsInTime
CHECK_DEADLOCK FALSE
