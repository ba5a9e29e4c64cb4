CONSTANTS
  WordMod = 64
  QOne = 4
  NanosPerSecond = 8
  None = None
  Threads = {t1, t2}
  Bg = bg
  Hz <- MCHz
  Targets <- MCTargets
  Unix = {"linux", "macos"}
  CntfrqHz = 5
  Timebase <- MCTimebase
  QpcHz = 2
  Rates <- MCRates
  Intervals = {0}
  SpawnMayFail = FALSE
SPECIFICATION SafetySpec
INVARIANT
  SpawnedOnFirstUse
CHECK_DEADLOCK FALSE
