CONSTANTS
  WordMod = 64
  QOne = 4
  NanosPerSecond = 8
  None = None
  Threads = {t1, t2}
  Bg = bg
  Hz = {0, 4, 5}
  Targets <- MCTargets
  Intervals = {0}
  SpawnMayFail = FALSE
SPECIFICATION HistorySpec
INVARIANT
  NewestMeasurementStays
CHECK_DEADLOCK FALSE
