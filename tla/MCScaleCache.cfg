CONSTANTS
  WordMod = 64
  QOne = 4
  NanosPerSecond = 8
  None = None
  Threads = {t1, t2}
  Bg = bg
  Hz <- MCHz
  Targets <- MCTargets
  Unix = {"linux", "macos"}
  CntfrqHz = 5
  Timebase <- MCTimebase
  QpcHz = 2
  Rates <- MCRates
  Intervals = {0}
  SpawnMayFail = TRUE
SPECIFICATION Spec
INVARIANTS
  TypeOK
  OneInitialiser
  ScaleFitsCounter
PROPERTIES
  ImplementsRegister
  CallsReturn
  KeepsRecalibrating
  IntervalTakesEffect
CHECK_DEADLOCK FALSE
