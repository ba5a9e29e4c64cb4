CONSTANTS
  WordMod = 64
  QOne = 4
  NanosPerSecond = 8
  None = None
  Publishers = {p1}
  Observer = obs
  Archs = {"x86_64", "x86", "aarch64", "riscv64", "loongarch64", "other"}
  Scale = 6
  Boots = {0, 62}
  MaxSkew = 1
  Durations <- MCDurations
  MaxShift = 2
  MaxTime = 3
SPECIFICATION Spec
INVARIANTS
  TypeOK
  OrderedReadExact
  DurationNeverOverstates
  DeadlineSeen
