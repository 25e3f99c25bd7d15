SPECIFICATION SmpFairSpec
CONSTANTS
  CpuCounts <- UpToThree
  SLEEP = 2
  TICK_MOD = 8
INVARIANTS
  SmpTypeOK
  PairStartsSafely
  GdtInitExclusive
  SleepCountsTicks
PROPERTY AllCpusStart
