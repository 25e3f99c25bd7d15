SPECIFICATION SmpSpec
CONSTANTS
  CpuCounts <- Three
  SLEEP = 2
  TICK_MOD = 8
INVARIANT NoTripleFault
