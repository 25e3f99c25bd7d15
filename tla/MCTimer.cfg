SPECIFICATION TimerSpec
CONSTANTS
  MASK_MOD = 16
  PmMods <- MCPmMods
  PmStarts <- MCPmStarts
  Targets <- MCTargets
  MAX_GAP = 2
  LAPIC_MOD = 256
  TICK_MOD = 32
  INT_MOD = 8
  Sleeps <- MCSleeps
INVARIANTS
  TimerTypeOK
  DelayAccurate
  NoEarlyTick
  CalibrationAccurate
  SleepLongEnough
PROPERTY DelayEnds
