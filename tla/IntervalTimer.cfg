SPECIFICATION MCSpec
CONSTANTS
  Counters  = {0, 2}
  Byte      = 4
  MaxClocks = 2
  Latchable = {0}
  Programs <- MCPrograms
  Counts   <- MCCounts
INVARIANTS
  SkippingIsClocking
  PeriodsTick
  LatchesAreKept
