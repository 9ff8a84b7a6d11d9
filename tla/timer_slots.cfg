SPECIFICATION FairSpec
CONSTANTS
  MaxTimers = 2
  Refs = {1, 2, 3}
  Intervals = {0, 2}
  Dts = {1, 2}
  MaxId = 4
INVARIANTS RefsMatch
PROPERTIES FiresOnTime EveryTimerFires
