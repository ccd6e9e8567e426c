SPECIFICATION Spec
CHECK_DEADLOCK FALSE
CONSTANTS
  Modes <- AllModes
  HashMapSize = 2
  BufKeys = 2
  WarmupTimes = 1
  AverageTimes = 1
  ReqKeys = {2, 4}
  CacheSizes = {2, 3}
  MaxRuns = 2
INVARIANTS TypeOK BufferExclusive EveryKeyCounted
PROPERTIES ClientAnswered
