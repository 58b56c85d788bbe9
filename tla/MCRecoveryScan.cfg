CONSTANTS
  BLOCKS_DELTA = 3
  BLOCKS_DATA = 1
  PAGES_PER_BLOCK = 2
  N_LAS = 2
  N_DELTA_PAIR = 2
  MAX_WCNT = 1
  MAX_GCPROG = 0
  THRESHOLD_GC = 1
  MIN_READY = 1
  ScanTables <- MCTables
  ScanContents <- MCContents
SPECIFICATION ScanSpec
CHECK_DEADLOCK FALSE
INVARIANT ScanComputesReplay
PROPERTY ScanTerminates
