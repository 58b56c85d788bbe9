CONSTANTS
  BLOCKS_DELTA = 3
  BLOCKS_DATA = 3
  PAGES_PER_BLOCK = 2
  N_LAS = 2
  N_DELTA_PAIR = 3
  MAX_WCNT = 2
  MAX_GCPROG = 2
  THRESHOLD_GC = 1
  MIN_READY = 4
  GC_PER_WRITE = 4
  RESTARTS = 1
  DATA = {d1, d2}
  BLANK = BLANK
  ERASED = ERASED
  GARBAGE = GARBAGE
SPECIFICATION MCSpec
SYMMETRY DataSymmetry
INVARIANT FreeBlocksAreFree
INVARIANT TablesAgree
PROPERTY ReadsReturnLastWrite
