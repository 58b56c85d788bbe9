CONSTANTS
  BLOCKS_DELTA = 3
  BLOCKS_DATA = 5
  PAGES_PER_BLOCK = 2
  N_LAS = 2
  N_DELTA_PAIR = 3
  MAX_WCNT = 2
  MAX_GCPROG = 6
  THRESHOLD_GC = 1
  MIN_READY = 4
  GC_PER_WRITE = 2
  ERASES = 5
  FLUSHES = 3
  CRASHES = 1
  EVENTS = 3
  HOST_LSAS = 3
  DATA = {d1, d2}
  BLANK = BLANK
  ERASED = ERASED
  GARBAGE = GARBAGE
  PSA <- MCPSA
  AnyPage <- MCAnyPage
  AnyTable <- MCAnyTable
SPECIFICATION MCSpec
PROPERTY DataProgramDiscipline
PROPERTY ImplementsSnapDisk
PROPERTY FlushTerminates
