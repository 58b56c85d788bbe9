CONSTANTS
  BLOCKS_DELTA = 3
  BLOCKS_DATA = 6
  PAGES_PER_BLOCK = 1
  N_LAS = 3
  N_DELTA_PAIR = 3
  MAX_WCNT = 2
  MAX_GCPROG = 2
  THRESHOLD_GC = 1
  MIN_READY = 4
  GC_PER_WRITE = 1
  ERASES = 6
  FLUSHES = 2
  CRASHES = 1
  EVENTS = 3
  HOST_LSAS = 3
  DATA = {d1, d2}
  BLANK = BLANK
  ERASED = ERASED
  GARBAGE = GARBAGE
  PSA <- MCPSA
  AnyPage <- MCAnyPage
  AnyTable <- MCAnyTable
SPECIFICATION MCSpec
INVARIANT SnapshotIsRecoverable
INVARIANT BlockListWellFormed
INVARIANT TablesAgree
INVARIANT GcCopiesCurrentSector
PROPERTY DataProgramDiscipline
PROPERTY ImplementsSnapDisk
