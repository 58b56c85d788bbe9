CONSTANTS
  BLOCKS_DELTA = 3
  BLOCKS_DATA = 1
  PAGES_PER_BLOCK = 1
  N_LAS = 2
  N_DELTA_PAIR = 2
  MAX_WCNT = 1
  MAX_GCPROG = 2
  THRESHOLD_GC = 1
  MIN_READY = 1
  Psas = {0, 1}
  PSA <- MCPSA
  AnyPage <- MCAnyPage
  AnyTable <- MCAnyTable
SPECIFICATION ChkptSpec
INVARIANT ChkptTypeOK
INVARIANT ChkptInv
INVARIANT DeltaPointerInRegion
INVARIANT ReplaysOnlyWrittenPages
INVARIANT CommittedFullIsDurable
PROPERTY DeltaProgramDiscipline
PROPERTY ImplementsSnapTable
