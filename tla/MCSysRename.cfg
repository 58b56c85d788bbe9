SPECIFICATION MCSpec
CONSTANTS
  CALLS = 6
  n1 = n1
  n2 = n2
  NESTED = TRUE
  OFFSETS = {0}
  LENGTHS = {}
  PATHS <- MCPaths
  WRITES <- MCWrites
  SIZE = 22
  NINODES = 6
  NINODE = 5
  BSIZE = 3
  IPB = 3
  BPB = 16
  NDIRECT = 1
  NINDIRECT = 1
  NFILE = 2
  CHUNK = 5
  MAXOPBLOCKS = 10
  MAXHOLE = 4
  RENAME_DIRS = TRUE
INVARIANT OutstandingIsZero
