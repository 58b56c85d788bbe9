SPECIFICATION MCSpec
CONSTANTS
  CALLS = 0
  n1 = n1
  n2 = n2
  NESTED = FALSE
  OFFSETS = {0, 2}
  LENGTHS = {19}
  PATHS <- MCPaths
  WRITES <- MCWrites
  SIZE = 56
  NINODES = 6
  NINODE = 5
  BSIZE = 3
  IPB = 1
  BPB = 4
  NDIRECT = 1
  NINDIRECT = 6
  NFILE = 1
  CHUNK = 5
  MAXOPBLOCKS = 10
  MAXHOLE = 4
  RENAME_DIRS = FALSE
INVARIANT ImageConsistent
INVARIANT CachedInodesAgree
 
