CONSTANTS
  BLOCK = {s1, s2, s3, s4}
  CONTENT = {c1, c2}
  NBUF = 3
  NOSECTOR = NOSECTOR
  MAXOPBLOCKS = 2
  LOGSIZE = 6
  MAX_WCNT = 4
  GROUP_COMMIT = TRUE
  GROUP = 2
  MKFS_WRITES = 2
SPECIFICATION MCSpec
SYMMETRY MCSymmetry
INVARIANT CleanBuffersOnDisk
