CONSTANTS
  BLOCK = {b1, b2, b3}
  CONTENT = {c1, c2}
  NBUF = 4
  NOSECTOR = NOSECTOR
  MAXOPBLOCKS = 2
  LOGSIZE = 4
  HEAD = HEAD
  SECTORS_PER_PAGE = 2
SPECIFICATION MCSpec
SYMMETRY MCSymmetry
 
INVARIANT NeverPanics
 
