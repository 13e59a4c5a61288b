\* Three buffers and four blocks: a buffer is used again while others are busy.
CONSTANTS
  NBUF = 3
  BLOCKS = 4
SPECIFICATION Spec
INVARIANTS Bookkeeping CopyComplete
PROPERTIES Terminates
\* The program ends.
CHECK_DEADLOCK FALSE
