\* Two parts of four numbers, so that the heaps have two inner nodes, and four
\* values, so that a part may have equal numbers or only different ones.
CONSTANTS
  THREAD_COUNT = 2
  NUMBER_COUNT = 8
  RAND_MAX = 4
  Numbers = {0, 1, 2, 3}
  Inputs <- MCInputs
SPECIFICATION SortSpec
INVARIANT SortedOutput
PROPERTIES EndsUnlessThreadMissing
\* The program ends, or waits at the barrier for a thread that does not exist.
CHECK_DEADLOCK FALSE
