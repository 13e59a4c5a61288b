\* Four entries: a directory in a directory, with something before or after it.  With
\* these lengths the buffer grows in myftw(), in dopath(), in both and not at all.
CONSTANTS
  Entries = 4
  Kind = {"DIR", "REG", "CHR"}
  NAME_MAX = 3
  PATH_MAX = 5
  RootLength = {1, 4, 6}
SPECIFICATION WalkSpec
INVARIANTS
  PathFits
  WalkComplete
\* The program ends.
CHECK_DEADLOCK FALSE
