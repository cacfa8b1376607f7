SPECIFICATION UpdaterSpec
CONSTANTS
  x = x
  y = y
  Nul = nul
  Char = {x, y, nul}
  StrLens <- Partitions
  PatLens <- Patterns
  BufLen = 3
  Versions <- AskedFor
CHECK_DEADLOCK FALSE
INVARIANTS
  UpdaterTypeOK
  ReadsInside
  NothingLeaks
  VerdictIsRight
PROPERTIES
  SearchIsAbstract
  CallsRunOut
  Returns
