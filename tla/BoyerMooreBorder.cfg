SPECIFICATION Spec
CONSTANTS
  Char = {x, y}
  StrLens <- ShortStrings
  PatLens <- ShortPatterns
CHECK_DEADLOCK FALSE
INVARIANT
  NothingIsMissed
