SPECIFICATION Spec
CONSTANTS
  letter = letter
  slash = slash
  single = single
  double = double
  Chars = {letter, slash}
  Slash = slash
  Single = single
  Double = double
  Patterns <- Declared
  Files <- Named
CHECK_DEADLOCK FALSE
INVARIANTS MatchingFilesAreAccepted
