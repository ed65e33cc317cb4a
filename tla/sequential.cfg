SPECIFICATION MCSpec
CONSTANTS
  MaxLines = 4
  Letters = 2
  MaxLength = 3
  MaxWords = 3
  Room = 4
  LEVELS = 3
  Least = 0
  Greatest = 3
  MaxSize = 3
  MaxCode = 5
  MaxCell = 1
  Modulus = 3
INVARIANTS
  OneAtWork
  LinesDouble
  PrintsCompletions
  LoopsNest
PROPERTY ImplementsMultiset
\* All but the skip list end.
CHECK_DEADLOCK FALSE
