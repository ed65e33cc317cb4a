SPECIFICATION MCSpec
\* the circular wait is a state both programs really stop in
CHECK_DEADLOCK FALSE
CONSTANT
  N = 5
  ForkInit = 1  \* of solution.c, which rests
INVARIANTS
  StuckIsCircularWait
PROPERTIES
  NaiveImplementsDining
  CircularWaitOrProgress
