SPECIFICATION MCSpec
CONSTANTS
  N = 3
  Slack = 2
  Slots = 12
  Ends = {3, 6}
  Modulus = 13
  MaxThreads = 4
INVARIANT CountNeedsRace
INVARIANT OverrunNeedsRace
INVARIANT StuckNeedsRace
INVARIANT SumIsWhole
PROPERTIES
  ImplementsBoundedBuffer
  SidesKeepGoing
\* Both racing threads may sleep for good, the bound stops the others, and a
\* sum ends.
CHECK_DEADLOCK FALSE
