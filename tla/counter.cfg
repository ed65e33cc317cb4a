SPECIFICATION MCSpec
CONSTANTS
  Threads = {t1, t2, t3, t4}
  Helped = 8
  Names = {p1, p2, p3, p4}
  MaxAddress = 2
  MaxCount = 4
INVARIANTS
  OneWinner
  ReadZeroIsFinal
  CountsOwnersAndLost
PROPERTIES
  ImplementsRefCount
  CounterIsClaimed
