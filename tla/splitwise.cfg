SPECIFICATION Spec
CONSTANTS
  Users = {alice, bob, charlie}
  Threads = {s, t}
  Amounts = {2}
  Percents <- MCPercents
  Shares <- MCShares
  MaxLog = 2
  MaxFailures = 1
SYMMETRY Symmetry
INVARIANTS
  SettlementsClear
  BooksBalance
  OneDirection
  ReadsAreFresh
\* The two bounds stop the threads.
CHECK_DEADLOCK FALSE
