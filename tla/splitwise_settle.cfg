SPECIFICATION Spec
CONSTANTS
  Users = {alice, bob}
  Threads = {s, t}
  Amounts = {2}
  Percents <- MCPercents
  Shares <- MCShares
  MaxLog = 3
  MaxFailures = 1
SYMMETRY Symmetry
INVARIANTS
  SettledOnce
\* The two bounds stop the threads.
CHECK_DEADLOCK FALSE
