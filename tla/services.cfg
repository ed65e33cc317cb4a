SPECIFICATION MCSpec
CONSTANTS
  Topics = {t}
  Subscribers = {s1, s2}
  Messages = {m1, m2}
  Workers = {w1, w2}
  MaxChanges = 3
  Procs = {p1, p2}
  Polls = {c1, c2}
  MaxTime = 2
INVARIANTS
  EachCopyOnce
  EachEntryOnce
PROPERTIES
  MessagesArrive
  LogKeepsGoing
\* The polls may all be blocked, or over, when every process has ended.
CHECK_DEADLOCK FALSE
