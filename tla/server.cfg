SPECIFICATION SFairSpec
\* the process ends by a panic or an abort
CHECK_DEADLOCK FALSE
CONSTANTS
  P = 2
  MaxJobs = 3
INVARIANTS
  AnsweredAsAsked
PROPERTIES
  TakenUp
  ExhaustedPoolAborts
