SPECIFICATION FairSpec
\* the program ends once the pool is dropped
CHECK_DEADLOCK FALSE
CONSTANTS
  P = 3
  MaxJobs = 4
INVARIANTS
  EachJobOnce
  DropDrains
  LossNeedsDeadPool
PROPERTIES
  ImplementsJobQueue
  DropEnds
