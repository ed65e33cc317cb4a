SPECIFICATION FairSpec
CONSTANTS
  N = 5
  ForkInit = 1
INVARIANTS
  StateExclusion
  NoMissedTest
  TokenBalance
PROPERTY SomebodyEats
