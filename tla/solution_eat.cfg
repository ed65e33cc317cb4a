SPECIFICATION Spec
CONSTANTS
  N = 3
  ForkInit = 1
INVARIANT EatExclusion
