SPECIFICATION FairSpec
CONSTANTS
  Lines = 4
  Capacity = 2
PROPERTY PipelineDelivers
\* The pipeline ends.
CHECK_DEADLOCK FALSE
