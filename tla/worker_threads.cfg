SPECIFICATION FairSpec
CONSTANTS
  Tasks = {a, b, c}
  Families = {{a, b}}
  MaxBatch = 3
  MaxReclaims = 1
  MaxAwaits = 1
  WorkStealing = TRUE
  None = None
INVARIANT TasksAccounted
PROPERTIES WaitingIsTrue 
CHECK_DEADLOCK FALSE
