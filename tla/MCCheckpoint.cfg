CONSTANTS
  MaxScripts = 2
  MaxJobs = 2
  MaxWaits = 1
  MaxCleanups = 2
  None = None
  Undefined = Undefined
SPECIFICATION FairSpec
INVARIANTS
  QueuesInOrder
  
PROPERTIES
  CompletedDrained
  ReturnsToHost
CHECK_DEADLOCK FALSE
