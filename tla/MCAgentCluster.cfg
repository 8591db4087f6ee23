CONSTANTS
  main = main
  w1 = w1
  Main = main
  Workers = {w1}
  Locations = {1}
  MaxCalls = 2
  MaxWaiters = 2
  MaxReports = 1
  MainSuspends = FALSE
  None = None
SPECIFICATION FairSpec
INVARIANTS
  WaitersAnswered
  NoLostWakeup
PROPERTIES
  DropJoins
CHECK_DEADLOCK FALSE
