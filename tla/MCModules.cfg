CONSTANTS
  A = A
  B = B
  C = C
  D = D
  Modules = {A, B, C, D}
  Graphs <- MCGraphs
  Asynchronous = {{B, C}}
  Entries = {A}
  Called = {C}
  Targets = {D}
  MaxLoads = 2
  MaxCalls = 1
  MaxImports = 2
  Failing = {C}
  Unresolvable = {D}
  None = None
SPECIFICATION FairSpec
INVARIANTS
  RegistryExact
  
  ErrorsReachImporters
PROPERTIES
  StartsInTurn
  ImportsAnswered
CHECK_DEADLOCK FALSE
