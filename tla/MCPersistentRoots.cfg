CONSTANTS
  r1 = r1
  r2 = r2
  None = None
  Refs <- MCRefs
  Types <- MCTypes
  TypeOf <- MCTypeOf
  MaxEntries = 3
  MaxGeneration = 2
SPECIFICATION Spec
INVARIANTS OutstandingResolve ReleasedStayDead FreeListComplete
CHECK_DEADLOCK FALSE
