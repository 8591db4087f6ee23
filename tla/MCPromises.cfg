CONSTANTS
  thenable = thenable
  reason = reason
  undef = undef
  MaxPromises = 6
  MaxCells = 4
  MaxCalls = 4
  MaxDepth = 3
  Objects <- MCObjects
  Plain <- MCPlain
  Reasons <- MCReasons
  TypeError = reason
  Undefined = undef
  Custom = Custom
  None = None
SPECIFICATION Spec
CHECK_DEADLOCK FALSE
INVARIANTS
  ReactionsOnceInOrder
  AdoptionPending
  FinallyTransparent
PROPERTIES
  OutcomesFirm
