CONSTANTS
  MaxInputs = 3
  Kinds <- MCKinds
SPECIFICATION Spec
CHECK_DEADLOCK FALSE
INVARIANTS
  RemainingExact
  DecidedWhenDue
  FailureOnce
