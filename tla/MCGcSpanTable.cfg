CONSTANTS
  MaxSpans = 4
  Classes = {c1}
  LargeCounts = {2}
  Limit = 3
  InitialCapacity = 1
  None = None
SPECIFICATION Spec
INVARIANTS
  RangesExact
  AccountsExact
  ActiveSpansFit
