CONSTANTS
  a1 = a1
  a2 = a2
  b1 = b1
  A = A
  B = B
  Refs <- MCRefs
  Spans <- MCSpans
  SpanOf <- MCSpanOf
  Cards <- MCCards
  CardOf <- MCSharedCardOf
  LargeSpans = {}
  PromotionAge = 2
  EarlyPercent = 80
  MaxFields = 1
  MaxRoots = 2
  WeakHolders = {}
SPECIFICATION Spec
INVARIANTS
  NoDangling
  RememberedComplete
  YoungChainComplete
  FreeSlotsDead
  MarkerMeetsLiveEdges
