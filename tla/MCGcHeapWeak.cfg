CONSTANTS
  a1 = a1
  a2 = a2
  b1 = b1
  A = A
  B = B
  Refs <- MCTwoRefs
  Spans <- MCSpans
  SpanOf <- MCTwoSpanOf
  Cards <- MCCards
  CardOf <- MCTwoCardOf
  LargeSpans = {}
  PromotionAge = 2
  EarlyPercent = 101
  MaxFields = 1
  MaxRoots = 2
  WeakHolders = {a1}
SPECIFICATION FairSpec
INVARIANTS
  MajorExact
PROPERTIES
  WeakClearedOnlyIfDead
  CollectionEnds
