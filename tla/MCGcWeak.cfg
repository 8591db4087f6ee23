CONSTANTS
  m = m
  n = n
  r = r
  c = c
  d = d
  x = x
  y = y
  w = w
  t = t
  plain = plain
  None = None
  Instances <- MCInstances
  MaxRoots = 3
  MaxPending = 1
SPECIFICATION Spec
INVARIANTS
  ClosureExact
  NoStaleSlots
  CleanupOnce
PROPERTIES
  EffectsSafe
SYMMETRY Symmetry
