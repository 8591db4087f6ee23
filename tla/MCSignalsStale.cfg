SPECIFICATION Spec
CONSTANTS
    s1 = s1
    c2 = c2
    States = {s1, s2}
    Computeds = {c1, c2}
    Watchers = {}
    Hooked = {}
    Comparable = {}
    None = None
    Arguments = {}
    MaxDepth = 2
    MaxPull = 3
    MaxCalls = 5
INVARIANTS
    StateFresh
CHECK_DEADLOCK FALSE
