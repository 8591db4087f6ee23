SPECIFICATION Spec
CONSTANTS
    s1 = s1
    c2 = c2
    States = {s1}
    Computeds = {c1, c2}
    Watchers = {w1}
    Hooked = {s1, c2}
    Comparable = {s1, c2}
    None = None
    Arguments <- MCArguments
    MaxDepth = 2
    MaxPull = 3
    MaxCalls = 6

    
    
PROPERTIES
    ArmedNotified
CHECK_DEADLOCK FALSE
