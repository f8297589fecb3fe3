CONSTANTS
    p1 = p1
    p2 = p2
    p3 = p3
    tA = tA
    tB = tB
    Planner = {p1, p2, p3}
    Manual = {p3}
    Writer = {w1}
    Target = {tA, tB}
    MaxAge = 1
    MaxClock = 2
    MaxVersion = 1
SPECIFICATION Spec
SYMMETRY Alike
CHECK_DEADLOCK FALSE
INVARIANTS
    Inv
    BoundedStaleness
    RefetchesUnlessRacing
