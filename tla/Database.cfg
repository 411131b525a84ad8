SPECIFICATION FairSpec
CONSTANTS
    c1 = c1
    c2 = c2
    k1 = k1
    k2 = k2
    v1 = v1
    v2 = v2
    Callers <- MCCallers
    Keys = {k1, k2}
    Values = {v1, v2}
    NoValue = NoValue
INVARIANTS DbInv
PROPERTIES ImplementsProvider CallsReturn
