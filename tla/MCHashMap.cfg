\* Values of the instance: see MCHashMap.tla.
SPECIFICATION Spec
CONSTANTS
    p1 = p1
    p2 = p2
    p3 = p3
    p4 = p4
    k1 = k1
    k2 = k2
    k3 = k3
    NULL = NULL
    Ptrs <- MCPtrs
    Keys <- MCKeys
    KeyOf <- MCKeyOf
    Hash <- MCHash
    Vals = {v1, v2}
    InitCapacity = 2
INVARIANTS TypeOK Reachable ProbingEnds ListExact NoDanglingKey
PROPERTIES CallsReturn ImplementsDict
