CONSTANTS
    k1 = k1
    k2 = k2
    o1 = o1
    o2 = o2
    NULL = NULL
    Keys <- MCKeys
    Objects <- MCObjects
    ObjectOf <- MCObjectOf
    Values = {v1, v2}
    Cids = {c1, c2, c3}
    MaxSlot = 3
    MaxApplies = 3
    MinSlotGap = 1
SPECIFICATION Spec
SYMMETRY Symmetry
INVARIANTS
    TypeOK
    KeyTableIsReplay
    MemoryFollowsTables
    NoDanglingValue
    ProvenanceIsSound
PROPERTY ImplementsOracleHistory
