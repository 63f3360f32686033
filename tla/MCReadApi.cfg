CONSTANTS
    k1 = k1
    k2 = k2
    k3 = k3
    NULL = NULL
    Keys <- MCKeys
    Objects = {1, 2}
    ObjectOf <- MCObjectOf
    Values = {v1}
    Cids = {c1, c2}
    MaxSlot = 2
    MaxApplies = 2
    MinSlotGap = 1
    DefaultPageLimit = 1
    MaxPageLimit = 2
    MaxTime = 1
SPECIFICATION ReadSpec
SYMMETRY Symmetry
INVARIANTS
    ReadTypeOK
    QueriesAgree
    WalkSeesAll
PROPERTIES
    DeletedNotOvercounted
    SlotIsOfTheCall
    ProofIsNotOlder
