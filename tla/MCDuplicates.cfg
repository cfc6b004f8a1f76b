SPECIFICATION Spec

CONSTANTS
    r1 = r1
    r2 = r2
    r3 = r3
    k1 = k1
    k2 = k2
    w1 = w1
    w2 = w2
    Objs = {r1, r2}
    Works = {w1, w2}
    Kinds = {k1, k2}
    KindOf <- TwoKinds
    OwnerOf <- R1OwnsR2
    AppObjs = {r2}
    None = None
    Foreign = Foreign
    Unreadable = Unreadable
    Empty = Empty
    InitObjs = {r1, r2}
    InitKinds = {k1, k2}
    UserOps = {}
    RetrySteps = 2
    MaxOps = 0
    MaxSyncs = 1
    MaxFaults = 0
    MaxCrashes = 0

SYMMETRY WorkSymmetry

INVARIANTS
    UniqueSource

CHECK_DEADLOCK FALSE
