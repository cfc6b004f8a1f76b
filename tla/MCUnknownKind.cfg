SPECIFICATION Spec

CONSTANTS
    r1 = r1
    r2 = r2
    r3 = r3
    k1 = k1
    k2 = k2
    w1 = w1
    w2 = w2
    Objs = {r1, r2}
    Works = {w1, w2}
    Kinds = {k1, k2}
    KindOf <- TwoKinds
    OwnerOf <- NoOwners
    AppObjs = {r1}
    None = None
    Foreign = Foreign
    Unreadable = Unreadable
    Empty = Empty
    InitObjs = {r1}
    InitKinds = {k1}
    UserOps = {"installKind", "createObj", "requestWork"}
    RetrySteps = 2
    MaxOps = 3
    MaxSyncs = 0
    MaxFaults = 0
    MaxCrashes = 0

SYMMETRY WorkSymmetry

PROPERTIES
    OnlyOrphansDeleted

CHECK_DEADLOCK FALSE
