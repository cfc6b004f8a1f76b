SPECIFICATION FairSpec

CONSTANTS
    r1 = r1
    r2 = r2
    r3 = r3
    k1 = k1
    k2 = k2
    w1 = w1
    w2 = w2
    w3 = w3
    Objs = {r1, r2, r3}
    Works = {w1, w2, w3}
    Kinds = {k1, k2}
    KindOf <- TwoKinds
    OwnerOf <- OwnersInARow
    AppObjs = {r3}
    None = None
    Foreign = Foreign
    Unreadable = Unreadable
    Empty = Empty
    InitObjs = {r1, r2, r3}
    InitKinds = {k1}
    UserOps = {"installKind", "disableWork", "editWork", "touchObj"}
    RetrySteps = 3
    MaxOps = 2
    MaxSyncs = 0
    MaxFaults = 1
    MaxCrashes = 1

INVARIANTS
    TypeOK
    SourceIsRoot

PROPERTIES
    HandlersReturn

CHECK_DEADLOCK FALSE
