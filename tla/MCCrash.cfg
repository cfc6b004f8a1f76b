SPECIFICATION FairSpec

CONSTANTS
    r1 = r1
    r2 = r2
    r3 = r3
    k1 = k1
    k2 = k2
    w1 = w1
    w2 = w2
    Objs = {r1}
    Works = {w1, w2}
    Kinds = {k1}
    KindOf <- OneKind
    OwnerOf <- NoOwners
    AppObjs = {r1}
    None = None
    Foreign = Foreign
    Unreadable = Unreadable
    Empty = Empty
    InitObjs = {r1}
    InitKinds = {k1}
    UserOps = {}
    RetrySteps = 2
    MaxOps = 0
    MaxSyncs = 0
    MaxFaults = 0
    MaxCrashes = 1

PROPERTIES
    DiscoveryCompletes

CHECK_DEADLOCK FALSE
