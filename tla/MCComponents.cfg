SPECIFICATION FairSpec

CONSTANTS
    r1 = r1
    r2 = r2
    r3 = r3
    k1 = k1
    k2 = k2
    w1 = w1
    w2 = w2
    Objs = {r1, r2}
    Works = {w1, w2}
    Kinds = {k1, k2}
    KindOf <- TwoKinds
    OwnerOf <- NoOwners
    AppObjs = {r1, r2}
    None = None
    Foreign = Foreign
    Unreadable = Unreadable
    Empty = Empty
    InitObjs = {r1, r2}
    InitKinds = {k1, k2}
    UserOps = {"touchObj"}
    RetrySteps = 2
    MaxOps = 2
    MaxSyncs = 1
    MaxFaults = 0
    MaxCrashes = 0

INVARIANTS
    RequestsSettled
    ComponentsCovered

PROPERTIES
    CompletionKeepsObject
    RefinesContract
    ComponentsGetWorks
    DiscoveryCompletes

CHECK_DEADLOCK FALSE
