SPECIFICATION Spec

CONSTANTS
    r1 = r1
    r2 = r2
    r3 = r3
    k1 = k1
    k2 = k2
    w1 = w1
    w2 = w2
    Objs = {r1, r2}
    Works = {w1, w2}
    Kinds = {k1}
    KindOf <- OneKind
    OwnerOf <- NoOwners
    AppObjs = {}
    None = None
    Foreign = Foreign
    Unreadable = Unreadable
    Empty = Empty
    InitObjs = {r1, r2}
    InitKinds = {k1}
    UserOps = {"deleteObj", "touchObj", "touchWork", "requestWork", "editWork", "disableWork", "deleteWork"}
    RetrySteps = 2
    MaxOps = 4
    MaxSyncs = 0
    MaxFaults = 1
    MaxCrashes = 1

SYMMETRY WorkSymmetry

INVARIANTS
    CompletedIsHost

PROPERTIES
    RefinesContract

CHECK_DEADLOCK FALSE
