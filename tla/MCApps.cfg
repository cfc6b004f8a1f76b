SPECIFICATION FairSpec

CONSTANTS
    s1 = s1
    s2 = s2
    s3 = s3
    r1 = r1
    r2 = r2
    r3 = r3
    k1 = k1
    k2 = k2
    k3 = k3
    Apps = {a1, a2}
    Specs = {s1, s2, s3}
    Objs = {r1, r2, r3}
    Kinds = {k1, k2, k3, AppKind}
    AppKind = AppKind
    KindOf <- TwoOfAKind
    ClusterKinds = {k2}
    KindsIn <- OneOrAllKinds
    Matches <- AllMatch
    NoSelector = {s3}
    Inside <- OnlyR1
    InitApps <- SomeApps
    InitObjs = {r1, r2}
    InitKinds = {k1, k2, AppKind}
    UserOps = {"create", "editSpec", "enable", "scope", "object", "installKind", "delete"}
    MaxOps = 2
    MaxLate = 1
    MaxFaults = 1
    MaxCrashes = 1

INVARIANTS
    TypeOK
    HandedWasAskedFor
    FollowedAtRest

PROPERTIES
    SpecsAreFollowed

CHECK_DEADLOCK FALSE
