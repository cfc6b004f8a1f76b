SPECIFICATION FairSpec

CONSTANTS
    Segments <- SomeSegments
    VersionLike <- SomeVersions
    Pods = {p1, p2, p3}
    Kinds = {"Application", "Service", "Binding"}
    Resources <- SomeResources
    AppResource <- Application
    InitServed <- CoreOnly
    Unset = Unset
    MaxOps = 2
    MaxFaults = 1
    MaxForced = 1
    None = None

INVARIANTS
    TypeOK
    OneActs
    KindsAreFound

PROPERTIES
    ExplorerIsFixed
    StartsUp

CHECK_DEADLOCK FALSE
