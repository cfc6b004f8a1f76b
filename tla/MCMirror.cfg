SPECIFICATION FairSpec

CONSTANTS
    d1 = d1
    d2 = d2
    s1 = s1
    Deployers <- TwoDeployers
    Specs <- OneSpec
    Absent = Absent
    None = None
    MaxChanges = 2
    MaxHubOps = 1
    MaxFaults = 1
    MaxCrashes = 1

INVARIANTS
    NeverOlder
    DefaultIsPublished
    ShownAtRest

PROPERTIES
    RefinesMirror
    MirrorConverges

CHECK_DEADLOCK FALSE
