SPECIFICATION FairSpec
CONSTANTS
    Managers = {m1}
    Clusters = {c1}
    IPs = {i1}
    Pinned = pinned
    None = none
    Bare = bare
    SpecChoices <- ReleasingSpecs
    Mangles = FALSE
    MaxCreates = 1
    MaxRevisions = 2
    MaxEdits = 0
    MaxFaults = 1
PROPERTIES RenderFollows
CHECK_DEADLOCK FALSE
