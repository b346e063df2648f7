SPECIFICATION FairSpec
CONSTANTS
    Managers = {m1}
    Clusters = {c1}
    IPs = {i1}
    Pinned = pinned
    None = none
    Bare = bare
    SpecChoices <- RenderSpecs
    Mangles = TRUE
    MaxCreates = 1
    MaxRevisions = 1
    MaxEdits = 1
    MaxFaults = 1
PROPERTIES DeletionCompletes DNSFollows
CHECK_DEADLOCK FALSE
