SPECIFICATION Spec
CONSTANTS
    Managers = {m1}
    Clusters = {c1}
    IPs = {i1}
    Pinned = pinned
    None = none
    Bare = bare
    SpecChoices <- EnrichOutSpecs
    Mangles = FALSE
    MaxCreates = 1
    MaxRevisions = 0
    MaxEdits = 0
    MaxFaults = 0
INVARIANTS ReleasedOnDelete
CHECK_DEADLOCK FALSE
