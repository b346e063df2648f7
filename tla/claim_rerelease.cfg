SPECIFICATION Spec
CONSTANTS
    Managers = {m1}
    Clusters = {c1, c2}
    IPs = {i1}
    Pinned = pinned
    None = none
    Bare = bare
    SpecChoices <- EnrichOutSpecs
    Mangles = FALSE
    MaxCreates = 2
    MaxRevisions = 0
    MaxEdits = 0
    MaxFaults = 0
INVARIANTS Exclusive
CHECK_DEADLOCK FALSE
