SPECIFICATION Spec
CONSTANTS
    Managers = {m1}
    Clusters = {c1}
    IPs = {i1, i2}
    Pinned = pinned
    None = none
    Bare = bare
    SpecChoices <- EnrichSpecs
    Mangles = FALSE
    MaxCreates = 2
    MaxRevisions = 0
    MaxEdits = 2
    MaxFaults = 1
INVARIANTS EnrichReversed
PROPERTIES StatusLatches ImplementsReservation
CHECK_DEADLOCK FALSE
