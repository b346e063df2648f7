SPECIFICATION Spec
CONSTANTS
    Managers = {m1}
    Clusters = {c1}
    IPs = {i1, i2}
    Pinned = pinned
    None = none
    Bare = bare
    SpecChoices <- RenderSpecs
    Mangles = FALSE
    MaxCreates = 1
    MaxRevisions = 2
    MaxEdits = 1
    MaxFaults = 1
PROPERTIES StatusLatches RenderNeverRegresses ReleasedBeforeGone ImplementsRegistration
CHECK_DEADLOCK FALSE
