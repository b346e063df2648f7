SPECIFICATION Spec
CONSTANTS
    Names = {a1}
    Secret = secret
    Enricher = reg
    Cached <- AllocationObjects
    Live = {}
    IPs = {i1}
    None = none
    SpecChoices <- LabelSpecs
    KeepsSinks = TRUE
    MaxCreates = 1
    MaxEdits = 0
    MaxFaults = 0
PROPERTIES Coexist
CHECK_DEADLOCK FALSE
