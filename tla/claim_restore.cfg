SPECIFICATION Spec
CONSTANTS
    Names = {n1}
    Services = {s1}
    Cached = {s1}
    Live <- LBPools
    IPs = {i1}
    Manual = manual
    Empty = empty
    None = none
    SpecChoices <- ServiceSpecs
    Retargets = FALSE
    MaxCreates = 1
    MaxEdits = 0
    MaxFaults = 0
INVARIANTS RestoredOnDelete
CHECK_DEADLOCK FALSE
