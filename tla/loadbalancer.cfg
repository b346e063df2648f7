SPECIFICATION FairSpec
CONSTANTS
    Names = {n1}
    Services = {s1}
    Cached = {s1}
    Live <- LBPools
    IPs = {i1}
    Manual = manual
    Empty = empty
    None = none
    SpecChoices <- LBSpecs
    Retargets = FALSE
    MaxCreates = 2
    MaxEdits = 1
    MaxFaults = 1
INVARIANTS TypeOK CapturesOriginal
PROPERTIES ServicePinned DeletionCompletes ImplementsReservation
CHECK_DEADLOCK FALSE
