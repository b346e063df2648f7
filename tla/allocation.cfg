SPECIFICATION FairSpec
CONSTANTS
    Names = {a1}
    Secret = secret
    Enricher = reg
    Cached <- AllocationObjects
    Live = {}
    IPs = {i1}
    None = none
    SpecChoices <- AllocationSpecs
    KeepsSinks = TRUE
    MaxCreates = 1
    MaxEdits = 1
    MaxFaults = 1
INVARIANTS TypeOK AllocationReversed LabelledIsHeld
PROPERTIES ConfigMapFollows DNSFollows RegistrationHeals ImplementsReservation
CHECK_DEADLOCK FALSE
