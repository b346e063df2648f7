SPECIFICATION FairSpec
CONSTANTS
    Names = {v1}
    Cached <- OwnedObjects
    Live <- LiveObjects
    IPs = {i1}
    None = none
    SpecChoices <- VclusterSpecs
    MaxCreates = 2
    MaxRevisions = 4
    MaxEdits = 1
    MaxFaults = 1
    MaxDisturbances = 1
INVARIANTS TypeOK
PROPERTIES ArgoCDFollows TornDown ImplementsReservation UsesRegistration
CHECK_DEADLOCK FALSE
