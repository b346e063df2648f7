SPECIFICATION Spec
CONSTANTS
    Managers = {m1}
    Clusters = {c1, c2}
    IPs = {i1, i2, i3}
    Pinned = pinned
    None = none
    Bare = bare
    SpecChoices <- ReservationSpecs
    Mangles = FALSE
    MaxCreates = 1
    MaxRevisions = 0
    MaxEdits = 1
    MaxFaults = 1
INVARIANTS TypeOK PublishedIsHeld Exclusive
PROPERTIES ReservesOnlyOnce ImplementsReservation
SYMMETRY Symmetric
CHECK_DEADLOCK FALSE
