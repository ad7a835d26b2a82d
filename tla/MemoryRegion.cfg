CONSTANTS
    Regions = {r1, r2}
    Addresses = {a1, a2}
    NULL = NULL
    PageSize = 2
    Granularity = 4
    Word = 16
    MaxSizes <- MCMaxSizes
    GrowSizes <- MCGrowSizes
SPECIFICATION Spec
SYMMETRY Symmetry
CHECK_DEADLOCK TRUE
INVARIANTS UsableCommitted WithinReservation SoleOwner Inv
PROPERTIES UsableBytesPersist PagesFollowSize
