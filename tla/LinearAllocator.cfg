SPECIFICATION LinearSpec
CONSTANTS
    NULL = NULL
    Base = 4
    PageSize = 4
    Granularity = 4
    Word = 64
    WordWidth = 2
    RegionSizes <- MCRegionSizes
    Sizes <- MCSizes
    Alignments <- MCAlignments
    Written <- MCWritten
    Garbage <- MCGarbage
CHECK_DEADLOCK FALSE
INVARIANTS  FailedRefuses
 
