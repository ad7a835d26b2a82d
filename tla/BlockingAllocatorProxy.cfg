CONSTANTS
    NULL = NULL
    Junk = Junk
    Committed = 14
    Offset = 0
    ObjectSize = 3
    Alignment = 2
    PointerSize = 2
    Garbage = {0, 3, 5}
    Threads = {t1, t2, t3}
    Sizes <- MCSizes
SPECIFICATION FairSpec
INVARIANTS OneHolder FreeListIntact ObjectsDisjoint
PROPERTIES AtomicPool LockReleased
