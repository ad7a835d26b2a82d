SPECIFICATION Spec
CONSTANTS
    NULL = NULL
    Junk = junk
    Committed = 8
    Offset = 0
    ObjectSize = 2
    Alignment = 2
    PointerSize = 1
    Garbage = {2}
    Threads = {t1, t2, t3}
    Events = {e1, e2}
SYMMETRY Symmetry
INVARIANTS BatchLinked NodesAccounted
PROPERTIES AcceptedKept
