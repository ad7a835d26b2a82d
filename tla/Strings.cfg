CONSTANTS
    Strings = {s1, s2, s3}
    Buffers = {b1, b2}
    empty = empty
    a = a
    Literals = {empty, a}
    TextOf <- MCTextOf
    Unknown = 0
    Word = 3
    MaxLength = 1
    MaxOverrun = 1
    NULL = NULL
SPECIFICATION Spec
SYMMETRY Symmetry
CHECK_DEADLOCK FALSE
INVARIANTS TypeOK CountsHolders WithinText
PROPERTIES TextKept
