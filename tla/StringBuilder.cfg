SPECIFICATION BuilderSpec
CONSTANTS
    NULL = NULL
    NUL = NUL
    Letters = {"a", "b"}
    Buffers = {b1, b2, b3}
    Texts <- MCTexts
    Formats <- MCFormats
    Garbage = {0, 7}
    MaxStrings = 1
SYMMETRY MCSymmetry
CHECK_DEADLOCK FALSE
INVARIANTS PiecesInOrder BuffersAccounted CellsFilled
