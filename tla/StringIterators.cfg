SPECIFICATION IteratorFairSpec
CONSTANTS
    MaxLength = 3
    Texts <- MCTexts
    Behind = {0, 128}
    Firsts <- MCFirsts
CHECK_DEADLOCK FALSE
INVARIANTS OnBoundary
PROPERTIES Reversible LoopEnds
