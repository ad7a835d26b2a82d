SPECIFICATION Spec
CONSTANTS
    NULL = NULL
    Threads = {t1, t2}
    Handlers = {h1, h2}
    Callbacks = {log}
    Objects = {o1}
    Units <- MCUnits
    MaxCodes = 3
    StackSize = 2
    PlatformCodes = {0}
    MaxThreads = 1
    MaxPending = 1
SYMMETRY Symmetry
CHECK_DEADLOCK FALSE
INVARIANT HandlersAccounted
PROPERTIES FreedUntouched OwnHandlerOnly
