SPECIFICATION Spec
CONSTANTS
    NULL = NULL
    Allocators = {6, 7}
    Base = base
    PageSize = 96
    Granularity = 192
    Word = 2048
    ArenaSize = 128
    Reserved = 4
    RecordWidth = 48
    NodeWidth = 24
    MinimumPool = 6
    MaximumPool = 7
    DefaultAlignment = 16
    ParameterSize <- MCParameterSize
    Requests <- MCRequests
CHECK_DEADLOCK FALSE
INVARIANTS FreeArenasUnowned
