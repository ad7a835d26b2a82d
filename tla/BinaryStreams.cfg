CONSTANTS
    Length = 17
    Modulus = 20
    Type <- MCType
    Age = 20
    Scope = 18
    Index = 18
    Values <- MCValues
    Fields <- MCFields
    Offsets <- MCOffsets
    MaxWrites = 2
SPECIFICATION Spec
INVARIANTS TypeOK MediumOrder ReadBack HandleReadBack
