CONSTANTS
    MaxKey = 12
    MaxMixed = 3
    Ids <- MCIds
    Hash <- MCHash
    Allowed <- MCAllowed
    Doubles <- MCDoubles
SPECIFICATION Spec
CHECK_DEADLOCK FALSE
INVARIANTS
    TreeHolds
    FoundById
PROPERTIES
    Stable
