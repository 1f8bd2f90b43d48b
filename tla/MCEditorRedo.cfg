SPECIFICATION Spec
CONSTANTS
    d1 = d1
    d2 = d2
    Data = {d1, d2}
    Fresh = d1
    Moved <- MCMoved
    FirstScene <- MCFamily
    IdentityMask = 5
    MaxComponents = 3
    MaxOperations = 6
INVARIANTS
    RedoFindsComponents
CHECK_DEADLOCK FALSE
