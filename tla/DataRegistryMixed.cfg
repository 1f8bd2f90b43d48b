SPECIFICATION Spec
CONSTANTS
    MaxIndex = 3
    MaxIssued = 4
    MaxDestroyed = 2
    MixedTrees = TRUE
INVARIANT EntriesBelong
