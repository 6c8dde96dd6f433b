SPECIFICATION Spec
CONSTANTS
    Inputs <- Faithful
    MaxRecursionDepth = 6
    MaxTree = 8
INVARIANTS
    AppliedAsWritten
