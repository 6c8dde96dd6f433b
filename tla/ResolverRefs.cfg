SPECIFICATION Spec
CONSTANTS
    Token <- Tokens
    Root = "root"
    Here = "here"
    NoRef = NoRef
    Inputs <- Several
    MaxRefDepth = 15
    MaxCachedDocuments = 2
INVARIANTS
    ResolvedAsDocumented
    NoPointerCycles
