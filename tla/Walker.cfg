SPECIFICATION QuerySpec
CONSTANTS
    Walks <- HeardOrQueried
    MaxSchemaDepth = 2
    Unwalked <- KnownGaps
    Questions <- AllQueries
    LowerCase <- LowerLetters
    Globs <- GlobTable
    BrokenGlobs <- NoGlobs
    Alphabet <- GroupNames
    WalkLimit = 3
    WalkDetailLimit = 2
    MaxLimit = 4
    Misread <- AllTraits
INVARIANTS
    WalkFollowsTree
    StopEndsOuterWalk
    EveryRowOnce
