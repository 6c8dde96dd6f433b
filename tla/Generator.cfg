SPECIFICATION Spec
CONSTANTS
    Documents <- MCDocuments
    Flags <- MCFlags
    GoName <- MCGoName
    PathName <- MCPathName
    PathPrefix <- MCPathPrefix
    Rank <- MCRank
    Letter <- MCLetter
    Clean <- MCClean
    FuncName <- MCFuncName
    FileName <- MCFileName
    TestFiles <- MCTestFiles
INVARIANTS
    PackageIsWhole
    ClashesAreSettledOnce
    EnforcedAsAsked
    SameCommandSamePackage
CHECK_DEADLOCK FALSE
