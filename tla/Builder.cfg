SPECIFICATION Spec
CONSTANTS
    Types <- MCTypes
    PackageOf <- MCPackageOf
    FlatPath <- MCFlatPath
    ArgText <- MCArgText
    Cased <- MCCased
    Custom <- MCCustom
    BadTemplates <- MCBadTemplates
    Scripts <- MCScripts
    Rank <- MCRank
    ValidPatterns <- MCValidPatterns
INVARIANTS
    TypesDescribed
    OperationsAsAsked
    BuiltWhenRight
CHECK_DEADLOCK FALSE
