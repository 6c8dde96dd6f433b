SPECIFICATION JoinSpec
CONSTANTS
    N = 3
    Token <- Tokens
    Shape <- Shapes
    Empty = "empty"
    CustomShape = "custom"
    Inputs <- AllDocuments
    Joins <- AllCalls
    Strategies <- AnyStrategy
    EquivalenceMode = "deep"
    HandlerAnswers <- RespectfulAnswers
    Prefix <- Shared
    NoPrefix = "none"
    AlwaysApplyPrefix = TRUE
    Template <- BySource
    Counter <- Copies
    SemanticDeduplication = TRUE
INVARIANTS
    RenamesFollowSchemas
    ReferencesKeepTheirMeaning
    MergedSchemasAgree
    DeliveredAsAsked
    LosersAreNamed
