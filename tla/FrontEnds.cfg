SPECIFICATION Spec
CONSTANTS
    Inputs <- AllInputs
    Unchecked <- UncheckedPlaces
    Unfounded <- UnfoundedPlaces
    Unrepaired <- UnrepairedPlaces
    Unspoken <- UnspokenPlaces
    Invalid <- InvalidPlaces
INVARIANTS
    FoundAndFixed
    ConvertedWithoutHarm
CHECK_DEADLOCK FALSE
