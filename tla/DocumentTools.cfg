SPECIFICATION Spec
CONSTANTS
    Inputs <- Documents
    MaxTools = 3
CHECK_DEADLOCK FALSE
INVARIANTS
    ReferenceKeepsMeaning
    NothingLostSilently
    FixLeavesUsed
    ValidatorAgrees
