SPECIFICATION Spec
CONSTANTS
    Setups <- MCSetups
    Calls <- MCCalls
    MaxSwitches <- MCSwitches
    PartOf <- Part
    TextRank <- MCTextRank
INVARIANTS
    JudgesByMeaning
    ArgumentsArrive
    RegisteredHandlersServe
    JudgedByItsOperation
    CapturedAnswersAgree
PROPERTY
    EveryCallEnds
