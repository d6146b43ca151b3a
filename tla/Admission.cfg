SPECIFICATION FairSpec
CONSTANTS
    Handlers <- AllHandlers
    MsgLen = 2
    Body = 1
INVARIANTS
    OnlyAdmitted
    BodyIsPassed
    FallbackIsWhole
    SplitIsHarmless
PROPERTIES
    Settles
CHECK_DEADLOCK FALSE
