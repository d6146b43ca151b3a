SPECIFICATION FairSpec
CONSTANTS
    Relays <- RelayFunctions
    MaxUp = 4
    MaxDown = 2
INVARIANTS
    AnswerIsWhole
    RequestArrives
PROPERTIES
    DownlinkArrives
    RelayReturns
CHECK_DEADLOCK FALSE
