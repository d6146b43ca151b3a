SPECIFICATION FairSpec
CONSTANTS
    Modes = {"raw", "vision", "udp"}
    RecvWindow = 2
    SendBuffer = 1
    SendInflight = 8
    StartupWindow = 4
    ClientWindow = 2
    OutCap = 1
    Wrap = 32
    MaxUp = 3
    MaxDown = 2
INVARIANTS
    UplinkInOrder
    AckedIsKept
    SentUntilGot
    RawNothingDropped
PROPERTIES
    SessionEnds
CHECK_DEADLOCK FALSE
