SPECIFICATION LossySpec
CONSTANTS
    Modes = {"raw"}
    RecvWindow = 2
    SendBuffer = 2
    SendInflight = 8
    StartupWindow = 4
    ClientWindow = 4
    OutCap = 1
    Wrap = 32
    MaxUp = 1
    MaxDown = 2
PROPERTIES
    Reliable
CHECK_DEADLOCK FALSE
