SPECIFICATION Spec
CONSTANTS
    Ids = {i1}
    Handlers = {h1, h2}
    NoOne = NoOne
    Transport = "gdocsviewer"
    Modes = {"raw", "vision", "udp"}
    IdleTimeout = TRUE
    ChanCap = 1
    MaxResp = 1
    MaxBuffered = 1
    MaxChunk = 2
    MaxSessions = 2
    MaxUp = 2
    MaxDown = 3
SYMMETRY Symmetry
INVARIANTS
    NoOrphanSession
    UplinkInOrder
    EofAfterEveryBody
    DownlinkInOrder
    BufferBound
    RoundtripAdvances
PROPERTIES
    ImplementsPipe
CHECK_DEADLOCK FALSE
