SPECIFICATION FairSpec
CONSTANTS
    Assocs = {a1}
    Loops = {"v4"}
    IdMod = 2
    MaxFrags = 1
    MaxPackets = 2
    MaxSessions = 2
    MaxReplies = 2
PROPERTIES
    ConnectionFreed
CHECK_DEADLOCK FALSE
