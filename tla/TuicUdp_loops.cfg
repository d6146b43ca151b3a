SPECIFICATION FairSpec
CONSTANTS
    Assocs = {a1}
    Loops = {"v4"}
    IdMod = 2
    MaxFrags = 1
    MaxPackets = 1
    MaxSessions = 1
    MaxReplies = 1
PROPERTIES
    LoopsEnd
CHECK_DEADLOCK FALSE
