SPECIFICATION FairSpec
CONSTANTS
    Sids = {1, 2}
    Openings <- AllOpenings
    MaxStreams = 2
    MaxFrames = 4
    MaxWire = 1
    MaxDown = 1
INVARIANTS
    StreamsDoNotMix
    LiveKeepsHandle
PROPERTIES
    ThreadsEnd
    Answered
CHECK_DEADLOCK FALSE
