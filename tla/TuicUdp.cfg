SPECIFICATION Spec
CONSTANTS
    Assocs = {a1, a2}
    Loops = {}
    IdMod = 2
    MaxFrags = 3
    MaxPackets = 2
    MaxSessions = 2
    MaxReplies = 0
SYMMETRY AssocSymmetry
INVARIANTS
    OpenIsListed
    WholeUnlessReused
    SentOnce
CHECK_DEADLOCK FALSE
