SPECIFICATION Spec
CONSTANTS
    Plans <- SomeCalls
    Room = 1
    MaxFlaws = 0
INVARIANTS
    ZeroLossLocally
CHECK_DEADLOCK FALSE
