SPECIFICATION FairSpec
CONSTANTS
    Plans <- SomeCalls
    Room = 1
    MaxFlaws = 2
INVARIANTS
    EvaluatedIsServed
    VerdictIsEarned
PROPERTIES
    EvaluationEnds
CHECK_DEADLOCK FALSE
