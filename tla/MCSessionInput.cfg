CONSTANTS
    s1 = s1
    s2 = s2
    Sessions <- TwoSessions
    MaxInputs = 3
SPECIFICATION Spec
INVARIANTS
    TypeOK
    InOrder
    OneLoop
    NoneStranded
    PromisesHonest
CHECK_DEADLOCK FALSE
