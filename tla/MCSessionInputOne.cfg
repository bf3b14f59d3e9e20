CONSTANTS
    s1 = s1
    s2 = s2
    Sessions <- OneSession
    MaxInputs = 5
SPECIFICATION Spec
PROPERTIES
    SilentAfterClose
    EverySettles
    ImplementsPipe
CHECK_DEADLOCK FALSE
