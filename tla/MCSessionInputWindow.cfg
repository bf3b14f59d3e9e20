CONSTANTS
    s1 = s1
    s2 = s2
    Sessions <- OneSession
    MaxInputs = 3
SPECIFICATION Spec
PROPERTIES
    KeystrokesWaitForWindow
CHECK_DEADLOCK FALSE
