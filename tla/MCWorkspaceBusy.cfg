CONSTANTS
    none = none
    None = none
    main = main
    other = other
    third = third
    Main = main
    Hosts <- OneHost
    Workspaces <- TwoWorkspaces
    Profiles <- NoProfiles
    Ops = {"new", "duplicate", "close", "create", "elsewhere"}
    Patient = FALSE
    Compacts = TRUE
    MaxSessions = 2
    MaxPanes = 2
    MaxCalls = 2
SPECIFICATION LiveSpec
INVARIANTS
    PanesBacked
PROPERTIES
    EffectsSettle
CHECK_DEADLOCK FALSE
