CONSTANTS
    none = none
    None = none
    main = main
    other = other
    third = third
    Main = main
    Hosts <- OneHost
    Workspaces <- TwoWorkspaces
    Profiles <- OneSession
    Ops = {"new", "quick", "host", "close", "switch", "create", "remove", "preset", "preset_switch", "commander", "restart", "profile"}
    Patient = TRUE
    Compacts = TRUE
    MaxSessions = 2
    MaxPanes = 2
    MaxCalls = 1
SPECIFICATION Spec
INVARIANTS
    SnapshotsAgree
    FreshNumbers
    OrphansAreSeen
CHECK_DEADLOCK FALSE
