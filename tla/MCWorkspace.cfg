CONSTANTS
    none = none
    None = none
    main = main
    other = other
    third = third
    Main = main
    Hosts <- OneHost
    Workspaces <- TwoWorkspaces
    Profiles <- NoProfiles
    Ops = {"new", "here", "web", "split", "duplicate", "drag", "clear", "close", "all", "switch", "create", "send", "elsewhere"}
    Patient = TRUE
    Compacts = FALSE
    MaxSessions = 2
    MaxPanes = 3
    MaxCalls = 1
SPECIFICATION Spec
INVARIANTS
    TypeOK
    InOnePlace
    NoneReaped
    SessionsAgree
CHECK_DEADLOCK FALSE
