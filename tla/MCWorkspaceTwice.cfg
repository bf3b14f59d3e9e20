CONSTANTS
    none = none
    None = none
    main = main
    other = other
    third = third
    Main = main
    Hosts <- OneHost
    Workspaces <- TwoWorkspaces
    Profiles <- NoProfiles
    Ops = {"new"}
    Patient = FALSE
    Compacts = TRUE
    MaxSessions = 2
    MaxPanes = 3
    MaxCalls = 2
SPECIFICATION Spec
INVARIANTS
    TabsHaveSlots
CHECK_DEADLOCK FALSE
