CONSTANTS
    none = none
    None = none
    main = main
    other = other
    third = third
    Main = main
    Hosts <- OneHost
    Workspaces <- TwoWorkspaces
    Profiles <- NoProfiles
    Ops = {"create", "preset_switch"}
    Patient = TRUE
    Compacts = TRUE
    MaxSessions = 2
    MaxPanes = 3
    MaxCalls = 1
SPECIFICATION Spec
PROPERTIES
    SwitchShowsPreset
CHECK_DEADLOCK FALSE
