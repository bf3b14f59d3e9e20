SPECIFICATION MCSpec
CONSTANTS
    s1 = s1
    s2 = s2
    h = h
    Sessions = {s1, s2}
    Saved = {s1}
    Quick = {s2}
    HostOf <- MCHostOf
    Terminal = {"a", "b"}
    SessionOf <- MCSessionOf
    Asks = {2}
    AutoTrust = TRUE
    MaxRead = 2
    MaxScrollback = 1
    MaxConfirms = 1
    MaxPrinted = 2
    Entry <- MCEntry
    DirNames = {"d"}
    LinkTo <- MCLinkTo
    Hidden = {"l"}
    InitialDisk <- MCEntry
    InitialReadOnly <- MCReadOnly
    Remote = TRUE
    Patient = TRUE
    MaxLoads = 1
    MaxJobs = 1
    Item = {"a", "t"}
    Inside <- MCInside
    FromFolders = {"f", "h"}
    ToFolders = {"g"}
    Original <- MCOriginal
    Kinds = {"local", "upload"}
    Batches = {1}
    Attentive = TRUE
    MaxCalls = 1
    Clusters = {"c1", "c2"}
    Guests = {"q"}
    Qemu = {"q"}
    Inventories <- MCInventories
    Capable <- MCCapable
    Undisturbed = TRUE
    MaxRequests = 2
    Urls = {"u", "v"}
    ClusterIds = {"p"}
    DraftId = "draft"
    Entries <- MCEntries
    Profiles = {"x"}
    Accounts <- MCAccounts
    InitialClusters <- MCInitialClusters
    Callers = {"tab", "panel"}
    MaxRevoked = 1
    MaxCommands = 1
    Panes = {"lxc", "vnc"}
    Screen = {"vnc"}
    Bridged = {"lxc", "vnc"}
    MaxRuns = 2
    Alias = {"h"}
    User = {"u", "v"}
    Group = {"g", "k"}
    PathKey = {"p", "q"}
    SecretKey = {"e", "f"}
    FirstStore <- MCFirstStore
    FirstHosts <- MCFirstHosts
    MaxEdits = 3
    Project = {"a", "b"}
    Server = {"s", "t"}
    OwnerOf <- MCOwnerOf
    FirstProjects = {"a"}
    MaxSettings = 2
    MaxStatuses = 1
    SavedHost = {"h"}
    DefaultUser <- MCDefaultUser
    View = {"v1", "v2", "v3"}
    FirstViews <- MCFirstViews
    Layout = {"l"}
    HostKey = {"k1", "k2"}
    FirstLines <- MCFirstLines
    SshDir = {"d", "e"}
    MinTimeout = 1
    MaxTimeout = 2
    PatientSettings = TRUE
    MaxChanges = 3
    MaxStarts = 1
    Tab = {"s", "l", "w"}
    TabKind <- MCTabKind
    Desk = {"m", "n"}
    Paired = {"n"}
    PaneNumber = {0, 1}
    Host = {"x"}
    RowName = {"a"}
    WithConsoles = FALSE
    GivenOps = {"rename"}
    MaxOrders = 1
INVARIANTS
    TypeOK
    ScreenShowsStream
    AnswersAreAsked
    ActsOnTheChosen
    ShowsItsFolder
    NothingLost
    ShowsTheChosen
    RefusedOnlyWhenWrong
    NoProxyOutlivesItsPane
    LinksResolve
    OrdersHitTheirProject
    SettingsSurvive
    ShowsItsOwnFiles
    MarksAreCurrent
    OrdersNameTheShown
PROPERTY CancelEnds
CHECK_DEADLOCK FALSE
