---------------------------- MODULE HetznerPlugin ----------------------------
(***************************************************************************)
(* A licensed plugin from end to end: the license in its file and in       *)
(* memory (license.rs), the switch of the plugin and the gate of its       *)
(* commands (plugins/mod.rs), the Plugins tab, the projects and favorites  *)
(* of the Hetzner plugin (hetzner.rs, AppSettingsHetznerTab.tsx) and its   *)
(* panel in the sidebar (HetznerSidebarPanel.tsx), which the window mounts *)
(* while the plugin is available (App.tsx).                                *)
(***************************************************************************)
EXTENDS Naturals, FiniteSets

CONSTANTS
    Project,
    Server,
    OwnerOf,        \* OwnerOf[s]: the project of a server
    FirstProjects,  \* projects of the state file at the start
    MaxSettings,    \* bound on what is done in the settings
    MaxStatuses     \* bound on requests for a status under way

ASSUME HetznerAssumption ==
    /\ OwnerOf \in [Server -> Project]
    /\ FirstProjects \subseteq Project
    /\ MaxSettings \in Nat /\ MaxStatuses \in Nat

NoProject == "no project"
NoServer == "no server"
NotCached == {NoServer}
NoOrder == [of |-> <<NoProject, NoServer>>, step |-> "none"]

VARIABLES
    licenseFile,  \* nosuckshell.license.json: "none", "valid" or "expired"
    licensed,     \* LICENSE_STATE holds the entitlement
    pluginOn,     \* the plugin's entry of nosuckshell.plugins.json
    pluginsTab,   \* what the Plugins tab shows: <<enabled, entitlementOk>>
    projects,     \* the state file: projects,
    favorites,    \*   favorites,
    activeProject,\*   active_project_id
    editing,      \* editingId of the Hetzner tab
    settingsDone, \* how much was done in the settings
    available,    \* hetznerSidebarAvailable: the panel can be mounted
    listedOnce,   \* projectsListReady
    listed,       \* projects of the panel
    projectId,    \* activeProjectId of the panel
    servers,      \* resources
    serversCache, \* resourcesCacheRef
    fetching,     \* projects whose servers are being fetched
    hetznerBusy,  \* busy
    opened,       \* expandedServerId
    detail,       \* whose serverDetail is shown
    statuses,     \* requests for a status under way
    order,        \* the power action under way (powerBusy)
    starred,      \* favoritesByProject
    orders        \* history: <<project, server>> of the actions that were asked for

pluginVars == <<licenseFile, licensed, pluginOn, pluginsTab>>
storedVars == <<projects, favorites, activeProject, editing>>
choiceVars == <<listedOnce, listed, projectId, starred>>
serverVars == <<servers, serversCache, fetching, hetznerBusy>>
detailVars == <<opened, detail, statuses, order>>
panelOnlyVars == <<choiceVars, serverVars, detailVars>>
hetznerVars == <<pluginVars, storedVars, settingsDone, available, panelOnlyVars, orders>>

ServersOf(p) == {s \in Server : OwnerOf[s] = p}
Settles == settingsDone < MaxSettings /\ settingsDone' = settingsDone + 1

\* plugin_invoke_backend: a command of a plugin runs only while this holds.
MayInvoke == pluginOn /\ licensed

-----------------------------------------------------------------------------
(* License and switch                                                      *)

\* refresh of the Plugins tab follows each of its commands.
ShowPlugins == pluginsTab' = <<pluginOn', licensed'>>

\* activate_license_token: refused, or written and then kept in memory.
ActivateLicense ==
    /\ Settles
    /\ licenseFile' = "valid" /\ licensed' = TRUE
    /\ UNCHANGED pluginOn
    /\ ShowPlugins
    /\ UNCHANGED <<storedVars, available, panelOnlyVars, orders>>

\* clear_license_backend: the license goes from memory even when its file stays.
ClearLicense ==
    /\ Settles
    /\ licenseFile' \in {"none", licenseFile}
    /\ licensed' = FALSE
    /\ UNCHANGED pluginOn
    /\ ShowPlugins
    /\ UNCHANGED <<storedVars, available, panelOnlyVars, orders>>

TogglePlugin ==
    /\ Settles
    /\ pluginOn' = ~pluginOn
    /\ UNCHANGED <<licenseFile, licensed>>
    /\ ShowPlugins
    /\ UNCHANGED <<storedVars, available, panelOnlyVars, orders>>

\* Time is looked at when a license is read or activated, not when it is used.
LicenseExpires ==
    /\ licenseFile = "valid"
    /\ licenseFile' = "expired"
    /\ UNCHANGED <<licensed, pluginOn, pluginsTab, storedVars, settingsDone, available,
                   panelOnlyVars, orders>>

-----------------------------------------------------------------------------
(* Projects                                                                *)

\* handleSave: a new project, or the edited one, which may have been removed since:
\* without a token the command refuses it then.
SaveProject(p, token) ==
    /\ Settles /\ MayInvoke
    /\ p = editing \/ (editing = NoProject /\ p \notin projects /\ token)
    /\ p \in projects \/ token
    /\ projects' = projects \cup {p}
    /\ activeProject' = IF activeProject = NoProject THEN p ELSE activeProject
    /\ editing' = NoProject
    /\ UNCHANGED <<favorites, pluginVars, available, panelOnlyVars, orders>>

EditProject(p) ==
    /\ Settles
    /\ p \in projects \cup {NoProject}
    /\ editing' = p
    /\ UNCHANGED <<projects, favorites, activeProject, pluginVars, available, panelOnlyVars, orders>>

\* Faulty: a project that is removed leaves its favorites behind.
KeepsFavorites(p) ==
    /\ Settles /\ MayInvoke
    /\ p \in projects
    /\ projects' = projects \ {p}
    /\ activeProject' \in IF activeProject # p THEN {activeProject}
                          ELSE IF projects' = {} THEN {NoProject} ELSE projects'
    /\ UNCHANGED <<favorites, editing, pluginVars, available, panelOnlyVars, orders>>

RemoveProject(p) ==
    /\ Settles /\ MayInvoke
    /\ p \in projects
    /\ projects' = projects \ {p}
    /\ favorites' = [favorites EXCEPT ![p] = {}]
    /\ activeProject' \in IF activeProject # p THEN {activeProject}
                          ELSE IF projects' = {} THEN {NoProject} ELSE projects'
    /\ UNCHANGED <<editing, pluginVars, available, panelOnlyVars, orders>>

SetActiveProject(p) ==
    /\ Settles /\ MayInvoke
    /\ p \in projects
    /\ activeProject' = p
    /\ UNCHANGED <<projects, favorites, editing, pluginVars, available, panelOnlyVars, orders>>

-----------------------------------------------------------------------------
(* The panel comes and goes                                                *)

FreshPanel ==
    /\ listedOnce' = FALSE /\ listed' = {} /\ projectId' = NoProject
    /\ starred' = [p \in Project |-> {}]
    /\ servers' = {} /\ serversCache' = [p \in Project |-> NotCached]
    /\ fetching' = {} /\ hetznerBusy' = FALSE
    /\ opened' = NoServer /\ detail' = NoServer /\ statuses' = {} /\ order' = NoOrder

\* refreshLicensedPlugins, when the window starts or the settings close; when the
\* panel goes the answers it waits for find nobody.
ProbePlugins ==
    /\ available' \in {MayInvoke, FALSE} /\ available' # available
    /\ FreshPanel
    /\ UNCHANGED <<pluginVars, storedVars, settingsDone, orders>>

\* The window is restarted; an expired license is not read again.
RestartWindow ==
    /\ licensed' = (licenseFile = "valid")
    /\ licensed' # licensed
    /\ available' = FALSE /\ editing' = NoProject
    /\ FreshPanel
    /\ UNCHANGED <<licenseFile, pluginOn, projects, favorites, activeProject, settingsDone, orders>>
    /\ ShowPlugins

-----------------------------------------------------------------------------
(* The servers of a project                                                *)

IsCached(p) == serversCache[p] # NotCached

\* fetchResources after the choice of p; what was shown stays while nothing is cached.
FetchServers(p) ==
    /\ servers' = IF IsCached(p) THEN serversCache[p] ELSE servers
    /\ \/ /\ ~IsCached(p) \/ p \in fetching
          /\ fetching' = fetching \cup {p}
          /\ hetznerBusy' = (hetznerBusy \/ p \notin fetching)
       \/ IsCached(p) /\ UNCHANGED <<fetching, hetznerBusy>> \* fresh
       \/ IsCached(p) /\ fetching' = fetching \cup {p} /\ hetznerBusy' = TRUE
    /\ UNCHANGED serversCache

Ignored == {[r EXCEPT !.newest = FALSE] : r \in statuses}

ShowProject(p) ==
    /\ projectId' = p
    /\ IF p = NoProject THEN servers' = {} /\ UNCHANGED <<serversCache, fetching, hetznerBusy>>
       ELSE FetchServers(p)
    /\ opened' = NoServer /\ detail' = NoServer
    /\ statuses' = Ignored

\* refreshProjects, once after the panel was mounted.
ListProjects ==
    /\ available /\ ~listedOnce
    /\ listedOnce' = TRUE
    /\ \/ /\ MayInvoke
          /\ listed' = projects /\ starred' = favorites
          /\ \E p \in IF projects = {} THEN {NoProject}
                      ELSE IF activeProject \in projects THEN {activeProject} ELSE projects :
                ShowProject(p)
       \/ /\ listed' = {} /\ starred' = [p \in Project |-> {}]
          /\ ShowProject(NoProject)
    /\ UNCHANGED <<order, pluginVars, storedVars, settingsDone, available, orders>>

\* The select is disabled while busy.
ChooseProject(p) ==
    /\ ~hetznerBusy /\ listed # {}
    /\ p \in listed \ {projectId}
    /\ ShowProject(p)
    /\ UNCHANGED <<listedOnce, listed, starred, order, pluginVars, storedVars, settingsDone,
                   available, orders>>

RefreshServers ==
    /\ ~hetznerBusy /\ projectId # NoProject
    /\ fetching' = fetching \cup {projectId} /\ hetznerBusy' = TRUE
    /\ UNCHANGED <<choiceVars, servers, serversCache, detailVars, pluginVars, storedVars,
                   settingsDone, available, orders>>

\* A server that is open and no longer listed closes.
ShowServers(shown) ==
    /\ servers' = shown
    /\ IF opened \in shown \cup {NoServer} THEN UNCHANGED <<opened, detail, statuses>>
       ELSE opened' = NoServer /\ detail' = NoServer /\ statuses' = Ignored

ServersAnswer(p) ==
    /\ p \in fetching /\ MayInvoke /\ p \in projects
    /\ \E shown \in SUBSET ServersOf(p) :
        /\ serversCache' = [serversCache EXCEPT ![p] = shown]
        /\ ShowServers(shown)
    /\ fetching' = fetching \ {p} /\ hetznerBusy' = FALSE
    /\ UNCHANGED <<choiceVars, order, pluginVars, storedVars, settingsDone, available, orders>>

ServersFail(p) ==
    /\ p \in fetching
    /\ IF IsCached(p) THEN UNCHANGED <<servers, opened, detail, statuses>> ELSE ShowServers({})
    /\ fetching' = fetching \ {p} /\ hetznerBusy' = FALSE
    /\ UNCHANGED <<choiceVars, serversCache, order, pluginVars, storedVars, settingsDone,
                   available, orders>>

-----------------------------------------------------------------------------
(* A server                                                                *)

OpenServer == <<projectId, opened>>
MayRequest == Cardinality(statuses) < MaxStatuses

LoadServerDetail(of, by) ==
    statuses' = Ignored \cup {[of |-> of, by |-> by, newest |-> TRUE]}

\* Another server, or none: the detail stays until the answer.
ToggleServer(s) ==
    /\ s \in servers /\ MayRequest
    /\ IF opened = s
       THEN opened' = NoServer /\ detail' = NoServer /\ statuses' = Ignored
       ELSE opened' = s /\ LoadServerDetail(<<projectId, s>>, "panel") /\ UNCHANGED detail
    /\ UNCHANGED <<choiceVars, serverVars, order, pluginVars, storedVars, settingsDone,
                   available, orders>>

\* The timer, or "Retry status".
PollServer ==
    /\ opened # NoServer /\ MayRequest
    /\ LoadServerDetail(OpenServer, "panel")
    /\ UNCHANGED <<choiceVars, serverVars, opened, detail, order, pluginVars, storedVars,
                   settingsDone, available, orders>>

DetailAnswers(r) ==
    /\ r \in statuses
    /\ \/ /\ MayInvoke /\ r.of[1] \in projects
          /\ detail' = IF r.newest THEN r.of[2] ELSE detail
       \/ detail' = IF r.newest THEN NoServer ELSE detail
    /\ statuses' = statuses \ {r}
    /\ order' = IF r.by = "order" THEN NoOrder ELSE order
    /\ UNCHANGED <<choiceVars, serverVars, opened, pluginVars, storedVars, settingsDone,
                   available, orders>>

\* Faulty: the buttons work while the servers are being fetched.
OrderAnyTime ==
    /\ opened # NoServer /\ order = NoOrder
    /\ order' = [of |-> OpenServer, step |-> "acts"]
    /\ orders' = orders \cup {OpenServer}
    /\ UNCHANGED <<choiceVars, serverVars, opened, detail, statuses, pluginVars, storedVars,
                   settingsDone, available>>

\* runPowerAction; the buttons are disabled by powerDisabled.
OrderPower ==
    /\ opened # NoServer /\ order = NoOrder /\ ~hetznerBusy
    /\ order' = [of |-> OpenServer, step |-> "acts"]
    /\ orders' = orders \cup {OpenServer}
    /\ UNCHANGED <<choiceVars, serverVars, opened, detail, statuses, pluginVars, storedVars,
                   settingsDone, available>>

\* The handler goes on with the server it began with, or shows the error.
OrderDone ==
    /\ order.step = "acts"
    /\ \/ /\ MayInvoke /\ order.of[1] \in projects /\ MayRequest
          /\ LoadServerDetail(order.of, "order")
          /\ order' = [order EXCEPT !.step = "reloads"]
       \/ order' = NoOrder /\ UNCHANGED statuses
    /\ UNCHANGED <<choiceVars, serverVars, opened, detail, pluginVars, storedVars, settingsDone,
                   available, orders>>

\* toggle_favorite and its answer.
ToggleFavorite(s) ==
    /\ s \in servers /\ projectId \in projects /\ MayInvoke
    /\ LET stars == favorites[projectId]
           updated == IF s \in stars THEN stars \ {s} ELSE stars \cup {s}
       IN /\ favorites' = [favorites EXCEPT ![projectId] = updated]
          /\ starred' = [starred EXCEPT ![projectId] = updated]
    /\ Settles
    /\ UNCHANGED <<projects, activeProject, editing, listedOnce, listed, projectId, serverVars,
                   detailVars, pluginVars, available, orders>>

-----------------------------------------------------------------------------
HetznerInit ==
    /\ licenseFile = "valid" /\ licensed = TRUE /\ pluginOn = TRUE
    /\ pluginsTab = <<TRUE, TRUE>>
    /\ projects = FirstProjects /\ favorites = [p \in Project |-> {}]
    /\ activeProject \in IF FirstProjects = {} THEN {NoProject} ELSE FirstProjects
    /\ editing = NoProject /\ settingsDone = 0
    /\ available = FALSE
    /\ listedOnce = FALSE /\ listed = {} /\ projectId = NoProject /\ starred = favorites
    /\ servers = {} /\ serversCache = [p \in Project |-> NotCached]
    /\ fetching = {} /\ hetznerBusy = FALSE
    /\ opened = NoServer /\ detail = NoServer /\ statuses = {} /\ order = NoOrder
    /\ orders = {}

SettingsStep ==
    \/ ActivateLicense
    \/ ClearLicense
    \/ TogglePlugin
    \/ LicenseExpires
    \/ ProbePlugins
    \/ RestartWindow
    \/ \E p \in Project : SaveProject(p, TRUE) \/ SaveProject(p, FALSE) \/ RemoveProject(p)
    \/ \E p \in Project \cup {NoProject} : EditProject(p) \/ SetActiveProject(p)

HetznerPanelStep ==
    \/ ListProjects
    \/ RefreshServers
    \/ PollServer
    \/ OrderPower
    \/ OrderDone
    \/ \E p \in Project : ChooseProject(p) \/ ServersAnswer(p) \/ ServersFail(p)
    \/ \E s \in Server : ToggleServer(s) \/ ToggleFavorite(s)
    \/ \E r \in statuses : DetailAnswers(r)

HetznerNext == SettingsStep \/ HetznerPanelStep

HetznerSpec == HetznerInit /\ [][HetznerNext]_hetznerVars

-----------------------------------------------------------------------------
(* Properties                                                              *)

\* Every variable keeps values of its kind.  The active project exists, and there
\* is one unless there is no project; only projects that exist have favorites.
HetznerTypeOK ==
    /\ licenseFile \in {"none", "valid", "expired"}
    /\ {licensed, pluginOn, available, listedOnce, hetznerBusy} \subseteq BOOLEAN
    /\ projects \subseteq Project /\ listed \subseteq Project
    /\ IF projects = {} THEN activeProject = NoProject ELSE activeProject \in projects
    /\ \A p \in Project : favorites[p] \subseteq Server /\ (p \notin projects => favorites[p] = {})
    /\ projectId \in listed \cup {NoProject}
    /\ servers \subseteq Server /\ opened \in servers \cup {NoServer}
    /\ detail \in Server \cup {NoServer}
    /\ available \/ (fetching = {} /\ statuses = {} /\ order = NoOrder)

\* A power action is asked for with the token of the project its server is in, also
\* when the project is switched while servers of the last one are still on the
\* screen and open.
OrdersHitTheirProject == \A o \in orders : OwnerOf[o[2]] = o[1]

=============================================================================
