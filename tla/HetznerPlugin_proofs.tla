------------------------- MODULE HetznerPlugin_proofs -------------------------
(***************************************************************************)
(* Theorems about the Hetzner plugin, for any projects and servers and     *)
(* any number of settings and requests.                                    *)
(***************************************************************************)
EXTENDS HetznerPlugin, TLAPS

StatusRequest ==
    [of : (Project \cup {NoProject}) \X Server, by : {"panel", "order"}, newest : BOOLEAN]
Order ==
    [of : (Project \cup {NoProject}) \X Server, step : {"acts", "reloads"}]

\* What HetznerTypeOK rests on: the kinds of the variables it says nothing about,
\* and that nothing is left of a panel that is not there.
FieldTypes ==
    /\ favorites \in [Project -> SUBSET Server]
    /\ editing \in Project \cup {NoProject}
    /\ serversCache \in [Project -> (SUBSET Server) \cup {NotCached}]
    /\ fetching \subseteq Project
    /\ statuses \subseteq StatusRequest
    /\ order \in Order \cup {NoOrder}

NoPanel ==
    /\ listed = {} /\ servers = {} /\ opened = NoServer
    /\ fetching = {} /\ statuses = {} /\ order = NoOrder

TypeInv == HetznerTypeOK /\ FieldTypes /\ (~available => NoPanel)

\* At most one list of servers is under way, that of the chosen project, and the
\* panel is busy then; a cache holds servers of its project.
OneFetch ==
    /\ fetching # {} => hetznerBusy /\ fetching = {projectId} /\ projectId # NoProject
    /\ ~listedOnce => fetching = {} /\ listed = {}
    /\ \A p \in Project : IsCached(p) => serversCache[p] \subseteq ServersOf(p)

\* Servers of another project are shown only while those of the chosen one are
\* being fetched for the first time.
ShowsOwnServers ==
    /\ projectId = NoProject => servers = {}
    /\ projectId # NoProject /\ (~hetznerBusy \/ IsCached(projectId))
            => servers \subseteq ServersOf(projectId)

OrderInv == OneFetch /\ ShowsOwnServers /\ OrdersHitTheirProject

-----------------------------------------------------------------------------
(* Types                                                                   *)

LEMMA IgnoredAreRequests ==
    ASSUME statuses \subseteq StatusRequest
    PROVE  Ignored \subseteq StatusRequest
  BY DEF Ignored, StatusRequest

\* What the choice of a project leaves of the panel.
LEMMA ShowProjectTypes ==
    ASSUME TypeInv, NEW p \in Project \cup {NoProject}, ShowProject(p)
    PROVE  /\ projectId' = p /\ opened' = NoServer /\ detail' = NoServer
           /\ servers' \subseteq Server
           /\ serversCache' = serversCache
           /\ fetching' \subseteq Project
           /\ hetznerBusy' \in BOOLEAN
           /\ statuses' \subseteq StatusRequest
<1> USE DEF TypeInv, HetznerTypeOK, FieldTypes
<1>1. statuses' \subseteq StatusRequest
  BY IgnoredAreRequests DEF ShowProject
<1>2. CASE p = NoProject
  BY <1>1, <1>2 DEF ShowProject
<1>3. CASE p # NoProject
  <2>1. p \in Project /\ FetchServers(p)
    BY <1>3 DEF ShowProject
  <2>2. IsCached(p) => serversCache[p] \subseteq Server
    BY <2>1 DEF IsCached
  <2> QED
    BY <1>1, <2>1, <2>2 DEF ShowProject, FetchServers
<1> QED
  BY <1>2, <1>3

\* What the arrival of a list leaves of the panel.
LEMMA ShowServersTypes ==
    ASSUME TypeInv, NEW shown \in SUBSET Server, ShowServers(shown)
    PROVE  /\ servers' \subseteq Server /\ opened' \in servers' \cup {NoServer}
           /\ detail' \in Server \cup {NoServer}
           /\ statuses' \subseteq StatusRequest
  BY IgnoredAreRequests DEF ShowServers, TypeInv, HetznerTypeOK, FieldTypes

LEMMA RequestTypes ==
    ASSUME TypeInv, NEW of \in (Project \cup {NoProject}) \X Server,
           NEW by \in {"panel", "order"}, LoadServerDetail(of, by)
    PROVE  statuses' \subseteq StatusRequest
<1>1. [of |-> of, by |-> by, newest |-> TRUE] \in StatusRequest
  BY DEF StatusRequest
<1> QED
  BY <1>1, IgnoredAreRequests DEF LoadServerDetail, TypeInv, FieldTypes

LEMMA SettingsTypes ==
    ASSUME TypeInv, SettingsStep
    PROVE  TypeInv'
<1> USE DEF TypeInv, HetznerTypeOK, FieldTypes, NoPanel, storedVars, choiceVars, serverVars,
            detailVars, panelOnlyVars, pluginVars
<1>1. CASE ActivateLicense
  BY <1>1 DEF ActivateLicense
<1>2. CASE ClearLicense
  BY <1>2 DEF ClearLicense
<1>3. CASE TogglePlugin
  BY <1>3 DEF TogglePlugin
<1>4. CASE LicenseExpires
  BY <1>4 DEF LicenseExpires
<1>5. CASE ProbePlugins
  <2>1. available' \in BOOLEAN
    BY <1>5 DEF ProbePlugins, MayInvoke
  <2> QED
    BY <1>5, <2>1 DEF ProbePlugins, FreshPanel
<1>6. CASE RestartWindow
  <2>1. licensed' \in BOOLEAN
    BY <1>6 DEF RestartWindow
  <2> QED
    BY <1>6, <2>1 DEF RestartWindow, FreshPanel
<1>7. ASSUME NEW p \in Project, NEW token \in BOOLEAN, SaveProject(p, token)
      PROVE  TypeInv'
  BY <1>7 DEF SaveProject
<1>8. ASSUME NEW p \in Project, RemoveProject(p)
      PROVE  TypeInv'
  BY <1>8 DEF RemoveProject
<1>9. ASSUME NEW p \in Project \cup {NoProject}, EditProject(p)
      PROVE  TypeInv'
  BY <1>9 DEF EditProject
<1>10. ASSUME NEW p \in Project \cup {NoProject}, SetActiveProject(p)
       PROVE  TypeInv'
  BY <1>10 DEF SetActiveProject
<1> QED
  BY <1>1, <1>2, <1>3, <1>4, <1>5, <1>6, <1>7, <1>8, <1>9, <1>10 DEF SettingsStep

LEMMA PanelTypes ==
    ASSUME TypeInv, HetznerPanelStep
    PROVE  TypeInv'
<1> USE DEF TypeInv, HetznerTypeOK, FieldTypes, NoPanel, storedVars, choiceVars, serverVars,
            detailVars, panelOnlyVars, pluginVars
<1>1. CASE ListProjects
  <2>1. ASSUME NEW p \in Project \cup {NoProject}, ShowProject(p),
               projectId' \in listed' \cup {NoProject}, listed' \subseteq Project
        PROVE  TypeInv'
    BY <1>1, <2>1, ShowProjectTypes DEF ListProjects
  <2>2. ASSUME NEW p \in IF projects = {} THEN {NoProject}
                         ELSE IF activeProject \in projects THEN {activeProject} ELSE projects,
               listed' = projects, ShowProject(p)
        PROVE  TypeInv'
    BY <2>1, <2>2 DEF ShowProject
  <2>3. ASSUME listed' = {}, ShowProject(NoProject)
        PROVE  TypeInv'
    BY <2>1, <2>3 DEF ShowProject
  <2> QED
    BY <1>1, <2>2, <2>3 DEF ListProjects
<1>2. CASE RefreshServers
  BY <1>2 DEF RefreshServers
<1>3. CASE PollServer
  <2>1. OpenServer \in (Project \cup {NoProject}) \X Server
    BY <1>3 DEF PollServer, OpenServer
  <2> QED
    BY <1>3, <2>1, RequestTypes DEF PollServer
<1>4. CASE OrderPower
  <2>1. order' \in Order
    BY <1>4 DEF OrderPower, OpenServer, Order
  <2> QED
    BY <1>4, <2>1 DEF OrderPower
<1>5. CASE OrderDone
  <2>1. order \in Order
    BY <1>5 DEF OrderDone, NoOrder
  <2>2. [order EXCEPT !.step = "reloads"] \in Order /\ order.of \in (Project \cup {NoProject}) \X Server
    BY <2>1 DEF Order
  <2>3. statuses' \subseteq StatusRequest
    BY <1>5, <2>2, RequestTypes DEF OrderDone
  <2>4. available
    BY <1>5 DEF OrderDone, NoOrder
  <2> QED
    BY <1>5, <2>2, <2>3, <2>4 DEF OrderDone
<1>6. ASSUME NEW p \in Project, ChooseProject(p)
      PROVE  TypeInv'
  BY <1>6, ShowProjectTypes DEF ChooseProject
<1>7. ASSUME NEW p \in Project, ServersAnswer(p)
      PROVE  TypeInv'
  <2> PICK shown \in SUBSET ServersOf(p) :
        serversCache' = [serversCache EXCEPT ![p] = shown] /\ ShowServers(shown)
    BY <1>7 DEF ServersAnswer
  <2>1. shown \in SUBSET Server
    BY DEF ServersOf
  <2> QED
    BY <1>7, <2>1, ShowServersTypes DEF ServersAnswer
<1>8. ASSUME NEW p \in Project, ServersFail(p)
      PROVE  TypeInv'
  BY <1>8, ShowServersTypes DEF ServersFail
<1>9. ASSUME NEW s \in Server, ToggleServer(s)
      PROVE  TypeInv'
  <2>1. <<projectId, s>> \in (Project \cup {NoProject}) \X Server
    OBVIOUS
  <2>2. statuses' \subseteq StatusRequest
    BY <1>9, <2>1, RequestTypes, IgnoredAreRequests DEF ToggleServer
  <2> QED
    BY <1>9, <2>2 DEF ToggleServer
<1>10. ASSUME NEW s \in Server, ToggleFavorite(s)
       PROVE  TypeInv'
  BY <1>10 DEF ToggleFavorite
<1>11. ASSUME NEW r \in statuses, DetailAnswers(r)
       PROVE  TypeInv'
  <2>1. r.of[2] \in Server
    BY DEF StatusRequest
  <2> QED
    BY <1>11, <2>1 DEF DetailAnswers
<1> QED
  BY <1>1, <1>2, <1>3, <1>4, <1>5, <1>6, <1>7, <1>8, <1>9, <1>10, <1>11 DEF HetznerPanelStep

LEMMA TypeStep == TypeInv /\ [HetznerNext]_hetznerVars => TypeInv'
<1> SUFFICES ASSUME TypeInv, [HetznerNext]_hetznerVars
             PROVE  TypeInv'
  OBVIOUS
<1>1. CASE HetznerNext
  BY <1>1, SettingsTypes, PanelTypes DEF HetznerNext
<1>2. CASE UNCHANGED hetznerVars
  BY <1>2 DEF TypeInv, HetznerTypeOK, FieldTypes, NoPanel, storedVars, choiceVars, serverVars,
              detailVars, panelOnlyVars, pluginVars, hetznerVars, IsCached
<1> QED
  BY <1>1, <1>2

LEMMA TypeStart == HetznerInit => TypeInv
  BY HetznerAssumption DEF HetznerInit, TypeInv, HetznerTypeOK, FieldTypes, NoPanel

\* Every variable keeps values of its kind: the active project exists, only
\* projects that exist have favorites, and nothing is left of a panel that is gone.
THEOREM TypeCorrect == HetznerSpec => []HetznerTypeOK
<1>1. TypeInv => HetznerTypeOK
  BY DEF TypeInv
<1> QED
  BY TypeStart, TypeStep, <1>1, PTL DEF HetznerSpec
-----------------------------------------------------------------------------
(* Orders                                                                  *)

\* A panel that comes or goes shows nothing and asks for nothing.
LEMMA FreshPanelShowsNothing ==
    ASSUME OrderInv, FreshPanel, orders' = orders
    PROVE  OrderInv'
  BY DEF OrderInv, OneFetch, ShowsOwnServers, OrdersHitTheirProject, FreshPanel, IsCached

\* The choice of another project, with no list under way: what stays on the screen
\* stays only while the panel is busy.
LEMMA ShowProjectKeeps ==
    ASSUME TypeInv, OrderInv, NEW p \in Project \cup {NoProject}, ShowProject(p),
           fetching = {}, listedOnce', orders' = orders
    PROVE  OrderInv'
<1> USE DEF OrderInv, OneFetch, ShowsOwnServers, OrdersHitTheirProject, IsCached
<1>1. CASE p = NoProject
  BY <1>1 DEF ShowProject
<1>2. CASE p # NoProject
  <2>1. p \in Project /\ FetchServers(p) /\ projectId' = p
    BY <1>2 DEF ShowProject
  <2>2. serversCache' = serversCache
    BY <2>1 DEF FetchServers
  <2>3. CASE IsCached(p)
    <3>1. servers' = serversCache[p] /\ servers' \subseteq ServersOf(p)
      BY <2>1, <2>3 DEF FetchServers
    <3>2. fetching' = {} \/ (fetching' = {p} /\ hetznerBusy')
      BY <2>1, <2>3 DEF FetchServers
    <3> QED
      BY <1>2, <2>1, <2>2, <3>1, <3>2
  <2>4. CASE ~IsCached(p)
    <3>1. fetching' = {p} /\ hetznerBusy'
      BY <2>1, <2>4 DEF FetchServers
    <3> QED
      BY <1>2, <2>1, <2>2, <2>4, <3>1
  <2> QED
    BY <2>3, <2>4
<1> QED
  BY <1>1, <1>2

LEMMA SettingsKeepOrders ==
    ASSUME OrderInv, SettingsStep
    PROVE  OrderInv'
<1>1. CASE ProbePlugins
  BY <1>1, FreshPanelShowsNothing DEF ProbePlugins
<1>2. CASE RestartWindow
  BY <1>2, FreshPanelShowsNothing DEF RestartWindow
<1>3. CASE UNCHANGED <<panelOnlyVars, orders>>
  BY <1>3 DEF panelOnlyVars, choiceVars, serverVars, OrderInv, OneFetch, ShowsOwnServers,
              OrdersHitTheirProject, IsCached
<1> QED
  BY <1>1, <1>2, <1>3 DEF SettingsStep, ActivateLicense, ClearLicense, TogglePlugin,
        LicenseExpires, SaveProject, RemoveProject, EditProject, SetActiveProject

LEMMA PanelKeepsOrders ==
    ASSUME TypeInv, OrderInv, HetznerPanelStep
    PROVE  OrderInv'
<1> USE DEF OrderInv, OneFetch, ShowsOwnServers, OrdersHitTheirProject, IsCached
<1>1. CASE ListProjects
  <2>1. fetching = {} /\ listedOnce' /\ orders' = orders
    BY <1>1 DEF ListProjects
  <2>2. \E p \in Project \cup {NoProject} : ShowProject(p)
    BY <1>1 DEF ListProjects, TypeInv, HetznerTypeOK
  <2> QED
    BY <2>1, <2>2, ShowProjectKeeps
<1>2. CASE RefreshServers
  <2>1. fetching = {} /\ listedOnce
    BY <1>2 DEF RefreshServers, TypeInv, HetznerTypeOK
  <2> QED
    BY <1>2, <2>1 DEF RefreshServers, choiceVars
<1>3. CASE PollServer
  BY <1>3 DEF PollServer, choiceVars, serverVars
<1>4. CASE OrderPower
  \* The panel is not busy: the open server is one of the chosen project.
  <2>1. opened \in servers /\ servers # {}
    BY <1>4 DEF OrderPower, TypeInv, HetznerTypeOK
  <2>2. OwnerOf[opened] = projectId
    BY <1>4, <2>1 DEF OrderPower, ServersOf
  <2>3. OrdersHitTheirProject'
    BY <1>4, <2>2 DEF OrderPower, OpenServer
  <2> QED
    BY <1>4, <2>3 DEF OrderPower, choiceVars, serverVars
<1>5. CASE OrderDone
  BY <1>5 DEF OrderDone, choiceVars, serverVars
<1>6. ASSUME NEW p \in Project, ChooseProject(p)
      PROVE  OrderInv'
  <2>1. fetching = {} /\ orders' = orders
    BY <1>6 DEF ChooseProject
  <2>2. listedOnce'
    BY <1>6 DEF ChooseProject
  <2> QED
    BY <1>6, <2>1, <2>2, ShowProjectKeeps DEF ChooseProject
<1>7. ASSUME NEW p \in Project, ServersAnswer(p)
      PROVE  OrderInv'
  <2> PICK shown \in SUBSET ServersOf(p) :
        serversCache' = [serversCache EXCEPT ![p] = shown] /\ ShowServers(shown)
    BY <1>7 DEF ServersAnswer
  <2>1. fetching = {p} /\ projectId = p /\ fetching' = {} /\ listedOnce
    BY <1>7 DEF ServersAnswer
  <2>2. servers' \subseteq ServersOf(projectId)
    BY <2>1 DEF ShowServers
  <2>3. \A q \in Project : IsCached(q)' => serversCache'[q] \subseteq ServersOf(q)
    BY DEF TypeInv, FieldTypes
  <2> QED
    BY <1>7, <2>1, <2>2, <2>3 DEF ServersAnswer, choiceVars
<1>8. ASSUME NEW p \in Project, ServersFail(p)
      PROVE  OrderInv'
  <2>1. fetching = {p} /\ projectId = p /\ fetching' = {} /\ listedOnce
    BY <1>8 DEF ServersFail
  <2>2. IF IsCached(p) THEN servers' = servers ELSE servers' = {}
    BY <1>8 DEF ServersFail, ShowServers
  <2> QED
    BY <1>8, <2>1, <2>2 DEF ServersFail, choiceVars
<1>9. ASSUME NEW s \in Server, ToggleServer(s) \/ ToggleFavorite(s)
      PROVE  OrderInv'
  BY <1>9 DEF ToggleServer, ToggleFavorite, choiceVars, serverVars
<1>10. ASSUME NEW r \in statuses, DetailAnswers(r)
       PROVE  OrderInv'
  BY <1>10 DEF DetailAnswers, choiceVars, serverVars
<1> QED
  BY <1>1, <1>2, <1>3, <1>4, <1>5, <1>6, <1>7, <1>8, <1>9, <1>10 DEF HetznerPanelStep

LEMMA OrderStep == TypeInv /\ OrderInv /\ [HetznerNext]_hetznerVars => OrderInv'
<1> SUFFICES ASSUME TypeInv, OrderInv, [HetznerNext]_hetznerVars
             PROVE  OrderInv'
  OBVIOUS
<1>1. CASE HetznerNext
  BY <1>1, SettingsKeepOrders, PanelKeepsOrders DEF HetznerNext
<1>2. CASE UNCHANGED hetznerVars
  BY <1>2 DEF hetznerVars, panelOnlyVars, choiceVars, serverVars, OrderInv, OneFetch,
              ShowsOwnServers, OrdersHitTheirProject, IsCached
<1> QED
  BY <1>1, <1>2

\* A power action is never sent with the token of another project than its server's,
\* though servers of the former project stay on the screen, can be opened and have
\* their buttons while those of the chosen one are fetched.
THEOREM OrdersAreSafe == HetznerSpec => []OrdersHitTheirProject
<1>1. HetznerInit => OrderInv
  BY DEF HetznerInit, OrderInv, OneFetch, ShowsOwnServers, OrdersHitTheirProject, IsCached
<1>2. OrderInv => OrdersHitTheirProject
  BY DEF OrderInv
<1> QED
  BY TypeStart, TypeStep, OrderStep, <1>1, <1>2, PTL DEF HetznerSpec

=============================================================================
