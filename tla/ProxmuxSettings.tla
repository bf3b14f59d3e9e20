--------------------------- MODULE ProxmuxSettings ---------------------------
(***************************************************************************)
(* Clusters as the settings keep them and as requests use them: the tab    *)
(* with its draft (AppSettingsProxmuxTab.tsx), the commands behind it on   *)
(* the state file, and the HTTP requests of the plugin with their cache of *)
(* login tickets, one retry after a refusal and the failover addresses     *)
(* (proxmux.rs).  The tab runs one command at a time; the sidebar sends    *)
(* requests of its own meanwhile.                                          *)
(***************************************************************************)
EXTENDS Naturals, Sequences

CONSTANTS
    ClusterIds,
    DraftId,        \* the id that a test of a draft uses: "draft"
    Entries,        \* what the user types: [urls, password, proxy]
    Urls,
    Profiles,       \* proxy profiles that can exist
    Accounts,       \* <<url, password>> that a server accepts
    InitialClusters,
    Callers,        \* who sends requests: "tab" is the settings tab
    MaxRevoked,     \* bound on times that the servers forget their tickets
    MaxCommands     \* bound on commands of the tab

NoPassword == ""
NoProxy == ""
Nobody == "nobody"

ASSUME ProxmuxSettingsAssumption ==
    /\ DOMAIN InitialClusters \subseteq ClusterIds /\ Nobody \notin ClusterIds
    /\ \A e \in Entries \cup {InitialClusters[id] : id \in DOMAIN InitialClusters} :
         /\ e = [urls |-> e.urls, password |-> e.password, proxy |-> e.proxy]
         /\ e.urls \in Seq(Urls) \ {<<>>} /\ e.proxy \in Profiles \cup {NoProxy}
    /\ "tab" \in Callers /\ MaxRevoked \in Nat /\ MaxCommands \in Nat

VARIABLES
    saved,           \* the state file: clusters by id
    activeId,        \*   active_cluster_id
    profiles,        \*   proxy_profiles
    tickets,         \* session_cache
    requests,        \* one request per caller
    revoked,         \* how often the servers have forgotten their tickets
    draft,           \* the draft* states of the tab
    shown,           \* the clusters of the last listState
    draftProfiles,
    resourceCluster, \* resourceClusterId
    command,         \* the command of the tab (busy)
    commands         \* how many there were

fileVars == <<saved, activeId, profiles>>
tabVars == <<draft, shown, draftProfiles, resourceCluster>>
commandVars == <<command, commands>>
settingsVars == <<fileVars, tickets, requests, revoked, tabVars, commandVars>>

NoDraft == [id |-> Nobody, urls |-> <<>>, password |-> NoPassword, proxy |-> NoProxy]
NoCommand == [is |-> "none", arg |-> Nobody]
NoRequest == [pc |-> "idle", id |-> Nobody, urls |-> <<>>, password |-> NoPassword, base |-> 1,
              attempt |-> 0, live |-> FALSE, shaken |-> FALSE, result |-> "none"]

TabIdle == command = NoCommand /\ requests["tab"].pc = "idle"

-----------------------------------------------------------------------------
(* Requests                                                                *)

\* A request of a saved cluster, or of the draft under an id of its own.
Request(caller, id, urls, password) ==
    requests' = [requests EXCEPT ![caller] =
        [NoRequest EXCEPT !.pc = "auth", !.id = id, !.urls = urls, !.password = password]]

Base(r) == requests[r].urls[requests[r].base]
Key(r) == <<requests[r].id, Base(r)>>
HasTicket(r) == \E t \in tickets : t.key = Key(r)
OtherTickets(r) == {t \in tickets : t.key # Key(r)}

\* with_failover: after any error the next address, with the error of the last.
NextBase(r, result) ==
    LET q == requests[r] IN
    requests' = [requests EXCEPT ![r] =
        IF q.base < Len(q.urls)
        THEN [q EXCEPT !.pc = "auth", !.base = q.base + 1, !.attempt = 0, !.shaken = FALSE]
        ELSE [q EXCEPT !.pc = "done", !.result = result]]

\* session_auth_for_base: a ticket of the last hour, unless a new one is forced.
TakeTicket(r) ==
    /\ requests[r].pc = "auth"
    /\ \/ \E t \in tickets :
            /\ t.key = Key(r) /\ requests[r].attempt = 0
            /\ requests' = [requests EXCEPT ![r].pc = "send", ![r].live = t.live]
       \/ requests' = [requests EXCEPT ![r].pc = "login"]
    /\ UNCHANGED <<fileVars, tickets, revoked, tabVars, commandVars>>

\* login_ticket_session; without a password or when the server says no, an error.
Login(r) ==
    /\ requests[r].pc = "login"
    /\ IF <<Base(r), requests[r].password>> \in Accounts
       THEN /\ tickets' = OtherTickets(r) \cup {[key |-> Key(r), live |-> TRUE]}
            /\ requests' = [requests EXCEPT ![r].pc = "send", ![r].live = TRUE]
       ELSE NextBase(r, "refused") /\ UNCHANGED tickets
    /\ UNCHANGED <<fileVars, revoked, tabVars, commandVars>>

\* Faulty: a refused ticket ends the request.
RefusedAtOnce(r) ==
    /\ requests[r].pc = "send" /\ ~requests[r].live
    /\ NextBase(r, "refused") /\ UNCHANGED tickets
    /\ UNCHANGED <<fileVars, revoked, tabVars, commandVars>>

\* 401: the first time the ticket goes and the loop asks for a new one.
Refused(r) ==
    /\ requests[r].pc = "send" /\ ~requests[r].live
    /\ IF requests[r].attempt = 0
       THEN /\ tickets' = OtherTickets(r)
            /\ requests' = [requests EXCEPT ![r].pc = "auth", ![r].attempt = 1]
       ELSE NextBase(r, "refused") /\ UNCHANGED tickets
    /\ UNCHANGED <<fileVars, revoked, tabVars, commandVars>>

Answered(r) ==
    /\ requests[r].pc = "send" /\ requests[r].live
    /\ requests' = [requests EXCEPT ![r].pc = "done", ![r].result = "ok"]
    /\ UNCHANGED <<fileVars, tickets, revoked, tabVars, commandVars>>

\* No connection, a timeout, another status, no JSON.
BaseFails(r) ==
    /\ requests[r].pc \in {"login", "send"}
    /\ NextBase(r, "failed")
    /\ UNCHANGED <<fileVars, tickets, revoked, tabVars, commandVars>>

\* The caller shows the result.
EndRequest(r) ==
    /\ requests[r].pc = "done"
    /\ requests' = [requests EXCEPT ![r] = NoRequest]
    /\ UNCHANGED <<fileVars, tickets, revoked, tabVars, commandVars>>

\* Tickets end at the servers, with their time or a restart.
Revoke ==
    /\ revoked < MaxRevoked
    /\ revoked' = revoked + 1
    /\ tickets' = {[key |-> t.key, live |-> FALSE] : t \in tickets}
    /\ requests' = [r \in Callers |-> [requests[r] EXCEPT
                        !.live = FALSE, !.shaken = @ \/ requests[r].attempt = 1]]
    /\ UNCHANGED <<fileVars, tabVars, commandVars>>

\* Any other caller: an inventory, a status, an order, a console.
CallCluster(r) ==
    /\ r # "tab" /\ requests[r].pc = "idle"
    /\ \E id \in DOMAIN saved : Request(r, id, saved[id].urls, saved[id].password)
    /\ UNCHANGED <<fileVars, tickets, revoked, tabVars, commandVars>>

-----------------------------------------------------------------------------
(* The draft                                                               *)

ClearDraft ==
    /\ TabIdle
    /\ draft' = NoDraft
    /\ UNCHANGED <<fileVars, tickets, requests, revoked, shown, draftProfiles, resourceCluster, commandVars>>

\* The password is not shown again.
LoadClusterIntoDraft(id) ==
    /\ TabIdle /\ id \in DOMAIN shown
    /\ draft' = [id |-> id, urls |-> shown[id].urls, password |-> NoPassword,
                 proxy |-> shown[id].proxy]
    /\ UNCHANGED <<fileVars, tickets, requests, revoked, shown, draftProfiles, resourceCluster, commandVars>>

TypeDraft(e) ==
    /\ TabIdle /\ e.proxy \in draftProfiles \cup {NoProxy}
    /\ draft' = [draft EXCEPT !.urls = e.urls, !.password = e.password, !.proxy = e.proxy]
    /\ UNCHANGED <<fileVars, tickets, requests, revoked, shown, draftProfiles, resourceCluster, commandVars>>

ToggleProfileRow(p) ==
    /\ TabIdle
    /\ draftProfiles' = IF p \in draftProfiles THEN draftProfiles \ {p} ELSE draftProfiles \cup {p}
    /\ UNCHANGED <<fileVars, tickets, requests, revoked, draft, shown, resourceCluster, commandVars>>

\* With an address, a new cluster with a password too; the backend tells which
\* clusters are new.
Submit(is, arg) ==
    /\ TabIdle /\ commands < MaxCommands
    /\ command' = [is |-> is, arg |-> arg]
    /\ commands' = commands + 1
    /\ UNCHANGED <<fileVars, tickets, requests, revoked, tabVars>>

SubmitCluster == draft.urls # <<>> /\ (draft.id = Nobody => draft.password # NoPassword)
                    /\ Submit("saveCluster", draft.id)
SubmitProfiles == Submit("saveProfiles", Nobody)
SubmitRemoval(id) == id \in DOMAIN shown /\ Submit("remove", id)
SubmitActive(id) == id \in DOMAIN shown /\ Submit("activate", id)

-----------------------------------------------------------------------------
(* Commands                                                                *)

Refreshing == command' = [is |-> "refresh", arg |-> Nobody] /\ UNCHANGED commands

\* A new cluster takes an id that is free.
IdsFor(id) == IF id = Nobody THEN ClusterIds \ DOMAIN saved ELSE {id}

\* An empty password keeps the old one.
KeptPassword(id) ==
    IF draft.password = NoPassword /\ id \in DOMAIN saved THEN saved[id].password ELSE draft.password

Storable(id) == id \in DOMAIN saved \/ draft.password # NoPassword

StoreCluster(id) ==
    /\ saved' = [i \in DOMAIN saved \cup {id} |->
                    IF i = id THEN [urls |-> draft.urls, password |-> KeptPassword(id),
                                    proxy |-> draft.proxy]
                    ELSE saved[i]]
    /\ activeId' = IF activeId = Nobody THEN id ELSE activeId

SaveCluster ==
    /\ command.is = "saveCluster"
    /\ \E id \in IdsFor(command.arg) : Storable(id) /\ StoreCluster(id)
    /\ draft' = NoDraft
    /\ Refreshing
    /\ UNCHANGED <<profiles, tickets, requests, revoked, shown, draftProfiles, resourceCluster>>

\* A cluster whose profile has gone returns to the default; one that is saved later
\* may name a profile that was never saved, and its requests then go without a proxy.
StoreProfiles ==
    /\ profiles' = draftProfiles
    /\ saved' = [id \in DOMAIN saved |->
                    [saved[id] EXCEPT !.proxy = IF @ \in draftProfiles THEN @ ELSE NoProxy]]

SaveProxyProfiles ==
    /\ command.is = "saveProfiles"
    /\ StoreProfiles
    /\ Refreshing
    /\ UNCHANGED <<activeId, tickets, requests, revoked, tabVars>>

\* The first cluster left becomes the active one; the tickets of the other stay.
StoreRemoval(gone) ==
    /\ saved' = [id \in DOMAIN saved \ {gone} |-> saved[id]]
    /\ activeId' \in IF activeId # gone THEN {activeId}
                     ELSE IF DOMAIN saved' = {} THEN {Nobody} ELSE DOMAIN saved'

RemoveCluster ==
    /\ command.is = "remove"
    /\ StoreRemoval(command.arg)
    /\ resourceCluster' = IF resourceCluster = command.arg THEN Nobody ELSE resourceCluster
    /\ Refreshing
    /\ UNCHANGED <<profiles, tickets, requests, revoked, draft, shown, draftProfiles>>

StoreActive(id) == id \in DOMAIN saved /\ activeId' = id /\ UNCHANGED saved

SetActiveCluster ==
    /\ command.is = "activate"
    /\ StoreActive(command.arg)
    /\ resourceCluster' = command.arg
    /\ Refreshing
    /\ UNCHANGED <<profiles, tickets, requests, revoked, draft, shown, draftProfiles>>

\* listState; the rows of the profiles are replaced.
RefreshState ==
    /\ command.is = "refresh"
    /\ \/ /\ shown' = saved
          /\ draftProfiles' = profiles
          /\ resourceCluster' = IF resourceCluster = Nobody THEN activeId ELSE resourceCluster
       \/ UNCHANGED <<shown, draftProfiles, resourceCluster>>
    /\ command' = NoCommand /\ UNCHANGED commands
    /\ UNCHANGED <<fileVars, tickets, requests, revoked, draft>>

\* An error before the file is written, or after (its permissions); no refresh.
RequestFails ==
    /\ command # NoCommand /\ command.is # "refresh"
    /\ \/ UNCHANGED <<saved, activeId, profiles>>
       \/ /\ command.is = "saveCluster"
          /\ \E id \in IdsFor(command.arg) : Storable(id) /\ StoreCluster(id)
          /\ UNCHANGED profiles
       \/ command.is = "saveProfiles" /\ StoreProfiles /\ UNCHANGED activeId
       \/ command.is = "remove" /\ StoreRemoval(command.arg) /\ UNCHANGED profiles
       \/ command.is = "activate" /\ StoreActive(command.arg) /\ UNCHANGED profiles
    /\ command' = NoCommand /\ UNCHANGED commands
    /\ UNCHANGED <<tickets, requests, revoked, tabVars>>

\* testConnectionDraft: the draft has an id of its own, the same for all drafts.
TestDraft ==
    /\ TabIdle /\ draft.urls # <<>> /\ draft.password # NoPassword
    /\ commands < MaxCommands /\ commands' = commands + 1
    /\ Request("tab", DraftId, draft.urls, draft.password)
    /\ UNCHANGED <<fileVars, tickets, revoked, tabVars, command>>

\* testConnection, or the inventory of the chosen cluster.
TestSaved(id) ==
    /\ TabIdle /\ id \in DOMAIN shown \cup {resourceCluster} /\ id \in DOMAIN saved
    /\ commands < MaxCommands /\ commands' = commands + 1
    /\ Request("tab", id, saved[id].urls, saved[id].password)
    /\ UNCHANGED <<fileVars, tickets, revoked, tabVars, command>>

-----------------------------------------------------------------------------
SettingsInit ==
    /\ saved = InitialClusters
    /\ activeId \in IF saved = <<>> THEN {Nobody} ELSE DOMAIN saved
    /\ profiles = Profiles
    /\ tickets = {} /\ revoked = 0
    /\ requests = [r \in Callers |-> NoRequest]
    /\ draft = NoDraft /\ shown = <<>> /\ draftProfiles = {} /\ resourceCluster = Nobody
    /\ command = [is |-> "refresh", arg |-> Nobody] /\ commands = 0

RequestStep(r) ==
    \/ CallCluster(r)
    \/ TakeTicket(r)
    \/ Login(r)
    \/ Refused(r)
    \/ Answered(r)
    \/ BaseFails(r)
    \/ EndRequest(r)

TabStep ==
    \/ ClearDraft
    \/ SubmitCluster
    \/ SubmitProfiles
    \/ TestDraft
    \/ \E e \in Entries : TypeDraft(e)
    \/ \E p \in Profiles : ToggleProfileRow(p)
    \/ \E id \in ClusterIds :
        LoadClusterIntoDraft(id) \/ SubmitRemoval(id) \/ SubmitActive(id) \/ TestSaved(id)

CommandStep ==
    \/ SaveCluster
    \/ SaveProxyProfiles
    \/ RemoveCluster
    \/ SetActiveCluster
    \/ RefreshState
    \/ RequestFails

SettingsNext == Revoke \/ TabStep \/ CommandStep \/ \E r \in Callers : RequestStep(r)

SettingsSpec == SettingsInit /\ [][SettingsNext]_settingsVars

-----------------------------------------------------------------------------
(* Properties                                                              *)

ClusterOK(c) == c.urls \in Seq(Urls) /\ c.proxy \in Profiles \cup {NoProxy}

\* Every variable keeps values of its kind.  The active cluster exists, and there is
\* one unless there is no cluster; none loses its password; a key has one ticket.
SettingsTypeOK ==
    /\ DOMAIN saved \subseteq ClusterIds /\ \A id \in DOMAIN saved : ClusterOK(saved[id])
    /\ profiles \subseteq Profiles
    /\ IF activeId = Nobody THEN DOMAIN saved = {} ELSE activeId \in DOMAIN saved
    /\ \A id \in DOMAIN saved : saved[id].password = NoPassword =>
            id \in DOMAIN InitialClusters /\ InitialClusters[id].password = NoPassword
    /\ \A t \in tickets : t.key \in (ClusterIds \cup {DraftId}) \X Urls /\ t.live \in BOOLEAN
    /\ \A t, u \in tickets : t.key = u.key => t = u
    /\ DOMAIN requests = Callers
    /\ DOMAIN shown \subseteq ClusterIds /\ draftProfiles \subseteq Profiles
    /\ resourceCluster \in ClusterIds \cup {Nobody}

\* A request is refused for its password only: a ticket that the server has
\* forgotten, or that another request threw away, costs a second login and no
\* more, unless the new ticket is forgotten too.
RefusedOnlyWhenWrong == \A r \in Callers :
    requests[r].result = "refused" /\ ~requests[r].shaken =>
        <<Base(r), requests[r].password>> \notin Accounts

=============================================================================
