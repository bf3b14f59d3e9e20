----------------------------- MODULE ProxmuxPanel -----------------------------
(***************************************************************************)
(* The Proxmox panel of the sidebar (ProxmuxSidebarPanel.tsx): the chosen  *)
(* cluster, its inventory with a cache per cluster, the guest whose status *)
(* is shown, polled and changed by power actions, and the probes that find *)
(* out which guests offer SPICE.  Requests are answered in any order; the  *)
(* panel defends itself with a token for the status, with a cancel flag    *)
(* for the probes, and for the inventory by a choice that is disabled.     *)
(***************************************************************************)
EXTENDS Naturals, FiniteSets

CONSTANTS
    Clusters,
    Guests,      \* expansion keys of guests (guestKey)
    Qemu,        \* those that are virtual machines
    Inventories, \* answers of a cluster: [rows |-> keys, up |-> those running]
    Capable,     \* <<cluster, guest>> that offer SPICE
    Undisturbed, \* nobody opens another guest while a power action is under way
    MaxRequests  \* bound on requests under way

NoCluster == "no cluster"
Collapsed == "collapsed"

ASSUME ProxmuxPanelAssumption ==
    /\ NoCluster \notin Clusters /\ Collapsed \notin Guests
    /\ Qemu \subseteq Guests /\ Capable \subseteq Clusters \X Qemu
    /\ \A i \in Inventories : i.up \subseteq i.rows
    /\ Undisturbed \in BOOLEAN /\ MaxRequests \in Nat

VARIABLES
    clusterId,        \* the chosen cluster or NoCluster
    resources,        \* rows on the screen, and the cluster they came from
    resourcesCache,   \* resourcesCacheRef
    inflight,         \* fetches under way (resourcesInflightRef)
    panelBusy,        \* busy
    expanded,         \* expandedRowKey
    guestStatus,      \* whose status is shown
    guestStatusCache, \* guestStatusCacheRef: the guests with an entry
    statusLoading,    \* guestStatusLoading
    detailError,      \* guestDetailError
    statusRequests,   \* requests under way; the newest holds guestStatusReq
    power,            \* the power action under way (powerBusy)
    probes,           \* SPICE probes under way; live unless cancelled
    probeDone,        \* spiceProbeDoneRef
    probeInflight,    \* spiceProbeInflightRef
    spiceCapable      \* spiceCapableByGuestKey: the guests with true

inventoryVars == <<clusterId, resources, resourcesCache, inflight, panelBusy>>
statusVars == <<guestStatus, guestStatusCache, statusLoading, detailError, statusRequests>>
probeVars == <<probes, probeDone, probeInflight, spiceCapable>>
panelVars == <<inventoryVars, expanded, statusVars, power, probeVars>>

NoRows == [of |-> NoCluster, rows |-> {}, up |-> {}]
NoGuest == <<NoCluster, Collapsed>>
NoPower == [of |-> NoGuest, step |-> "none"]

MayAsk == Cardinality(statusRequests) + Cardinality(probes) < MaxRequests

-----------------------------------------------------------------------------
(* Probes                                                                  *)

\* The effect of a new cluster or new rows: what is known or under way for a row
\* that is gone is forgotten, the others are asked about unless they are known or
\* under way; the probes of the last effect are cancelled.
ProbeRows(asked, c, up, done, going, known) ==
    LET targets == up \cap Qemu
        new == targets \ (done \cup going)
    IN /\ probeDone' = done \cap targets
       /\ probeInflight' = (going \cap targets) \cup new
       /\ spiceCapable' = known \cap targets
       /\ probes' = {[of |-> p.of, live |-> FALSE] : p \in asked}
                       \cup {[of |-> <<c, g>>, live |-> TRUE] : g \in new}

ProbeResult(p, capable) ==
    IF p.live
    THEN /\ probeDone' = probeDone \cup {p.of[2]}
         /\ spiceCapable' = IF capable THEN spiceCapable \cup {p.of[2]} ELSE spiceCapable \ {p.of[2]}
    ELSE UNCHANGED <<probeDone, spiceCapable>>

\* The answer, or an error, which counts as "no".
ProbeAnswers(p) ==
    /\ p \in probes
    /\ \E capable \in {FALSE, p.of \in Capable} : ProbeResult(p, capable)
    /\ probeInflight' = probeInflight \ {p.of[2]}
    /\ probes' = probes \ {p}
    /\ UNCHANGED <<inventoryVars, expanded, statusVars, power>>

-----------------------------------------------------------------------------
(* The status of a guest                                                   *)

Overtaken == {[r EXCEPT !.newest = FALSE] : r \in statusRequests}

\* loadGuestStatus: an entry of the cache is shown at once, and a request goes out
\* unless a silent one is not forced and the entry is fresh, which no caller asks.
LoadGuestStatus(guest, by) ==
    /\ statusRequests' = Overtaken \cup {[of |-> guest, by |-> by, newest |-> TRUE]}
    /\ guestStatus' = IF guest \in guestStatusCache THEN guest ELSE guestStatus
    /\ statusLoading' = (statusLoading \/ (by # "poll" /\ guest \notin guestStatusCache))
    /\ detailError' = FALSE
    /\ UNCHANGED guestStatusCache

\* The effect when no guest is open any more.
ForgetGuestStatus ==
    /\ statusRequests' = Overtaken
    /\ guestStatus' = NoGuest
    /\ statusLoading' = FALSE
    /\ detailError' = FALSE
    /\ UNCHANGED guestStatusCache

\* Faulty: the status is shown whichever request was the last.
ShowAny(r) ==
    /\ guestStatus' = r.of
    /\ guestStatusCache' = guestStatusCache \cup {r.of}
    /\ UNCHANGED detailError

ShowStatus(r) ==
    IF r.newest
    THEN /\ guestStatus' = r.of
         /\ guestStatusCache' = guestStatusCache \cup {r.of}
         /\ UNCHANGED detailError
    ELSE UNCHANGED <<guestStatus, guestStatusCache, detailError>>

\* An error or an answer that is no status.
ShowDetailError(r) ==
    /\ IF r.newest THEN guestStatus' = NoGuest /\ detailError' = TRUE
       ELSE UNCHANGED <<guestStatus, detailError>>
    /\ UNCHANGED guestStatusCache

StatusAnswers(r) ==
    /\ r \in statusRequests
    /\ ShowStatus(r) \/ ShowDetailError(r)
    /\ statusLoading' = (statusLoading /\ ~(r.newest /\ r.by # "poll"))
    /\ statusRequests' = statusRequests \ {r}
    /\ power' = IF r.by = "power" THEN NoPower ELSE power
    /\ UNCHANGED <<inventoryVars, expanded, probeVars>>

OpenGuest == IF clusterId # NoCluster /\ expanded \in Guests THEN <<clusterId, expanded>> ELSE NoGuest

\* The timer of the open guest, while the window is in sight and has the focus.
PollTick ==
    /\ OpenGuest # NoGuest /\ MayAsk
    /\ LoadGuestStatus(OpenGuest, "poll")
    /\ UNCHANGED <<inventoryVars, expanded, power, probeVars>>

RetryStatus ==
    /\ MayAsk /\ OpenGuest # NoGuest /\ detailError /\ power = NoPower /\ ~panelBusy
    /\ LoadGuestStatus(OpenGuest, "user")
    /\ UNCHANGED <<inventoryVars, expanded, power, probeVars>>

\* The buttons go by the status that is shown, the order goes to the open guest.
RunPowerAction ==
    /\ OpenGuest # NoGuest /\ guestStatus # NoGuest /\ power = NoPower /\ ~panelBusy
    /\ power' = [of |-> OpenGuest, step |-> "acts"]
    /\ detailError' = FALSE
    /\ UNCHANGED <<inventoryVars, expanded, guestStatus, guestStatusCache, statusLoading,
                   statusRequests, probeVars>>

\* The handler goes on with the guest it began with.
PowerDone ==
    /\ power.step = "acts" /\ MayAsk
    /\ power' = [power EXCEPT !.step = "reloads"]
    /\ LoadGuestStatus(power.of, "power")
    /\ UNCHANGED <<inventoryVars, expanded, probeVars>>

PowerFails ==
    /\ power.step = "acts"
    /\ power' = NoPower
    /\ detailError' = TRUE
    /\ UNCHANGED <<inventoryVars, expanded, guestStatus, guestStatusCache, statusLoading,
                   statusRequests, probeVars>>

\* toggleExpandRow; the row of a node has no status.
ToggleExpandRow(key) ==
    /\ key \in resources.rows /\ MayAsk
    /\ Undisturbed => power = NoPower
    /\ expanded' = IF expanded = key THEN Collapsed ELSE key
    /\ IF expanded' \in Guests THEN LoadGuestStatus(<<clusterId, key>>, "user")
       ELSE ForgetGuestStatus
    /\ UNCHANGED <<inventoryVars, power, probeVars>>

-----------------------------------------------------------------------------
(* The inventory                                                           *)

Cached(c) == resourcesCache[c] # NoRows

\* fetchResources for cluster c.
FetchResources(c, force) ==
    /\ resources' = IF Cached(c) THEN resourcesCache[c] ELSE resources
    /\ \/ ~force /\ Cached(c) /\ UNCHANGED <<inflight, panelBusy>> \* fresh
       \/ /\ \E f \in inflight : f.of = c
          /\ UNCHANGED <<inflight, panelBusy>>
       \/ /\ ~\E f \in inflight : f.of = c
          /\ inflight' = inflight \cup {[of |-> c, had |-> Cached(c)]}
          /\ panelBusy' = TRUE
    /\ UNCHANGED resourcesCache

\* The effects of a new cluster: its rows, nothing open, nothing known of SPICE.  The
\* new cluster is asked about the old rows first; where it has rows in the cache these
\* probes are cancelled at once, and their guests are not asked about again.
EnterCluster(c) ==
    LET old == resources.up \cap Qemu IN
    /\ clusterId' = c
    /\ FetchResources(c, FALSE)
    /\ expanded' = Collapsed
    /\ ForgetGuestStatus
    /\ IF Cached(c)
       THEN ProbeRows(probes \cup {[of |-> <<c, g>>, live |-> TRUE] : g \in old},
                      c, (resources').up, {}, old, {})
       ELSE ProbeRows(probes, c, old, {}, {}, {})

\* listState has answered, or failed, once after the panel was mounted.
RefreshClusters(c) ==
    /\ clusterId = NoCluster
    /\ EnterCluster(c)
    /\ UNCHANGED power

\* The select is disabled while busy.
ChooseCluster(c) ==
    /\ ~panelBusy /\ MayAsk
    /\ clusterId # NoCluster /\ c # clusterId
    /\ EnterCluster(c)
    /\ UNCHANGED power

RefreshInventory ==
    /\ ~panelBusy /\ clusterId # NoCluster /\ MayAsk
    /\ FetchResources(clusterId, TRUE)
    /\ UNCHANGED <<clusterId, expanded, statusVars, power, probeVars>>

\* New rows: a row that is open and no longer there closes.
ShowRows(shown) ==
    /\ resources' = shown
    /\ ProbeRows(probes, clusterId, shown.up, probeDone, probeInflight, spiceCapable)
    /\ IF expanded \in shown.rows \cup {Collapsed} THEN UNCHANGED <<expanded, statusVars>>
       ELSE expanded' = Collapsed /\ ForgetGuestStatus

FetchAnswers(f) ==
    /\ f \in inflight
    /\ \E i \in Inventories :
        LET shown == [of |-> f.of, rows |-> i.rows, up |-> i.up] IN
        /\ resourcesCache' = [resourcesCache EXCEPT ![f.of] = shown]
        /\ ShowRows(shown)
    /\ inflight' = inflight \ {f}
    /\ panelBusy' = FALSE
    /\ UNCHANGED <<clusterId, power>>

FetchFails(f) ==
    /\ f \in inflight
    /\ IF f.had THEN UNCHANGED <<resources, expanded, statusVars, probeVars>>
       ELSE ShowRows(NoRows)
    /\ inflight' = inflight \ {f}
    /\ panelBusy' = FALSE
    /\ UNCHANGED <<clusterId, resourcesCache, power>>

-----------------------------------------------------------------------------
PanelInit ==
    /\ clusterId = NoCluster
    /\ resources = NoRows
    /\ resourcesCache = [c \in Clusters |-> NoRows]
    /\ inflight = {} /\ panelBusy = FALSE
    /\ expanded = Collapsed
    /\ guestStatus = NoGuest /\ guestStatusCache = {}
    /\ statusLoading = FALSE /\ detailError = FALSE /\ statusRequests = {}
    /\ power = NoPower
    /\ probes = {} /\ probeDone = {} /\ probeInflight = {} /\ spiceCapable = {}

PanelUser ==
    \/ RefreshInventory
    \/ RetryStatus
    \/ RunPowerAction
    \/ \E c \in Clusters : RefreshClusters(c) \/ ChooseCluster(c)
    \/ \E key \in resources.rows : ToggleExpandRow(key)

PanelAnswer ==
    \/ PollTick
    \/ PowerDone
    \/ PowerFails
    \/ \E f \in inflight : FetchAnswers(f) \/ FetchFails(f)
    \/ \E r \in statusRequests : StatusAnswers(r)
    \/ \E p \in probes : ProbeAnswers(p)

PanelNext == PanelUser \/ PanelAnswer

PanelSpec == PanelInit /\ [][PanelNext]_panelVars

-----------------------------------------------------------------------------
(* Properties                                                              *)

\* Every variable keeps values of its kind.
PanelTypeOK ==
    /\ clusterId \in Clusters \cup {NoCluster}
    /\ resources.of \in Clusters \cup {NoCluster}
    /\ DOMAIN resourcesCache = Clusters
    /\ {panelBusy, statusLoading, detailError} \subseteq BOOLEAN
    /\ guestStatusCache \subseteq Clusters \X Guests
    /\ guestStatus \in guestStatusCache \cup {NoGuest}
    /\ probeDone \subseteq Qemu /\ spiceCapable \subseteq probeDone

\* What the panel shows is of what is chosen, whatever order the answers come in:
\* with no fetch under way the rows are those of the chosen cluster; when no newer
\* request is under way the status is that of the open guest; and SPICE is offered
\* only where the chosen cluster has said so.
ShowsTheChosen ==
    /\ ~panelBusy /\ resources # NoRows => resources.of = clusterId
    /\ OpenGuest # NoGuest /\ power = NoPower /\ ~(\E r \in statusRequests : r.newest)
        => guestStatus \in {NoGuest, OpenGuest}
    /\ \A g \in spiceCapable : <<clusterId, g>> \in Capable

=============================================================================
