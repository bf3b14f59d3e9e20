-------------------------- MODULE ProxmuxPanel_proofs --------------------------
(***************************************************************************)
(* Theorems about the Proxmox panel, for any clusters, guests and number   *)
(* of requests under way.                                                  *)
(***************************************************************************)
EXTENDS ProxmuxPanel, TLAPS

StatusRequest ==
    [of : Clusters \X Guests, by : {"user", "poll", "power"}, newest : BOOLEAN]
Power == [of : Clusters \X Guests, step : {"acts", "reloads"}]
Probe == [of : Clusters \X Qemu, live : BOOLEAN]
Fetch == [of : Clusters, had : BOOLEAN]

\* What PanelTypeOK rests on: the kinds of the variables it says nothing about.
FieldTypes ==
    /\ inflight \subseteq Fetch
    /\ statusRequests \subseteq StatusRequest
    /\ power \in Power \cup {NoPower}
    /\ probes \subseteq Probe /\ probeInflight \subseteq Qemu

TypeInv == PanelTypeOK /\ FieldTypes

\* One fetch at a time, that of the chosen cluster, and the panel is busy with it;
\* a cache holds rows of its cluster; nothing is shown before a cluster is chosen.
OwnRows ==
    /\ \A f \in inflight : panelBusy /\ f.of = clusterId
    /\ \A f, g \in inflight : f = g
    /\ \A f \in inflight : f.had => resources.of = clusterId
    /\ \A c \in Clusters : Cached(c) => resourcesCache[c].of = c
    /\ ~panelBusy /\ resources # NoRows => resources.of = clusterId
    /\ clusterId = NoCluster => resources = NoRows

\* The open guest is that of the newest request and of the power action; when
\* neither is under way the status shown is its own.
OwnStatus ==
    /\ power # NoPower => OpenGuest \in {NoGuest, power.of}
    /\ \A r \in statusRequests : r.newest => OpenGuest \in {NoGuest, r.of}
    /\ OpenGuest # NoGuest /\ ~(\E r \in statusRequests : r.newest)
        => guestStatus \in {NoGuest, OpenGuest}

\* A probe that is not cancelled is of the chosen cluster.
OwnProbes ==
    /\ \A p \in probes : p.live => p.of[1] = clusterId
    /\ \A g \in spiceCapable : <<clusterId, g>> \in Capable

PanelInv == TypeInv /\ OwnRows /\ OwnProbes

-----------------------------------------------------------------------------
(* Probes                                                                  *)

LEMMA ProbeRowsTypes ==
    ASSUME NEW before \in SUBSET Probe, NEW c \in Clusters, NEW up,
           NEW done \in SUBSET Qemu, NEW going \in SUBSET Qemu, NEW known \in SUBSET done,
           ProbeRows(before, c, up, done, going, known)
    PROVE  /\ probes' \subseteq Probe /\ probeInflight' \subseteq Qemu
           /\ probeDone' \subseteq Qemu /\ spiceCapable' \subseteq probeDone'
           /\ spiceCapable' \subseteq known
           /\ \A p \in probes' : p.live => p.of[1] = c
<1> DEFINE dead == {[of |-> p.of, live |-> FALSE] : p \in before}
           new == (up \cap Qemu) \ (done \cup going)
           asked == {[of |-> <<c, g>>, live |-> TRUE] : g \in new}
<1>1. dead \subseteq Probe /\ \A p \in dead : ~p.live
  <2>1. ASSUME NEW p \in before
        PROVE  p.of \in Clusters \X Qemu
    BY DEF Probe
  <2>2. ASSUME NEW g \in Clusters \X Qemu
        PROVE  [of |-> g, live |-> FALSE] \in Probe
    BY DEF Probe
  <2> QED
    BY <2>1, <2>2
<1>2. asked \subseteq Probe /\ \A p \in asked : p.of[1] = c
  <2>1. ASSUME NEW g \in new
        PROVE  [of |-> <<c, g>>, live |-> TRUE] \in Probe
    BY DEF Probe
  <2> QED
    BY <2>1
<1>3. probes' = dead \cup asked
  BY DEF ProbeRows
<1>4. /\ probeInflight' \subseteq Qemu /\ probeDone' \subseteq Qemu
      /\ spiceCapable' \subseteq probeDone' /\ spiceCapable' \subseteq known
  BY DEF ProbeRows
<1> HIDE DEF dead, asked
<1> QED
  BY <1>1, <1>2, <1>3, <1>4

LEMMA ProbeAnswersKeeps ==
    ASSUME PanelInv, NEW p \in probes, ProbeAnswers(p)
    PROVE  PanelInv'
<1> USE DEF PanelInv
<1>1. /\ p \in Probe /\ p.of \in Clusters \X Qemu /\ p.of[2] \in Qemu
      /\ p.of = <<p.of[1], p.of[2]>>
  BY DEF TypeInv, FieldTypes, Probe
<1>2. PICK capable \in {FALSE, p.of \in Capable} : ProbeResult(p, capable)
  BY DEF ProbeAnswers
<1>3. /\ probeDone' \subseteq Qemu /\ spiceCapable' \subseteq probeDone'
      /\ \A g \in spiceCapable' : g \in spiceCapable \/ (p.live /\ g = p.of[2] /\ capable)
  BY <1>1, <1>2 DEF ProbeResult, TypeInv, PanelTypeOK
<1>4. OwnProbes'
  <2>1. clusterId' = clusterId /\ probes' \subseteq probes
    BY DEF ProbeAnswers, inventoryVars
  <2>2. ASSUME NEW g \in spiceCapable'
        PROVE  <<clusterId, g>> \in Capable
    <3>1. CASE g \in spiceCapable
      BY <3>1 DEF OwnProbes
    <3>2. CASE p.live /\ g = p.of[2] /\ capable
      <4>1. p.of[1] = clusterId /\ p.of \in Capable
        BY <1>2, <3>2 DEF OwnProbes
      <4> QED
        BY <1>1, <3>2, <4>1
    <3> QED
      BY <1>3, <3>1, <3>2
  <2> QED
    BY <2>1, <2>2 DEF OwnProbes
<1>5. TypeInv'
  BY <1>3 DEF ProbeAnswers, TypeInv, PanelTypeOK, FieldTypes, inventoryVars, statusVars
<1>6. OwnRows'
  BY DEF ProbeAnswers, OwnRows, Cached, inventoryVars
<1> QED
  BY <1>4, <1>5, <1>6

-----------------------------------------------------------------------------
(* The status of a guest                                                   *)

LEMMA OvertakenTypes ==
    ASSUME statusRequests \subseteq StatusRequest
    PROVE  Overtaken \subseteq StatusRequest /\ \A r \in Overtaken : ~r.newest
  BY DEF Overtaken, StatusRequest

LEMMA LoadKeeps ==
    ASSUME TypeInv, NEW guest \in Clusters \X Guests, NEW by \in {"user", "poll", "power"},
           LoadGuestStatus(guest, by)
    PROVE  /\ statusRequests' \subseteq StatusRequest
           /\ \A r \in statusRequests' : r.newest => r.of = guest
           /\ \E r \in statusRequests' : r.newest
           /\ guestStatusCache' = guestStatusCache
           /\ guestStatus' \in guestStatusCache \cup {NoGuest}
           /\ statusLoading' \in BOOLEAN /\ detailError' \in BOOLEAN
<1>1. [of |-> guest, by |-> by, newest |-> TRUE] \in StatusRequest
  BY DEF StatusRequest
<1>2. statusRequests \subseteq StatusRequest
  BY DEF TypeInv, FieldTypes
<1>3. statusRequests' = Overtaken \cup {[of |-> guest, by |-> by, newest |-> TRUE]}
  BY DEF LoadGuestStatus
<1>4. /\ statusRequests' \subseteq StatusRequest
      /\ \A r \in statusRequests' : r.newest => r.of = guest
      /\ \E r \in statusRequests' : r.newest
  <2>1. /\ Overtaken \subseteq StatusRequest
        /\ \A r \in Overtaken : ~r.newest
    BY <1>2, OvertakenTypes
  <2>2. [of |-> guest, by |-> by, newest |-> TRUE] \in statusRequests'
    BY <1>3
  <2>3. \E r \in statusRequests' : r.newest
    BY <2>2
  <2>4. ASSUME NEW r \in statusRequests', r.newest
        PROVE  r.of = guest
    BY <1>3, <2>1, <2>4
  <2>5. statusRequests' \subseteq StatusRequest
    BY <1>1, <1>3, <2>1
  <2> QED
    BY <2>3, <2>4, <2>5
<1>5. /\ guestStatusCache' = guestStatusCache
      /\ guestStatus' \in guestStatusCache \cup {NoGuest}
      /\ statusLoading' \in BOOLEAN /\ detailError' \in BOOLEAN
  BY DEF LoadGuestStatus, TypeInv, PanelTypeOK
<1> QED
  BY <1>4, <1>5

LEMMA ForgetKeeps ==
    ASSUME TypeInv, ForgetGuestStatus
    PROVE  /\ statusRequests' \subseteq StatusRequest
           /\ \A r \in statusRequests' : ~r.newest
           /\ guestStatusCache' = guestStatusCache /\ guestStatus' = NoGuest
           /\ statusLoading' \in BOOLEAN /\ detailError' \in BOOLEAN
  BY OvertakenTypes DEF ForgetGuestStatus, TypeInv, FieldTypes

LEMMA OpenGuestTypes ==
    ASSUME TypeInv
    PROVE  /\ OpenGuest # NoGuest => OpenGuest \in Clusters \X Guests
           /\ NoGuest \notin Clusters \X Guests
  BY ProxmuxPanelAssumption DEF OpenGuest, TypeInv, PanelTypeOK, NoGuest

\* Steps that touch neither the rows nor the probes.
LEMMA StatusOnlyKeeps ==
    ASSUME PanelInv, UNCHANGED <<inventoryVars, probeVars>>,
           statusRequests' \subseteq StatusRequest,
           guestStatusCache' \subseteq Clusters \X Guests,
           guestStatus' \in guestStatusCache' \cup {NoGuest},
           statusLoading' \in BOOLEAN, detailError' \in BOOLEAN,
           power' \in Power \cup {NoPower}
    PROVE  PanelInv'
  BY DEF PanelInv, TypeInv, PanelTypeOK, FieldTypes, OwnRows, OwnProbes, Cached, inventoryVars,
     probeVars

LEMMA AskKeeps ==
    ASSUME PanelInv, PollTick \/ RetryStatus \/ PowerDone
    PROVE  PanelInv'
<1> USE DEF PanelInv
<1>0. guestStatusCache \subseteq Clusters \X Guests /\ power \in Power \cup {NoPower}
  BY DEF TypeInv, PanelTypeOK, FieldTypes
<1>1. CASE PollTick
  <2>1. OpenGuest \in Clusters \X Guests
    BY <1>1, OpenGuestTypes DEF PollTick
  <2> QED
    BY <1>0, <1>1, <2>1, LoadKeeps, StatusOnlyKeeps DEF PollTick
<1>2. CASE RetryStatus
  <2>1. OpenGuest \in Clusters \X Guests
    BY <1>2, OpenGuestTypes DEF RetryStatus
  <2> QED
    BY <1>0, <1>2, <2>1, LoadKeeps, StatusOnlyKeeps DEF RetryStatus
<1>3. CASE PowerDone
  <2>1. power \in Power /\ power' \in Power /\ power.of \in Clusters \X Guests
    BY <1>0, <1>3 DEF PowerDone, Power, NoPower
  <2> QED
    BY <1>0, <1>3, <2>1, LoadKeeps, StatusOnlyKeeps DEF PowerDone
<1> QED
  BY <1>1, <1>2, <1>3

LEMMA StatusAnswersKeeps ==
    ASSUME PanelInv, NEW r \in statusRequests, StatusAnswers(r)
    PROVE  PanelInv'
<1> USE DEF PanelInv
<1>1. r.of \in Clusters \X Guests
  BY DEF TypeInv, FieldTypes, StatusRequest
<1>2. /\ guestStatusCache' \subseteq Clusters \X Guests
      /\ guestStatus' \in guestStatusCache' \cup {NoGuest} /\ detailError' \in BOOLEAN
  BY <1>1 DEF StatusAnswers, ShowStatus, ShowDetailError, TypeInv, PanelTypeOK
<1>3. statusRequests' \subseteq StatusRequest /\ power' \in Power \cup {NoPower}
  BY DEF StatusAnswers, TypeInv, FieldTypes
<1>4. statusLoading' \in BOOLEAN
  BY DEF StatusAnswers
<1> QED
  BY <1>2, <1>3, <1>4, StatusOnlyKeeps DEF StatusAnswers

LEMMA PowerKeeps ==
    ASSUME PanelInv, RunPowerAction \/ PowerFails
    PROVE  PanelInv'
<1> USE DEF PanelInv
<1>1. RunPowerAction => power' \in Power
  BY OpenGuestTypes DEF RunPowerAction, Power
<1>2. power' \in Power \cup {NoPower}
  BY <1>1 DEF PowerFails
<1> QED
  BY <1>2, StatusOnlyKeeps DEF RunPowerAction, PowerFails, TypeInv, PanelTypeOK, FieldTypes

LEMMA ToggleKeeps ==
    ASSUME PanelInv, NEW key \in resources.rows, ToggleExpandRow(key)
    PROVE  PanelInv'
<1> USE DEF PanelInv
<1>1. clusterId \in Clusters
  BY DEF TypeInv, PanelTypeOK, OwnRows, NoRows
<1>2. guestStatusCache \subseteq Clusters \X Guests /\ power \in Power \cup {NoPower}
  BY DEF TypeInv, PanelTypeOK, FieldTypes
<1>3. CASE expanded' \in Guests
  <2>1. <<clusterId, key>> \in Clusters \X Guests /\ LoadGuestStatus(<<clusterId, key>>, "user")
    BY <1>1, <1>3, ProxmuxPanelAssumption DEF ToggleExpandRow
  <2> QED
    BY <1>2, <2>1, LoadKeeps, StatusOnlyKeeps DEF ToggleExpandRow
<1>4. CASE expanded' \notin Guests
  BY <1>2, <1>4, ForgetKeeps, StatusOnlyKeeps DEF ToggleExpandRow
<1> QED
  BY <1>3, <1>4

-----------------------------------------------------------------------------
(* The inventory                                                           *)

\* Another cluster is chosen, with no fetch under way.
LEMMA EnterKeeps ==
    ASSUME PanelInv, NEW c \in Clusters, inflight = {}, EnterCluster(c), UNCHANGED power
    PROVE  PanelInv'
<1> USE DEF PanelInv
<1>1. /\ probes' \subseteq Probe /\ probeInflight' \subseteq Qemu
      /\ probeDone' \subseteq Qemu /\ spiceCapable' = {}
      /\ \A p \in probes' : p.live => p.of[1] = c
  <2>1. probes \subseteq Probe
    BY DEF TypeInv, FieldTypes
  <2>2. PICK asked \in SUBSET Probe, going \in SUBSET Qemu :
            \E up : ProbeRows(asked, c, up, {}, going, {})
    <3> DEFINE old == resources.up \cap Qemu
               asked == probes \cup {[of |-> <<c, g>>, live |-> TRUE] : g \in old}
    <3>1. ASSUME NEW g \in old
          PROVE  [of |-> <<c, g>>, live |-> TRUE] \in Probe
      <4>1. g \in Guests
        BY ProxmuxPanelAssumption
      <4> QED
        BY <4>1 DEF Probe
    <3>2. asked \in SUBSET Probe
      BY <2>1, <3>1
    <3>3. old \in SUBSET Qemu
      OBVIOUS
    <3>4. CASE Cached(c)
      <4>1. ProbeRows(asked, c, (resources').up, {}, old, {})
        BY <3>4 DEF EnterCluster
      <4> HIDE DEF old, asked
      <4> QED
        BY <3>2, <3>3, <4>1
    <3>5. CASE ~Cached(c)
      <4>1. ProbeRows(probes, c, old, {}, {}, {})
        BY <3>5 DEF EnterCluster
      <4> HIDE DEF old, asked
      <4> QED
        BY <2>1, <4>1
    <3> QED
      BY <3>4, <3>5
  <2>3. PICK up : ProbeRows(asked, c, up, {}, going, {})
    BY <2>2
  <2>4. {} \in SUBSET Qemu /\ {} \in SUBSET {}
    OBVIOUS
  <2>5. /\ probes' \subseteq Probe /\ probeInflight' \subseteq Qemu
        /\ probeDone' \subseteq Qemu /\ spiceCapable' \subseteq {}
        /\ \A p \in probes' : p.live => p.of[1] = c
    BY <2>2, <2>3, <2>4, ProbeRowsTypes
  <2> QED
    BY <2>5
<1>2. /\ resources' = IF Cached(c) THEN resourcesCache[c] ELSE resources
      /\ resourcesCache' = resourcesCache /\ clusterId' = c
      /\ \/ Cached(c) /\ inflight' = {} /\ panelBusy' = panelBusy
         \/ inflight' = {[of |-> c, had |-> Cached(c)]} /\ panelBusy' = TRUE
  BY DEF EnterCluster, FetchResources
<1>3. Cached(c) => resourcesCache[c].of = c
  BY DEF OwnRows
<1>4. TypeInv'
  <2>1. inflight' \subseteq Fetch /\ panelBusy' \in BOOLEAN
    <3>1. Cached(c) \in BOOLEAN
      BY DEF Cached
    <3>2. [of |-> c, had |-> Cached(c)] \in Fetch
      BY <3>1 DEF Fetch
    <3> QED
      BY <1>2, <3>2 DEF TypeInv, PanelTypeOK
  <2>2. /\ statusRequests' \subseteq StatusRequest /\ guestStatusCache' = guestStatusCache
        /\ guestStatus' = NoGuest /\ statusLoading' \in BOOLEAN /\ detailError' \in BOOLEAN
    BY ForgetKeeps DEF EnterCluster
  <2>3. resources'.of \in Clusters \cup {NoCluster}
    BY <1>2, <1>3 DEF TypeInv, PanelTypeOK
  <2> QED
    BY <1>1, <1>2, <2>1, <2>2, <2>3 DEF TypeInv, PanelTypeOK, FieldTypes
<1>5. OwnRows'
  <2>1. /\ \A f \in inflight' : panelBusy' /\ f.of = c
        /\ \A f, g \in inflight' : f = g
    BY <1>2
  <2>2. /\ \A f \in inflight' : f.had => resources'.of = c
        /\ ~panelBusy' => Cached(c)
    BY <1>2, <1>3
  <2>3. \A d \in Clusters : resourcesCache'[d] # NoRows => resourcesCache'[d].of = d
    BY <1>2 DEF OwnRows, Cached
  <2>4. ~panelBusy' => resources'.of = c
    BY <1>2, <1>3, <2>2
  <2> QED
    BY <1>2, <2>1, <2>2, <2>3, <2>4, ProxmuxPanelAssumption DEF OwnRows, Cached
<1>6. OwnProbes'
  BY <1>1, <1>2 DEF OwnProbes
<1> QED
  BY <1>4, <1>5, <1>6

LEMMA ChooseKeeps ==
    ASSUME PanelInv, NEW c \in Clusters, RefreshClusters(c) \/ ChooseCluster(c)
    PROVE  PanelInv'
<1>1. inflight = {}
  <2>1. \A f \in inflight : f.of \in Clusters
    BY DEF PanelInv, TypeInv, FieldTypes, Fetch
  <2> QED
    BY <2>1, ProxmuxPanelAssumption DEF PanelInv, OwnRows, RefreshClusters, ChooseCluster
<1> QED
  BY <1>1, EnterKeeps DEF RefreshClusters, ChooseCluster

LEMMA RefreshKeeps ==
    ASSUME PanelInv, RefreshInventory
    PROVE  PanelInv'
<1> USE DEF PanelInv
<1>1. clusterId \in Clusters /\ inflight = {}
  BY DEF RefreshInventory, OwnRows, TypeInv, PanelTypeOK
<1>2. /\ resources' = IF Cached(clusterId) THEN resourcesCache[clusterId] ELSE resources
      /\ resourcesCache' = resourcesCache /\ clusterId' = clusterId
      /\ inflight' = {[of |-> clusterId, had |-> Cached(clusterId)]} /\ panelBusy' = TRUE
  BY <1>1 DEF RefreshInventory, FetchResources
<1>3. Cached(clusterId) => resourcesCache[clusterId].of = clusterId
  BY <1>1 DEF OwnRows
<1>4. inflight' \subseteq Fetch /\ resources'.of \in Clusters \cup {NoCluster}
  BY <1>1, <1>2, <1>3 DEF Fetch, Cached, TypeInv, PanelTypeOK
<1>5. TypeInv'
  BY <1>2, <1>4 DEF RefreshInventory, TypeInv, PanelTypeOK, FieldTypes, statusVars, probeVars
<1>6. OwnRows'
  <2>1. \A f \in inflight' : /\ f.of = clusterId'
                            /\ f.had => resources'.of = clusterId'
    BY <1>2, <1>3
  <2>2. \A f, g \in inflight' : f = g
    BY <1>2
  <2>3. \A d \in Clusters : resourcesCache'[d] # NoRows => resourcesCache'[d].of = d
    BY <1>2 DEF OwnRows, Cached
  <2> QED
    BY <1>1, <1>2, <2>1, <2>2, <2>3, ProxmuxPanelAssumption DEF OwnRows, Cached
<1>7. OwnProbes'
  BY <1>2 DEF RefreshInventory, OwnProbes, probeVars
<1> QED
  BY <1>5, <1>6, <1>7

\* What rows that are shown leave of the status and the probes.
LEMMA ShowRowsTypes ==
    ASSUME PanelInv, clusterId \in Clusters, NEW shown, ShowRows(shown)
    PROVE  /\ probes' \subseteq Probe /\ probeInflight' \subseteq Qemu
           /\ probeDone' \subseteq Qemu /\ spiceCapable' \subseteq probeDone'
           /\ spiceCapable' \subseteq spiceCapable
           /\ \A p \in probes' : p.live => p.of[1] = clusterId
           /\ statusRequests' \subseteq StatusRequest
           /\ guestStatusCache' = guestStatusCache
           /\ guestStatus' \in guestStatusCache \cup {NoGuest}
           /\ statusLoading' \in BOOLEAN /\ detailError' \in BOOLEAN
<1>1. /\ probes \subseteq Probe /\ probeDone \in SUBSET Qemu /\ probeInflight \in SUBSET Qemu
      /\ spiceCapable \in SUBSET probeDone /\ TypeInv
  BY DEF PanelInv, TypeInv, PanelTypeOK, FieldTypes
<1>2. ProbeRows(probes, clusterId, shown.up, probeDone, probeInflight, spiceCapable)
  BY DEF ShowRows
<1>3. UNCHANGED statusVars \/ ForgetGuestStatus
  BY DEF ShowRows
<1>4. /\ statusRequests' \subseteq StatusRequest /\ guestStatusCache' = guestStatusCache
      /\ guestStatus' \in guestStatusCache \cup {NoGuest}
      /\ statusLoading' \in BOOLEAN /\ detailError' \in BOOLEAN
  BY <1>1, <1>3, ForgetKeeps DEF statusVars, TypeInv, PanelTypeOK, FieldTypes
<1> QED
  BY <1>1, <1>2, <1>4, ProbeRowsTypes

LEMMA FetchAnswersKeeps ==
    ASSUME PanelInv, NEW f \in inflight, FetchAnswers(f)
    PROVE  PanelInv'
<1> USE DEF PanelInv
<1>1. f.of = clusterId /\ clusterId \in Clusters /\ inflight = {f}
  BY DEF OwnRows, TypeInv, FieldTypes, Fetch
<1>2. PICK shown : /\ shown.of = clusterId /\ ShowRows(shown)
                   /\ resourcesCache' = [resourcesCache EXCEPT ![f.of] = shown]
  BY <1>1 DEF FetchAnswers
<1>3. resources' = shown /\ clusterId' = clusterId /\ inflight' = {} /\ panelBusy' = FALSE
  BY <1>1, <1>2 DEF FetchAnswers, ShowRows
<1>4. TypeInv'
  BY <1>1, <1>2, <1>3, ShowRowsTypes DEF FetchAnswers, TypeInv, PanelTypeOK, FieldTypes
<1>5. OwnRows'
  BY <1>1, <1>2, <1>3, ProxmuxPanelAssumption DEF OwnRows, Cached, TypeInv, PanelTypeOK
<1>6. OwnProbes'
  BY <1>1, <1>2, <1>3, ShowRowsTypes DEF OwnProbes
<1> QED
  BY <1>4, <1>5, <1>6

LEMMA FetchFailsKeeps ==
    ASSUME PanelInv, NEW f \in inflight, FetchFails(f)
    PROVE  PanelInv'
<1> USE DEF PanelInv
<1>1. f.of = clusterId /\ clusterId \in Clusters /\ inflight = {f}
  BY DEF OwnRows, TypeInv, FieldTypes, Fetch
<1>2. /\ clusterId' = clusterId /\ inflight' = {} /\ panelBusy' = FALSE
      /\ resourcesCache' = resourcesCache /\ power' = power
  BY <1>1 DEF FetchFails
<1>3. CASE f.had
  <2>1. UNCHANGED <<resources, expanded, statusVars, probeVars>>
    BY <1>3 DEF FetchFails
  <2>2. TypeInv'
    BY <1>2, <2>1 DEF TypeInv, PanelTypeOK, FieldTypes, statusVars, probeVars
  <2>3. OwnProbes'
    BY <1>2, <2>1 DEF OwnProbes, probeVars
  <2>4. OwnRows'
    BY <1>1, <1>2, <1>3, <2>1 DEF OwnRows, Cached
  <2> QED
    BY <2>2, <2>3, <2>4
<1>4. CASE ~f.had
  <2>1. ShowRows(NoRows) /\ resources' = NoRows
    BY <1>4 DEF FetchFails, ShowRows
  <2>2. TypeInv'
    BY <1>1, <1>2, <2>1, ShowRowsTypes DEF TypeInv, PanelTypeOK, FieldTypes, NoRows
  <2>3. OwnRows'
    BY <1>1, <1>2, <2>1 DEF OwnRows, Cached
  <2>4. OwnProbes'
    BY <1>1, <1>2, <2>1, ShowRowsTypes DEF OwnProbes
  <2> QED
    BY <2>2, <2>3, <2>4
<1> QED
  BY <1>3, <1>4

LEMMA PanelStart == PanelInit => PanelInv /\ OwnStatus
<1> SUFFICES ASSUME PanelInit PROVE PanelInv /\ OwnStatus
  OBVIOUS
<1>1. TypeInv
  BY DEF PanelInit, TypeInv, PanelTypeOK, FieldTypes, NoRows
<1>2. OwnRows /\ OwnProbes
  BY DEF PanelInit, OwnRows, OwnProbes, Cached
<1>3. OwnStatus
  BY DEF PanelInit, OwnStatus
<1> QED
  BY <1>1, <1>2, <1>3 DEF PanelInv

LEMMA PanelStep == PanelInv /\ [PanelNext]_panelVars => PanelInv'
<1> SUFFICES ASSUME PanelInv, [PanelNext]_panelVars
             PROVE  PanelInv'
  OBVIOUS
<1>1. CASE PanelUser
  BY <1>1, RefreshKeeps, AskKeeps, PowerKeeps, ChooseKeeps, ToggleKeeps DEF PanelUser
<1>2. CASE PanelAnswer
  BY <1>2, AskKeeps, PowerKeeps, FetchAnswersKeeps, FetchFailsKeeps, StatusAnswersKeeps,
     ProbeAnswersKeeps DEF PanelAnswer
<1>3. CASE UNCHANGED panelVars
  BY <1>3, StatusOnlyKeeps DEF panelVars, statusVars, PanelInv, TypeInv, PanelTypeOK, FieldTypes
<1> QED
  BY <1>1, <1>2, <1>3 DEF PanelNext

-----------------------------------------------------------------------------
(* Whose status is shown                                                   *)

LEMMA OwnStatusStep ==
    ASSUME Undisturbed, PanelInv, OwnStatus, [PanelNext]_panelVars
    PROVE  OwnStatus'
<1> USE DEF PanelInv
<1>0. /\ TypeInv /\ statusRequests \subseteq StatusRequest
      /\ OpenGuest # NoGuest => OpenGuest \in Clusters \X Guests
  BY OpenGuestTypes DEF TypeInv, FieldTypes
<1>1. ASSUME UNCHANGED <<clusterId, expanded, guestStatus, statusRequests>>,
             power' \in {power, NoPower}
      PROVE  OwnStatus'
  BY <1>1 DEF OwnStatus, OpenGuest
<1>2. ASSUME OpenGuest' = NoGuest, \A r \in statusRequests' : ~r.newest
      PROVE  OwnStatus'
  BY <1>2 DEF OwnStatus
<1>3. CASE PollTick \/ RetryStatus
  <2>1. /\ OpenGuest' = OpenGuest /\ power' = power
        /\ \A r \in statusRequests' : r.newest => r.of = OpenGuest
        /\ \E r \in statusRequests' : r.newest
    BY <1>0, <1>3, LoadKeeps DEF PollTick, RetryStatus, OpenGuest, inventoryVars
  <2> QED
    BY <2>1 DEF OwnStatus
<1>4. CASE PowerDone
  <2>1. power # NoPower /\ power.of \in Clusters \X Guests
    BY <1>4 DEF PowerDone, NoPower, TypeInv, FieldTypes, Power
  <2>2. OpenGuest' = OpenGuest /\ power'.of = power.of
    BY <1>4, <2>1 DEF PowerDone, OpenGuest, inventoryVars, TypeInv, FieldTypes, Power
  <2>3. /\ \A r \in statusRequests' : r.newest => r.of = power.of
        /\ \E r \in statusRequests' : r.newest
    BY <1>0, <1>4, <2>1, LoadKeeps DEF PowerDone
  <2> QED
    BY <2>1, <2>2, <2>3 DEF OwnStatus
<1>5. ASSUME NEW r \in statusRequests, StatusAnswers(r)
      PROVE  OwnStatus'
  <2>1. /\ OpenGuest' = OpenGuest /\ power' \in {power, NoPower}
        /\ statusRequests' = statusRequests \ {r}
    BY <1>5 DEF StatusAnswers, OpenGuest, inventoryVars
  <2>2. CASE r.newest
    <3>1. guestStatus' \in {r.of, NoGuest}
      BY <1>5, <2>2 DEF StatusAnswers, ShowStatus, ShowDetailError
    <3> QED
      BY <2>1, <2>2, <3>1 DEF OwnStatus
  <2>3. CASE ~r.newest
    <3>1. guestStatus' = guestStatus
      BY <1>5, <2>3 DEF StatusAnswers, ShowStatus, ShowDetailError
    <3> QED
      BY <2>1, <2>3, <3>1 DEF OwnStatus
  <2> QED
    BY <2>2, <2>3
<1>6. CASE RunPowerAction
  <2>1. /\ OpenGuest' = OpenGuest /\ power'.of = OpenGuest
        /\ guestStatus' = guestStatus /\ statusRequests' = statusRequests
    BY <1>6 DEF RunPowerAction, OpenGuest, inventoryVars
  <2> QED
    BY <2>1 DEF OwnStatus
<1>7. ASSUME NEW key \in resources.rows, ToggleExpandRow(key)
      PROVE  OwnStatus'
  <2>1. power' = NoPower /\ clusterId' = clusterId
    BY <1>7 DEF ToggleExpandRow, inventoryVars
  <2>2. CASE expanded' \in Guests
    <3>1. clusterId \in Clusters /\ key \in Guests /\ expanded' = key
      BY <1>7, <2>2, ProxmuxPanelAssumption
         DEF ToggleExpandRow, TypeInv, PanelTypeOK, OwnRows, NoRows
    <3>2. /\ \A r \in statusRequests' : r.newest => r.of = <<clusterId, key>>
          /\ \E r \in statusRequests' : r.newest
      BY <1>0, <1>7, <2>2, <3>1, LoadKeeps DEF ToggleExpandRow
    <3>3. OpenGuest' = <<clusterId, key>>
      BY <2>1, <2>2, <3>1, ProxmuxPanelAssumption DEF OpenGuest
    <3> QED
      BY <2>1, <3>2, <3>3 DEF OwnStatus
  <2>3. CASE expanded' \notin Guests
    <3>1. ForgetGuestStatus /\ OpenGuest' = NoGuest
      BY <1>7, <2>3 DEF ToggleExpandRow, OpenGuest
    <3> QED
      BY <1>0, <1>2, <3>1, ForgetKeeps
  <2> QED
    BY <2>2, <2>3
<1>8. ASSUME NEW c \in Clusters, RefreshClusters(c) \/ ChooseCluster(c)
      PROVE  OwnStatus'
  <2>1. ForgetGuestStatus /\ OpenGuest' = NoGuest
    BY <1>8, ProxmuxPanelAssumption DEF RefreshClusters, ChooseCluster, EnterCluster, OpenGuest
  <2> QED
    BY <1>0, <1>2, <2>1, ForgetKeeps
<1>9. ASSUME NEW shown, ShowRows(shown), UNCHANGED <<clusterId, power>>
      PROVE  OwnStatus'
  <2>1. CASE expanded \in shown.rows \cup {Collapsed}
    BY <1>1, <1>9, <2>1 DEF ShowRows, statusVars
  <2>2. CASE expanded \notin shown.rows \cup {Collapsed}
    <3>1. ForgetGuestStatus /\ OpenGuest' = NoGuest
      BY <1>9, <2>2, ProxmuxPanelAssumption DEF ShowRows, OpenGuest
    <3> QED
      BY <1>0, <1>2, <3>1, ForgetKeeps
  <2> QED
    BY <2>1, <2>2
<1>10. ASSUME NEW f \in inflight, FetchAnswers(f) \/ FetchFails(f)
       PROVE  OwnStatus'
  <2>1. CASE FetchAnswers(f)
    BY <1>9, <2>1 DEF FetchAnswers
  <2>2. CASE FetchFails(f) /\ f.had
    BY <1>1, <2>2 DEF FetchFails, statusVars
  <2>3. CASE FetchFails(f) /\ ~f.had
    BY <1>9, <2>3 DEF FetchFails
  <2> QED
    BY <1>10, <2>1, <2>2, <2>3
<1>11. CASE PowerFails \/ RefreshInventory \/ UNCHANGED panelVars
  BY <1>1, <1>11 DEF PowerFails, RefreshInventory, panelVars, inventoryVars, statusVars
<1>12. ASSUME NEW p \in probes, ProbeAnswers(p)
       PROVE  OwnStatus'
  BY <1>1, <1>12 DEF ProbeAnswers, inventoryVars, statusVars
<1> QED
  BY <1>3, <1>4, <1>5, <1>6, <1>7, <1>8, <1>10, <1>11, <1>12 DEF PanelNext, PanelUser, PanelAnswer

-----------------------------------------------------------------------------
(* The theorems                                                            *)

\* Every variable keeps values of its kind.
THEOREM TypeCorrect == PanelSpec => []PanelTypeOK
<1>1. PanelInv => PanelTypeOK
  BY DEF PanelInv, TypeInv
<1> QED
  BY PanelStart, PanelStep, <1>1, PTL DEF PanelSpec

\* When nobody opens another guest while a power action is under way, the rows, the
\* status and the SPICE buttons are of what is chosen, whatever order the answers of
\* inventories, status requests, power actions and probes come in.
THEOREM ShowsChosen ==
    ASSUME Undisturbed
    PROVE  PanelSpec => []ShowsTheChosen
<1>1. PanelInv /\ OwnStatus => ShowsTheChosen
  BY DEF PanelInv, OwnRows, OwnStatus, OwnProbes, ShowsTheChosen
<1>2. PanelInv /\ OwnStatus /\ [PanelNext]_panelVars => OwnStatus'
  BY OwnStatusStep
<1> QED
  BY PanelStart, PanelStep, <1>1, <1>2, PTL DEF PanelSpec

=============================================================================
