--------------------------- MODULE Settings_proofs ---------------------------
(***************************************************************************)
(* Theorems about what is set and kept, for any clusters, stores and       *)
(* bounds: the Proxmux settings with the requests that read them, the      *)
(* links of the identity store, and the host metadata and preferences.     *)
(***************************************************************************)
EXTENDS ProxmuxSettings, IdentityStore, StoredSettings, FiniteSetTheorems, WellFoundedInduction,
        TLAPS

-----------------------------------------------------------------------------
(* Proxmux settings and requests                                           *)

Passwords ==
    {NoPassword} \cup {e.password : e \in Entries}
        \cup {InitialClusters[id].password : id \in DOMAIN InitialClusters}

Proxies == Profiles \cup {NoProxy}
Addresses == Seq(Urls) \ {<<>>}
Cluster == [urls : Addresses, password : Passwords, proxy : Proxies]
Ticket == [key : (ClusterIds \cup {DraftId}) \X Urls, live : BOOLEAN]
RequestRecord ==
    [pc : {"idle", "auth", "login", "send", "done"}, id : ClusterIds \cup {DraftId, Nobody},
     urls : Seq(Urls), password : Passwords, base : Nat, attempt : {0, 1},
     live : BOOLEAN, shaken : BOOLEAN, result : {"none", "ok", "refused", "failed"}]

\* The state file: clusters with an address; no password is lost; the active one exists.
FileOK ==
    /\ DOMAIN saved \subseteq ClusterIds /\ \A id \in DOMAIN saved : saved[id] \in Cluster
    /\ profiles \subseteq Profiles
    /\ IF activeId = Nobody THEN DOMAIN saved = {} ELSE activeId \in DOMAIN saved
    /\ \A id \in DOMAIN saved : saved[id].password = NoPassword =>
            id \in DOMAIN InitialClusters /\ InitialClusters[id].password = NoPassword

\* The tab; a cluster is saved with an address, and a command keeps the draft.
TabOK ==
    /\ draft \in [id : ClusterIds \cup {Nobody}, urls : Seq(Urls), password : Passwords,
                  proxy : Proxies]
    /\ DOMAIN shown \subseteq ClusterIds /\ \A id \in DOMAIN shown : shown[id] \in Cluster
    /\ draftProfiles \subseteq Profiles
    /\ resourceCluster \in ClusterIds \cup {Nobody}
    /\ command.is = "saveCluster" => draft.urls # <<>> /\ command.arg \in ClusterIds \cup {Nobody}
    /\ command.is = "activate" => command.arg \in ClusterIds

TicketsOK ==
    /\ tickets \subseteq Ticket
    /\ \A t, u \in tickets : t.key = u.key => t = u

\* A request under way stands at one of its addresses.  Sent with a second ticket, it
\* has a good one unless the servers have forgotten it since; it ends refused only
\* where the server refused a login, or such a ticket.
RequestOK(q) ==
    /\ q \in RequestRecord
    /\ q.pc # "idle" => q.base \in 1..Len(q.urls) /\ q.id \in ClusterIds \cup {DraftId}
    /\ q.pc = "send" /\ q.attempt = 1 => q.live \/ q.shaken
    /\ q.pc # "done" => q.result = "none"
    /\ q.result = "refused" /\ ~q.shaken => <<q.urls[q.base], q.password>> \notin Accounts

RequestsOK == DOMAIN requests = Callers /\ \A r \in Callers : RequestOK(requests[r])

SettingsInv == FileOK /\ TabOK /\ TicketsOK /\ RequestsOK

-----------------------------------------------------------------------------
(* Requests                                                                *)

LEMMA OneRequest ==
    ASSUME RequestsOK, NEW r \in Callers, NEW q, RequestOK(q),
           requests' = [requests EXCEPT ![r] = q]
    PROVE  RequestsOK'
  BY DEF RequestsOK

LEMMA NoRequestOK == RequestOK(NoRequest) /\ NoRequest \in RequestRecord
<1>1. NoPassword \in Passwords /\ <<>> \in Seq(Urls)
  BY DEF Passwords
<1> QED
  BY <1>1 DEF RequestOK, NoRequest, RequestRecord

LEMMA SetRequest ==
    ASSUME RequestsOK, NEW r \in Callers, NEW id \in ClusterIds \cup {DraftId},
           NEW urls \in Addresses, NEW password \in Passwords,
           Request(r, id, urls, password)
    PROVE  RequestsOK'
<1> DEFINE q == [NoRequest EXCEPT !.pc = "auth", !.id = id, !.urls = urls, !.password = password]
<1>1. Len(urls) \in Nat \ {0}
  BY DEF Addresses
<1>2. q \in RequestRecord
  BY NoRequestOK DEF RequestRecord, Addresses
<1>3. /\ q.pc = "auth" /\ q.id = id /\ q.urls = urls
      /\ q.base = NoRequest.base /\ q.attempt = NoRequest.attempt /\ q.result = NoRequest.result
  BY NoRequestOK DEF RequestRecord
<1>4. RequestOK(q)
  <2>1. NoRequest.base = 1 /\ NoRequest.attempt = 0 /\ NoRequest.result = "none"
    BY DEF NoRequest
  <2> HIDE DEF q
  <2> QED
    BY <1>1, <1>2, <1>3, <2>1 DEF RequestOK
<1>5. requests' = [requests EXCEPT ![r] = q]
  BY DEF Request
<1> HIDE DEF q
<1> QED
  BY <1>4, <1>5, OneRequest

\* After an error the request goes on at the next address or ends.
LEMMA NextBaseKeeps ==
    ASSUME RequestsOK, NEW r \in Callers, NEW result \in {"refused", "failed"},
           requests[r].pc \in {"login", "send"}, NextBase(r, result),
           result = "refused" /\ ~requests[r].shaken
             => <<Base(r), requests[r].password>> \notin Accounts
    PROVE  RequestsOK'
<1> DEFINE q == requests[r]
           next == [q EXCEPT !.pc = "auth", !.base = q.base + 1, !.attempt = 0, !.shaken = FALSE]
           last == [q EXCEPT !.pc = "done", !.result = result]
<1>1. RequestOK(q) /\ q \in RequestRecord /\ Len(q.urls) \in Nat
  BY DEF RequestsOK, RequestOK, RequestRecord
<1>2. CASE q.base < Len(q.urls)
  <2>1. RequestOK(next)
    <3>1. next \in RequestRecord
      <4>1. q.base + 1 \in Nat
        BY <1>1 DEF RequestRecord
      <4> HIDE DEF q
      <4> QED
        BY <1>1, <4>1 DEF RequestRecord
    <3>2. /\ next.pc = "auth" /\ next.base = q.base + 1 /\ next.urls = q.urls
          /\ next.id = q.id /\ next.result = q.result
      BY <1>1 DEF RequestRecord
    <3>3. q.base \in Nat /\ q.pc \notin {"idle", "done"}
      BY <1>1 DEF RequestRecord
    <3> HIDE DEF next
    <3> QED
      BY <1>1, <1>2, <3>1, <3>2, <3>3 DEF RequestOK
  <2>2. requests' = [requests EXCEPT ![r] = next]
    BY <1>2 DEF NextBase
  <2> HIDE DEF next, q
  <2> QED
    BY <2>1, <2>2, OneRequest
<1>3. CASE ~(q.base < Len(q.urls))
  <2>1. RequestOK(last)
    BY <1>1, <1>3 DEF RequestOK, RequestRecord, Base
  <2>2. requests' = [requests EXCEPT ![r] = last]
    BY <1>3 DEF NextBase
  <2> HIDE DEF last, q
  <2> QED
    BY <2>1, <2>2, OneRequest
<1> QED
  BY <1>2, <1>3

\* Where a request stands.
LEMMA BaseIsUrl ==
    ASSUME RequestsOK, NEW r \in Callers, requests[r].pc # "idle"
    PROVE  Base(r) \in Urls /\ Key(r) \in (ClusterIds \cup {DraftId}) \X Urls
<1>1. RequestOK(requests[r]) /\ requests[r].urls \in Seq(Urls)
  BY DEF RequestsOK, RequestOK, RequestRecord
<1>2. /\ requests[r].base \in 1..Len(requests[r].urls)
      /\ requests[r].id \in ClusterIds \cup {DraftId}
  BY <1>1 DEF RequestOK
<1>3. Base(r) \in Urls
  BY <1>1, <1>2 DEF Base
<1> QED
  BY <1>2, <1>3 DEF Key

LEMMA TakeTicketKeeps ==
    ASSUME SettingsInv, NEW r \in Callers, TakeTicket(r)
    PROVE  SettingsInv'
<1> DEFINE q == requests[r]
<1>1. RequestOK(q) /\ q \in RequestRecord
  BY DEF SettingsInv, RequestsOK, RequestOK
<1>2. RequestsOK'
  <2>1. CASE requests' = [requests EXCEPT ![r].pc = "login"]
    <3> DEFINE new == [q EXCEPT !.pc = "login"]
    <3>1. RequestOK(new)
      BY <1>1 DEF TakeTicket, RequestOK, RequestRecord
    <3>2. requests' = [requests EXCEPT ![r] = new]
      BY <2>1 DEF SettingsInv, RequestsOK
    <3> HIDE DEF new, q
    <3> QED
      BY <3>1, <3>2, OneRequest DEF SettingsInv
  <2>2. ASSUME NEW t \in tickets, requests[r].attempt = 0,
               requests' = [requests EXCEPT ![r].pc = "send", ![r].live = t.live]
        PROVE  RequestsOK'
    <3> DEFINE new == [q EXCEPT !.pc = "send", !.live = t.live]
    <3>1. t.live \in BOOLEAN
      BY DEF SettingsInv, TicketsOK, Ticket
    <3>2. RequestOK(new)
      <4>1. new \in RequestRecord
        BY <1>1, <3>1 DEF RequestRecord
      <4>2. /\ new.pc = "send" /\ new.attempt = 0 /\ new.base = q.base /\ new.urls = q.urls
            /\ new.id = q.id /\ new.result = q.result /\ q.pc = "auth"
        BY <1>1, <2>2 DEF RequestRecord, TakeTicket
      <4> HIDE DEF new
      <4> QED
        BY <1>1, <4>1, <4>2 DEF RequestOK
    <3>3. requests' = [requests EXCEPT ![r] = new]
      BY <2>2 DEF SettingsInv, RequestsOK
    <3> HIDE DEF new, q
    <3> QED
      BY <3>2, <3>3, OneRequest DEF SettingsInv
  <2> QED
    BY <2>1, <2>2 DEF TakeTicket
<1>3. FileOK' /\ TabOK' /\ TicketsOK'
  BY DEF TakeTicket, SettingsInv, FileOK, TabOK, TicketsOK, fileVars, tabVars, commandVars
<1> QED
  BY <1>2, <1>3 DEF SettingsInv

LEMMA LoginKeeps ==
    ASSUME SettingsInv, NEW r \in Callers, Login(r)
    PROVE  SettingsInv'
<1> DEFINE q == requests[r]
           new == [q EXCEPT !.pc = "send", !.live = TRUE]
           t == [key |-> Key(r), live |-> TRUE]
<1>1. RequestOK(q) /\ q \in RequestRecord /\ q.pc = "login"
  BY DEF SettingsInv, RequestsOK, RequestOK, Login
<1>2. CASE <<Base(r), requests[r].password>> \in Accounts
  <2>1. RequestOK(new)
    BY <1>1 DEF RequestOK, RequestRecord
  <2>2. requests' = [requests EXCEPT ![r] = new]
    BY <1>2 DEF Login, SettingsInv, RequestsOK
  <2>3. RequestsOK'
    <3> HIDE DEF new, q
    <3> QED
      BY <2>1, <2>2, OneRequest DEF SettingsInv
  <2>4. t \in Ticket
    BY <1>1, BaseIsUrl DEF SettingsInv, Ticket
  <2>5. tickets' = OtherTickets(r) \cup {t}
    BY <1>2 DEF Login
  <2>6. TicketsOK'
    <3>1. \A u \in OtherTickets(r) : u \in tickets /\ u.key # t.key
      BY DEF OtherTickets
    <3> HIDE DEF t
    <3> QED
      BY <2>4, <2>5, <3>1 DEF SettingsInv, TicketsOK
  <2> QED
    BY <2>3, <2>6 DEF Login, SettingsInv, FileOK, TabOK, fileVars, tabVars, commandVars
<1>3. CASE <<Base(r), requests[r].password>> \notin Accounts
  <2>1. NextBase(r, "refused") /\ tickets' = tickets
    BY <1>3 DEF Login
  <2>2. RequestsOK'
    BY <1>1, <1>3, <2>1, NextBaseKeeps DEF SettingsInv
  <2> QED
    BY <2>1, <2>2 DEF Login, SettingsInv, FileOK, TabOK, TicketsOK, fileVars, tabVars, commandVars
<1> QED
  BY <1>2, <1>3

\* A second ticket that is refused was forgotten since it was made.
LEMMA RefusedKeeps ==
    ASSUME SettingsInv, NEW r \in Callers, Refused(r)
    PROVE  SettingsInv'
<1> DEFINE q == requests[r]
           new == [q EXCEPT !.pc = "auth", !.attempt = 1]
<1>1. RequestOK(q) /\ q \in RequestRecord /\ q.pc = "send" /\ ~q.live
  BY DEF SettingsInv, RequestsOK, RequestOK, Refused
<1>2. CASE q.attempt = 0
  <2>1. RequestOK(new)
    BY <1>1 DEF RequestOK, RequestRecord
  <2>2. requests' = [requests EXCEPT ![r] = new] /\ tickets' = OtherTickets(r)
    BY <1>2 DEF Refused, SettingsInv, RequestsOK
  <2>3. RequestsOK'
    <3> HIDE DEF new, q
    <3> QED
      BY <2>1, <2>2, OneRequest DEF SettingsInv
  <2> QED
    BY <2>2, <2>3 DEF Refused, SettingsInv, FileOK, TabOK, TicketsOK, OtherTickets,
                      fileVars, tabVars, commandVars
<1>3. CASE q.attempt # 0
  <2>1. NextBase(r, "refused") /\ tickets' = tickets
    BY <1>3 DEF Refused
  <2>2. q.shaken
    BY <1>1, <1>3 DEF RequestOK, RequestRecord
  <2>3. RequestsOK'
    BY <1>1, <2>1, <2>2, NextBaseKeeps DEF SettingsInv
  <2> QED
    BY <2>1, <2>3 DEF Refused, SettingsInv, FileOK, TabOK, TicketsOK, fileVars, tabVars, commandVars
<1> QED
  BY <1>2, <1>3

LEMMA AnsweredKeeps ==
    ASSUME SettingsInv, NEW r \in Callers, Answered(r)
    PROVE  SettingsInv'
<1> DEFINE q == requests[r]
           new == [q EXCEPT !.pc = "done", !.result = "ok"]
<1>1. RequestOK(q) /\ q \in RequestRecord /\ q.pc = "send"
  BY DEF SettingsInv, RequestsOK, RequestOK, Answered
<1>2. RequestOK(new)
  BY <1>1 DEF RequestOK, RequestRecord
<1>3. requests' = [requests EXCEPT ![r] = new]
  BY DEF Answered, SettingsInv, RequestsOK
<1>4. RequestsOK'
  <2> HIDE DEF new, q
  <2> QED
    BY <1>2, <1>3, OneRequest DEF SettingsInv
<1> QED
  BY <1>4 DEF Answered, SettingsInv, FileOK, TabOK, TicketsOK, fileVars, tabVars, commandVars

LEMMA EndRequestKeeps ==
    ASSUME SettingsInv, NEW r \in Callers, EndRequest(r)
    PROVE  SettingsInv'
<1>1. RequestOK(NoRequest)
  BY NoRequestOK
<1>2. RequestsOK'
  BY <1>1, OneRequest DEF SettingsInv, EndRequest
<1> QED
  BY <1>2 DEF EndRequest, SettingsInv, FileOK, TabOK, TicketsOK, fileVars, tabVars, commandVars

LEMMA RevokeKeeps ==
    ASSUME SettingsInv, Revoke
    PROVE  SettingsInv'
<1>1. RequestsOK'
  <2>1. ASSUME NEW r \in Callers
        PROVE  RequestOK(requests'[r])
    <3> DEFINE q == requests[r]
               new == [q EXCEPT !.live = FALSE, !.shaken = @ \/ q.attempt = 1]
    <3>1. RequestOK(q) /\ q \in RequestRecord
      BY DEF SettingsInv, RequestsOK, RequestOK
    <3>2. /\ new.pc = q.pc /\ new.id = q.id /\ new.urls = q.urls
          /\ new.password = q.password /\ new.base = q.base /\ new.attempt = q.attempt
          /\ new.live = FALSE /\ new.result = q.result /\ q.attempt \in {0, 1}
      BY <3>1 DEF RequestRecord
    <3>3. new.shaken = (q.shaken \/ q.attempt = 1) /\ q.shaken \in BOOLEAN
      BY <3>1 DEF RequestRecord
    <3>4. new \in RequestRecord
      BY <3>1 DEF RequestRecord
    <3>5. requests'[r] = new
      BY DEF Revoke
    <3> HIDE DEF new, q
    <3>6. RequestOK(new)
      BY <3>1, <3>2, <3>3, <3>4 DEF RequestOK
    <3> QED
      BY <3>5, <3>6
  <2> QED
    BY <2>1 DEF Revoke, RequestsOK
<1>2. TicketsOK'
  <2> DEFINE dead(t) == [key |-> t.key, live |-> FALSE]
  <2>1. \A t \in tickets : dead(t) \in Ticket
    BY DEF SettingsInv, TicketsOK, Ticket
  <2>2. \A t, u \in tickets : dead(t).key = dead(u).key => dead(t) = dead(u)
    OBVIOUS
  <2>3. tickets' = {dead(t) : t \in tickets}
    BY DEF Revoke
  <2> HIDE DEF dead
  <2> QED
    BY <2>1, <2>2, <2>3 DEF TicketsOK
<1> QED
  BY <1>1, <1>2 DEF Revoke, SettingsInv, FileOK, TabOK, fileVars, tabVars, commandVars

LEMMA CallClusterKeeps ==
    ASSUME SettingsInv, NEW r \in Callers, CallCluster(r)
    PROVE  SettingsInv'
<1>1. PICK id \in DOMAIN saved : Request(r, id, saved[id].urls, saved[id].password)
  BY DEF CallCluster
<1>2. id \in ClusterIds /\ saved[id].urls \in Addresses /\ saved[id].password \in Passwords
  BY DEF SettingsInv, FileOK, Cluster
<1>3. RequestsOK'
  BY <1>1, <1>2, SetRequest DEF SettingsInv
<1> QED
  BY <1>3 DEF CallCluster, SettingsInv, FileOK, TabOK, TicketsOK, fileVars, tabVars, commandVars

LEMMA BaseFailsKeeps ==
    ASSUME SettingsInv, NEW r \in Callers, BaseFails(r)
    PROVE  SettingsInv'
<1>1. RequestsOK'
  BY NextBaseKeeps DEF BaseFails, SettingsInv
<1> QED
  BY <1>1 DEF BaseFails, SettingsInv, FileOK, TabOK, TicketsOK, fileVars, tabVars, commandVars

-----------------------------------------------------------------------------
(* The tab                                                                 *)

LEMMA EntriesOK ==
    /\ \A e \in Entries : /\ e.urls \in Addresses /\ e.urls \in Seq(Urls)
                          /\ e.password \in Passwords /\ e.proxy \in Proxies
    /\ \A id \in DOMAIN InitialClusters : InitialClusters[id] \in Cluster
<1>1. ASSUME NEW e \in Entries
      PROVE  /\ e.urls \in Addresses /\ e.urls \in Seq(Urls)
             /\ e.password \in Passwords /\ e.proxy \in Proxies
  BY ProxmuxSettingsAssumption DEF Addresses, Passwords, Proxies
<1>2. ASSUME NEW id \in DOMAIN InitialClusters
      PROVE  InitialClusters[id] \in Cluster
  <2> DEFINE c == InitialClusters[id]
  <2>1. c = [urls |-> c.urls, password |-> c.password, proxy |-> c.proxy]
    BY ProxmuxSettingsAssumption
  <2>2. c.urls \in Addresses /\ c.password \in Passwords /\ c.proxy \in Proxies
    BY ProxmuxSettingsAssumption DEF Addresses, Passwords, Proxies
  <2> HIDE DEF c
  <2> QED
    BY <2>1, <2>2 DEF Cluster, c
<1> QED
  BY <1>1, <1>2

\* What a change of the draft leaves alone.
LEMMA DraftKeeps ==
    ASSUME SettingsInv, command = NoCommand,
           draft' \in [id : ClusterIds \cup {Nobody}, urls : Seq(Urls), password : Passwords,
                       proxy : Proxies],
           UNCHANGED <<fileVars, tickets, requests, revoked, shown, draftProfiles,
                       resourceCluster, commandVars>>
    PROVE  SettingsInv'
<1>1. TabOK'
  BY DEF SettingsInv, TabOK, commandVars, NoCommand
<1> QED
  BY <1>1 DEF SettingsInv, FileOK, TicketsOK, RequestsOK, fileVars

LEMMA ClearDraftKeeps ==
    ASSUME SettingsInv, ClearDraft
    PROVE  SettingsInv'
<1>1. NoDraft \in [id : ClusterIds \cup {Nobody}, urls : Seq(Urls), password : Passwords,
                   proxy : Proxies]
  <2>1. NoPassword \in Passwords /\ <<>> \in Seq(Urls) /\ NoProxy \in Proxies
    BY DEF Passwords, Proxies
  <2> QED
    BY <2>1 DEF NoDraft
<1> QED
  BY <1>1, DraftKeeps DEF ClearDraft, TabIdle

LEMMA LoadDraftKeeps ==
    ASSUME SettingsInv, NEW id \in ClusterIds, LoadClusterIntoDraft(id)
    PROVE  SettingsInv'
<1>1. shown[id].urls \in Seq(Urls) /\ shown[id].proxy \in Proxies
  BY DEF SettingsInv, TabOK, LoadClusterIntoDraft, Cluster, Addresses
<1>2. NoPassword \in Passwords
  BY DEF Passwords
<1>3. draft' \in [id : ClusterIds \cup {Nobody}, urls : Seq(Urls), password : Passwords,
                  proxy : Proxies]
  BY <1>1, <1>2 DEF LoadClusterIntoDraft
<1> QED
  BY <1>3, DraftKeeps DEF LoadClusterIntoDraft, TabIdle

LEMMA TypeDraftKeeps ==
    ASSUME SettingsInv, NEW e \in Entries, TypeDraft(e)
    PROVE  SettingsInv'
<1>1. draft' \in [id : ClusterIds \cup {Nobody}, urls : Seq(Urls), password : Passwords,
                  proxy : Proxies]
  BY EntriesOK DEF TypeDraft, SettingsInv, TabOK
<1> QED
  BY <1>1, DraftKeeps DEF TypeDraft, TabIdle

LEMMA ToggleProfileRowKeeps ==
    ASSUME SettingsInv, NEW p \in Profiles, ToggleProfileRow(p)
    PROVE  SettingsInv'
<1>1. TabOK'
  BY DEF SettingsInv, TabOK, ToggleProfileRow, commandVars
<1> QED
  BY <1>1 DEF SettingsInv, FileOK, TicketsOK, RequestsOK, ToggleProfileRow, fileVars

LEMMA SubmitKeeps ==
    ASSUME SettingsInv, NEW is, NEW arg, Submit(is, arg),
           is = "saveCluster" => draft.urls # <<>> /\ arg \in ClusterIds \cup {Nobody},
           is = "activate" => arg \in ClusterIds
    PROVE  SettingsInv'
<1>1. TabOK'
  BY DEF SettingsInv, TabOK, Submit, tabVars
<1> QED
  BY <1>1 DEF SettingsInv, FileOK, TicketsOK, RequestsOK, Submit, fileVars

LEMMA SubmitsKeep ==
    ASSUME SettingsInv,
           \/ SubmitCluster \/ SubmitProfiles
           \/ \E id \in ClusterIds : SubmitRemoval(id) \/ SubmitActive(id)
    PROVE  SettingsInv'
<1>1. CASE SubmitCluster
  <2>1. draft.id \in ClusterIds \cup {Nobody}
    BY DEF SettingsInv, TabOK
  <2> QED
    BY <1>1, <2>1, SubmitKeeps DEF SubmitCluster
<1>2. CASE SubmitProfiles
  BY <1>2, SubmitKeeps DEF SubmitProfiles
<1>3. ASSUME NEW id \in ClusterIds, SubmitRemoval(id)
      PROVE  SettingsInv'
  BY <1>3, SubmitKeeps DEF SubmitRemoval
<1>4. ASSUME NEW id \in ClusterIds, SubmitActive(id)
      PROVE  SettingsInv'
  BY <1>4, SubmitKeeps DEF SubmitActive
<1> QED
  BY <1>1, <1>2, <1>3, <1>4

LEMMA TestsKeep ==
    ASSUME SettingsInv, TestDraft \/ \E id \in ClusterIds : TestSaved(id)
    PROVE  SettingsInv'
<1>0. "tab" \in Callers
  BY ProxmuxSettingsAssumption
<1>1. CASE TestDraft
  <2>1. draft.urls \in Addresses /\ draft.password \in Passwords
    BY <1>1 DEF TestDraft, SettingsInv, TabOK, Addresses
  <2>2. RequestsOK'
    BY <1>0, <1>1, <2>1, SetRequest DEF TestDraft, SettingsInv
  <2> QED
    BY <1>1, <2>2 DEF TestDraft, SettingsInv, FileOK, TabOK, TicketsOK, fileVars, tabVars
<1>2. ASSUME NEW id \in ClusterIds, TestSaved(id)
      PROVE  SettingsInv'
  <2>1. saved[id].urls \in Addresses /\ saved[id].password \in Passwords
    BY <1>2 DEF TestSaved, SettingsInv, FileOK, Cluster
  <2>2. RequestsOK'
    BY <1>0, <1>2, <2>1, SetRequest DEF TestSaved, SettingsInv
  <2> QED
    BY <1>2, <2>2 DEF TestSaved, SettingsInv, FileOK, TabOK, TicketsOK, fileVars, tabVars
<1> QED
  BY <1>1, <1>2

-----------------------------------------------------------------------------
(* Commands                                                                *)

\* A saved cluster has an address, and a password if it ever had one.
LEMMA StoreClusterKeeps ==
    ASSUME FileOK, TabOK, command.is = "saveCluster",
           NEW id \in IdsFor(command.arg), Storable(id), StoreCluster(id), profiles' = profiles
    PROVE  FileOK'
<1>1. id \in ClusterIds
  <2>1. command.arg \in ClusterIds \cup {Nobody}
    BY DEF TabOK
  <2> QED
    BY <2>1 DEF IdsFor
<1>2. /\ draft.urls \in Addresses /\ draft.proxy \in Proxies
      /\ draft.password \in Passwords
  BY DEF TabOK, Addresses
<1>3. /\ KeptPassword(id) \in Passwords
      /\ KeptPassword(id) = NoPassword =>
            id \in DOMAIN InitialClusters /\ InitialClusters[id].password = NoPassword
  BY <1>2 DEF KeptPassword, Storable, FileOK, Cluster
<1> DEFINE new == [urls |-> draft.urls, password |-> KeptPassword(id), proxy |-> draft.proxy]
<1>4. new \in Cluster /\ new.password = KeptPassword(id)
  BY <1>2, <1>3 DEF Cluster
<1>5. saved' = [i \in DOMAIN saved \cup {id} |-> IF i = id THEN new ELSE saved[i]]
  BY DEF StoreCluster
<1> HIDE DEF new
<1>6. DOMAIN saved' \subseteq ClusterIds /\ \A i \in DOMAIN saved' : saved'[i] \in Cluster
  BY <1>1, <1>4, <1>5 DEF FileOK
<1>7. \A i \in DOMAIN saved' : saved'[i].password = NoPassword =>
            i \in DOMAIN InitialClusters /\ InitialClusters[i].password = NoPassword
  BY <1>3, <1>4, <1>5 DEF FileOK
<1>8. IF activeId' = Nobody THEN DOMAIN saved' = {} ELSE activeId' \in DOMAIN saved'
  <2>1. Nobody \notin ClusterIds
    BY ProxmuxSettingsAssumption
  <2> QED
    BY <1>1, <1>5, <2>1 DEF FileOK, StoreCluster
<1> QED
  BY <1>6, <1>7, <1>8 DEF FileOK

LEMMA StoreProfilesKeeps ==
    ASSUME FileOK, TabOK, StoreProfiles, activeId' = activeId
    PROVE  FileOK'
<1> DEFINE new(id) == [saved[id] EXCEPT !.proxy = IF @ \in draftProfiles THEN @ ELSE NoProxy]
<1>1. ASSUME NEW id \in DOMAIN saved
      PROVE  new(id) \in Cluster /\ new(id).password = saved[id].password
  <2>1. saved[id] \in Cluster /\ draftProfiles \subseteq Profiles
    BY DEF FileOK, TabOK
  <2> QED
    BY <2>1 DEF Cluster, Proxies
<1>2. saved' = [id \in DOMAIN saved |-> new(id)] /\ profiles' = draftProfiles
  BY DEF StoreProfiles
<1> HIDE DEF new
<1> QED
  BY <1>1, <1>2 DEF FileOK, TabOK

LEMMA StoreRemovalKeeps ==
    ASSUME FileOK, NEW gone, StoreRemoval(gone), profiles' = profiles
    PROVE  FileOK'
<1>1. saved' = [id \in DOMAIN saved \ {gone} |-> saved[id]]
  BY DEF StoreRemoval
<1>2. IF activeId' = Nobody THEN DOMAIN saved' = {} ELSE activeId' \in DOMAIN saved'
  <2>1. Nobody \notin DOMAIN saved
    BY ProxmuxSettingsAssumption DEF FileOK
  <2> QED
    BY <1>1, <2>1 DEF FileOK, StoreRemoval
<1> QED
  BY <1>1, <1>2 DEF FileOK

LEMMA StoreActiveKeeps ==
    ASSUME FileOK, NEW id, StoreActive(id), profiles' = profiles
    PROVE  FileOK'
<1>1. Nobody \notin DOMAIN saved
  BY ProxmuxSettingsAssumption DEF FileOK
<1> QED
  BY <1>1 DEF FileOK, StoreActive

LEMMA SaveClusterKeeps ==
    ASSUME SettingsInv, SaveCluster
    PROVE  SettingsInv'
<1>1. FileOK'
  BY StoreClusterKeeps DEF SettingsInv, SaveCluster
<1>2. TabOK'
  <2>1. NoPassword \in Passwords /\ <<>> \in Seq(Urls) /\ NoProxy \in Proxies
    BY DEF Passwords, Proxies
  <2> QED
    BY <2>1 DEF SettingsInv, TabOK, SaveCluster, Refreshing, NoDraft
<1> QED
  BY <1>1, <1>2 DEF SettingsInv, TicketsOK, RequestsOK, SaveCluster

LEMMA OtherCommandsKeep ==
    ASSUME SettingsInv, SaveProxyProfiles \/ RemoveCluster \/ SetActiveCluster
    PROVE  SettingsInv'
<1>1. CASE SaveProxyProfiles
  <2>1. FileOK'
    BY <1>1, StoreProfilesKeeps DEF SettingsInv, SaveProxyProfiles
  <2>2. TabOK'
    BY <1>1 DEF SettingsInv, TabOK, SaveProxyProfiles, Refreshing, tabVars
  <2> QED
    BY <1>1, <2>1, <2>2 DEF SettingsInv, TicketsOK, RequestsOK, SaveProxyProfiles
<1>2. CASE RemoveCluster
  <2>1. FileOK'
    BY <1>2, StoreRemovalKeeps DEF SettingsInv, RemoveCluster
  <2>2. TabOK'
    BY <1>2 DEF SettingsInv, TabOK, RemoveCluster, Refreshing
  <2> QED
    BY <1>2, <2>1, <2>2 DEF SettingsInv, TicketsOK, RequestsOK, RemoveCluster
<1>3. CASE SetActiveCluster
  <2>1. FileOK'
    BY <1>3, StoreActiveKeeps DEF SettingsInv, SetActiveCluster
  <2>2. TabOK'
    BY <1>3 DEF SettingsInv, TabOK, SetActiveCluster, Refreshing
  <2> QED
    BY <1>3, <2>1, <2>2 DEF SettingsInv, TicketsOK, RequestsOK, SetActiveCluster
<1> QED
  BY <1>1, <1>2, <1>3

LEMMA RefreshStateKeeps ==
    ASSUME SettingsInv, RefreshState
    PROVE  SettingsInv'
<1>1. /\ shown' = saved \/ shown' = shown
      /\ draftProfiles' = profiles \/ draftProfiles' = draftProfiles
      /\ resourceCluster' \in {resourceCluster, activeId}
      /\ draft' = draft /\ command' = NoCommand
  BY DEF RefreshState
<1>2. activeId \in ClusterIds \cup {Nobody}
  BY DEF SettingsInv, FileOK
<1>3. TabOK'
  BY <1>1, <1>2 DEF SettingsInv, TabOK, FileOK, NoCommand
<1> QED
  BY <1>3 DEF SettingsInv, FileOK, TicketsOK, RequestsOK, RefreshState, fileVars

LEMMA RequestFailsKeeps ==
    ASSUME SettingsInv, RequestFails
    PROVE  SettingsInv'
<1> USE DEF SettingsInv
<1>1. FileOK'
  <2>1. CASE UNCHANGED <<saved, activeId, profiles>>
    BY <2>1 DEF FileOK
  <2>2. CASE /\ command.is = "saveCluster"
             /\ \E id \in IdsFor(command.arg) : Storable(id) /\ StoreCluster(id)
             /\ UNCHANGED profiles
    BY <2>2, StoreClusterKeeps
  <2>3. CASE StoreProfiles /\ UNCHANGED activeId
    BY <2>3, StoreProfilesKeeps
  <2>4. CASE StoreRemoval(command.arg) /\ UNCHANGED profiles
    BY <2>4, StoreRemovalKeeps
  <2>5. CASE StoreActive(command.arg) /\ UNCHANGED profiles
    BY <2>5, StoreActiveKeeps
  <2> QED
    BY <2>1, <2>2, <2>3, <2>4, <2>5 DEF RequestFails
<1>2. TabOK'
  BY DEF TabOK, RequestFails, tabVars, NoCommand
<1> QED
  BY <1>1, <1>2 DEF TicketsOK, RequestsOK, RequestFails

-----------------------------------------------------------------------------
LEMMA SettingsInitInv == SettingsInit => SettingsInv
<1> SUFFICES ASSUME SettingsInit
             PROVE  SettingsInv
  OBVIOUS
<1>1. FileOK
  <2>1. \A id \in DOMAIN InitialClusters : InitialClusters[id] \in Cluster
    BY EntriesOK
  <2>2. DOMAIN InitialClusters \subseteq ClusterIds /\ Nobody \notin ClusterIds
    BY ProxmuxSettingsAssumption
  <2>3. saved = InitialClusters /\ profiles = Profiles
    BY DEF SettingsInit
  <2>4. activeId \in IF saved = <<>> THEN {Nobody} ELSE DOMAIN saved
    BY DEF SettingsInit
  <2>5. saved = <<>> => DOMAIN saved = {}
    OBVIOUS
  <2> QED
    BY <2>1, <2>2, <2>3, <2>4, <2>5 DEF FileOK
<1>2. TabOK
  <2>1. NoPassword \in Passwords /\ <<>> \in Seq(Urls) /\ NoProxy \in Proxies
    BY DEF Passwords, Proxies
  <2>2. draft \in [id : ClusterIds \cup {Nobody}, urls : Seq(Urls), password : Passwords,
                   proxy : Proxies]
    BY <2>1 DEF SettingsInit, NoDraft
  <2>3. DOMAIN shown = {} /\ command.is = "refresh"
    BY DEF SettingsInit
  <2> QED
    BY <2>2, <2>3 DEF SettingsInit, TabOK
<1>3. TicketsOK /\ RequestsOK
  BY NoRequestOK DEF SettingsInit, TicketsOK, RequestsOK
<1> QED
  BY <1>1, <1>2, <1>3 DEF SettingsInv

LEMMA SettingsStepInv == SettingsInv /\ [SettingsNext]_settingsVars => SettingsInv'
<1> SUFFICES ASSUME SettingsInv, [SettingsNext]_settingsVars
             PROVE  SettingsInv'
  OBVIOUS
<1>1. CASE UNCHANGED settingsVars
  BY <1>1 DEF settingsVars, fileVars, tabVars, commandVars, SettingsInv, FileOK, TabOK, TicketsOK,
              RequestsOK
<1>2. CASE Revoke
  BY <1>2, RevokeKeeps
<1>3. CASE TabStep
  BY <1>3, ClearDraftKeeps, SubmitsKeep, TestsKeep, TypeDraftKeeps, ToggleProfileRowKeeps,
     LoadDraftKeeps DEF TabStep
<1>4. CASE CommandStep
  BY <1>4, SaveClusterKeeps, OtherCommandsKeep, RefreshStateKeeps, RequestFailsKeeps
     DEF CommandStep
<1>5. ASSUME NEW r \in Callers, RequestStep(r)
      PROVE  SettingsInv'
  BY <1>5, CallClusterKeeps, TakeTicketKeeps, LoginKeeps, RefusedKeeps, AnsweredKeeps,
     BaseFailsKeeps, EndRequestKeeps DEF RequestStep
<1> QED
  BY <1>1, <1>2, <1>3, <1>4, <1>5 DEF SettingsNext

LEMMA SettingsInvTypes == SettingsInv => SettingsTypeOK
<1> SUFFICES ASSUME SettingsInv
             PROVE  SettingsTypeOK
  OBVIOUS
<1> USE DEF SettingsInv
<1>1. \A id \in DOMAIN saved : ClusterOK(saved[id])
  BY DEF FileOK, Cluster, Addresses, Proxies, ClusterOK
<1>2. \A t \in tickets : t.key \in (ClusterIds \cup {DraftId}) \X Urls /\ t.live \in BOOLEAN
  BY DEF TicketsOK, Ticket
<1> QED
  BY <1>1, <1>2 DEF FileOK, TabOK, TicketsOK, RequestsOK, SettingsTypeOK

\* Every variable of the settings keeps values of its kind: the active cluster exists, no
\* cluster loses its password to the empty field of its form, and a key of the ticket
\* cache holds one ticket (ProxmuxState, SESSION_CACHE, the draft states of the tab).
THEOREM SettingsTypesHold == SettingsSpec => []SettingsTypeOK
<1>1. SettingsSpec => []SettingsInv
  BY SettingsInitInv, SettingsStepInv, PTL DEF SettingsSpec
<1> QED
  BY <1>1, SettingsInvTypes, PTL

\* A request is refused for its password only: a ticket that the server has forgotten, or
\* that another request threw away, costs a second login and no more (the two attempts of
\* request_with_session and the failover over the addresses of a cluster).
THEOREM RequestsRefusedWhenWrong == SettingsSpec => []RefusedOnlyWhenWrong
<1>1. SettingsSpec => []SettingsInv
  BY SettingsInitInv, SettingsStepInv, PTL DEF SettingsSpec
<1>2. SettingsInv => RefusedOnlyWhenWrong
  BY DEF SettingsInv, RequestsOK, RequestOK, RefusedOnlyWhenWrong, Base
<1> QED
  BY <1>1, <1>2, PTL

-----------------------------------------------------------------------------
(* The identity store                                                      *)

LEMMA Least ==
    ASSUME NEW T \in SUBSET Nat, T # {}
    PROVE  \E n \in T : \A m \in T : ~ (m < n)
<1> DEFINE Below == OpToRel(<, Nat)
<1>1. IsWellFoundedOn(Below, Nat)
  BY NatLessThanWellFounded
<1>2. \A m, n \in Nat : m < n => <<m, n>> \in Below
  BY DEF OpToRel
<1> HIDE DEF Below
<1>3. \E n \in T : \A m \in T : ~ (<<m, n>> \in Below)
  BY <1>1, WFMin, Zenon
<1>4. PICK n \in T : \A m \in T : ~ (<<m, n>> \in Below)
  BY <1>3
<1>5. \A m \in T : m \in Nat /\ n \in Nat
  OBVIOUS
<1> QED
  BY <1>2, <1>4, <1>5, Zenon

\* The equation of the function in Kept; it has one solution, by the least counterexample.
KeptAt(refs, keep, f, n) ==
    IF n = 0 THEN <<>>
    ELSE IF n \in keep THEN Append(f[n - 1], refs[n]) ELSE f[n - 1]

IsKept(refs, keep, f) == f = [n \in 0..Len(refs) |-> KeptAt(refs, keep, f, n)]

LEMMA KeptExists ==
    ASSUME NEW refs, Len(refs) \in Nat, NEW keep
    PROVE  \E f : IsKept(refs, keep, f)
<1> DEFINE Upto(n) == \E f : f = [i \in 0..n |-> KeptAt(refs, keep, f, i)]
           Bad == {n \in Nat : ~ Upto(n)}
<1>1. Upto(0)
  <2> DEFINE g == [i \in 0..0 |-> <<>>]
  <2>1. g = [i \in 0..0 |-> KeptAt(refs, keep, g, i)]
    BY DEF KeptAt
  <2> QED
    BY <2>1
<1>2. ASSUME NEW n \in Nat, n # 0, Upto(n - 1)
      PROVE  Upto(n)
  <2>1. PICK f : f = [i \in 0..(n - 1) |-> KeptAt(refs, keep, f, i)]
    BY <1>2, Zenon
  <2> DEFINE g == [i \in 0..n |-> IF i = n THEN KeptAt(refs, keep, f, n) ELSE f[i]]
  <2>2. \A i \in 0..n : i # n => f[i] = KeptAt(refs, keep, f, i)
    <3> TAKE i \in 0..n
    <3> HAVE i # n
    <3>1. i \in 0..(n - 1)
      BY <1>2
    <3>2. [k \in 0..(n - 1) |-> KeptAt(refs, keep, f, k)][i] = KeptAt(refs, keep, f, i)
      BY <3>1, Zenon
    <3> QED
      BY <2>1, <3>2, Zenon
  <2>3. \A i \in 0..n : KeptAt(refs, keep, g, i) = KeptAt(refs, keep, f, i)
    BY DEF KeptAt
  <2>4. \A i \in 0..n : g[i] = KeptAt(refs, keep, g, i)
    BY <2>2, <2>3
  <2> HIDE DEF g
  <2>5. g = [i \in 0..n |-> g[i]]
    BY DEF g
  <2>6. g = [i \in 0..n |-> KeptAt(refs, keep, g, i)]
    BY <2>4, <2>5
  <2> QED
    BY <2>6
<1> HIDE DEF Upto
<1>3. Bad = {}
  <2>1. SUFFICES ASSUME Bad # {} PROVE FALSE
    OBVIOUS
  <2>2. PICK n \in Bad : \A m \in Bad : ~ (m < n)
    BY <2>1, Least
  <2>3. n # 0 /\ n \in Nat /\ n - 1 \in Nat /\ n - 1 < n
    BY <1>1
  <2>4. Upto(n - 1)
    BY <2>2, <2>3
  <2> QED
    BY <1>2, <2>3, <2>4
<1> QED
  BY <1>3 DEF Upto, IsKept

LEMMA KeptIs ==
    ASSUME NEW S, NEW refs \in Seq(S), NEW keep
    PROVE  Kept(refs, keep) \in Seq({refs[j] : j \in keep \cap DOMAIN refs})
<1> DEFINE Those == {refs[j] : j \in keep \cap DOMAIN refs}
           f == CHOOSE f : IsKept(refs, keep, f)
<1>1. Kept(refs, keep) = f[Len(refs)] /\ Len(refs) \in Nat
  BY DEF Kept, IsKept, KeptAt
<1>2. IsKept(refs, keep, f)
  BY <1>1, KeptExists
<1> HIDE DEF f, Those
<1>3. \A n \in 0..Len(refs) : f[n] = KeptAt(refs, keep, f, n)
  BY <1>2 DEF IsKept
<1> DEFINE Bad == {n \in 0..Len(refs) : f[n] \notin Seq(Those)}
<1>4. Bad = {}
  <2>1. SUFFICES ASSUME Bad # {} PROVE FALSE
    OBVIOUS
  <2>2. PICK n \in Bad : \A m \in Bad : ~ (m < n)
    <3>1. Bad \in SUBSET Nat
      BY <1>1
    <3> QED
      BY <2>1, <3>1, Least
  <2>3. f[0] = <<>> /\ <<>> \in Seq(Those)
    BY <1>1, <1>3 DEF KeptAt
  <2>4. n # 0 /\ n \in 0..Len(refs) /\ n - 1 \in 0..Len(refs) /\ n - 1 < n
    <3>1. n \in 0..Len(refs) /\ f[n] \notin Seq(Those)
      BY <2>2
    <3>2. n # 0
      BY <2>3, <3>1
    <3> QED
      BY <1>1, <3>1, <3>2
  <2>5. f[n - 1] \in Seq(Those)
    BY <2>2, <2>4
  <2>6. f[n] = IF n \in keep THEN Append(f[n - 1], refs[n]) ELSE f[n - 1]
    BY <1>3, <2>4 DEF KeptAt
  <2>7. n \in keep => refs[n] \in Those
    BY <2>4 DEF Those
  <2>8. f[n] \in Seq(Those)
    BY <2>5, <2>6, <2>7
  <2>9. f[n] \notin Seq(Those)
    BY <2>2
  <2> QED
    BY <2>8, <2>9
<1> QED
  BY <1>1, <1>4 DEF Those

LinkedStore == {s \in EntityStore : HasLinks(s)}

LEMMA LinkedIs ==
    ASSUME NEW s \in LinkedStore
    PROVE  /\ s.users \subseteq User /\ s.groups \subseteq Group /\ s.keys \subseteq StoreKey
           /\ s.held \in [User -> Seq(KeyRef)] /\ s.members \in [Group -> SUBSET User]
           /\ s.bindings \in [Alias -> HostBinding]
           /\ \A u \in s.users : \A i \in DOMAIN s.held[u] : s.held[u][i].key \in s.keys
           /\ \A g \in s.groups : s.members[g] \subseteq s.users
           /\ \A a \in Alias : s.bindings[a].user \in s.users \cup {NoUser}
<1>1. s \in EntityStore /\ HasLinks(s)
  BY DEF LinkedStore
<1>2. \A u \in s.users : \A i \in DOMAIN s.held[u] : s.held[u][i].key \in s.keys
  BY <1>1 DEF HasLinks
<1>3. \A g \in s.groups : s.members[g] \subseteq s.users
  BY <1>1 DEF HasLinks
<1>4. \A a \in Alias : s.bindings[a].user \in s.users \cup {NoUser}
  BY <1>1 DEF HasLinks
<1>5. /\ s.users \subseteq User /\ s.groups \subseteq Group /\ s.keys \subseteq StoreKey
      /\ s.held \in [User -> Seq(KeyRef)] /\ s.members \in [Group -> SUBSET User]
      /\ s.bindings \in [Alias -> HostBinding]
  BY <1>1 DEF EntityStore
<1> QED
  BY <1>2, <1>3, <1>4, <1>5

LEMMA LinkedWhen ==
    ASSUME NEW s \in EntityStore,
           \A u \in s.users : \A i \in DOMAIN s.held[u] : s.held[u][i].key \in s.keys,
           \A g \in s.groups : s.members[g] \subseteq s.users,
           \A a \in Alias : s.bindings[a].user \in s.users \cup {NoUser}
    PROVE  s \in LinkedStore
  BY DEF LinkedStore, HasLinks

LEMMA KeptRefs ==
    ASSUME NEW refs \in Seq(KeyRef), NEW keep
    PROVE  /\ Kept(refs, keep) \in Seq(KeyRef)
           /\ \A i \in DOMAIN Kept(refs, keep) :
                \E j \in DOMAIN refs : j \in keep /\ Kept(refs, keep)[i] = refs[j]
<1> DEFINE Those == {refs[j] : j \in keep \cap DOMAIN refs}
           rest == Kept(refs, keep)
<1>1. rest \in Seq(Those)
  BY KeptIs
<1> HIDE DEF rest
<1>2. \A i \in DOMAIN rest : rest[i] \in Those
  <2> HIDE DEF Those
  <2> QED
    BY <1>1
<1>3. \A i \in DOMAIN rest : \E j \in DOMAIN refs : j \in keep /\ rest[i] = refs[j]
  BY <1>2
<1>4. \A i \in DOMAIN rest : rest[i] \in KeyRef
  BY <1>3
<1>5. rest \in Seq(KeyRef)
  <2> HIDE DEF Those
  <2>1. /\ Len(rest) \in Nat /\ DOMAIN rest = 1..Len(rest)
        /\ rest = [i \in 1..Len(rest) |-> rest[i]]
    BY <1>1
  <2> QED
    BY <1>4, <2>1
<1> QED
  BY <1>3, <1>5 DEF rest

LEMMA RefFields ==
    ASSUME NEW k \in StoreKey, NEW p \in BOOLEAN
    PROVE  Ref(k, p) \in KeyRef /\ Ref(k, p).key = k
  BY DEF Ref, KeyRef

LEMMA NewRefs ==
    ASSUME NEW k \in StoreKey
    PROVE  /\ Ref(k, TRUE) \in KeyRef
           /\ Ref(k, FALSE) \in KeyRef /\ Ref(k, FALSE).key = k
  BY DEF Ref, KeyRef

LEMMA KeyRefFields ==
    ASSUME NEW r \in KeyRef
    PROVE  r.key \in StoreKey /\ r.primary \in BOOLEAN
  BY DEF KeyRef

LEMMA WithoutIs ==
    ASSUME NEW refs \in Seq(KeyRef), NEW k
    PROVE  /\ Without(refs, k) \in Seq(KeyRef)
           /\ \A i \in DOMAIN Without(refs, k) :
                \E j \in DOMAIN refs : Without(refs, k)[i] = refs[j] /\ refs[j].key # k
<1> DEFINE keep == {i \in DOMAIN refs : refs[i].key # k}
           left == Kept(refs, keep)
<1>1. Without(refs, k) = left
  BY DEF Without
<1>2. left \in Seq(KeyRef)
  BY KeptRefs
<1> HIDE DEF keep
<1>3. \A i \in DOMAIN left : \E j \in DOMAIN refs : j \in keep /\ left[i] = refs[j]
  BY KeptRefs
<1>4. \A j \in keep : refs[j].key # k
  BY DEF keep
<1> HIDE DEF left
<1> QED
  BY <1>1, <1>2, <1>3, <1>4

LEMMA NormalizedIs ==
    ASSUME NEW refs \in Seq(KeyRef)
    PROVE  /\ Normalized(refs) \in Seq(KeyRef)
           /\ DOMAIN Normalized(refs) = DOMAIN refs
           /\ \A i \in DOMAIN refs : Normalized(refs)[i].key = refs[i].key
<1> DEFINE next == Normalized(refs)
<1>1. DOMAIN next = DOMAIN refs /\ next = [i \in DOMAIN refs |-> Ref(refs[i].key, i = 1)]
  BY DEF Normalized
<1> HIDE DEF next
<1>2. DOMAIN refs = 1..Len(refs) /\ Len(refs) \in Nat
  OBVIOUS
<1>3. \A i \in DOMAIN refs : next[i] \in KeyRef /\ next[i].key = refs[i].key
  <2> TAKE i \in DOMAIN refs
  <2>1. refs[i].key \in StoreKey
    BY KeyRefFields
  <2>2. next[i] = Ref(refs[i].key, i = 1) /\ (i = 1) \in BOOLEAN
    BY <1>1
  <2> QED
    BY <2>1, <2>2, RefFields
<1>4. next \in Seq(KeyRef)
  <2>1. next = [i \in 1..Len(refs) |-> next[i]]
    BY <1>1, <1>2, Zenon
  <2> QED
    BY <1>2, <1>3, <2>1
<1> QED
  BY <1>1, <1>3, <1>4 DEF next

LEMMA ToggledIs ==
    ASSUME NEW refs \in Seq(KeyRef), NEW k \in StoreKey
    PROVE  /\ Toggled(refs, k) \in Seq(KeyRef)
           /\ \A i \in DOMAIN Toggled(refs, k) :
                Toggled(refs, k)[i].key = k
                \/ \E j \in DOMAIN refs : Toggled(refs, k)[i].key = refs[j].key
<1>1. CASE Refers(refs, k)
  <2>1. Toggled(refs, k) = Normalized(Without(refs, k))
    BY <1>1 DEF Toggled
  <2> QED
    BY <2>1, WithoutIs, NormalizedIs
<1>2. CASE ~ Refers(refs, k)
  <2> DEFINE new == Ref(k, FALSE)
             more == Append(refs, new)
  <2>1. Toggled(refs, k) = Normalized(more)
    BY <1>2 DEF Toggled
  <2>2. new \in KeyRef /\ new.key = k
    BY NewRefs
  <2> HIDE DEF new
  <2>3. more \in Seq(KeyRef)
    BY <2>2
  <2>4. \A i \in DOMAIN more : more[i].key = k \/ \E j \in DOMAIN refs : more[i] = refs[j]
    <3>1. DOMAIN more = 1..(Len(refs) + 1) /\ DOMAIN refs = 1..Len(refs) /\ Len(refs) \in Nat
      BY <2>2
    <3>2. more[Len(refs) + 1] = new /\ \A j \in 1..Len(refs) : more[j] = refs[j]
      BY <2>2
    <3> QED
      BY <2>2, <3>1, <3>2
  <2> HIDE DEF more
  <2> QED
    BY <2>1, <2>3, <2>4, NormalizedIs
<1> QED
  BY <1>1, <1>2

LEMMA ReversedIs ==
    ASSUME NEW refs \in Seq(KeyRef)
    PROVE  /\ Reverse(refs) \in Seq(KeyRef)
           /\ \A i \in DOMAIN Reverse(refs) : \E j \in DOMAIN refs : Reverse(refs)[i] = refs[j]
  BY DEF Reverse

LEMMA ReplacedIs ==
    ASSUME NEW refs \in Seq(KeyRef), NEW k \in StoreKey
    PROVE  ReplacePrimary(refs, k) \in Seq(KeyRef)
<1> DEFINE first == Ref(k, TRUE)
           rest == Kept(refs, {i \in DOMAIN refs : ~refs[i].primary})
<1>1. first \in KeyRef
  BY NewRefs
<1>2. rest \in Seq(KeyRef)
  BY KeptRefs
<1>3. ReplacePrimary(refs, k) = <<first>> \o rest
  BY DEF ReplacePrimary
<1> HIDE DEF first, rest
<1> QED
  BY <1>1, <1>2, <1>3

LEMMA ShownIs ==
    ASSUME NEW path \in IdentityFile, NEW refs \in Seq(KeyRef), NEW keys \in SUBSET StoreKey
    PROVE  IdentityShown(path, refs, keys) \in IdentityFile
  BY DEF IdentityShown, IdentityFile

LEMMA AppliedIs ==
    ASSUME NEW value \in IdentityFile, NEW refs \in Seq(KeyRef), NEW keys \in SUBSET StoreKey
    PROVE  /\ ApplyIdentity(value, refs, keys).path \in IdentityFile
           /\ ApplyIdentity(value, refs, keys).refs \in Seq(KeyRef)
<1>1. CASE value \in keys
  <2>1. value \in StoreKey /\ NoKey \in IdentityFile
    BY <1>1 DEF IdentityFile
  <2>2. ReplacePrimary(refs, value) \in Seq(KeyRef)
    BY <2>1, ReplacedIs
  <2> QED
    BY <1>1, <2>1, <2>2 DEF ApplyIdentity
<1>2. CASE value \notin keys
  <2>1. <<>> \in Seq(KeyRef)
    OBVIOUS
  <2> QED
    BY <1>2, <2>1 DEF ApplyIdentity
<1> QED
  BY <1>1, <1>2

LEMMA BindingFields ==
    ASSUME NEW b \in HostBinding
    PROVE  b.user \in User \cup {NoUser} /\ b.refs \in Seq(KeyRef) /\ b.groups \subseteq Group
  BY DEF HostBinding

LEMMA BindingWhen ==
    ASSUME NEW u \in User \cup {NoUser}, NEW refs \in Seq(KeyRef), NEW groups \in SUBSET Group
    PROVE  [user |-> u, refs |-> refs, groups |-> groups] \in HostBinding
  BY DEF HostBinding

LEMMA SyncedIs ==
    ASSUME NEW path \in IdentityFile, NEW b \in HostBinding, NEW s \in LinkedStore
    PROVE  /\ Synced(path, b, s).path \in IdentityFile
           /\ Synced(path, b, s).binding \in HostBinding
           /\ Synced(path, b, s).binding.user \in s.users \cup {NoUser}
<1> DEFINE applied == ApplyIdentity(IdentityShown(path, b.refs, s.keys), b.refs, s.keys)
           u == IF b.user \in s.users THEN b.user ELSE NoUser
<1>1. Synced(path, b, s) =
        [path |-> applied.path,
         binding |-> [user |-> u, refs |-> applied.refs, groups |-> b.groups]]
  BY DEF Synced
<1>2. s.keys \subseteq StoreKey /\ s.users \subseteq User
  BY LinkedIs
<1>3. b.refs \in Seq(KeyRef) /\ b.groups \subseteq Group
  BY BindingFields
<1>4. IdentityShown(path, b.refs, s.keys) \in IdentityFile
  BY <1>2, <1>3, ShownIs
<1>5. applied.path \in IdentityFile /\ applied.refs \in Seq(KeyRef)
  BY <1>2, <1>3, <1>4, AppliedIs
<1>6. u \in s.users \cup {NoUser} /\ u \in User \cup {NoUser}
  BY <1>2
<1> HIDE DEF applied, u
<1>7. [user |-> u, refs |-> applied.refs, groups |-> b.groups] \in HostBinding
  BY <1>3, <1>5, <1>6, BindingWhen
<1> QED
  BY <1>1, <1>5, <1>6, <1>7

LEMMA WithUserLinks ==
    ASSUME NEW s \in LinkedStore, NEW u \in User
    PROVE  WithUser(s, u) \in LinkedStore
<1> DEFINE users == s.users \cup {u}
           held == [s.held EXCEPT ![u] = <<>>]
<1>1. users \in SUBSET User /\ held \in [User -> Seq(KeyRef)]
  BY LinkedIs
<1>2. \A v \in users : \A i \in DOMAIN held[v] : held[v][i].key \in s.keys
  BY LinkedIs
<1>3. /\ \A g \in s.groups : s.members[g] \subseteq users
      /\ \A a \in Alias : s.bindings[a].user \in users \cup {NoUser}
  BY LinkedIs
<1> DEFINE next == WithUser(s, u)
<1>4. s \in EntityStore
  BY DEF LinkedStore
<1>5. /\ next.users = users /\ next.groups = s.groups /\ next.keys = s.keys
      /\ next.held = held /\ next.members = s.members /\ next.bindings = s.bindings
      /\ next \in EntityStore
  BY <1>4, <1>1, <1>2, <1>3 DEF EntityStore, WithUser
<1> HIDE DEF next, users, held
<1> QED
  <2>1. /\ \A v \in next.users : \A i \in DOMAIN next.held[v] : next.held[v][i].key \in next.keys
        /\ \A h \in next.groups : next.members[h] \subseteq next.users
        /\ \A x \in Alias : next.bindings[x].user \in next.users \cup {NoUser}
    BY <1>1, <1>2, <1>3, <1>5, LinkedIs
  <2>2. next \in LinkedStore
    BY <2>1, <1>5, LinkedWhen
  <2> QED
    BY <2>2 DEF next

LEMMA WithoutUserLinks ==
    ASSUME NEW s \in LinkedStore, NEW u
    PROVE  WithoutUser(s, u) \in LinkedStore
<1> DEFINE users == s.users \ {u}
           members == [g \in Group |-> s.members[g] \ {u}]
           bindings == [a \in Alias |->
                           IF s.bindings[a].user = u THEN [s.bindings[a] EXCEPT !.user = NoUser]
                           ELSE s.bindings[a]]
<1>1. users \in SUBSET User /\ members \in [Group -> SUBSET User]
  BY LinkedIs
<1>2. \A a \in Alias : bindings[a] \in HostBinding /\ bindings[a].user \in users \cup {NoUser}
  <2> TAKE a \in Alias
  <2>1. s.bindings[a] \in HostBinding /\ s.bindings[a].user \in s.users \cup {NoUser}
    BY LinkedIs
  <2>2. CASE s.bindings[a].user = u
    <3>1. [s.bindings[a] EXCEPT !.user = NoUser] \in HostBinding
      BY <2>1 DEF HostBinding
    <3>2. [s.bindings[a] EXCEPT !.user = NoUser].user = NoUser
      BY <2>1 DEF HostBinding
    <3> QED
      BY <2>2, <3>1, <3>2
  <2>3. CASE s.bindings[a].user # u
    BY <2>1, <2>3
  <2> QED
    BY <2>2, <2>3
<1>3. \A g \in s.groups : members[g] \subseteq users
  BY LinkedIs
<1>4. \A v \in users : \A i \in DOMAIN s.held[v] : s.held[v][i].key \in s.keys
  BY LinkedIs
<1>5. bindings \in [Alias -> HostBinding]
  BY <1>2
<1>6. \A a \in Alias : bindings[a].user \in users \cup {NoUser}
  BY <1>2
<1> DEFINE next == WithoutUser(s, u)
<1>7. s \in EntityStore
  BY DEF LinkedStore
<1>8. /\ next.users = users /\ next.groups = s.groups /\ next.keys = s.keys
      /\ next.held = s.held /\ next.members = members /\ next.bindings = bindings
      /\ next \in EntityStore
  BY <1>7, <1>1, <1>3, <1>4, <1>5, <1>6 DEF EntityStore, WithoutUser
<1> HIDE DEF next, users, members, bindings
<1> QED
  <2>1. /\ \A v \in next.users : \A i \in DOMAIN next.held[v] : next.held[v][i].key \in next.keys
        /\ \A h \in next.groups : next.members[h] \subseteq next.users
        /\ \A x \in Alias : next.bindings[x].user \in next.users \cup {NoUser}
    BY <1>1, <1>3, <1>4, <1>5, <1>6, <1>8, LinkedIs
  <2>2. next \in LinkedStore
    BY <2>1, <1>8, LinkedWhen
  <2> QED
    BY <2>2 DEF next

LEMMA WithoutGroupLinks ==
    ASSUME NEW s \in LinkedStore, NEW g
    PROVE  WithoutGroup(s, g) \in LinkedStore
<1> DEFINE groups == s.groups \ {g}
           bindings == [a \in Alias |->
                           [s.bindings[a] EXCEPT !.groups = s.bindings[a].groups \ {g}]]
<1>1. groups \in SUBSET Group
  BY LinkedIs
<1>2. \A a \in Alias : bindings[a] \in HostBinding /\ bindings[a].user = s.bindings[a].user
  <2> TAKE a \in Alias
  <2>1. s.bindings[a] \in HostBinding
    BY LinkedIs
  <2> QED
    BY <2>1 DEF HostBinding
<1>3. bindings \in [Alias -> HostBinding]
  BY <1>2
<1>4. \A a \in Alias : bindings[a].user \in s.users \cup {NoUser}
  BY <1>2, LinkedIs
<1>5. \A h \in groups : s.members[h] \subseteq s.users
  BY LinkedIs DEF groups
<1> DEFINE next == WithoutGroup(s, g)
<1>6. s \in EntityStore
  BY DEF LinkedStore
<1>7. /\ next.users = s.users /\ next.groups = groups /\ next.keys = s.keys
      /\ next.held = s.held /\ next.members = s.members /\ next.bindings = bindings
      /\ next \in EntityStore
  BY <1>6, <1>1, <1>3, <1>4, <1>5 DEF EntityStore, WithoutGroup
<1> HIDE DEF next, groups, bindings
<1> QED
  <2>1. /\ \A v \in next.users : \A i \in DOMAIN next.held[v] : next.held[v][i].key \in next.keys
        /\ \A h \in next.groups : next.members[h] \subseteq next.users
        /\ \A x \in Alias : next.bindings[x].user \in next.users \cup {NoUser}
    BY <1>1, <1>3, <1>4, <1>5, <1>7, LinkedIs
  <2>2. next \in LinkedStore
    BY <2>1, <1>7, LinkedWhen
  <2> QED
    BY <2>2 DEF next

LEMMA WithKeyLinks ==
    ASSUME NEW s \in LinkedStore, NEW k \in StoreKey
    PROVE  WithKey(s, k) \in LinkedStore
<1> DEFINE keys == s.keys \cup {k}
<1>1. keys \in SUBSET StoreKey
  BY LinkedIs
<1>2. \A u \in s.users : \A i \in DOMAIN s.held[u] : s.held[u][i].key \in keys
  BY LinkedIs
<1> DEFINE next == WithKey(s, k)
<1>3. s \in EntityStore
  BY DEF LinkedStore
<1>4. /\ next.users = s.users /\ next.groups = s.groups /\ next.keys = keys
      /\ next.held = s.held /\ next.members = s.members /\ next.bindings = s.bindings
      /\ next \in EntityStore
  BY <1>3, <1>1, <1>2 DEF EntityStore, WithKey
<1> HIDE DEF next, keys
<1> QED
  <2>1. /\ \A v \in next.users : \A i \in DOMAIN next.held[v] : next.held[v][i].key \in next.keys
        /\ \A h \in next.groups : next.members[h] \subseteq next.users
        /\ \A x \in Alias : next.bindings[x].user \in next.users \cup {NoUser}
    BY <1>1, <1>2, <1>4, LinkedIs
  <2>2. next \in LinkedStore
    BY <2>1, <1>4, LinkedWhen
  <2> QED
    BY <2>2 DEF next

LEMMA WithoutKeyLinks ==
    ASSUME NEW s \in LinkedStore, NEW k
    PROVE  WithoutKey(s, k) \in LinkedStore
<1> DEFINE keys == s.keys \ {k}
           held == [u \in User |-> Without(s.held[u], k)]
           bindings == [a \in Alias |->
                           [s.bindings[a] EXCEPT !.refs = Without(s.bindings[a].refs, k)]]
<1>1. keys \in SUBSET StoreKey
  BY LinkedIs
<1>2. held \in [User -> Seq(KeyRef)]
  BY LinkedIs, WithoutIs
<1>3. \A u \in s.users : \A i \in DOMAIN held[u] : held[u][i].key \in keys
  <2> TAKE u \in s.users
  <2> DEFINE left == Without(s.held[u], k)
  <2>1. u \in User /\ s.held[u] \in Seq(KeyRef)
    BY LinkedIs
  <2>2. \A i \in DOMAIN left : \E j \in DOMAIN s.held[u] : left[i] = s.held[u][j]
                                                         /\ s.held[u][j].key # k
    BY <2>1, WithoutIs
  <2>3. held[u] = left
    BY <2>1
  <2>4. \A j \in DOMAIN s.held[u] : s.held[u][j].key \in s.keys
    BY LinkedIs
  <2> HIDE DEF left, held
  <2> QED
    BY <2>2, <2>3, <2>4
<1>4. \A a \in Alias : bindings[a] \in HostBinding /\ bindings[a].user = s.bindings[a].user
  <2> TAKE a \in Alias
  <2>1. s.bindings[a] \in HostBinding
    BY LinkedIs
  <2>2. Without(s.bindings[a].refs, k) \in Seq(KeyRef)
    BY <2>1, BindingFields, WithoutIs
  <2> QED
    BY <2>1, <2>2 DEF HostBinding
<1>5. bindings \in [Alias -> HostBinding]
  BY <1>4
<1>6. \A a \in Alias : bindings[a].user \in s.users \cup {NoUser}
  BY <1>4, LinkedIs
<1> DEFINE next == WithoutKey(s, k)
<1>7. s \in EntityStore
  BY DEF LinkedStore
<1>8. /\ next.users = s.users /\ next.groups = s.groups /\ next.keys = keys
      /\ next.held = held /\ next.members = s.members /\ next.bindings = bindings
      /\ next \in EntityStore
  BY <1>7, <1>1, <1>2, <1>3, <1>5, <1>6 DEF EntityStore, WithoutKey
<1> HIDE DEF next, keys, held, bindings
<1> QED
  <2>1. /\ \A v \in next.users : \A i \in DOMAIN next.held[v] : next.held[v][i].key \in next.keys
        /\ \A h \in next.groups : next.members[h] \subseteq next.users
        /\ \A x \in Alias : next.bindings[x].user \in next.users \cup {NoUser}
    BY <1>1, <1>2, <1>3, <1>5, <1>6, <1>8, LinkedIs
  <2>2. next \in LinkedStore
    BY <2>1, <1>8, LinkedWhen
  <2> QED
    BY <2>2 DEF next

LEMMA WithBindingLinks ==
    ASSUME NEW s \in LinkedStore, NEW a \in Alias, NEW b \in HostBinding,
           b.user \in s.users \cup {NoUser}
    PROVE  WithBinding(s, a, b) \in LinkedStore
<1> DEFINE bindings == [s.bindings EXCEPT ![a] = b]
<1>1. bindings \in [Alias -> HostBinding]
  BY LinkedIs
<1>2. \A x \in Alias : bindings[x].user \in s.users \cup {NoUser}
  BY LinkedIs
<1> DEFINE next == WithBinding(s, a, b)
<1>3. s \in EntityStore
  BY DEF LinkedStore
<1>4. /\ next.users = s.users /\ next.groups = s.groups /\ next.keys = s.keys
      /\ next.held = s.held /\ next.members = s.members /\ next.bindings = bindings
      /\ next \in EntityStore
  BY <1>3, <1>1, <1>2 DEF EntityStore, WithBinding
<1> HIDE DEF next, bindings
<1> QED
  <2>1. /\ \A v \in next.users : \A i \in DOMAIN next.held[v] : next.held[v][i].key \in next.keys
        /\ \A h \in next.groups : next.members[h] \subseteq next.users
        /\ \A x \in Alias : next.bindings[x].user \in next.users \cup {NoUser}
    BY <1>1, <1>2, <1>4, LinkedIs
  <2>2. next \in LinkedStore
    BY <2>1, <1>4, LinkedWhen
  <2> QED
    BY <2>2 DEF next

LEMMA UserKeysLinks ==
    ASSUME NEW s \in LinkedStore, NEW u \in User, NEW refs \in Seq(KeyRef),
           \A i \in DOMAIN refs : refs[i].key \in s.keys
    PROVE  [s EXCEPT !.held[u] = refs] \in LinkedStore
<1> DEFINE held == [s.held EXCEPT ![u] = refs]
<1>1. held \in [User -> Seq(KeyRef)]
  BY LinkedIs
<1>2. \A v \in s.users : \A i \in DOMAIN held[v] : held[v][i].key \in s.keys
  BY LinkedIs
<1> DEFINE next == [s EXCEPT !.held[u] = refs]
<1>3. s \in EntityStore
  BY DEF LinkedStore
<1>4. /\ next.users = s.users /\ next.groups = s.groups /\ next.keys = s.keys
      /\ next.held = held /\ next.members = s.members /\ next.bindings = s.bindings
      /\ next \in EntityStore
  BY <1>3, <1>1, <1>2 DEF EntityStore
<1> HIDE DEF next, held
<1> QED
  <2>1. /\ \A v \in next.users : \A i \in DOMAIN next.held[v] : next.held[v][i].key \in next.keys
        /\ \A h \in next.groups : next.members[h] \subseteq next.users
        /\ \A x \in Alias : next.bindings[x].user \in next.users \cup {NoUser}
    BY <1>1, <1>2, <1>4, LinkedIs
  <2>2. next \in LinkedStore
    BY <2>1, <1>4, LinkedWhen
  <2> QED
    BY <2>2 DEF next

LEMMA NewGroupLinks ==
    ASSUME NEW s \in LinkedStore, NEW g \in Group
    PROVE  [s EXCEPT !.groups = @ \cup {g}, !.members[g] = {}] \in LinkedStore
<1> DEFINE members == [s.members EXCEPT ![g] = {}]
           groups == s.groups \cup {g}
<1>1. members \in [Group -> SUBSET User]
  BY LinkedIs
<1>2. \A h \in groups : members[h] \subseteq s.users
  BY LinkedIs
<1> DEFINE next == [s EXCEPT !.groups = @ \cup {g}, !.members[g] = {}]
<1>3. s \in EntityStore
  BY DEF LinkedStore
<1>4. /\ next.users = s.users /\ next.groups = groups /\ next.keys = s.keys
      /\ next.held = s.held /\ next.members = members /\ next.bindings = s.bindings
      /\ next \in EntityStore
  BY <1>3, <1>1, <1>2 DEF EntityStore
<1> HIDE DEF next, members, groups
<1> QED
  <2>1. /\ \A v \in next.users : \A i \in DOMAIN next.held[v] : next.held[v][i].key \in next.keys
        /\ \A h \in next.groups : next.members[h] \subseteq next.users
        /\ \A x \in Alias : next.bindings[x].user \in next.users \cup {NoUser}
    BY <1>1, <1>2, <1>4, LinkedIs
  <2>2. next \in LinkedStore
    BY <2>1, <1>4, LinkedWhen
  <2> QED
    BY <2>2 DEF next

LEMMA ToggledLinks ==
    ASSUME NEW s \in LinkedStore, NEW g \in s.groups, NEW u \in s.users
    PROVE  [s EXCEPT !.members[g] = IF u \in @ THEN @ \ {u} ELSE @ \cup {u}] \in LinkedStore
<1> DEFINE members == [s.members EXCEPT ![g] = IF u \in @ THEN @ \ {u} ELSE @ \cup {u}]
<1>1. members \in [Group -> SUBSET User]
  BY LinkedIs
<1>2. \A h \in s.groups : members[h] \subseteq s.users
  BY LinkedIs
<1> DEFINE next == [s EXCEPT !.members[g] = IF u \in @ THEN @ \ {u} ELSE @ \cup {u}]
<1>3. s \in EntityStore
  BY DEF LinkedStore
<1>4. /\ next.users = s.users /\ next.groups = s.groups /\ next.keys = s.keys
      /\ next.held = s.held /\ next.members = members /\ next.bindings = s.bindings
      /\ next \in EntityStore
  BY <1>3, <1>1, <1>2 DEF EntityStore
<1> HIDE DEF next, members
<1> QED
  <2>1. /\ \A v \in next.users : \A i \in DOMAIN next.held[v] : next.held[v][i].key \in next.keys
        /\ \A h \in next.groups : next.members[h] \subseteq next.users
        /\ \A x \in Alias : next.bindings[x].user \in next.users \cup {NoUser}
    BY <1>1, <1>2, <1>4, LinkedIs
  <2>2. next \in LinkedStore
    BY <2>1, <1>4, LinkedWhen
  <2> QED
    BY <2>2 DEF next

\* The calls, each with the store its handler goes on with.
SaveCall == [is : {"save"}, store : LinkedStore, after : {"nothing", "load"}]
KeyCall == [is : {"create", "remove"}, key : StoreKey, store : LinkedStore]
HostCall ==
    {c \in [is : {"saveHost"}, alias : Alias, store : LinkedStore,
            synced : [path : IdentityFile, binding : HostBinding]] :
        c.synced.binding.user \in c.store.users \cup {NoUser}}
OtherCall == [is : {"deleteHost"}, alias : Alias] \cup [is : {"load"}]
Calls == UNION {SaveCall, KeyCall, HostCall, OtherCall}
Hosts == UNION {[A -> IdentityFile] : A \in SUBSET Alias}
Listings == [is : {"read"}, store : LinkedStore, hosts : Hosts]

\* Every store there is has its links: on disk, in the window, in a call and in a listing.
StoreInv ==
    /\ file \in LinkedStore /\ entityStore \in LinkedStore
    /\ sent \in Seq(Calls)
    /\ listing \in Listings \cup {NotLoading}

HostInv ==
    /\ config \in Hosts /\ hosts \in Hosts
    /\ edited \in Alias \cup {NoAlias} /\ identity \in IdentityFile /\ binding \in HostBinding

CountInv ==
    /\ unlocked \cup runtime \subseteq SecretKey
    /\ ids \subseteq UNION {User, Group, StoreKey}
    /\ edits \in 0..MaxEdits

IdentityInv == StoreInv /\ HostInv /\ CountInv

LEMMA CallFields ==
    ASSUME NEW c \in Calls
    PROVE  /\ c.is = "save" => c.store \in LinkedStore
           /\ c.is \in {"create", "remove"} => c.key \in StoreKey /\ c.store \in LinkedStore
           /\ c.is = "saveHost" => /\ c.alias \in Alias /\ c.store \in LinkedStore
                                  /\ c.synced.path \in IdentityFile
                                  /\ c.synced.binding \in HostBinding
                                  /\ c.synced.binding.user \in c.store.users \cup {NoUser}
           /\ c.is = "deleteHost" => c.alias \in Alias
<1>1. CASE c \in SaveCall
  BY <1>1 DEF SaveCall
<1>2. CASE c \in KeyCall
  BY <1>2 DEF KeyCall
<1>3. CASE c \in HostCall
  BY <1>3 DEF HostCall
<1>4. CASE c \in OtherCall
  BY <1>4 DEF OtherCall
<1> QED
  BY <1>1, <1>2, <1>3, <1>4 DEF Calls

LEMMA HostCallIs ==
    ASSUME NEW s \in LinkedStore, NEW a \in Alias, NEW path \in IdentityFile,
           NEW b \in HostBinding
    PROVE  [is |-> "saveHost", alias |-> a, store |-> s, synced |-> Synced(path, b, s)] \in Calls
<1> DEFINE synced == Synced(path, b, s)
           call == [is |-> "saveHost", alias |-> a, store |-> s, synced |-> synced]
<1>1. synced \in [path : IdentityFile, binding : HostBinding]
      /\ synced.binding.user \in s.users \cup {NoUser}
  BY SyncedIs DEF Synced
<1> HIDE DEF synced
<1>2. call \in HostCall
  BY <1>1 DEF HostCall
<1> QED
  BY <1>2 DEF Calls, synced

LEMMA StoresStart == IdentityStoreInit => IdentityInv
<1>1. FirstStore \in LinkedStore /\ FirstStore \in EntityStore /\ FirstHosts \in Hosts
  BY IdentityStoreAssumption DEF LinkedStore, Hosts
<1>2. NoBinding \in HostBinding /\ NoKey \in IdentityFile
  BY DEF NoBinding, HostBinding, IdentityFile
<1>3. FirstStore.users \cup FirstStore.groups \cup FirstStore.keys \subseteq UNION {User, Group,
      StoreKey}
  BY <1>1, LinkedIs
<1>4. 0 \in 0..MaxEdits
  BY IdentityStoreAssumption
<1> SUFFICES ASSUME IdentityStoreInit PROVE IdentityInv
  OBVIOUS
<1>5. StoreInv
  BY <1>1 DEF StoreInv, IdentityStoreInit
<1>6. HostInv
  BY <1>1, <1>2 DEF HostInv, IdentityStoreInit
<1>7. CountInv
  BY <1>3, <1>4 DEF CountInv, IdentityStoreInit
<1> QED
  BY <1>5, <1>6, <1>7 DEF IdentityInv

LEMMA EditCounts ==
    ASSUME CountInv, Edits
    PROVE  edits' \in 0..MaxEdits
  BY IdentityStoreAssumption DEF CountInv, Edits

\* A handler that computes a new store from the copy of the window.
LEMMA PersistStep ==
    ASSUME StoreInv, NEW next \in LinkedStore, EditStore(next)
    PROVE  StoreInv'
<1>1. entityStore' = next
      /\ sent' = Append(sent, [is |-> "save", store |-> next, after |-> "nothing"])
      /\ file' = file /\ listing' = listing
  BY DEF EditStore, Persist, backendVars
<1>2. [is |-> "save", store |-> next, after |-> "nothing"] \in Calls
  BY DEF Calls, SaveCall
<1> QED
  BY <1>1, <1>2 DEF StoreInv

LEMMA CallStep ==
    ASSUME StoreInv, NEW call \in Calls, CallCommand(call)
    PROVE  StoreInv'
  BY DEF CallCommand, backendVars, StoreInv

LEMMA AnswerStep ==
    ASSUME sent \in Seq(Calls), sent # <<>>, NEW next \in LinkedStore,
           NEW after \in {"nothing", "load"}, Answer(next, after)
    PROVE  entityStore' \in LinkedStore /\ sent' \in Seq(Calls)
<1>1. [is |-> "save", store |-> next, after |-> after] \in Calls
  BY DEF Calls, SaveCall
<1> QED
  BY <1>1 DEF Answer

\* What the user does to the store leaves the links whole, in every store on its way.
LEMMA EditKeepsLinks ==
    ASSUME StoreInv, StoreEdit
    PROVE  StoreInv'
<1>1. entityStore \in LinkedStore
  BY DEF StoreInv
<1>2. ASSUME NEW u \in User, AddUser(u) PROVE StoreInv'
  <2>1. EditStore(WithUser(entityStore, u))
    BY <1>2 DEF AddUser
  <2> QED
    BY <1>1, <2>1, WithUserLinks, PersistStep
<1>3. ASSUME NEW u \in User, DeleteUser(u) PROVE StoreInv'
  <2>1. EditStore(WithoutUser(entityStore, u))
    BY <1>3 DEF DeleteUser
  <2> QED
    BY <1>1, <2>1, WithoutUserLinks, PersistStep
<1>4. ASSUME NEW u \in User, EditUserKeys(u) PROVE StoreInv'
  <2> DEFINE refs == entityStore.held[u]
             good(q) == q \in Seq(KeyRef) /\ \A i \in DOMAIN q : q[i].key \in entityStore.keys
  <2>1. u \in entityStore.users /\ good(refs) /\ entityStore.keys \subseteq StoreKey
    BY <1>1, <1>4, LinkedIs DEF EditUserKeys
  <2>2. PICK next \in {Toggled(refs, k) : k \in entityStore.keys}
                   \cup {Normalized(Reverse(refs)) : i \in {j \in {2} : Len(refs) = j}} :
          EditStore([entityStore EXCEPT !.held[u] = next])
    BY <1>4 DEF EditUserKeys
  <2> HIDE DEF refs
  <2>3. ASSUME NEW k \in entityStore.keys PROVE good(Toggled(refs, k))
    BY <2>1, <2>3, ToggledIs
  <2>4. good(Normalized(Reverse(refs)))
    <3> DEFINE back == Reverse(refs)
    <3>1. back \in Seq(KeyRef) /\ \A i \in DOMAIN back : \E j \in DOMAIN refs : back[i] = refs[j]
      BY <2>1, ReversedIs
    <3> HIDE DEF back
    <3>2. /\ Normalized(back) \in Seq(KeyRef) /\ DOMAIN Normalized(back) = DOMAIN back
          /\ \A i \in DOMAIN back : Normalized(back)[i].key = back[i].key
      BY <3>1, NormalizedIs
    <3>3. good(Normalized(back))
      BY <2>1, <3>1, <3>2
    <3> QED
      BY <3>3 DEF back
  <2>5. good(next)
    <3> HIDE DEF good
    <3> QED
      BY <2>2, <2>3, <2>4
  <2>6. [entityStore EXCEPT !.held[u] = next] \in LinkedStore
    BY <1>1, <2>5, UserKeysLinks
  <2> QED
    BY <2>2, <2>6, PersistStep
<1>5. ASSUME NEW g \in Group, AddGroup(g) PROVE StoreInv'
  <2>1. EditStore([entityStore EXCEPT !.groups = @ \cup {g}, !.members[g] = {}])
    BY <1>5 DEF AddGroup
  <2> QED
    BY <1>1, <2>1, NewGroupLinks, PersistStep
<1>6. ASSUME NEW g \in Group, DeleteGroup(g) PROVE StoreInv'
  <2>1. EditStore(WithoutGroup(entityStore, g))
    BY <1>6 DEF DeleteGroup
  <2> QED
    BY <1>1, <2>1, WithoutGroupLinks, PersistStep
<1>7. ASSUME NEW g \in Group, NEW u \in User, ToggleMember(g, u) PROVE StoreInv'
  <2>1. /\ g \in entityStore.groups /\ u \in entityStore.users
        /\ EditStore([entityStore EXCEPT !.members[g] =
                         IF u \in @ THEN @ \ {u} ELSE @ \cup {u}])
    BY <1>7 DEF ToggleMember
  <2> QED
    BY <1>1, <2>1, ToggledLinks, PersistStep
<1>8. ASSUME NEW k \in PathKey, AddPathKey(k) PROVE StoreInv'
  <2>1. EditStore(WithKey(entityStore, k)) /\ k \in StoreKey
    BY <1>8 DEF AddPathKey, StoreKey
  <2> QED
    BY <1>1, <2>1, WithKeyLinks, PersistStep
<1>9. ASSUME NEW k \in SecretKey, AddSecretKey(k) PROVE StoreInv'
  <2>1. [is |-> "create", key |-> k, store |-> entityStore] \in Calls
    BY <1>1 DEF Calls, KeyCall, StoreKey
  <2> QED
    BY <1>9, <2>1, CallStep DEF AddSecretKey
<1>10. ASSUME NEW k \in SecretKey, UnlockKey(k) PROVE StoreInv'
  BY <1>10 DEF UnlockKey, StoreInv
<1>11. ASSUME NEW k \in StoreKey, RemoveKey(k) PROVE StoreInv'
  <2>1. [is |-> "remove", key |-> k, store |-> entityStore] \in Calls
    BY <1>1 DEF Calls, KeyCall
  <2> QED
    BY <1>11, <2>1, CallStep DEF RemoveKey
<1> QED
  BY <1>2, <1>3, <1>4, <1>5, <1>6, <1>7, <1>8, <1>9, <1>10, <1>11, Zenon DEF StoreEdit

LEMMA HostEditKeepsLinks ==
    ASSUME StoreInv, HostInv, HostEdit
    PROVE  StoreInv'
<1>1. entityStore \in LinkedStore
  BY DEF StoreInv
<1>2. CASE EditDraft
  BY <1>2 DEF EditDraft, backendVars, StoreInv
<1>3. CASE SaveHost
  <2>1. edited \in Alias /\ identity \in IdentityFile /\ binding \in HostBinding
    BY <1>3 DEF HostInv, SaveHost
  <2>2. CallCommand([is |-> "saveHost", alias |-> edited, store |-> entityStore,
                     synced |-> Synced(identity, binding, entityStore)])
    BY <1>3 DEF SaveHost
  <2> QED
    BY <1>1, <2>1, <2>2, HostCallIs, CallStep
<1>4. ASSUME NEW a \in Alias, EditHost(a) PROVE StoreInv'
  BY <1>4 DEF EditHost, backendVars, StoreInv
<1>5. ASSUME NEW a \in Alias, DeleteHost(a) PROVE StoreInv'
  <2>1. [is |-> "deleteHost", alias |-> a] \in Calls
    BY DEF Calls, OtherCall
  <2> QED
    BY <1>5, <2>1, CallStep DEF DeleteHost
<1>6. ASSUME NEW a \in Alias, StartSession(a) PROVE StoreInv'
  BY <1>6 DEF StartSession, StoreInv
<1> QED
  BY <1>2, <1>3, <1>4, <1>5, <1>6, Zenon DEF HostEdit

LEMMA CommandKeepsLinks ==
    ASSUME StoreInv, HostInv, StoreCommand
    PROVE  StoreInv'
<1>1. /\ file \in LinkedStore /\ entityStore \in LinkedStore
      /\ sent \in Seq(Calls) /\ listing \in Listings \cup {NotLoading}
  BY DEF StoreInv
<1>2. sent # <<>> => Head(sent) \in Calls /\ Tail(sent) \in Seq(Calls)
  BY <1>1
<1>3. [is |-> "load"] \in Calls
  BY DEF Calls, OtherCall
<1>4. CASE SaveStore
  <2>1. /\ sent # <<>> /\ Head(sent).is = "save" /\ file' \in {Head(sent).store, file}
        /\ sent' = Append(Tail(sent), [is |-> "load"]) \/ sent' = Tail(sent)
        /\ entityStore' = entityStore /\ listing' = listing
    BY <1>4 DEF SaveStore
  <2>2. Head(sent).store \in LinkedStore
    BY <1>2, <2>1, CallFields
  <2>3. sent' \in Seq(Calls)
    BY <1>2, <1>3, <2>1
  <2> QED
    BY <1>1, <2>1, <2>2, <2>3 DEF StoreInv
<1>5. CASE CreateKey
  <2>1. /\ sent # <<>> /\ Head(sent).is = "create" /\ file' = WithKey(file, Head(sent).key)
        /\ Answer(WithKey(Head(sent).store, Head(sent).key), "nothing") /\ listing' = listing
    BY <1>5 DEF CreateKey
  <2>2. Head(sent).key \in StoreKey /\ Head(sent).store \in LinkedStore
    BY <1>2, <2>1, CallFields
  <2>3. file' \in LinkedStore /\ WithKey(Head(sent).store, Head(sent).key) \in LinkedStore
    BY <1>1, <2>1, <2>2, WithKeyLinks
  <2>4. entityStore' \in LinkedStore /\ sent' \in Seq(Calls)
    BY <1>1, <2>1, <2>3, AnswerStep
  <2> QED
    BY <1>1, <2>1, <2>3, <2>4 DEF StoreInv
<1>6. CASE DeleteKey
  <2>1. /\ sent # <<>> /\ Head(sent).is = "remove" /\ file' = WithoutKey(file, Head(sent).key)
        /\ Answer(WithoutKey(Head(sent).store, Head(sent).key), "nothing") /\ listing' = listing
    BY <1>6 DEF DeleteKey
  <2>2. Head(sent).store \in LinkedStore
    BY <1>2, <2>1, CallFields
  <2>3. file' \in LinkedStore /\ WithoutKey(Head(sent).store, Head(sent).key) \in LinkedStore
    BY <1>1, <2>1, <2>2, WithoutKeyLinks
  <2>4. entityStore' \in LinkedStore /\ sent' \in Seq(Calls)
    BY <1>1, <2>1, <2>3, AnswerStep
  <2> QED
    BY <1>1, <2>1, <2>3, <2>4 DEF StoreInv
<1>7. CASE CommandFails
  BY <1>1, <1>2, <1>7 DEF CommandFails, backendVars, StoreInv
<1>8. CASE WriteHost
  <2> DEFINE c == Head(sent)
  <2>1. /\ sent # <<>> /\ c.is = "saveHost" /\ file' = file /\ listing' = listing
        /\ Answer(WithBinding(c.store, c.alias, c.synced.binding), "load")
    BY <1>8 DEF WriteHost
  <2>2. /\ c.alias \in Alias /\ c.store \in LinkedStore /\ c.synced.binding \in HostBinding
        /\ c.synced.binding.user \in c.store.users \cup {NoUser}
    BY <1>2, <2>1, CallFields
  <2> HIDE DEF c
  <2>3. WithBinding(c.store, c.alias, c.synced.binding) \in LinkedStore
    BY <2>2, WithBindingLinks
  <2>4. entityStore' \in LinkedStore /\ sent' \in Seq(Calls)
    BY <1>1, <2>1, <2>3, AnswerStep
  <2> QED
    BY <1>1, <2>1, <2>4 DEF StoreInv
<1>9. CASE EraseHost
  BY <1>1, <1>2, <1>3, <1>9 DEF EraseHost, StoreInv
<1>10. CASE ReadAll
  <2>1. [is |-> "read", store |-> file, hosts |-> config] \in Listings
    BY <1>1 DEF Listings, HostInv
  <2> QED
    BY <1>1, <1>2, <1>10, <2>1 DEF ReadAll, backendVars, StoreInv
<1>11. CASE ShowAll
  <2>1. listing.store \in LinkedStore
    BY <1>1, <1>11 DEF ShowAll, Listings
  <2> QED
    BY <1>1, <1>11, <2>1 DEF ShowAll, backendVars, StoreInv
<1> QED
  BY <1>4, <1>5, <1>6, <1>7, <1>8, <1>9, <1>10, <1>11, Zenon DEF StoreCommand

LEMMA HostFormStep ==
    ASSUME StoreInv, HostInv, HostEdit
    PROVE  HostInv'
<1>1. /\ entityStore \in LinkedStore /\ config \in Hosts /\ hosts \in Hosts
      /\ edited \in Alias \cup {NoAlias} /\ identity \in IdentityFile /\ binding \in HostBinding
  BY DEF StoreInv, HostInv
<1>2. entityStore.keys \subseteq StoreKey /\ entityStore.users \subseteq User
      /\ entityStore.groups \subseteq Group /\ entityStore.bindings \in [Alias -> HostBinding]
  BY <1>1, LinkedIs
<1>3. CASE EditDraft
  <2>1. edited' = edited /\ config' = config /\ hosts' = hosts
    BY <1>3 DEF EditDraft, backendVars
  <2>2. binding.refs \in Seq(KeyRef) /\ binding.groups \subseteq Group
        /\ binding.user \in User \cup {NoUser}
    BY <1>1, BindingFields
  <2>3. ASSUME NEW v \in entityStore.keys \cup {NoKey},
               identity' = ApplyIdentity(v, binding.refs, entityStore.keys).path,
               binding' = [binding EXCEPT !.refs =
                              ApplyIdentity(v, binding.refs, entityStore.keys).refs]
        PROVE  identity' \in IdentityFile /\ binding' \in HostBinding
    <3> DEFINE applied == ApplyIdentity(v, binding.refs, entityStore.keys)
    <3>1. v \in IdentityFile
      BY <1>2 DEF IdentityFile
    <3>2. applied.path \in IdentityFile /\ applied.refs \in Seq(KeyRef)
      BY <1>2, <2>2, <3>1, AppliedIs
    <3> HIDE DEF applied
    <3> QED
      BY <1>1, <2>3, <3>2 DEF HostBinding, applied
  <2>4. ASSUME NEW u \in entityStore.users \cup {NoUser},
               binding' = [binding EXCEPT !.user = u]
        PROVE  binding' \in HostBinding
    BY <1>1, <1>2, <2>4 DEF HostBinding
  <2>5. ASSUME NEW k \in entityStore.keys,
               binding' = [binding EXCEPT !.refs = Toggled(@, k)]
        PROVE  binding' \in HostBinding
    <3> DEFINE refs == Toggled(binding.refs, k)
    <3>1. refs \in Seq(KeyRef)
      BY <1>2, <2>2, ToggledIs
    <3>2. binding' = [binding EXCEPT !.refs = refs]
      BY <2>5
    <3> HIDE DEF refs
    <3> QED
      BY <1>1, <3>1, <3>2 DEF HostBinding
  <2>6. ASSUME NEW g \in entityStore.groups,
               binding' = [binding EXCEPT !.groups = IF g \in @ THEN @ \ {g} ELSE @ \cup {g}]
        PROVE  binding' \in HostBinding
    BY <1>1, <1>2, <2>6 DEF HostBinding
  <2>7. identity' \in IdentityFile /\ binding' \in HostBinding
    BY <1>1, <1>3, <2>3, <2>4, <2>5, <2>6 DEF EditDraft
  <2> QED
    BY <1>1, <2>1, <2>7 DEF HostInv
<1>4. CASE SaveHost
  BY <1>1, <1>4 DEF SaveHost, CallCommand, backendVars, draftVars, HostInv
<1>5. ASSUME NEW a \in Alias, EditHost(a) PROVE HostInv'
  <2> DEFINE path == IF a \in DOMAIN hosts THEN hosts[a] ELSE NoKey
             b == IF a \in DOMAIN hosts THEN entityStore.bindings[a] ELSE NoBinding
  <2>1. path \in IdentityFile
    BY <1>1 DEF Hosts, IdentityFile
  <2>2. b \in HostBinding
    BY <1>2 DEF NoBinding, HostBinding
  <2>3. /\ edited' = a /\ config' = config /\ hosts' = hosts
        /\ identity' = Synced(path, b, entityStore).path
        /\ binding' = Synced(path, b, entityStore).binding
    BY <1>5 DEF EditHost, backendVars
  <2> HIDE DEF path, b
  <2>4. identity' \in IdentityFile /\ binding' \in HostBinding
    BY <1>1, <2>1, <2>2, <2>3, SyncedIs
  <2> QED
    BY <1>1, <2>3, <2>4 DEF HostInv
<1>6. ASSUME NEW a \in Alias, DeleteHost(a) PROVE HostInv'
  BY <1>1, <1>6 DEF DeleteHost, CallCommand, backendVars, draftVars, HostInv
<1>7. ASSUME NEW a \in Alias, StartSession(a) PROVE HostInv'
  BY <1>1, <1>7 DEF StartSession, draftVars, HostInv
<1> QED
  BY <1>3, <1>4, <1>5, <1>6, <1>7, Zenon DEF HostEdit

LEMMA HostCommandStep ==
    ASSUME StoreInv, HostInv, StoreCommand
    PROVE  HostInv'
<1>1. /\ sent \in Seq(Calls) /\ listing \in Listings \cup {NotLoading}
      /\ config \in Hosts /\ hosts \in Hosts
      /\ edited \in Alias \cup {NoAlias} /\ identity \in IdentityFile /\ binding \in HostBinding
  BY DEF StoreInv, HostInv
<1>2. CASE SaveStore \/ CreateKey \/ DeleteKey \/ CommandFails \/ ReadAll
  BY <1>1, <1>2 DEF SaveStore, CreateKey, DeleteKey, CommandFails, ReadAll, backendVars, draftVars,
                    HostInv
<1>3. CASE WriteHost
  <2> DEFINE c == Head(sent)
             more == [a \in DOMAIN config \cup {c.alias} |->
                         IF a = c.alias THEN c.synced.path ELSE config[a]]
  <2>1. sent # <<>> /\ c.is = "saveHost" /\ config' = more /\ hosts' = hosts
        /\ edited' = edited /\ identity' = identity /\ binding' = binding
    BY <1>3 DEF WriteHost, draftVars
  <2>2. c \in Calls
    BY <1>1, <2>1
  <2>3. c.alias \in Alias /\ c.synced.path \in IdentityFile
    BY <2>1, <2>2, CallFields
  <2> HIDE DEF c
  <2>4. more \in Hosts
    <3>1. PICK A \in SUBSET Alias : config \in [A -> IdentityFile]
      BY <1>1 DEF Hosts
    <3>2. A \cup {c.alias} \in SUBSET Alias /\ more \in [A \cup {c.alias} -> IdentityFile]
      BY <2>3, <3>1
    <3> QED
      BY <3>2 DEF Hosts
  <2> QED
    BY <1>1, <2>1, <2>4 DEF HostInv
<1>4. CASE EraseHost
  <2> DEFINE fewer == [a \in DOMAIN config \ {Head(sent).alias} |-> config[a]]
  <2>1. fewer \in Hosts
    <3>1. PICK A \in SUBSET Alias : config \in [A -> IdentityFile]
      BY <1>1 DEF Hosts
    <3>2. A \ {Head(sent).alias} \in SUBSET Alias
          /\ fewer \in [A \ {Head(sent).alias} -> IdentityFile]
      BY <3>1
    <3> QED
      BY <3>2 DEF Hosts
  <2> QED
    BY <1>1, <1>4, <2>1 DEF EraseHost, draftVars, HostInv
<1>5. CASE ShowAll
  <2>1. listing.hosts \in Hosts
    BY <1>1, <1>5 DEF ShowAll, Listings
  <2> QED
    BY <1>1, <1>5, <2>1 DEF ShowAll, backendVars, draftVars, HostInv
<1> QED
  BY <1>2, <1>3, <1>4, <1>5, Zenon DEF StoreCommand

LEMMA RestartStep ==
    ASSUME IdentityInv, RestartApp
    PROVE  IdentityInv'
<1>1. NoBinding \in HostBinding /\ NoKey \in IdentityFile
  BY DEF NoBinding, HostBinding, IdentityFile
<1>2. StoreInv'
  BY DEF RestartApp, IdentityInv, StoreInv
<1>3. HostInv'
  BY <1>1 DEF RestartApp, IdentityInv, HostInv
<1>4. CountInv'
  BY DEF RestartApp, IdentityInv, CountInv
<1> QED
  BY <1>2, <1>3, <1>4 DEF IdentityInv

LEMMA CountStep ==
    ASSUME CountInv, StoreCommand \/ StoreEdit \/ HostEdit
    PROVE  CountInv'
<1>1. /\ unlocked \cup runtime \subseteq SecretKey
      /\ ids \subseteq UNION {User, Group, StoreKey} /\ edits \in 0..MaxEdits
  BY DEF CountInv
<1>2. CASE StoreCommand
  <2>1. unlocked' \subseteq unlocked /\ runtime' = runtime /\ ids' = ids /\ edits' = edits
    BY <1>2 DEF StoreCommand, SaveStore, CreateKey, DeleteKey, CommandFails, WriteHost, EraseHost,
                ReadAll, ShowAll, backendVars
  <2> QED
    BY <1>1, <2>1 DEF CountInv
<1>3. CASE StoreEdit
  <2>1. ASSUME NEW k \in SecretKey, UnlockKey(k) PROVE CountInv'
    <3>1. unlocked' = unlocked \cup {k} /\ runtime' = runtime /\ ids' = ids /\ Edits
      BY <2>1 DEF UnlockKey
    <3> QED
      BY <1>1, <3>1, EditCounts DEF CountInv
  <2>2. ASSUME NEW next, EditStore(next) PROVE Edits /\ unlocked' = unlocked /\ runtime' = runtime
    BY <2>2 DEF EditStore, backendVars
  <2>3. ASSUME NEW call, CallCommand(call) PROVE Edits /\ unlocked' = unlocked /\ runtime' = runtime
    BY <2>3 DEF CallCommand, backendVars
  <2>4. ASSUME NEW id \in UNION {User, Group, StoreKey}, ids' = ids \/ NewId(id),
               Edits, unlocked' = unlocked, runtime' = runtime
        PROVE  CountInv'
    <3>1. ids' \subseteq UNION {User, Group, StoreKey}
      BY <1>1, <2>4 DEF NewId
    <3> QED
      BY <1>1, <2>4, <3>1, EditCounts DEF CountInv
  <2>5. ASSUME NEW u \in User, AddUser(u) \/ DeleteUser(u) \/ EditUserKeys(u) PROVE CountInv'
    BY <2>2, <2>4, <2>5 DEF AddUser, DeleteUser, EditUserKeys
  <2>6. ASSUME NEW g \in Group, AddGroup(g) \/ DeleteGroup(g) PROVE CountInv'
    BY <2>2, <2>4, <2>6 DEF AddGroup, DeleteGroup
  <2>7. ASSUME NEW g \in Group, NEW u \in User, ToggleMember(g, u) PROVE CountInv'
    BY <2>2, <2>4, <2>7 DEF ToggleMember
  <2>8. ASSUME NEW k \in PathKey, AddPathKey(k) PROVE CountInv'
    BY <2>2, <2>4, <2>8 DEF AddPathKey, StoreKey
  <2>9. ASSUME NEW k \in SecretKey, AddSecretKey(k) PROVE CountInv'
    BY <2>3, <2>4, <2>9 DEF AddSecretKey, StoreKey
  <2>10. ASSUME NEW k \in StoreKey, RemoveKey(k) PROVE CountInv'
    BY <2>3, <2>4, <2>10 DEF RemoveKey
  <2> QED
    BY <1>3, <2>1, <2>5, <2>6, <2>7, <2>8, <2>9, <2>10, Zenon DEF StoreEdit
<1>4. CASE HostEdit
  <2>1. CASE EditDraft \/ SaveHost \/ \E a \in Alias : EditHost(a) \/ DeleteHost(a)
    <3>1. Edits /\ unlocked' = unlocked /\ runtime' = runtime /\ ids' = ids
      BY <2>1 DEF EditDraft, SaveHost, EditHost, DeleteHost, CallCommand, backendVars
    <3> QED
      BY <1>1, <3>1, EditCounts DEF CountInv
  <2>2. ASSUME NEW a \in Alias, StartSession(a) PROVE CountInv'
    <3>1. /\ SessionKey(a) \in unlocked /\ runtime' = runtime \cup {SessionKey(a)}
          /\ unlocked' = unlocked /\ ids' = ids /\ Edits
      BY <2>2 DEF StartSession
    <3> QED
      BY <1>1, <3>1, EditCounts DEF CountInv
  <2> QED
    BY <1>4, <2>1, <2>2, Zenon DEF HostEdit
<1> QED
  BY <1>2, <1>3, <1>4

LEMMA IdentityStep ==
    ASSUME IdentityInv, [IdentityStoreNext]_identityStoreVars
    PROVE  IdentityInv'
<1>1. StoreInv /\ HostInv /\ CountInv
  BY DEF IdentityInv
<1>2. CASE StoreCommand
  BY <1>1, <1>2, CommandKeepsLinks, HostCommandStep, CountStep DEF IdentityInv
<1>3. CASE StoreEdit
  <2>1. HostInv'
    <3>1. config' = config /\ hosts' = hosts /\ draftVars' = draftVars
      BY <1>3 DEF StoreEdit, AddUser, DeleteUser, EditUserKeys, AddGroup, DeleteGroup, ToggleMember,
                  AddPathKey, AddSecretKey, UnlockKey, RemoveKey, EditStore, CallCommand,
                      backendVars
    <3> QED
      BY <1>1, <3>1 DEF HostInv, draftVars
  <2> QED
    BY <1>1, <1>3, <2>1, EditKeepsLinks, CountStep DEF IdentityInv
<1>4. CASE HostEdit
  BY <1>1, <1>4, HostEditKeepsLinks, HostFormStep, CountStep DEF IdentityInv
<1>5. CASE RestartApp
  BY <1>5, RestartStep
<1>6. CASE UNCHANGED identityStoreVars
  <2>1. StoreInv'
    BY <1>1, <1>6 DEF StoreInv, identityStoreVars
  <2>2. HostInv'
    BY <1>1, <1>6 DEF HostInv, identityStoreVars
  <2>3. CountInv'
    BY <1>1, <1>6 DEF CountInv, identityStoreVars
  <2> QED
    BY <2>1, <2>2, <2>3 DEF IdentityInv
<1> QED
  BY <1>2, <1>3, <1>4, <1>5, <1>6, Zenon DEF IdentityStoreNext

LEMMA IdentityHolds == IdentityStoreSpec => []IdentityInv
  BY StoresStart, IdentityStep, PTL DEF IdentityStoreSpec

\* Every variable keeps values of its kind, whatever the stores and the order in which
\* handlers, commands and load() answer.
THEOREM IdentityTypesHold == IdentityStoreSpec => []IdentityStoreTypeOK
<1>1. IdentityInv => IdentityStoreTypeOK
  <2> SUFFICES ASSUME IdentityInv PROVE IdentityStoreTypeOK
    OBVIOUS
  <2>1. file \in EntityStore /\ entityStore \in EntityStore
    BY DEF IdentityInv, StoreInv, LinkedStore
  <2>2. DOMAIN config \subseteq Alias /\ DOMAIN hosts \subseteq Alias
    BY DEF IdentityInv, HostInv, Hosts
  <2> QED
    BY <2>1, <2>2 DEF IdentityInv, HostInv, CountInv, IdentityStoreTypeOK
<1> QED
  BY <1>1, IdentityHolds, PTL

\* On disk and in the window the users of hosts and groups and the keys of users exist:
\* each handler computes a whole store out of a whole one, however old its copy is, a
\* command changes the file in one step, and a host's draft is freed of what is gone
\* before its binding goes into the very store it was checked against.
THEOREM LinksHold == IdentityStoreSpec => []LinksResolve
<1>1. IdentityInv => LinksResolve
  BY DEF IdentityInv, StoreInv, LinkedStore, LinksResolve
<1> QED
  BY <1>1, IdentityHolds, PTL

-----------------------------------------------------------------------------
(* Host metadata and preferences                                           *)

\* What the first n entries leave: those at the places kept, once and in their order.
KeptSoFar(list, keep, n, g) ==
    /\ g \in Seq({list[i] : i \in 1..Len(list)})
    /\ \A j \in 1..Len(g) : \E i \in 1..n : i \in keep /\ g[j] = list[i]
    /\ \A i \in 1..n : i \in keep => \E j \in 1..Len(g) : g[j] = list[i]
    /\ \A j, k \in 1..Len(g) : j < k =>
          \E i, m \in 1..n : i < m /\ g[j] = list[i] /\ g[k] = list[m]
    /\ (\A i \in 1..n : i \in keep) => Len(g) = n
    /\ \A p \in 1..n : (\A i \in 1..n : i \in keep <=> i # p) => Len(g) = n - 1

LEMMA KeptNone ==
    ASSUME NEW list, Len(list) \in Nat, NEW keep
    PROVE  KeptSoFar(list, keep, 0, <<>>)
<1>1. <<>> \in Seq({list[i] : i \in 1..Len(list)}) /\ Len(<<>>) = 0
  OBVIOUS
<1> QED
  BY <1>1 DEF KeptSoFar

LEMMA KeptOneMore ==
    ASSUME NEW list, Len(list) \in Nat, NEW keep, NEW n \in 1..Len(list), NEW g,
           KeptSoFar(list, keep, n - 1, g)
    PROVE  KeptSoFar(list, keep, n, IF n \in keep THEN Append(g, list[n]) ELSE g)
<1> DEFINE E == {list[i] : i \in 1..Len(list)}
<1>1. list[n] \in E /\ n - 1 \in Nat /\ n \in Nat
  OBVIOUS
<1>2. g \in Seq(E)
  BY DEF KeptSoFar
<1> HIDE DEF E
<1>3. Len(g) \in Nat
  BY <1>2
<1>4. /\ \A j \in 1..Len(g) : \E i \in 1..(n - 1) : i \in keep /\ g[j] = list[i]
      /\ \A i \in 1..(n - 1) : i \in keep => \E j \in 1..Len(g) : g[j] = list[i]
      /\ \A j, k \in 1..Len(g) : j < k =>
            \E i, m \in 1..(n - 1) : i < m /\ g[j] = list[i] /\ g[k] = list[m]
  BY DEF KeptSoFar
<1>5. /\ (\A i \in 1..(n - 1) : i \in keep) => Len(g) = n - 1
      /\ \A p \in 1..(n - 1) : (\A i \in 1..(n - 1) : i \in keep <=> i # p) => Len(g) = n - 2
  BY <1>1 DEF KeptSoFar
<1>6. \A i : i \in 1..n <=> i \in 1..(n - 1) \/ i = n
  BY <1>1
<1>7. ASSUME n \in keep  PROVE KeptSoFar(list, keep, n, Append(g, list[n]))
  <2> DEFINE h == Append(g, list[n])
  <2>1. /\ h \in Seq(E) /\ Len(h) = Len(g) + 1 /\ h[Len(g) + 1] = list[n]
        /\ \A j \in 1..Len(g) : h[j] = g[j]
    BY <1>1, <1>2
  <2> HIDE DEF h
  <2>2. \A j : j \in 1..Len(h) <=> j \in 1..Len(g) \/ j = Len(h)
    BY <1>3, <2>1
  <2>3. \A j \in 1..Len(h) : \E i \in 1..n : i \in keep /\ h[j] = list[i]
    <3> TAKE j \in 1..Len(h)
    <3>1. CASE j = Len(h)
      BY <1>1, <1>6, <1>7, <2>1, <3>1
    <3>2. CASE j # Len(h)
      <4>1. j \in 1..Len(g)
        BY <2>2, <3>2
      <4>2. PICK i \in 1..(n - 1) : i \in keep /\ g[j] = list[i]
        BY <1>4, <4>1
      <4> QED
        BY <1>6, <2>1, <4>1, <4>2
    <3> QED
      BY <3>1, <3>2
  <2>4. \A i \in 1..n : i \in keep => \E j \in 1..Len(h) : h[j] = list[i]
    <3> TAKE i \in 1..n
    <3> HAVE i \in keep
    <3>1. CASE i = n
      BY <2>1, <2>2, <3>1
    <3>2. CASE i # n
      <4>1. PICK j \in 1..Len(g) : g[j] = list[i]
        BY <1>4, <1>6, <3>2
      <4> QED
        BY <2>1, <2>2, <4>1
    <3> QED
      BY <3>1, <3>2
  <2>5. ASSUME NEW j \in 1..Len(h), NEW k \in 1..Len(h), j < k
        PROVE  \E i, m \in 1..n : i < m /\ h[j] = list[i] /\ h[k] = list[m]
    <3>1. j \in 1..Len(g)
      BY <1>3, <2>1, <2>5
    <3>2. CASE k = Len(h)
      <4>1. PICK i \in 1..(n - 1) : g[j] = list[i]
        BY <1>4, <3>1
      <4>2. i \in 1..n /\ n \in 1..n /\ i < n
        BY <1>1, <4>1
      <4> QED
        BY <2>1, <3>1, <3>2, <4>1, <4>2
    <3>3. CASE k # Len(h)
      <4>1. k \in 1..Len(g)
        BY <2>2, <3>3
      <4>2. PICK i \in 1..(n - 1), m \in 1..(n - 1) : i < m /\ g[j] = list[i] /\ g[k] = list[m]
        BY <1>4, <2>5, <3>1, <4>1
      <4>3. i \in 1..n /\ m \in 1..n
        BY <1>6
      <4> QED
        BY <2>1, <3>1, <4>1, <4>2, <4>3
    <3> QED
      BY <3>2, <3>3
  <2>6. (\A i \in 1..n : i \in keep) => Len(h) = n
    BY <1>1, <1>5, <1>6, <2>1
  <2>7. ASSUME NEW p \in 1..n, \A i \in 1..n : i \in keep <=> i # p
        PROVE  Len(h) = n - 1
    <3>1. p \in 1..(n - 1)
      BY <1>6, <1>7, <2>7
    <3>2. Len(g) = n - 2
      BY <1>5, <1>6, <2>7, <3>1
    <3> QED
      BY <1>1, <2>1, <3>2
  <2> QED
    BY <2>1, <2>3, <2>4, <2>5, <2>6, <2>7 DEF KeptSoFar, h, E
<1>8. ASSUME n \notin keep  PROVE KeptSoFar(list, keep, n, g)
  <2>1. \A j \in 1..Len(g) : \E i \in 1..n : i \in keep /\ g[j] = list[i]
    BY <1>4, <1>6
  <2>2. \A i \in 1..n : i \in keep => \E j \in 1..Len(g) : g[j] = list[i]
    BY <1>4, <1>6, <1>8
  <2>3. \A j, k \in 1..Len(g) : j < k =>
           \E i, m \in 1..n : i < m /\ g[j] = list[i] /\ g[k] = list[m]
    BY <1>4, <1>6
  <2>4. ASSUME NEW p \in 1..n, \A i \in 1..n : i \in keep <=> i # p
        PROVE  Len(g) = n - 1
    <3>1. p = n /\ \A i \in 1..(n - 1) : i \in keep
      BY <1>1, <1>6, <1>8, <2>4
    <3> QED
      BY <1>5, <3>1
  <2>5. ~ (\A i \in 1..n : i \in keep)
    BY <1>6, <1>8
  <2> QED
    BY <1>2, <2>1, <2>2, <2>3, <2>4, <2>5 DEF KeptSoFar, E
<1> QED
  BY <1>7, <1>8

LEMMA KeptAll ==
    ASSUME NEW list, Len(list) \in Nat, NEW keep
    PROVE  KeptSoFar(list, keep, Len(list), Kept(list, keep))
<1> DEFINE f == CHOOSE f : IsKept(list, keep, f)
<1>1. Kept(list, keep) = f[Len(list)]
  BY DEF Kept, IsKept, KeptAt
<1>2. IsKept(list, keep, f)
  BY KeptExists
<1> HIDE DEF f
<1>3. \A n \in 0..Len(list) : f[n] = KeptAt(list, keep, f, n)
  BY <1>2 DEF IsKept
<1> DEFINE Bad == {n \in 0..Len(list) : ~ KeptSoFar(list, keep, n, f[n])}
<1>4. Bad = {}
  <2>1. SUFFICES ASSUME Bad # {} PROVE FALSE
    OBVIOUS
  <2>2. PICK n \in Bad : \A m \in Bad : ~ (m < n)
    <3>1. Bad \in SUBSET Nat
      OBVIOUS
    <3> QED
      BY <2>1, <3>1, Least
  <2>3. KeptSoFar(list, keep, 0, f[0])
    BY <1>3, KeptNone DEF KeptAt
  <2>4. n \in 1..Len(list) /\ n - 1 \in 0..Len(list) /\ n - 1 < n
    <3>1. n \in 0..Len(list) /\ n # 0
      BY <2>2, <2>3
    <3> QED
      BY <3>1
  <2>5. KeptSoFar(list, keep, n - 1, f[n - 1])
    BY <2>2, <2>4
  <2>6. f[n] = IF n \in keep THEN Append(f[n - 1], list[n]) ELSE f[n - 1]
    BY <1>3, <2>4 DEF KeptAt
  <2>7. KeptSoFar(list, keep, n, f[n])
    BY <2>4, <2>5, <2>6, KeptOneMore
  <2> QED
    BY <2>2, <2>7
<1>5. Len(list) \in 0..Len(list)
  OBVIOUS
<1> HIDE DEF Bad
<1>6. KeptSoFar(list, keep, Len(list), f[Len(list)])
  BY <1>4, <1>5 DEF Bad
<1> QED
  BY <1>1, <1>6

-----------------------------------------------------------------------------

LEMMA OthersIs ==
    ASSUME NEW S, NEW list \in Seq(S), NEW T
    PROVE  /\ Others(list, T) \in Seq(S)
           /\ ToSet(Others(list, T)) = ToSet(list) \ T
           /\ IsInjective(list) => IsInjective(Others(list, T))
<1> DEFINE keep == {i \in DOMAIN list : list[i] \notin T}
           g == Kept(list, keep)
<1>0. Len(list) \in Nat /\ DOMAIN list = 1..Len(list) /\ Others(list, T) = g
  BY DEF Others
<1>1. KeptSoFar(list, keep, Len(list), g)
  BY <1>0, KeptAll
<1>2. \A i \in 1..Len(list) : (i \in keep <=> list[i] \notin T) /\ list[i] \in S
  BY <1>0
<1> HIDE DEF keep, g
<1>3. /\ g \in Seq({list[i] : i \in 1..Len(list)})
      /\ \A j \in 1..Len(g) : \E i \in 1..Len(list) : i \in keep /\ g[j] = list[i]
      /\ \A i \in 1..Len(list) : i \in keep => \E j \in 1..Len(g) : g[j] = list[i]
      /\ \A j, k \in 1..Len(g) : j < k =>
            \E i, m \in 1..Len(list) : i < m /\ g[j] = list[i] /\ g[k] = list[m]
  BY <1>1 DEF KeptSoFar
<1>4. {list[i] : i \in 1..Len(list)} \subseteq S
  BY <1>2
<1>5. g \in Seq(S) /\ DOMAIN g = 1..Len(g) /\ Len(g) \in Nat
  BY <1>3, <1>4
<1>6. ToSet(g) = ToSet(list) \ T
  <2>1. ASSUME NEW j \in 1..Len(g)  PROVE g[j] \in ToSet(list) \ T
    <3>1. PICK i \in 1..Len(list) : i \in keep /\ g[j] = list[i]
      BY <1>3
    <3> QED
      BY <1>0, <1>2, <3>1 DEF ToSet
  <2>2. ASSUME NEW i \in 1..Len(list), list[i] \notin T  PROVE list[i] \in ToSet(g)
    <3>1. PICK j \in 1..Len(g) : g[j] = list[i]
      BY <1>2, <1>3, <2>2
    <3> QED
      BY <1>5, <3>1 DEF ToSet
  <2> QED
    BY <1>0, <1>5, <2>1, <2>2 DEF ToSet
<1>7. IsInjective(list) => IsInjective(g)
  <2> SUFFICES ASSUME IsInjective(list), NEW j \in 1..Len(g), NEW k \in 1..Len(g), g[j] = g[k]
               PROVE  j = k
    BY <1>5 DEF IsInjective
  <2>1. ASSUME NEW a \in 1..Len(g), NEW b \in 1..Len(g), a < b  PROVE g[a] # g[b]
    <3>1. PICK i \in 1..Len(list), m \in 1..Len(list) : i < m /\ g[a] = list[i] /\ g[b] = list[m]
      BY <1>3, <2>1
    <3> QED
      BY <1>0, <3>1 DEF IsInjective
  <2> QED
    BY <1>5, <2>1
<1> QED
  BY <1>0, <1>5, <1>6, <1>7

LEMMA AmongIs ==
    ASSUME NEW S, NEW list \in Seq(S), NEW T
    PROVE  /\ Among(list, T) \in Seq(S)
           /\ ToSet(Among(list, T)) = ToSet(list) \cap T
           /\ IsInjective(list) => IsInjective(Among(list, T))
<1>1. Among(list, T) = Others(list, ToSet(list) \ T)
  BY DEF Among, Others, ToSet
<1> QED
  BY <1>1, OthersIs

LEMMA OthersLen ==
    ASSUME NEW S, NEW list \in Seq(S), IsInjective(list), NEW v
    PROVE  Len(Others(list, {v})) = IF v \in ToSet(list) THEN Len(list) - 1 ELSE Len(list)
<1> DEFINE keep == {i \in DOMAIN list : list[i] \notin {v}}
           g == Kept(list, keep)
<1>0. Len(list) \in Nat /\ DOMAIN list = 1..Len(list) /\ Others(list, {v}) = g
  BY DEF Others
<1>1. KeptSoFar(list, keep, Len(list), g)
  BY <1>0, KeptAll
<1>2. \A i \in 1..Len(list) : i \in keep <=> list[i] # v
  BY <1>0
<1> HIDE DEF keep, g
<1>3. CASE v \notin ToSet(list)
  <2>1. \A i \in 1..Len(list) : i \in keep
    BY <1>0, <1>2, <1>3 DEF ToSet
  <2>2. (\A i \in 1..Len(list) : i \in keep) => Len(g) = Len(list)
    BY <1>1 DEF KeptSoFar
  <2> QED
    BY <1>0, <1>3, <2>1, <2>2
<1>4. CASE v \in ToSet(list)
  <2>1. PICK p \in 1..Len(list) : list[p] = v
    BY <1>0, <1>4 DEF ToSet
  <2>2. \A i \in 1..Len(list) : i \in keep <=> i # p
    BY <1>0, <1>2, <2>1 DEF IsInjective
  <2>3. (\A i \in 1..Len(list) : i \in keep <=> i # p) => Len(g) = Len(list) - 1
    BY <1>1, <2>1 DEF KeptSoFar
  <2> QED
    BY <1>0, <1>4, <2>2, <2>3
<1> QED
  BY <1>3, <1>4

LEMMA ConcatIs ==
    ASSUME NEW S, NEW p \in Seq(S), NEW q \in Seq(S)
    PROVE  /\ p \o q \in Seq(S) /\ ToSet(p \o q) = ToSet(p) \cup ToSet(q)
           /\ IsInjective(p) /\ IsInjective(q) /\ ToSet(p) \cap ToSet(q) = {}
                 => IsInjective(p \o q)
<1>1. /\ p \o q \in Seq(S) /\ Len(p \o q) = Len(p) + Len(q) /\ Len(p) \in Nat /\ Len(q) \in Nat
      /\ DOMAIN p = 1..Len(p) /\ DOMAIN q = 1..Len(q) /\ DOMAIN (p \o q) = 1..Len(p \o q)
  OBVIOUS
<1>2. \A i \in 1..Len(p) : (p \o q)[i] = p[i]
  BY <1>1
<1>3. \A i \in 1..Len(q) : (p \o q)[Len(p) + i] = q[i]
  BY <1>1
<1>4. ASSUME NEW i \in 1..Len(p \o q)
      PROVE  i \in 1..Len(p) \/ (i - Len(p) \in 1..Len(q) /\ i = Len(p) + (i - Len(p)))
  BY <1>1
<1>5. ToSet(p \o q) = ToSet(p) \cup ToSet(q)
  <2>1. ASSUME NEW i \in 1..Len(p \o q)  PROVE (p \o q)[i] \in ToSet(p) \cup ToSet(q)
    BY <1>1, <1>2, <1>3, <1>4 DEF ToSet
  <2>2. ASSUME NEW i \in 1..Len(p)  PROVE p[i] \in ToSet(p \o q)
    <3>1. i \in 1..Len(p \o q)
      BY <1>1
    <3> QED
      BY <1>1, <1>2, <3>1 DEF ToSet
  <2>3. ASSUME NEW i \in 1..Len(q)  PROVE q[i] \in ToSet(p \o q)
    <3>1. Len(p) + i \in 1..Len(p \o q)
      BY <1>1
    <3> QED
      BY <1>1, <1>3, <3>1 DEF ToSet
  <2> QED
    BY <1>1, <2>1, <2>2, <2>3 DEF ToSet
<1>6. ASSUME IsInjective(p), IsInjective(q), ToSet(p) \cap ToSet(q) = {}
      PROVE  IsInjective(p \o q)
  <2> SUFFICES ASSUME NEW i \in 1..Len(p \o q), NEW k \in 1..Len(p \o q), (p \o q)[i] = (p \o q)[k]
               PROVE  i = k
    BY <1>1 DEF IsInjective
  <2>1. \A m \in 1..Len(p), l \in 1..Len(q) : p[m] # q[l]
    BY <1>1, <1>6 DEF ToSet
  <2>2. CASE i \in 1..Len(p) /\ k \in 1..Len(p)
    BY <1>1, <1>2, <1>6, <2>2 DEF IsInjective
  <2>3. CASE i \notin 1..Len(p) /\ k \notin 1..Len(p)
    <3>1. i - Len(p) \in 1..Len(q) /\ k - Len(p) \in 1..Len(q)
      BY <1>4, <2>3
    <3>2. q[i - Len(p)] = q[k - Len(p)]
      BY <1>3, <1>4, <2>3, <3>1
    <3>3. i - Len(p) = k - Len(p)
      BY <1>1, <1>6, <3>1, <3>2 DEF IsInjective
    <3> QED
      BY <1>1, <3>3
  <2>4. CASE i \in 1..Len(p) /\ k \notin 1..Len(p)
    BY <1>2, <1>3, <1>4, <2>1, <2>4
  <2>5. CASE i \notin 1..Len(p) /\ k \in 1..Len(p)
    BY <1>2, <1>3, <1>4, <2>1, <2>5
  <2> QED
    BY <2>2, <2>3, <2>4, <2>5
<1> QED
  BY <1>1, <1>5, <1>6

LEMMA ReorderedIs ==
    ASSUME NEW S, NEW list \in Seq(S), NEW given \in Seq(S), IsInjective(list), IsInjective(given)
    PROVE  /\ Reordered(list, given) \in Seq(S) /\ IsInjective(Reordered(list, given))
           /\ ToSet(Reordered(list, given)) = ToSet(list)
<1> DEFINE p == Among(given, ToSet(list))
           q == Others(list, ToSet(given))
<1>1. /\ p \in Seq(S) /\ ToSet(p) = ToSet(given) \cap ToSet(list) /\ IsInjective(p)
      /\ q \in Seq(S) /\ ToSet(q) = ToSet(list) \ ToSet(given) /\ IsInjective(q)
  BY AmongIs, OthersIs
<1>2. Reordered(list, given) = p \o q
  BY DEF Reordered
<1> HIDE DEF p, q
<1>3. ToSet(p) \cap ToSet(q) = {} /\ ToSet(p) \cup ToSet(q) = ToSet(list)
  BY <1>1
<1>4. /\ p \o q \in Seq(S) /\ ToSet(p \o q) = ToSet(p) \cup ToSet(q)
      /\ IsInjective(p) /\ IsInjective(q) /\ ToSet(p) \cap ToSet(q) = {}
            => IsInjective(p \o q)
  BY <1>1, ConcatIs
<1> QED
  BY <1>1, <1>2, <1>3, <1>4

\* A part of a list.
LEMMA PartIs ==
    ASSUME NEW S, NEW s \in Seq(S), NEW a \in 1..(Len(s) + 1), NEW b \in 0..Len(s), a <= b + 1
    PROVE  /\ SubSeq(s, a, b) \in Seq(S)
           /\ ToSet(SubSeq(s, a, b)) = {s[i] : i \in a..b}
           /\ IsInjective(s) => IsInjective(SubSeq(s, a, b))
<1> DEFINE g == SubSeq(s, a, b)
<1>1. Len(s) \in Nat /\ DOMAIN s = 1..Len(s) /\ a..b \subseteq 1..Len(s)
  OBVIOUS
<1>2. g \in Seq(S) /\ Len(g) = b - a + 1
  OBVIOUS
<1>3. \A i \in 1..Len(g) : g[i] = s[a + i - 1]
  BY <1>2
<1> HIDE DEF g
<1>4. DOMAIN g = 1..Len(g) /\ Len(g) \in Nat
  BY <1>2
<1>5. \A i \in 1..Len(g) : a + i - 1 \in a..b
  BY <1>2
<1>6. \A i \in a..b : i - a + 1 \in 1..Len(g) /\ g[i - a + 1] = s[i]
  <2> TAKE i \in a..b
  <2>1. i - a + 1 \in 1..Len(g) /\ a + (i - a + 1) - 1 = i
    BY <1>2
  <2> QED
    BY <1>3, <2>1
<1>7. ToSet(g) = {s[i] : i \in a..b}
  <2>1. \A i \in 1..Len(g) : g[i] \in {s[k] : k \in a..b}
    BY <1>3, <1>5
  <2>2. \A i \in a..b : s[i] \in ToSet(g)
    BY <1>4, <1>6 DEF ToSet
  <2> QED
    BY <1>4, <2>1, <2>2 DEF ToSet
<1>8. IsInjective(s) => IsInjective(g)
  <2> SUFFICES ASSUME IsInjective(s), NEW i \in 1..Len(g), NEW k \in 1..Len(g), g[i] = g[k]
               PROVE  i = k
    BY <1>4 DEF IsInjective
  <2>1. a + i - 1 = a + k - 1
    BY <1>1, <1>3, <1>5 DEF IsInjective
  <2> QED
    BY <1>4, <2>1
<1> QED
  BY <1>2, <1>7, <1>8 DEF g

LEMMA RemovedIs ==
    ASSUME NEW S, NEW s \in Seq(S), NEW n \in 1..Len(s)
    PROVE  RemoveAt(s, n) \in Seq(S)
<1>1. Len(s) \in Nat /\ n - 1 \in 0..Len(s) /\ n + 1 \in 1..(Len(s) + 1) /\ 1 \in 1..(Len(s) + 1)
  OBVIOUS
<1>2. SubSeq(s, 1, n - 1) \in Seq(S)
  BY <1>1, PartIs
<1>3. SubSeq(s, n + 1, Len(s)) \in Seq(S)
  BY <1>1, PartIs
<1> QED
  BY <1>2, <1>3 DEF RemoveAt

LEMMA InsertedIs ==
    ASSUME NEW S, NEW s \in Seq(S), NEW n \in 1..(Len(s) + 1), NEW e \in S
    PROVE  /\ InsertAt(s, n, e) \in Seq(S) /\ ToSet(InsertAt(s, n, e)) = ToSet(s) \cup {e}
           /\ IsInjective(s) /\ e \notin ToSet(s) => IsInjective(InsertAt(s, n, e))
<1> DEFINE p == SubSeq(s, 1, n - 1)
           q == SubSeq(s, n, Len(s))
<1>1. Len(s) \in Nat /\ DOMAIN s = 1..Len(s) /\ n - 1 \in 0..Len(s) /\ 1 \in 1..(Len(s) + 1)
  OBVIOUS
<1>2. /\ p \in Seq(S) /\ ToSet(p) = {s[i] : i \in 1..(n - 1)}
      /\ IsInjective(s) => IsInjective(p)
  BY <1>1, PartIs
<1>3. /\ q \in Seq(S) /\ ToSet(q) = {s[i] : i \in n..Len(s)}
      /\ IsInjective(s) => IsInjective(q)
  BY <1>1, PartIs
<1>4. /\ <<e>> \in Seq(S) /\ ToSet(<<e>>) = {e} /\ IsInjective(<<e>>)
  <2>1. <<e>> \in Seq(S) /\ DOMAIN <<e>> = {1} /\ <<e>>[1] = e
    OBVIOUS
  <2> QED
    BY <2>1 DEF ToSet, IsInjective
<1>5. InsertAt(s, n, e) = (p \o <<e>>) \o q
  BY DEF InsertAt
<1> HIDE DEF p, q
<1>6. ToSet(p) \cup ToSet(q) = ToSet(s)
  <2>1. ToSet(s) = {s[i] : i \in 1..Len(s)}
    BY <1>1 DEF ToSet
  <2>2. \A i : i \in 1..Len(s) <=> i \in 1..(n - 1) \/ i \in n..Len(s)
    BY <1>1
  <2>3. ToSet(p) \cup ToSet(q) \subseteq ToSet(s)
    BY <1>2, <1>3, <2>1, <2>2
  <2>4. ToSet(s) \subseteq ToSet(p) \cup ToSet(q)
    BY <1>2, <1>3, <2>1, <2>2
  <2> QED
    BY <2>3, <2>4
<1>7. IsInjective(s) => ToSet(p) \cap ToSet(q) = {}
  BY <1>1, <1>2, <1>3 DEF IsInjective
<1>8. /\ p \o <<e>> \in Seq(S) /\ ToSet(p \o <<e>>) = ToSet(p) \cup {e}
      /\ IsInjective(p) /\ e \notin ToSet(p) => IsInjective(p \o <<e>>)
  <2>1. e \notin ToSet(p) => ToSet(p) \cap ToSet(<<e>>) = {}
    BY <1>4
  <2> QED
    BY <1>2, <1>4, <2>1, ConcatIs
<1> DEFINE r == p \o <<e>>
<1> HIDE DEF r
<1>9. /\ r \o q \in Seq(S) /\ ToSet(r \o q) = ToSet(r) \cup ToSet(q)
      /\ IsInjective(r) /\ IsInjective(q) /\ ToSet(r) \cap ToSet(q) = {}
            => IsInjective(r \o q)
  <2>1. r \in Seq(S)
    BY <1>8 DEF r
  <2> QED
    BY <1>3, <2>1, ConcatIs
<1>10. ASSUME IsInjective(s), e \notin ToSet(s)
       PROVE  IsInjective(r \o q)
  <2>1. IsInjective(p) /\ e \notin ToSet(p) /\ IsInjective(q) /\ e \notin ToSet(q)
    BY <1>2, <1>3, <1>6, <1>10
  <2>2. ToSet(p \o <<e>>) \cap ToSet(q) = {}
    BY <1>7, <1>8, <1>10, <2>1
  <2> QED
    BY <1>8, <1>9, <2>1, <2>2 DEF r
<1>11. ToSet(r \o q) = ToSet(s) \cup {e}
  BY <1>6, <1>8, <1>9 DEF r
<1>12. InsertAt(s, n, e) = r \o q
  BY <1>5 DEF r
<1> QED
  BY <1>9, <1>10, <1>11, <1>12

LEMMA UptoIs ==
    ASSUME NEW n \in Nat
    PROVE  /\ IsFiniteSet(1..n) /\ Cardinality(1..n) = n
           /\ IsFiniteSet(0..(n - 1)) /\ Cardinality(0..(n - 1)) = n
<1>1. 1 \in Int /\ 0 \in Int /\ n \in Int /\ n - 1 \in Int
  OBVIOUS
<1>2. /\ IsFiniteSet(1..n)
      /\ Cardinality(1..n) = IF 1 > n THEN 0 ELSE n - 1 + 1
  BY <1>1, FS_Interval
<1>3. /\ IsFiniteSet(0..(n - 1))
      /\ Cardinality(0..(n - 1)) = IF 0 > n - 1 THEN 0 ELSE (n - 1) - 0 + 1
  BY <1>1, FS_Interval
<1> QED
  BY <1>2, <1>3

LEMMA PlaceIs ==
    ASSUME NEW S, NEW list \in Seq(S), NEW v
    PROVE  /\ Place(list, v) \in 0..Len(list)
           /\ v \in ToSet(list) => /\ Place(list, v) < Len(list)
                                   /\ list[Place(list, v) + 1] = v
           /\ v \notin ToSet(list) => Place(list, v) = Len(list)
<1> DEFINE P == {i \in DOMAIN list : \A j \in 1..i : list[j] # v}
<1>1. Len(list) \in Nat /\ DOMAIN list = 1..Len(list) /\ Place(list, v) = Cardinality(P)
  BY DEF Place
<1>2. CASE v \notin ToSet(list)
  <2>1. P = 1..Len(list)
    BY <1>1, <1>2 DEF ToSet
  <2>2. Cardinality(1..Len(list)) = Len(list)
    BY <1>1, UptoIs
  <2>3. Place(list, v) = Len(list)
    BY <1>1, <2>1, <2>2
  <2> QED
    BY <1>1, <1>2, <2>3
<1>3. CASE v \in ToSet(list)
  <2> DEFINE T == {i \in 1..Len(list) : list[i] = v}
  <2>1. T # {} /\ T \in SUBSET Nat
    BY <1>1, <1>3 DEF ToSet
  <2>2. PICK p \in T : \A m \in T : ~ (m < p)
    BY <2>1, Least
  <2>3. p \in 1..Len(list) /\ list[p] = v /\ \A m \in 1..Len(list) : m < p => list[m] # v
    BY <2>2
  <2>4. P = 1..(p - 1)
    BY <1>1, <2>3
  <2>5. Cardinality(1..(p - 1)) = p - 1
    <3>1. p - 1 \in Nat
      BY <2>3
    <3> QED
      BY <3>1, UptoIs
  <2>6. Place(list, v) = p - 1
    BY <1>1, <2>4, <2>5
  <2> QED
    BY <1>1, <1>3, <2>3, <2>6
<1> QED
  BY <1>2, <1>3

\* save_view_profile: the view is listed once, with the others.
LEMMA PlacedIs ==
    ASSUME NEW list, list \in Seq(View), IsInjective(list), NEW v, v \in View, NEW order,
           order \in Nat
    PROVE  /\ Placed(list, v, order) \in Seq(View) /\ IsInjective(Placed(list, v, order))
           /\ ToSet(Placed(list, v, order)) = ToSet(list) \cup {v}
<1> DEFINE was == Place(list, v)
           before == {i \in 0..(Len(list) - 1) :
                        i # was /\ (i < order \/ (i = order /\ i < was))}
           rest == Others(list, {v})
<1>1. Len(list) \in Nat /\ was \in 0..Len(list)
  BY PlaceIs
<1>2. Placed(list, v, order) = InsertAt(rest, Cardinality(before) + 1, v)
  BY DEF Placed
<1>3. /\ rest \in Seq(View) /\ ToSet(rest) = ToSet(list) \ {v} /\ IsInjective(rest)
      /\ Len(rest) = IF v \in ToSet(list) THEN Len(list) - 1 ELSE Len(list)
  BY OthersIs, OthersLen
<1>4. was < Len(list) <=> v \in ToSet(list)
  BY <1>1, PlaceIs
<1> DEFINE all == 0..(Len(list) - 1)
<1>5. IsFiniteSet(all) /\ Cardinality(all) = Len(list)
  BY <1>1, UptoIs
<1>6. Cardinality(before) \in 0..Len(rest)
  <2>1. before \subseteq all \ {was}
    OBVIOUS
  <2>2. /\ IsFiniteSet(all \ {was})
        /\ Cardinality(all \ {was}) = IF was \in all THEN Len(list) - 1 ELSE Len(list)
    BY <1>5, FS_RemoveElement
  <2>3. was \in all <=> v \in ToSet(list)
    BY <1>1, <1>4
  <2> HIDE DEF before, all, was, rest
  <2>4. IsFiniteSet(before) /\ Cardinality(before) <= Cardinality(all \ {was})
    BY <2>1, <2>2, FS_Subset
  <2>5. Cardinality(before) \in Nat
    BY <2>4, FS_CardinalityType
  <2> QED
    BY <1>1, <1>3, <2>2, <2>3, <2>4, <2>5
<1> HIDE DEF before, rest
<1>7. Cardinality(before) + 1 \in 1..(Len(rest) + 1)
  BY <1>3, <1>6
<1>8. v \notin ToSet(rest) /\ ToSet(rest) \cup {v} = ToSet(list) \cup {v}
  BY <1>3
<1> QED
  BY <1>2, <1>3, <1>7, <1>8, InsertedIs

\* Two neighbours change places.
LEMMA SwappedIs ==
    ASSUME NEW S, NEW list \in Seq(S), NEW a \in DOMAIN list, NEW b \in DOMAIN list
    PROVE  /\ [list EXCEPT ![a] = list[b], ![b] = list[a]] \in Seq(S)
           /\ IsInjective(list) => IsInjective([list EXCEPT ![a] = list[b], ![b] = list[a]])
<1> DEFINE g == [list EXCEPT ![a] = list[b], ![b] = list[a]]
<1>1. g \in Seq(S) /\ DOMAIN g = DOMAIN list
  OBVIOUS
<1>2. \A i \in DOMAIN list : g[i] = IF i = b THEN list[a] ELSE IF i = a THEN list[b] ELSE list[i]
  OBVIOUS
<1> HIDE DEF g
<1>3. IsInjective(list) => IsInjective(g)
  BY <1>1, <1>2 DEF IsInjective
<1> QED
  BY <1>1, <1>3 DEF g

LEMMA OrFirstIs ==
    ASSUME NEW S, NEW list \in Seq(S), NEW prev \in S \cup {NoId}
    PROVE  OrFirst(list, prev) \in S \cup {NoId}
BY DEF OrFirst

-----------------------------------------------------------------------------
(* The invariant                                                           *)

\* What a command sets of a host; the lists of ids; what is under way.
Setting == UNION {[F -> BOOLEAN] : F \in SUBSET Field}
ListOf(S) == {s \in Seq(S) : IsInjective(s)}
Row == [line : Nat \ {0}, key : HostKey]

HostCommand ==
    [is : {"saveHost", "deleteHost"}, alias : SavedHost, store : Metadata, set : Setting]
FactsCommand ==
    {c \in [is : {"saveMetadata"}, alias : SavedHost \cup {AnyHost}, store : Metadata,
            set : Setting, after : {"nothing", "load"}] :
        c.alias \in SavedHost \/ DOMAIN c.set = {}}
ViewCommand ==
    [is : {"saveView"}, id : View, order : Nat] \cup [is : {"deleteView"}, id : View]
    \cup [is : {"reorderViews"}, ids : ListOf(View)]
LayoutCommand ==
    [is : {"saveLayout", "deleteLayout"}, id : Layout]
    \cup [is : {"listLayouts"}, select : Layout \cup {NoId}]
LineCommand ==
    [is : {"listLines"}] \cup [is : {"removeLine"}, line : Nat \ {0}]
PlainCommand ==
    [is : {"load"}, view : View \cup {NoId, "as before"}]
    \cup [is : {"savePreferences"}, timeout : Nat] \cup [is : {"setSshDir"}, to : SshDir]
    \cup [is : {"importBackup"}]
Command ==
    UNION {HostCommand, FactsCommand, ViewCommand, LayoutCommand, LineCommand, PlainCommand}

Reading ==
    [is : {"all"}, metadata : Metadata, views : ListOf(View), layouts : ListOf(Layout),
     timeout : MinTimeout..MaxTimeout, view : View \cup {NoId, "as before"}]

\* The commands the user waits for, and what the queue must allow.
AwaitedIn(q) == {q[i] : i \in DOMAIN q}
OneIn(q) == \A i, j \in DOMAIN q : i = j
CallsOK(q, b) ==
    q \in Seq(Command) /\ \A i \in DOMAIN q : q[i].is = "importBackup" => b \in Metadata

Pending == AwaitedIn(queued)
Awaits(what) == \E c \in Pending : c.is \in what

StoredFiles ==
    /\ dir \in SshDir
    /\ metadata \in [SshDir -> Metadata]
    /\ backup = NoBackup \/ backup \in Metadata
    /\ views \in [SshDir -> ListOf(View)] /\ layouts \in [SshDir -> ListOf(Layout)]
    /\ lines \in [SshDir -> Seq(HostKey \cup {Comment})]
    /\ prefs \in [SshDir -> MinTimeout..MaxTimeout]
    /\ prefsCache = prefs[dir]

StoredWindow ==
    /\ metadataStore \in Metadata /\ hostTabUser \in DefaultUser
    /\ viewProfiles \in ListOf(View) /\ layoutProfiles \in ListOf(Layout)
    /\ appPreferences \in MinTimeout..MaxTimeout
    /\ selectedView \in View \cup {NoId}
    /\ selectedLayout \in Layout \cup {NoId} /\ pendingDelete \in Layout \cup {NoId}
    /\ shownLines = NotShown \/ shownLines \in SUBSET Row

StoredCalls ==
    /\ CallsOK(queued, backup) /\ read \in {NotRead} \cup Reading
    /\ changes \in 0..MaxChanges /\ starts \in 0..MaxStarts

StoredHistory ==
    /\ chosen \in [SshDir -> [SavedHost -> [Choice -> BOOLEAN]]]
    /\ doubtful \subseteq SshDir \X SavedHost \X Field
    /\ kept \in [SshDir -> [views : SUBSET View, layouts : SUBSET Layout]]
    /\ \A d \in SshDir :
         ToSet(views[d]) = kept[d].views /\ ToSet(layouts[d]) = kept[d].layouts

StoredInv == StoredFiles /\ StoredWindow /\ StoredCalls /\ StoredHistory

\* The touches, which nobody waits for.
TouchesKnown ==
    /\ touches \in [1..MaxStarts -> [at : {"none", "loads", "saves"},
                                     alias : SavedHost \cup {AnyHost}, store : Metadata]]
    /\ \A i \in 1..MaxStarts : touches[i].at # "none" => touches[i].alias \in SavedHost

\* With a user who waits: one command at a time, and none while load() goes on.
OneAwaited ==
    /\ OneIn(queued)
    /\ read # NotRead => Pending = {}

\* Choices but for what a command under way sets.
HoldsBut(store, d, a, set) ==
    \A h \in SavedHost, f \in Choice :
        IF h = a /\ f \in DOMAIN set THEN store.hosts[h][f] = set[f]
        ELSE store.hosts[h][f] = chosen[d][h][f] \/ <<d, h, f>> \in doubtful

ChoicesKept ==
    /\ \A d \in SshDir : HoldsChoices(metadata[d], d)
    /\ read = NotRead /\ ~Awaits({"load", "saveMetadata"}) => HoldsChoices(metadataStore, dir)
    /\ read # NotRead => HoldsChoices(read.metadata, dir)
    /\ \A c \in Pending :
         /\ c.is = "saveMetadata" => /\ HoldsBut(c.store, dir, c.alias, c.set)
                                     /\ HoldsBut(metadataStore, dir, c.alias, c.set)
         /\ c.is \in {"saveHost", "deleteHost"} => HoldsChoices(c.store, dir)

\* The window shows the files, until a command under way shows them anew.
WindowAgrees ==
    /\ read = NotRead /\ ~Awaits({"load"}) =>
          viewProfiles = views[dir] /\ appPreferences = prefsCache
    /\ read = NotRead /\ ~Awaits({"load", "listLayouts"}) => layoutProfiles = layouts[dir]
    /\ read # NotRead =>
          read.views = views[dir] /\ read.layouts = layouts[dir] /\ read.timeout = prefsCache

PatientInv == OneAwaited /\ ChoicesKept /\ WindowAgrees

-----------------------------------------------------------------------------
LEMMA SettingFields ==
    ASSUME NEW set \in Setting
    PROVE  DOMAIN set \subseteq Field /\ \A f \in DOMAIN set : set[f] \in BOOLEAN
<1>1. PICK F \in SUBSET Field : set \in [F -> BOOLEAN]
  BY DEF Setting
<1> QED
  BY <1>1

LEMMA StoreFields ==
    ASSUME NEW m \in Metadata
    PROVE  /\ m.user \in DefaultUser /\ m.hosts \in [SavedHost -> Facts]
           /\ m = [user |-> m.user, hosts |-> m.hosts]
           /\ \A h \in SavedHost, f \in Field : m.hosts[h][f] \in BOOLEAN
BY DEF Metadata, Facts

LEMMA OverlaidIs ==
    ASSUME NEW D, NEW facts \in [D -> BOOLEAN], NEW set \in Setting
    PROVE  /\ Overlaid(facts, set) \in [D -> BOOLEAN]
           /\ \A f \in D : Overlaid(facts, set)[f] =
                              IF f \in DOMAIN set THEN set[f] ELSE facts[f]
BY SettingFields DEF Overlaid

LEMMA WithIs ==
    ASSUME NEW store \in Metadata, NEW a \in SavedHost, NEW set \in Setting
    PROVE  /\ With(store, a, set) \in Metadata /\ With(store, a, set).user = store.user
           /\ \A h \in SavedHost, f \in Field :
                 With(store, a, set).hosts[h][f] =
                    IF h = a /\ f \in DOMAIN set THEN set[f] ELSE store.hosts[h][f]
<1> DEFINE new == Overlaid(store.hosts[a], set)
<1>1. store.hosts \in [SavedHost -> Facts] /\ store.hosts[a] \in [Field -> BOOLEAN]
  BY StoreFields DEF Facts
<1>2. /\ new \in [Field -> BOOLEAN]
      /\ \A f \in Field : new[f] = IF f \in DOMAIN set THEN set[f] ELSE store.hosts[a][f]
  BY <1>1, OverlaidIs
<1>3. With(store, a, set) = [store EXCEPT !.hosts[a] = new]
  BY DEF With
<1> HIDE DEF new
<1>4. [store EXCEPT !.hosts[a] = new] =
        [user |-> store.user, hosts |-> [store.hosts EXCEPT ![a] = new]]
  BY DEF Metadata
<1>5. [store.hosts EXCEPT ![a] = new] \in [SavedHost -> Facts]
  BY <1>1, <1>2 DEF Facts
<1>6. With(store, a, set) \in Metadata
  BY <1>3, <1>4, <1>5, StoreFields DEF Metadata
<1>7. ASSUME NEW h \in SavedHost
      PROVE  With(store, a, set).hosts[h] = IF h = a THEN new ELSE store.hosts[h]
  BY <1>1, <1>3, <1>4
<1> QED
  BY <1>2, <1>3, <1>4, <1>6, <1>7

LEMMA ListFields ==
    ASSUME NEW S, NEW s \in ListOf(S)
    PROVE  s \in Seq(S) /\ IsInjective(s) /\ ToSet(s) \in SUBSET S
<1>1. s \in Seq(S) /\ IsInjective(s)
  BY DEF ListOf
<1>2. \A i \in DOMAIN s : s[i] \in S
  BY <1>1
<1> QED
  BY <1>1, <1>2 DEF ToSet

LEMMA CommandFields ==
    ASSUME NEW c \in Command
    PROVE  /\ c.is \in {"saveHost", "deleteHost"} =>
                c.alias \in SavedHost /\ c.store \in Metadata /\ c.set \in Setting
           /\ c.is = "saveMetadata" =>
                /\ c.alias \in SavedHost \/ DOMAIN c.set = {}
                /\ c.store \in Metadata /\ c.set \in Setting
                /\ c.after \in {"nothing", "load"}
           /\ c.is = "saveView" => c.id \in View /\ c.order \in Nat
           /\ c.is = "deleteView" => c.id \in View
           /\ c.is = "reorderViews" => c.ids \in ListOf(View)
           /\ c.is \in {"saveLayout", "deleteLayout"} => c.id \in Layout
           /\ c.is = "listLayouts" => c.select \in Layout \cup {NoId}
           /\ c.is = "removeLine" => c.line \in Nat \ {0}
           /\ c.is = "load" => c.view \in View \cup {NoId, "as before"}
           /\ c.is = "savePreferences" => c.timeout \in Nat
           /\ c.is = "setSshDir" => c.to \in SshDir
<1>1. CASE c \in HostCommand
  BY <1>1 DEF HostCommand
<1>2. CASE c \in FactsCommand
  BY <1>2 DEF FactsCommand
<1>3. CASE c \in ViewCommand
  BY <1>3 DEF ViewCommand
<1>4. CASE c \in LayoutCommand
  BY <1>4 DEF LayoutCommand
<1>5. CASE c \in LineCommand
  BY <1>5 DEF LineCommand
<1>6. CASE c \in PlainCommand
  BY <1>6 DEF PlainCommand
<1> QED
  BY <1>1, <1>2, <1>3, <1>4, <1>5, <1>6 DEF Command

LEMMA SaveOfIs ==
    ASSUME NEW store \in Metadata, NEW a \in SavedHost, NEW set \in Setting,
           NEW after \in {"nothing", "load"}
    PROVE  /\ SaveOf(store, a, set, after) \in Command
           /\ SaveOf(store, a, set, after).is = "saveMetadata"
           /\ SaveOf(store, a, set, after).store = store
           /\ SaveOf(store, a, set, after).alias = a
           /\ SaveOf(store, a, set, after).set = set
           /\ SaveOf(store, a, set, after).after = after
<1>1. SaveOf(store, a, set, after) \in FactsCommand
  BY DEF SaveOf, FactsCommand
<1> QED
  BY <1>1 DEF SaveOf, Command

LEMMA LoadNextIs ==
    ASSUME NEW view \in View \cup {NoId, "as before"}
    PROVE  LoadNext(view) \in Command /\ LoadNext(view).is = "load"
<1>1. LoadNext(view) \in PlainCommand
  BY DEF LoadNext, PlainCommand
<1> QED
  BY <1>1 DEF LoadNext, Command

LEMMA ListLayoutsIs ==
    ASSUME NEW select \in Layout \cup {NoId}
    PROVE  /\ [is |-> "listLayouts", select |-> select] \in Command
           /\ [is |-> "listLayouts", select |-> select].is = "listLayouts"
BY DEF Command, LayoutCommand

LEMMA ListLinesIs == [is |-> "listLines"] \in Command /\ [is |-> "listLines"].is = "listLines"
BY DEF Command, LineCommand

LEMMA ReadingFields ==
    ASSUME NEW r \in Reading
    PROVE  /\ r.metadata \in Metadata /\ r.views \in ListOf(View) /\ r.layouts \in ListOf(Layout)
           /\ r.timeout \in MinTimeout..MaxTimeout /\ r.view \in View \cup {NoId, "as before"}
BY DEF Reading

-----------------------------------------------------------------------------
(* The queue                                                               *)

LEMMA SentOK ==
    ASSUME NEW q, NEW b, CallsOK(q, b), NEW c \in Command,
           c.is = "importBackup" => b \in Metadata
    PROVE  CallsOK(Append(q, c), b)
<1>1. /\ Append(q, c) \in Seq(Command) /\ Len(q) \in Nat /\ DOMAIN q = 1..Len(q)
      /\ DOMAIN Append(q, c) = 1..(Len(q) + 1) /\ Append(q, c)[Len(q) + 1] = c
      /\ \A i \in 1..Len(q) : Append(q, c)[i] = q[i]
  BY DEF CallsOK
<1>2. \A i \in 1..(Len(q) + 1) : i \in 1..Len(q) \/ i = Len(q) + 1
  BY <1>1
<1> QED
  BY <1>1, <1>2 DEF CallsOK

LEMMA EndedOK ==
    ASSUME NEW q, NEW b, CallsOK(q, b), q # <<>>
    PROVE  /\ Head(q) \in Command /\ CallsOK(Tail(q), b)
           /\ Head(q).is = "importBackup" => b \in Metadata
<1>1. /\ Head(q) \in Command /\ Tail(q) \in Seq(Command) /\ Head(q) = q[1] /\ 1 \in DOMAIN q
      /\ \A i \in DOMAIN Tail(q) : i + 1 \in DOMAIN q /\ Tail(q)[i] = q[i + 1]
  BY DEF CallsOK
<1> QED
  BY <1>1 DEF CallsOK

LEMMA SentAwaited ==
    ASSUME NEW q \in Seq(Command), NEW c \in Command, AwaitedIn(q) = {}
    PROVE  AwaitedIn(Append(q, c)) = {c} /\ OneIn(Append(q, c))
<1>1. /\ Len(q) \in Nat /\ DOMAIN q = 1..Len(q)
      /\ DOMAIN Append(q, c) = 1..(Len(q) + 1) /\ Append(q, c)[Len(q) + 1] = c
  OBVIOUS
<1>2. Len(q) = 0
  <2>1. \A i \in DOMAIN q : q[i] \in AwaitedIn(q)
    BY DEF AwaitedIn
  <2>2. 1 \notin 1..Len(q)
    BY <1>1, <2>1
  <2> QED
    BY <1>1, <2>2
<1> QED
  BY <1>1, <1>2 DEF AwaitedIn, OneIn

LEMMA EndedAwaited ==
    ASSUME NEW q \in Seq(Command), q # <<>>, OneIn(q)
    PROVE  /\ OneIn(Tail(q)) /\ Tail(q) \in Seq(Command)
           /\ AwaitedIn(q) = {Head(q)} /\ AwaitedIn(Tail(q)) = {}
<1>1. /\ Tail(q) \in Seq(Command) /\ Head(q) = q[1] /\ 1 \in DOMAIN q /\ Len(q) \in Nat
      /\ DOMAIN q = 1..Len(q) /\ DOMAIN Tail(q) = 1..(Len(q) - 1)
  OBVIOUS
<1>2. Len(q) = 1
  BY <1>1 DEF OneIn
<1> QED
  BY <1>1, <1>2 DEF OneIn, AwaitedIn

-----------------------------------------------------------------------------
(* Types                                                                   *)

LEMMA StoredStart == StoredInit => StoredInv
<1> SUFFICES ASSUME StoredInit PROVE StoredInv
  OBVIOUS
<1> USE SettingsAssumption
<1>1. NoMetadata \in Metadata
  BY DEF NoMetadata, Metadata, DefaultFacts, Facts
<1>2. FirstViews \in ListOf(View)
  BY DEF ListOf
<1>3. /\ <<>> \in ListOf(Layout) /\ ToSet(<<>>) = {}
      /\ <<>> \in Seq(Command) /\ DOMAIN <<>> = {}
  BY DEF ListOf, IsInjective, ToSet
<1>4. MinTimeout \in MinTimeout..MaxTimeout
  OBVIOUS
<1>5. OrFirst(FirstViews, NoId) \in View \cup {NoId}
  BY OrFirstIs
<1>6. StoredFiles
  BY <1>1, <1>2, <1>3, <1>4 DEF StoredInit, StoredFiles
<1>7. StoredWindow
  BY <1>1, <1>2, <1>3, <1>4, <1>5 DEF StoredInit, StoredWindow
<1>8. CallsOK(<<>>, backup)
  BY <1>3 DEF CallsOK
<1>9. StoredCalls
  BY <1>8 DEF StoredInit, StoredCalls
<1>10. StoredHistory
  <2>1. ToSet(FirstViews) \in SUBSET View
    BY DEF ToSet
  <2>2. [views |-> ToSet(FirstViews), layouts |-> {}]
           \in [views : SUBSET View, layouts : SUBSET Layout]
    BY <2>1
  <2>3. kept \in [SshDir -> [views : SUBSET View, layouts : SUBSET Layout]]
    BY <2>2 DEF StoredInit
  <2>4. \A d \in SshDir : ToSet(views[d]) = kept[d].views /\ ToSet(layouts[d]) = kept[d].layouts
    BY <1>3 DEF StoredInit
  <2>5. chosen \in [SshDir -> [SavedHost -> [Choice -> BOOLEAN]]]
    BY DEF StoredInit
  <2>6. doubtful \subseteq SshDir \X SavedHost \X Field
    BY DEF StoredInit
  <2> QED
    BY <2>3, <2>4, <2>5, <2>6 DEF StoredHistory
<1> QED
  BY <1>6, <1>7, <1>9, <1>10 DEF StoredInv

LEMMA FilesStay == StoredFiles /\ UNCHANGED onDiskVars => StoredFiles'
BY DEF StoredFiles, onDiskVars

LEMMA WindowStays == StoredWindow /\ UNCHANGED shownVars => StoredWindow'
BY DEF StoredWindow, shownVars, profileVars

LEMMA HistoryStays ==
    StoredHistory /\ UNCHANGED <<historyVars, views, layouts>> => StoredHistory'
BY DEF StoredHistory, historyVars

LEMMA CallStays ==
    StoredCalls /\ UNCHANGED <<queued, backup, read, changes, starts>> => StoredCalls'
BY DEF StoredCalls

LEMMA ChangesCount ==
    ASSUME Changes, StoredCalls
    PROVE  changes' \in 0..MaxChanges
BY SettingsAssumption DEF Changes, StoredCalls

\* A command goes to the queue.
LEMMA SendCalls ==
    ASSUME StoredCalls, NEW c \in Command, Send(c), c.is = "importBackup" => backup \in Metadata,
           backup' = backup, read' = read, changes' \in 0..MaxChanges, starts' \in 0..MaxStarts
    PROVE  StoredCalls'
<1>1. CallsOK(Append(queued, c), backup)
  BY SentOK DEF StoredCalls
<1> QED
  BY <1>1 DEF StoredCalls, Send

\* The command at the head, and the queue without it.
LEMMA HeadIs ==
    ASSUME StoredCalls, queued # <<>>
    PROVE  /\ Cmd \in Command /\ CallsOK(Tail(queued), backup)
           /\ Cmd.is = "importBackup" => backup \in Metadata
BY EndedOK DEF StoredCalls, Cmd

LEMMA FinishCalls ==
    ASSUME StoredCalls, queued # <<>>, Finished, backup' = backup, read' \in {NotRead} \cup Reading,
           changes' = changes, starts' = starts
    PROVE  StoredCalls'
BY HeadIs DEF StoredCalls, Finished

LEMMA GoOnCalls ==
    ASSUME StoredCalls, queued # <<>>, NEW c \in Command, c.is # "importBackup", GoesOn(c),
           backup' = backup, read' = read, changes' = changes, starts' = starts
    PROVE  StoredCalls'
<1>1. CallsOK(Append(Tail(queued), c), backup)
  BY HeadIs, SentOK
<1> QED
  BY <1>1 DEF StoredCalls, GoesOn

-----------------------------------------------------------------------------
(* What the user asks for                                                  *)

\* A command as a gesture sends it.
AskedOK(c) ==
    /\ c \in Command /\ c.is \notin {"saveMetadata", "load"}
    /\ c.is = "importBackup" => backup \in Metadata
    /\ c.is \in {"saveHost", "deleteHost"} => c.store.hosts = metadataStore.hosts

Asks ==
    \/ \E a \in SavedHost :
         RemoveHost(a) \/ \E jump, trusts \in BOOLEAN : SaveHostTab(a, jump, trusts)
    \/ \E v \in View : SaveView(v)
    \/ DeleteView \/ \E up \in BOOLEAN : MoveView(up)
    \/ \E l \in Layout : SaveLayout(l)
    \/ selectedLayout # NoId /\ Requests([is |-> "deleteLayout", id |-> selectedLayout])
    \/ ReloadLines \/ \E row \in shownLines : RemoveLine(row)
    \/ \E t \in 0..(MaxTimeout + 1) : SaveTimeouts(t)
    \/ \E d \in SshDir : ApplySshDir(d)
    \/ AskImport

LEMMA HostsAsked ==
    ASSUME StoredInv, NEW a \in SavedHost,
           RemoveHost(a) \/ \E jump, trusts \in BOOLEAN : SaveHostTab(a, jump, trusts)
    PROVE  \E c : AskedOK(c) /\ Requests(c)
<1>1. metadataStore \in Metadata /\ hostTabUser \in DefaultUser
  BY DEF StoredInv, StoredWindow
<1>2. CASE RemoveHost(a)
  <2> DEFINE c == [is |-> "deleteHost", alias |-> a, set |-> DefaultFacts,
                   store |-> metadataStore]
  <2>1. DefaultFacts \in Setting
    BY DEF DefaultFacts, Setting
  <2>2. c \in HostCommand
    BY <1>1, <2>1 DEF HostCommand
  <2>3. AskedOK(c)
    BY <2>2 DEF AskedOK, Command
  <2> QED
    BY <1>2, <2>3 DEF RemoveHost
<1>3. ASSUME NEW jump \in BOOLEAN, NEW trusts \in BOOLEAN, SaveHostTab(a, jump, trusts)
      PROVE  \E c : AskedOK(c) /\ Requests(c)
  <2> DEFINE set == [f \in {"jump", "trusts"} |-> IF f = "jump" THEN jump ELSE trusts]
             store == [metadataStore EXCEPT !.user = hostTabUser]
             c == [is |-> "saveHost", alias |-> a, store |-> store, set |-> set]
  <2>1. set \in Setting
    <3>1. set \in [{"jump", "trusts"} -> BOOLEAN] /\ {"jump", "trusts"} \in SUBSET Field
      BY DEF Field, Choice
    <3> HIDE DEF set
    <3> QED
      BY <3>1 DEF Setting
  <2>2. store \in Metadata /\ store.hosts = metadataStore.hosts
    BY <1>1 DEF Metadata
  <2>3. Requests(c)
    BY <1>3 DEF SaveHostTab
  <2> HIDE DEF set, store
  <2>4. c \in HostCommand
    BY <2>1, <2>2 DEF HostCommand
  <2>5. AskedOK(c)
    BY <2>2, <2>4 DEF AskedOK, Command
  <2> QED
    BY <2>3, <2>5
<1> QED
  BY <1>2, <1>3

LEMMA ViewsAsked ==
    ASSUME StoredInv,
           \/ \E v \in View : SaveView(v)
           \/ DeleteView \/ \E up \in BOOLEAN : MoveView(up)
    PROVE  \E c : AskedOK(c) /\ Requests(c)
<1>1. viewProfiles \in ListOf(View) /\ selectedView \in View \cup {NoId}
  BY DEF StoredInv, StoredWindow
<1>2. ASSUME NEW v \in View, SaveView(v)  PROVE \E c : AskedOK(c) /\ Requests(c)
  <2> DEFINE order == Place(viewProfiles, v)
             c == [is |-> "saveView", id |-> v, order |-> order]
  <2>1. order \in Nat
    <3>1. Place(viewProfiles, v) \in 0..Len(viewProfiles) /\ Len(viewProfiles) \in Nat
      BY <1>1, ListFields, PlaceIs
    <3> QED
      BY <3>1
  <2>2. Requests(c)
    BY <1>2 DEF SaveView
  <2> HIDE DEF order
  <2>3. c \in ViewCommand
    BY <2>1 DEF ViewCommand
  <2> QED
    BY <2>2, <2>3 DEF AskedOK, Command
<1>3. CASE DeleteView
  <2>1. [is |-> "deleteView", id |-> selectedView] \in ViewCommand
    BY <1>1, <1>3 DEF ViewCommand, DeleteView
  <2>2. AskedOK([is |-> "deleteView", id |-> selectedView])
    BY <2>1 DEF AskedOK, Command
  <2> QED
    BY <1>3, <2>2 DEF DeleteView
<1>4. ASSUME NEW up \in BOOLEAN, MoveView(up)  PROVE \E c : AskedOK(c) /\ Requests(c)
  <2> DEFINE here == Place(viewProfiles, selectedView) + 1
             there == IF up THEN here - 1 ELSE here + 1
             order == [viewProfiles EXCEPT ![here] = viewProfiles[there],
                                           ![there] = viewProfiles[here]]
             c == [is |-> "reorderViews", ids |-> order]
  <2>1. here \in DOMAIN viewProfiles /\ there \in DOMAIN viewProfiles /\ Requests(c)
    BY <1>4 DEF MoveView
  <2> HIDE DEF here, there
  <2>2. order \in ListOf(View)
    BY <1>1, <2>1, SwappedIs DEF ListOf
  <2> HIDE DEF order
  <2>3. c \in ViewCommand
    BY <2>2 DEF ViewCommand
  <2> QED
    BY <2>1, <2>3 DEF AskedOK, Command
<1> QED
  BY <1>2, <1>3, <1>4

LEMMA LinesAsked ==
    ASSUME StoredInv, ReloadLines \/ \E row \in shownLines : RemoveLine(row)
    PROVE  \E c : AskedOK(c) /\ Requests(c)
<1>1. CASE ReloadLines
  <2>1. AskedOK([is |-> "listLines"])
    BY <1>1, ListLinesIs DEF AskedOK, ReloadLines, TableShown
  <2> QED
    BY <1>1, <2>1 DEF ReloadLines
<1>2. ASSUME NEW row \in shownLines, RemoveLine(row)
      PROVE  \E c : AskedOK(c) /\ Requests(c)
  <2> DEFINE c == [is |-> "removeLine", line |-> row.line]
  <2>1. row \in Row
    BY <1>2 DEF RemoveLine, TableShown, StoredInv, StoredWindow
  <2>2. c \in LineCommand
    BY <2>1 DEF LineCommand, Row
  <2> QED
    BY <1>2, <2>2 DEF RemoveLine, AskedOK, Command
<1> QED
  BY <1>1, <1>2

LEMMA AsksAre ==
    ASSUME StoredInv, Asks
    PROVE  \E c : AskedOK(c) /\ Requests(c)
<1>1. ASSUME NEW l \in Layout, SaveLayout(l)  PROVE \E c : AskedOK(c) /\ Requests(c)
  <2>1. [is |-> "saveLayout", id |-> l] \in LayoutCommand
    BY DEF LayoutCommand
  <2>2. AskedOK([is |-> "saveLayout", id |-> l])
    BY <2>1 DEF AskedOK, Command
  <2> QED
    BY <1>1, <2>2 DEF SaveLayout
<1>2. CASE selectedLayout # NoId /\ Requests([is |-> "deleteLayout", id |-> selectedLayout])
  <2>1. [is |-> "deleteLayout", id |-> selectedLayout] \in LayoutCommand
    BY <1>2 DEF LayoutCommand, StoredInv, StoredWindow
  <2>2. AskedOK([is |-> "deleteLayout", id |-> selectedLayout])
    BY <2>1 DEF AskedOK, Command
  <2> QED
    BY <1>2, <2>2
<1>3. ASSUME NEW t \in 0..(MaxTimeout + 1), SaveTimeouts(t)
      PROVE  \E c : AskedOK(c) /\ Requests(c)
  <2>1. [is |-> "savePreferences", timeout |-> t] \in PlainCommand
    BY SettingsAssumption DEF PlainCommand
  <2>2. AskedOK([is |-> "savePreferences", timeout |-> t])
    BY <2>1 DEF AskedOK, Command
  <2> QED
    BY <1>3, <2>2 DEF SaveTimeouts
<1>4. ASSUME NEW d \in SshDir, ApplySshDir(d)  PROVE \E c : AskedOK(c) /\ Requests(c)
  <2>1. [is |-> "setSshDir", to |-> d] \in PlainCommand
    BY DEF PlainCommand
  <2>2. AskedOK([is |-> "setSshDir", to |-> d])
    BY <2>1 DEF AskedOK, Command
  <2> QED
    BY <1>4, <2>2 DEF ApplySshDir
<1>5. CASE AskImport
  <2>1. [is |-> "importBackup"] \in PlainCommand
    BY DEF PlainCommand
  <2>2. backup \in Metadata
    BY <1>5 DEF AskImport, StoredInv, StoredFiles
  <2>3. AskedOK([is |-> "importBackup"])
    BY <2>1, <2>2 DEF AskedOK, Command
  <2> QED
    BY <1>5, <2>3 DEF AskImport
<1> QED
  BY <1>1, <1>2, <1>3, <1>4, <1>5, HostsAsked, ViewsAsked, LinesAsked DEF Asks

LEMMA AskTypes ==
    ASSUME StoredInv, NEW c, AskedOK(c), Requests(c)
    PROVE  StoredInv'
<1>1. StoredFiles' /\ StoredWindow'
  BY FilesStay, WindowStays DEF StoredInv, Requests
<1>2. StoredHistory'
  BY HistoryStays DEF StoredInv, Requests, onDiskVars
<1>3. changes' \in 0..MaxChanges
  BY ChangesCount DEF StoredInv, Requests
<1>4. starts' \in 0..MaxStarts /\ backup' = backup /\ read' = read
  BY DEF StoredInv, StoredCalls, Requests, onDiskVars
<1>5. StoredCalls'
  BY <1>3, <1>4, SendCalls DEF StoredInv, Requests, AskedOK
<1> QED
  BY <1>1, <1>2, <1>5 DEF StoredInv


-----------------------------------------------------------------------------
(* The other gestures                                                      *)

Selects ==
    \/ \E v \in View : SelectView(v)
    \/ NewView
    \/ \E l \in Layout : SelectLayout(l)
    \/ pendingDelete # selectedLayout /\ DeleteLayoutIntent

\* What is shown and what is under way stay.
Selected ==
    /\ Changes
    /\ selectedView' \in View \cup {NoId} /\ selectedLayout' \in Layout \cup {NoId}
    /\ pendingDelete' \in Layout \cup {NoId}
    /\ UNCHANGED <<onDiskVars, metadataStore, viewProfiles, layoutProfiles, appPreferences,
                   hostTabUser, shownLines, queued, touches, read, starts, historyVars>>

LEMMA SelectsAre == StoredInv /\ Selects => Selected
<1> SUFFICES ASSUME StoredInv, Selects PROVE Selected
  OBVIOUS
<1> USE DEF StoredInv, StoredWindow, Selected
<1>1. ASSUME NEW v \in View, SelectView(v)  PROVE Selected
  BY <1>1 DEF SelectView
<1>2. ASSUME NEW l \in Layout, SelectLayout(l)  PROVE Selected
  BY <1>2 DEF SelectLayout
<1>3. CASE NewView
  BY <1>3 DEF NewView
<1>4. CASE pendingDelete # selectedLayout /\ DeleteLayoutIntent
  BY <1>4 DEF DeleteLayoutIntent
<1> HIDE DEF StoredInv, StoredWindow, Selected
<1> QED
  BY <1>1, <1>2, <1>3, <1>4 DEF Selects

LEMMA SelectTypes ==
    ASSUME StoredInv, Selected
    PROVE  StoredInv'
<1>1. StoredFiles'
  BY FilesStay DEF StoredInv, Selected
<1>2. StoredWindow'
  BY DEF StoredInv, StoredWindow, Selected
<1>3. StoredHistory'
  BY HistoryStays DEF StoredInv, Selected, onDiskVars
<1>4. changes' \in 0..MaxChanges
  BY ChangesCount DEF StoredInv, Selected
<1>5. StoredCalls'
  BY <1>4 DEF StoredInv, StoredCalls, Selected, onDiskVars
<1> QED
  BY <1>1, <1>2, <1>3, <1>5 DEF StoredInv

\* A host's metadata in the window, sent as a whole.
Upserts ==
    \E a \in SavedHost, set \in Setting : UpsertHostMetadata(a, set)

LEMMA TogglesAre ==
    ASSUME NEW a \in SavedHost, ToggleFavoriteForHost(a) \/ ToggleJumpHostForHost(a)
    PROVE  Upserts
<1>1. ASSUME NEW g, g \in Field, NEW x \in BOOLEAN  PROVE [f \in {g} |-> x] \in Setting
  <2>1. [f \in {g} |-> x] \in [{g} -> BOOLEAN] /\ {g} \in SUBSET Field
    BY <1>1
  <2> QED
    BY <2>1 DEF Setting
<1>2. CASE ToggleFavoriteForHost(a)
  <2>1. [f \in {"favorite"} |-> ~metadataStore.hosts[a][f]]
           = [f \in {"favorite"} |-> ~metadataStore.hosts[a]["favorite"]]
    OBVIOUS
  <2>2. [f \in {"favorite"} |-> ~metadataStore.hosts[a][f]] \in Setting
    BY <1>1, <2>1 DEF Field, Choice
  <2> QED
    BY <1>2, <2>2 DEF ToggleFavoriteForHost, Upserts
<1>3. CASE ToggleJumpHostForHost(a)
  <2>1. [f \in {"jump"} |-> ~metadataStore.hosts[a][f]]
           = [f \in {"jump"} |-> ~metadataStore.hosts[a]["jump"]]
    OBVIOUS
  <2>2. [f \in {"jump"} |-> ~metadataStore.hosts[a][f]] \in Setting
    BY <1>1, <2>1 DEF Field, Choice
  <2> QED
    BY <1>3, <2>2 DEF ToggleJumpHostForHost, Upserts
<1> QED
  BY <1>2, <1>3

LEMMA UpsertTypes ==
    ASSUME StoredInv, NEW a \in SavedHost, NEW set \in Setting, UpsertHostMetadata(a, set)
    PROVE  StoredInv'
<1>1. metadataStore \in Metadata
  BY DEF StoredInv, StoredWindow
<1>2. metadataStore' \in Metadata /\ metadataStore.user \in DefaultUser
  BY <1>1, StoreFields, WithIs DEF UpsertHostMetadata
<1> DEFINE c == SaveOf(metadataStore', a, set, "nothing")
<1>3. c \in Command /\ c.is = "saveMetadata"
  BY <1>2, SaveOfIs
<1>4. Send(c) /\ changes' \in 0..MaxChanges
  BY ChangesCount DEF UpsertHostMetadata, StoredInv
<1> HIDE DEF c
<1>5. StoredFiles'
  BY FilesStay DEF StoredInv, UpsertHostMetadata
<1>6. StoredWindow'
  BY <1>2 DEF StoredInv, StoredWindow, UpsertHostMetadata, profileVars
<1>7. StoredHistory'
  BY HistoryStays DEF StoredInv, UpsertHostMetadata, onDiskVars
<1>8. backup' = backup /\ read' = read /\ starts' \in 0..MaxStarts
  BY DEF StoredInv, StoredCalls, UpsertHostMetadata, onDiskVars
<1>9. StoredCalls'
  BY <1>3, <1>4, <1>8, SendCalls DEF StoredInv
<1> QED
  BY <1>5, <1>6, <1>7, <1>9 DEF StoredInv

\* ApplyDefaultUser: the hosts stay.
UserOnly == [f \in {} |-> FALSE]
UserCommand(store) ==
    [is |-> "saveMetadata", store |-> store, after |-> "nothing", alias |-> AnyHost,
     set |-> UserOnly]

LEMMA UserCommandIs ==
    ASSUME NEW store \in Metadata
    PROVE  /\ UserCommand(store) \in Command /\ UserCommand(store).is = "saveMetadata"
           /\ UserCommand(store).store = store /\ UserCommand(store).set \in Setting
           /\ DOMAIN UserCommand(store).set = {}
<1>1. UserOnly \in [{} -> BOOLEAN] /\ {} \in SUBSET Field /\ DOMAIN UserOnly = {}
  BY DEF UserOnly
<1>2. UserOnly \in Setting
  BY <1>1 DEF Setting
<1> HIDE DEF UserOnly
<1>3. UserCommand(store) \in FactsCommand
  BY <1>1, <1>2 DEF UserCommand, FactsCommand
<1> QED
  BY <1>1, <1>2, <1>3 DEF UserCommand, Command

LEMMA UserApplied ==
    ASSUME StoredInv, NEW u \in DefaultUser, ApplyDefaultUser(u)
    PROVE  /\ metadataStore' \in Metadata /\ metadataStore'.hosts = metadataStore.hosts
           /\ Send(UserCommand(metadataStore'))
BY DEF StoredInv, StoredWindow, ApplyDefaultUser, UserCommand, UserOnly, Metadata

LEMMA UserTypes ==
    ASSUME StoredInv, NEW u \in DefaultUser, ApplyDefaultUser(u)
    PROVE  StoredInv'
<1> DEFINE c == UserCommand(metadataStore')
<1>1. metadataStore' \in Metadata /\ Send(c) /\ c \in Command /\ c.is = "saveMetadata"
  BY UserApplied, UserCommandIs
<1>2. changes' \in 0..MaxChanges
  BY ChangesCount DEF ApplyDefaultUser, StoredInv
<1> HIDE DEF c
<1>3. StoredFiles'
  BY FilesStay DEF StoredInv, ApplyDefaultUser
<1>4. StoredWindow'
  BY <1>1 DEF StoredInv, StoredWindow, ApplyDefaultUser, profileVars
<1>5. StoredHistory'
  BY HistoryStays DEF StoredInv, ApplyDefaultUser, onDiskVars
<1>6. backup' = backup /\ read' = read /\ starts' \in 0..MaxStarts
  BY DEF StoredInv, StoredCalls, ApplyDefaultUser, onDiskVars
<1>7. StoredCalls'
  BY <1>1, <1>2, <1>6, SendCalls DEF StoredInv
<1> QED
  BY <1>3, <1>4, <1>5, <1>7 DEF StoredInv

LEMMA DraftTypes ==
    ASSUME StoredInv, EditHostDraft
    PROVE  StoredInv'
<1>1. StoredFiles'
  BY FilesStay DEF StoredInv, EditHostDraft
<1>2. StoredWindow'
  BY StoreFields DEF StoredInv, StoredWindow, EditHostDraft, profileVars
<1>3. StoredHistory'
  BY HistoryStays DEF StoredInv, EditHostDraft, onDiskVars
<1>4. StoredCalls'
  BY CallStays DEF StoredInv, EditHostDraft, onDiskVars
<1> QED
  BY <1>1, <1>2, <1>3, <1>4 DEF StoredInv


-----------------------------------------------------------------------------
(* Commands                                                                *)

LEMMA HostWrittenTypes ==
    ASSUME StoredInv, HostWritten
    PROVE  StoredInv'
<1>1. /\ queued # <<>> /\ Cmd.is \in {"saveHost", "deleteHost"}
      /\ changes' = changes /\ starts' = starts
  BY DEF HostWritten, AtHead, Cmd
<1>2. Cmd.alias \in SavedHost /\ Cmd.store \in Metadata /\ Cmd.set \in Setting
  BY <1>1, HeadIs, CommandFields DEF StoredInv
<1>3. metadataStore' \in Metadata /\ hostTabUser' \in DefaultUser
  BY <1>2, WithIs, StoreFields DEF HostWritten
<1> DEFINE c == SaveOf(metadataStore', Cmd.alias, Cmd.set, "load")
<1>4. c \in Command /\ c.is = "saveMetadata" /\ GoesOn(c)
  BY <1>2, <1>3, SaveOfIs DEF HostWritten
<1> HIDE DEF c
<1>5. StoredFiles'
  BY FilesStay DEF StoredInv, HostWritten
<1>6. StoredWindow'
  BY <1>3 DEF StoredInv, StoredWindow, HostWritten, profileVars
<1>7. StoredHistory'
  BY HistoryStays DEF StoredInv, HostWritten, onDiskVars
<1>8. backup' = backup /\ read' = read
  BY DEF HostWritten, onDiskVars
<1>9. StoredCalls'
  BY <1>1, <1>4, <1>8, GoOnCalls DEF StoredInv
<1> QED
  BY <1>5, <1>6, <1>7, <1>9 DEF StoredInv

\* What a write of the metadata of a directory leaves.
LEMMA MetadataWritten ==
    ASSUME StoredInv, NEW store \in Metadata, metadata' = [metadata EXCEPT ![dir] = store],
           UNCHANGED <<views, layouts, prefs, lines, prefsCache, backup, dir>>
    PROVE  StoredFiles' /\ metadata'[dir] = store
                        /\ \A d \in SshDir : d # dir => metadata'[d] = metadata[d]
BY DEF StoredInv, StoredFiles

\* What is chosen with the fields that were set.
LEMMA ChosenIs ==
    ASSUME StoredInv, NEW a \in SavedHost, NEW set \in Setting,
           chosen' = [chosen EXCEPT ![dir][a] = Overlaid(chosen[dir][a], set)]
    PROVE  /\ chosen' \in [SshDir -> [SavedHost -> [Choice -> BOOLEAN]]]
           /\ \A h \in SavedHost, f \in Choice :
                 chosen'[dir][h][f] = IF h = a /\ f \in DOMAIN set THEN set[f]
                                      ELSE chosen[dir][h][f]
           /\ \A d \in SshDir : d # dir => chosen'[d] = chosen[d]
<1> DEFINE new == Overlaid(chosen[dir][a], set)
           was == chosen[dir]
<1>1. dir \in SshDir /\ chosen \in [SshDir -> [SavedHost -> [Choice -> BOOLEAN]]]
  BY DEF StoredInv, StoredFiles, StoredHistory
<1>2. was \in [SavedHost -> [Choice -> BOOLEAN]] /\ was[a] \in [Choice -> BOOLEAN]
  BY <1>1
<1>3. /\ new \in [Choice -> BOOLEAN]
      /\ \A f \in Choice : new[f] = IF f \in DOMAIN set THEN set[f] ELSE was[a][f]
  BY <1>2, OverlaidIs
<1>4. chosen' = [chosen EXCEPT ![dir] = [was EXCEPT ![a] = new]]
  OBVIOUS
<1> HIDE DEF new
<1>5. [was EXCEPT ![a] = new] \in [SavedHost -> [Choice -> BOOLEAN]]
  BY <1>2, <1>3
<1>6. chosen'[dir] = [was EXCEPT ![a] = new] /\ \A d \in SshDir : d # dir => chosen'[d] = chosen[d]
  BY <1>1, <1>4
<1>7. chosen' \in [SshDir -> [SavedHost -> [Choice -> BOOLEAN]]]
  BY <1>1, <1>4, <1>5
<1>8. ASSUME NEW h \in SavedHost
      PROVE  chosen'[dir][h] = IF h = a THEN new ELSE was[h]
  BY <1>2, <1>6
<1> QED
  BY <1>3, <1>6, <1>7, <1>8

\* Nothing is set: ApplyDefaultUser.
LEMMA ChosenStays ==
    ASSUME StoredInv, NEW a, NEW set \in Setting, DOMAIN set = {},
           chosen' = [chosen EXCEPT ![dir][a] = Overlaid(chosen[dir][a], set)]
    PROVE  chosen' = chosen
<1>1. dir \in SshDir /\ chosen \in [SshDir -> [SavedHost -> [Choice -> BOOLEAN]]]
  BY DEF StoredInv, StoredFiles, StoredHistory
<1>2. CASE a \in SavedHost
  <2>1. Overlaid(chosen[dir][a], set) = [f \in DOMAIN chosen[dir][a] |-> chosen[dir][a][f]]
    BY DEF Overlaid
  <2>2. chosen[dir][a] \in [Choice -> BOOLEAN]
    BY <1>1, <1>2
  <2>3. Overlaid(chosen[dir][a], set) = chosen[dir][a]
    BY <2>1, <2>2
  <2>4. chosen' = [chosen EXCEPT ![dir] = [chosen[dir] EXCEPT ![a] = chosen[dir][a]]]
    BY <2>3
  <2>5. [chosen[dir] EXCEPT ![a] = chosen[dir][a]] = chosen[dir]
    BY <1>1, <1>2
  <2> QED
    BY <1>1, <2>4, <2>5
<1>3. CASE a \notin SavedHost
  <2>1. chosen' = [chosen EXCEPT ![dir] =
                      [chosen[dir] EXCEPT ![a] = Overlaid(chosen[dir][a], set)]]
    OBVIOUS
  <2>2. \A x : [chosen[dir] EXCEPT ![a] = x] = chosen[dir]
    BY <1>1, <1>3
  <2>3. chosen' = [chosen EXCEPT ![dir] = chosen[dir]]
    BY <2>1, <2>2
  <2> QED
    BY <1>1, <2>3
<1> QED
  BY <1>2, <1>3

LEMMA ConcernedIs ==
    ASSUME StoredInv, NEW c \in Command, c.is = "saveMetadata", c = Cmd
    PROVE  /\ Concerned \subseteq SshDir \X SavedHost \X Field
           /\ \A d \in SshDir, h \in SavedHost, f \in Field :
                 <<d, h, f>> \in Concerned <=> d = dir /\ h = c.alias /\ f \in DOMAIN c.set
<1>1. dir \in SshDir /\ (c.alias \in SavedHost \/ DOMAIN c.set = {}) /\ c.set \in Setting
  BY CommandFields DEF StoredInv, StoredFiles
<1>2. DOMAIN c.set \subseteq Field
  BY <1>1, SettingFields
<1> QED
  BY <1>1, <1>2 DEF Concerned

LEMMA ContinuesCalls ==
    ASSUME StoredCalls, queued # <<>>, Continues, backup' = backup, read' = read,
           changes' = changes, starts' = starts
    PROVE  StoredCalls'
<1>1. CASE Cmd.after = "load"
  <2>1. GoesOn(LoadNext("as before")) /\ LoadNext("as before") \in Command
        /\ LoadNext("as before").is = "load"
    BY <1>1, LoadNextIs DEF Continues
  <2> QED
    BY <2>1, GoOnCalls
<1>2. CASE Cmd.after # "load"
  <2>1. Finished
    BY <1>2 DEF Continues
  <2>2. read' \in {NotRead} \cup Reading
    BY DEF StoredCalls
  <2> QED
    BY <2>1, <2>2, FinishCalls
<1> QED
  BY <1>1, <1>2

LEMMA SaveTypes ==
    ASSUME StoredInv, SaveMetadata
    PROVE  StoredInv'
<1>1. queued # <<>> /\ Cmd.is = "saveMetadata" /\ changes' = changes /\ starts' = starts
  BY DEF SaveMetadata, AtHead, Cmd
<1>2. /\ Cmd.alias \in SavedHost \/ DOMAIN Cmd.set = {}
      /\ Cmd.store \in Metadata /\ Cmd.set \in Setting /\ Cmd \in Command
  BY <1>1, HeadIs, CommandFields DEF StoredInv
<1>3. StoredFiles'
  BY <1>2, MetadataWritten DEF SaveMetadata
<1>4. StoredWindow'
  BY WindowStays DEF StoredInv, SaveMetadata
<1>5. chosen' \in [SshDir -> [SavedHost -> [Choice -> BOOLEAN]]]
  <2>1. chosen' = [chosen EXCEPT ![dir][Cmd.alias] = Overlaid(chosen[dir][Cmd.alias], Cmd.set)]
    BY DEF SaveMetadata
  <2>2. CASE Cmd.alias \in SavedHost
    BY <1>2, <2>1, <2>2, ChosenIs
  <2>3. CASE DOMAIN Cmd.set = {}
    <3>1. chosen' = chosen
      BY <1>2, <2>1, <2>3, ChosenStays
    <3> QED
      BY <3>1 DEF StoredInv, StoredHistory
  <2> QED
    BY <1>2, <2>2, <2>3
<1>6. StoredHistory'
  BY <1>5 DEF StoredInv, StoredHistory, SaveMetadata
<1>7. Continues /\ backup' = backup /\ read' = read
  BY DEF SaveMetadata
<1>8. StoredCalls'
  BY <1>1, <1>7, ContinuesCalls DEF StoredInv
<1> QED
  BY <1>3, <1>4, <1>6, <1>8 DEF StoredInv

LEMMA SaveFailsTypes ==
    ASSUME StoredInv, SaveMetadataFails
    PROVE  StoredInv'
<1>1. queued # <<>> /\ Cmd.is = "saveMetadata" /\ changes' = changes /\ starts' = starts
  BY DEF SaveMetadataFails, AtHead, Cmd
<1>2. Concerned \subseteq SshDir \X SavedHost \X Field
  BY <1>1, HeadIs, ConcernedIs DEF StoredInv
<1>3. StoredFiles' /\ StoredWindow'
  BY FilesStay, WindowStays DEF StoredInv, SaveMetadataFails
<1>4. StoredHistory'
  BY <1>2 DEF StoredInv, StoredHistory, SaveMetadataFails, onDiskVars
<1>5. Finished /\ backup' = backup /\ read' \in {NotRead} \cup Reading
  BY DEF SaveMetadataFails, onDiskVars, StoredInv, StoredCalls
<1>6. StoredCalls'
  BY <1>1, <1>5, FinishCalls DEF StoredInv
<1> QED
  BY <1>3, <1>4, <1>6 DEF StoredInv

\* A store in which a host was used.
Used(store, a) == [store EXCEPT !.hosts[a].used = TRUE]

LEMMA UsedIs ==
    ASSUME NEW store \in Metadata, NEW a \in SavedHost
    PROVE  /\ Used(store, a) \in Metadata /\ Used(store, a).user = store.user
           /\ \A h \in SavedHost, f \in Choice : Used(store, a).hosts[h][f] = store.hosts[h][f]
<1> DEFINE facts == [store.hosts[a] EXCEPT !["used"] = TRUE]
           entries == [store.hosts EXCEPT ![a] = facts]
<1>1. store.hosts \in [SavedHost -> Facts] /\ store.hosts[a] \in [Field -> BOOLEAN]
  BY StoreFields DEF Facts
<1>2. Used(store, a) = [user |-> store.user, hosts |-> entries]
  <2>1. Used(store, a) = [store EXCEPT !.hosts = entries]
    BY DEF Used
  <2> HIDE DEF facts, entries
  <2> QED
    BY <2>1 DEF Metadata
<1>3. facts \in [Field -> BOOLEAN] /\ \A f \in Choice : facts[f] = store.hosts[a][f]
  BY <1>1 DEF Field, Choice
<1> HIDE DEF facts
<1>4. entries \in [SavedHost -> Facts]
  BY <1>1, <1>3 DEF Facts
<1>5. \A h \in SavedHost : entries[h] = IF h = a THEN facts ELSE store.hosts[h]
  BY <1>1
<1> HIDE DEF entries
<1>6. Used(store, a) \in Metadata
  BY <1>2, <1>4, StoreFields DEF Metadata
<1> QED
  BY <1>2, <1>3, <1>5, <1>6

LEMMA StartedTypes ==
    ASSUME StoredInv, NEW a \in SavedHost, SessionStarted(a)
    PROVE  StoredInv'
<1>1. metadataStore \in Metadata /\ metadataStore' = Used(metadataStore, a)
  BY DEF StoredInv, StoredWindow, SessionStarted, Used
<1>2. metadataStore' \in Metadata /\ metadataStore.user \in DefaultUser
  BY <1>1, UsedIs, StoreFields
<1>3. StoredFiles'
  BY FilesStay DEF StoredInv, SessionStarted
<1>4. StoredWindow'
  BY <1>2 DEF StoredInv, StoredWindow, SessionStarted, profileVars
<1>5. StoredHistory'
  BY HistoryStays DEF StoredInv, SessionStarted, onDiskVars
<1>6. /\ backup' = backup /\ read' = read /\ changes' \in 0..MaxChanges
      /\ starts' \in 0..MaxStarts /\ queued' = queued
  BY SettingsAssumption DEF StoredInv, StoredCalls, SessionStarted, onDiskVars
<1>7. StoredCalls'
  BY <1>6 DEF StoredInv, StoredCalls
<1> QED
  BY <1>3, <1>4, <1>5, <1>7 DEF StoredInv

\* A touch writes what it has read; where the file was another by then, it is doubtful.
LEMMA TouchedIs ==
    ASSUME StoredInv, TouchesKnown, NEW i \in 1..MaxStarts, TouchSaves(i)
    PROVE  /\ touches[i].store \in Metadata /\ touches[i].alias \in SavedHost
           /\ metadata' = [metadata EXCEPT ![dir] = Used(touches[i].store, touches[i].alias)]
           /\ doubtful \subseteq doubtful' /\ doubtful' \subseteq SshDir \X SavedHost \X Field
           /\ \A h \in SavedHost, f \in Choice :
                 \/ touches[i].store.hosts[h][f] = metadata[dir].hosts[h][f]
                 \/ <<dir, h, f>> \in doubtful'
<1> DEFINE old == {c \in {dir} \X SavedHost \X Choice :
                     touches[i].store.hosts[c[2]][c[3]] # metadata[dir].hosts[c[2]][c[3]]}
<1>1. touches[i].at = "saves" /\ touches[i].store \in Metadata
  BY DEF TouchSaves, TouchWrites, TouchesKnown
<1>2. touches[i].alias \in SavedHost
  BY <1>1 DEF TouchesKnown
<1>3. /\ metadata' = [metadata EXCEPT ![dir] = Used(touches[i].store, touches[i].alias)]
      /\ doubtful' = doubtful \cup old
  BY DEF TouchSaves, TouchWrites, Used
<1>4. old \subseteq SshDir \X SavedHost \X Field
  <2>1. dir \in SshDir /\ Choice \subseteq Field
    BY DEF StoredInv, StoredFiles, Field
  <2> QED
    BY <2>1
<1>5. \A h \in SavedHost, f \in Choice :
         touches[i].store.hosts[h][f] # metadata[dir].hosts[h][f] => <<dir, h, f>> \in old
  OBVIOUS
<1> HIDE DEF old
<1>6. doubtful \subseteq SshDir \X SavedHost \X Field
  BY DEF StoredInv, StoredHistory
<1> QED
  BY <1>1, <1>2, <1>3, <1>4, <1>5, <1>6

LEMMA TouchSavesTypes ==
    ASSUME StoredInv, TouchesKnown, NEW i \in 1..MaxStarts, TouchSaves(i)
    PROVE  StoredInv'
<1>1. Used(touches[i].store, touches[i].alias) \in Metadata
  BY TouchedIs, UsedIs
<1>2. /\ UNCHANGED <<views, layouts, prefs, lines, prefsCache, backup, dir, shownVars>>
      /\ UNCHANGED <<queued, read, changes, starts, chosen, kept>>
  BY DEF TouchSaves, TouchWrites
<1>3. StoredFiles'
  BY <1>1, <1>2, TouchedIs, MetadataWritten
<1>4. StoredWindow'
  BY <1>2, WindowStays DEF StoredInv
<1>5. StoredHistory'
  BY <1>2, TouchedIs DEF StoredInv, StoredHistory
<1>6. StoredCalls'
  BY <1>2, CallStays DEF StoredInv
<1> QED
  BY <1>3, <1>4, <1>5, <1>6 DEF StoredInv

Touches ==
    \E i \in 1..MaxStarts : TouchLoads(i) \/ TouchSaves(i) \/ TouchFails(i)

LEMMA TouchTypes ==
    ASSUME StoredInv, TouchesKnown, Touches
    PROVE  StoredInv'
<1>1. ASSUME NEW i \in 1..MaxStarts, TouchLoads(i) \/ TouchFails(i)
      PROVE  StoredInv'
  <2>1. UNCHANGED <<onDiskVars, shownVars, queued, read, changes, starts, historyVars>>
    BY <1>1 DEF TouchLoads, TouchFails
  <2>2. StoredFiles' /\ StoredWindow'
    BY <2>1, FilesStay, WindowStays DEF StoredInv
  <2>3. StoredHistory' /\ StoredCalls'
    BY <2>1, HistoryStays, CallStays DEF StoredInv, onDiskVars
  <2> QED
    BY <2>2, <2>3 DEF StoredInv
<1> QED
  BY <1>1, TouchSavesTypes DEF Touches

LEMMA LoadReadsTypes ==
    ASSUME StoredInv, LoadReads
    PROVE  StoredInv'
<1>1. queued # <<>> /\ Cmd.is = "load" /\ changes' = changes /\ starts' = starts
  BY DEF LoadReads, AtHead, Cmd
<1>2. Cmd.view \in View \cup {NoId, "as before"}
  BY <1>1, HeadIs, CommandFields DEF StoredInv
<1>3. read' \in Reading
  BY <1>2 DEF LoadReads, Reading, StoredInv, StoredFiles
<1>4. StoredFiles' /\ StoredWindow'
  BY FilesStay, WindowStays DEF StoredInv, LoadReads
<1>5. StoredHistory'
  BY HistoryStays DEF StoredInv, LoadReads, onDiskVars
<1>6. Finished /\ backup' = backup
  BY DEF LoadReads, onDiskVars
<1>7. StoredCalls'
  BY <1>1, <1>3, <1>6, FinishCalls DEF StoredInv
<1> QED
  BY <1>4, <1>5, <1>7 DEF StoredInv

LEMMA LoadShowsTypes ==
    ASSUME StoredInv, LoadShows
    PROVE  StoredInv'
<1>1. read \in Reading
  BY DEF StoredInv, StoredCalls, LoadShows
<1>2. /\ read.metadata \in Metadata /\ read.views \in ListOf(View)
      /\ read.layouts \in ListOf(Layout)
      /\ read.timeout \in MinTimeout..MaxTimeout /\ read.view \in View \cup {NoId, "as before"}
  BY <1>1, ReadingFields
<1>3. selectedView \in View \cup {NoId} /\ selectedLayout \in Layout \cup {NoId}
  BY DEF StoredInv, StoredWindow
<1>4. /\ OrFirst(read.layouts, selectedLayout) \in Layout \cup {NoId}
      /\ OrFirst(read.views, selectedView) \in View \cup {NoId}
  BY <1>2, <1>3, ListFields, OrFirstIs
<1>5. selectedView' \in View \cup {NoId} /\ selectedLayout' \in Layout \cup {NoId}
  BY <1>2, <1>4 DEF LoadShows
<1>6. read.metadata.user \in DefaultUser
  BY <1>2, StoreFields
<1>7. StoredFiles'
  BY FilesStay DEF StoredInv, LoadShows
<1>8. StoredWindow'
  BY <1>2, <1>5, <1>6 DEF StoredInv, StoredWindow, LoadShows
<1>9. StoredHistory'
  BY HistoryStays DEF StoredInv, LoadShows, onDiskVars
<1>10. StoredCalls'
  BY DEF StoredInv, StoredCalls, LoadShows, onDiskVars
<1> QED
  BY <1>7, <1>8, <1>9, <1>10 DEF StoredInv

LEMMA FailsTypes ==
    ASSUME StoredInv, StoredCommandFails
    PROVE  StoredInv'
<1>1. StoredFiles' /\ StoredWindow'
  BY FilesStay, WindowStays DEF StoredInv, StoredCommandFails
<1>2. StoredHistory'
  BY HistoryStays DEF StoredInv, StoredCommandFails, onDiskVars
<1>3. /\ queued # <<>> /\ Finished /\ backup' = backup /\ read' \in {NotRead} \cup Reading
      /\ changes' = changes /\ starts' = starts
  BY DEF StoredCommandFails, onDiskVars, StoredInv, StoredCalls
<1>4. StoredCalls'
  BY <1>3, FinishCalls DEF StoredInv
<1> QED
  BY <1>1, <1>2, <1>4 DEF StoredInv

-----------------------------------------------------------------------------
(* Views and layouts                                                       *)

LEMMA KeptViewsIs ==
    ASSUME StoredHistory, dir \in SshDir, NEW names \in SUBSET View,
           kept' = [kept EXCEPT ![dir].views = names]
    PROVE  /\ kept' \in [SshDir -> [views : SUBSET View, layouts : SUBSET Layout]]
           /\ kept'[dir].views = names /\ kept'[dir].layouts = kept[dir].layouts
           /\ \A d \in SshDir : d # dir => kept'[d] = kept[d]
<1> DEFINE next == [kept[dir] EXCEPT !.views = names]
<1>1. kept \in [SshDir -> [views : SUBSET View, layouts : SUBSET Layout]]
  BY DEF StoredHistory
<1>2. kept' = [kept EXCEPT ![dir] = next]
  OBVIOUS
<1>3. /\ next \in [views : SUBSET View, layouts : SUBSET Layout]
      /\ next.views = names /\ next.layouts = kept[dir].layouts
  BY <1>1
<1> HIDE DEF next
<1> QED
  BY <1>1, <1>2, <1>3

LEMMA KeptLayoutsIs ==
    ASSUME StoredHistory, dir \in SshDir, NEW names \in SUBSET Layout,
           kept' = [kept EXCEPT ![dir].layouts = names]
    PROVE  /\ kept' \in [SshDir -> [views : SUBSET View, layouts : SUBSET Layout]]
           /\ kept'[dir].layouts = names /\ kept'[dir].views = kept[dir].views
           /\ \A d \in SshDir : d # dir => kept'[d] = kept[d]
<1> DEFINE next == [kept[dir] EXCEPT !.layouts = names]
<1>1. kept \in [SshDir -> [views : SUBSET View, layouts : SUBSET Layout]]
  BY DEF StoredHistory
<1>2. kept' = [kept EXCEPT ![dir] = next]
  OBVIOUS
<1>3. /\ next \in [views : SUBSET View, layouts : SUBSET Layout]
      /\ next.layouts = names /\ next.views = kept[dir].views
  BY <1>1
<1> HIDE DEF next
<1> QED
  BY <1>1, <1>2, <1>3

LEMMA ViewsWrittenTypes ==
    ASSUME StoredInv, queued # <<>>, changes' = changes, starts' = starts,
           NEW list \in ListOf(View), NEW view \in View \cup {NoId, "as before"},
           ViewsWritten(list, view, ToSet(list))
    PROVE  StoredInv'
<1>1. dir \in SshDir /\ views \in [SshDir -> ListOf(View)]
  BY DEF StoredInv, StoredFiles
<1>2. views' = [views EXCEPT ![dir] = list]
  BY DEF ViewsWritten
<1>3. StoredFiles'
  BY <1>1, <1>2 DEF StoredInv, StoredFiles, ViewsWritten
<1>4. StoredWindow'
  BY WindowStays DEF StoredInv, ViewsWritten
<1>5. ToSet(list) \in SUBSET View
  BY ListFields
<1> DEFINE names == ToSet(list)
<1> HIDE DEF names
<1>6. /\ kept' \in [SshDir -> [views : SUBSET View, layouts : SUBSET Layout]]
      /\ kept'[dir].views = names /\ kept'[dir].layouts = kept[dir].layouts
      /\ \A d \in SshDir : d # dir => kept'[d] = kept[d]
  BY <1>1, <1>5, KeptViewsIs DEF StoredInv, ViewsWritten, names
<1>7. layouts' = layouts /\ chosen' = chosen /\ doubtful' = doubtful
  BY DEF ViewsWritten
<1>8. ASSUME NEW d \in SshDir
      PROVE  ToSet(views'[d]) = kept'[d].views /\ ToSet(layouts'[d]) = kept'[d].layouts
  <2>1. CASE d = dir
    BY <1>1, <1>2, <1>6, <1>7, <2>1 DEF StoredInv, StoredHistory, names
  <2>2. CASE d # dir
    BY <1>1, <1>2, <1>6, <1>7, <2>2 DEF StoredInv, StoredHistory
  <2> QED
    BY <2>1, <2>2
<1>9. StoredHistory'
  BY <1>6, <1>7, <1>8 DEF StoredInv, StoredHistory
<1>10. GoesOn(LoadNext(view)) /\ backup' = backup /\ read' = read
  BY DEF ViewsWritten
<1>11. LoadNext(view) \in Command /\ LoadNext(view).is # "importBackup"
  BY LoadNextIs
<1>12. StoredCalls'
  BY <1>10, <1>11, GoOnCalls DEF StoredInv
<1> QED
  BY <1>3, <1>4, <1>9, <1>12 DEF StoredInv

LEMMA LayoutsWrittenTypes ==
    ASSUME StoredInv, queued # <<>>, changes' = changes, starts' = starts,
           NEW list \in ListOf(Layout), NEW select \in Layout \cup {NoId},
           LayoutsWritten(list, select, ToSet(list))
    PROVE  StoredInv'
<1>1. dir \in SshDir /\ layouts \in [SshDir -> ListOf(Layout)]
  BY DEF StoredInv, StoredFiles
<1>2. layouts' = [layouts EXCEPT ![dir] = list]
  BY DEF LayoutsWritten
<1>3. StoredFiles'
  BY <1>1, <1>2 DEF StoredInv, StoredFiles, LayoutsWritten
<1>4. StoredWindow'
  BY WindowStays DEF StoredInv, LayoutsWritten
<1>5. ToSet(list) \in SUBSET Layout
  BY ListFields
<1> DEFINE names == ToSet(list)
<1> HIDE DEF names
<1>6. /\ kept' \in [SshDir -> [views : SUBSET View, layouts : SUBSET Layout]]
      /\ kept'[dir].layouts = names /\ kept'[dir].views = kept[dir].views
      /\ \A d \in SshDir : d # dir => kept'[d] = kept[d]
  BY <1>1, <1>5, KeptLayoutsIs DEF StoredInv, LayoutsWritten, names
<1>7. views' = views /\ chosen' = chosen /\ doubtful' = doubtful
  BY DEF LayoutsWritten
<1>8. ASSUME NEW d \in SshDir
      PROVE  ToSet(views'[d]) = kept'[d].views /\ ToSet(layouts'[d]) = kept'[d].layouts
  <2>1. CASE d = dir
    BY <1>1, <1>2, <1>6, <1>7, <2>1 DEF StoredInv, StoredHistory, names
  <2>2. CASE d # dir
    BY <1>1, <1>2, <1>6, <1>7, <2>2 DEF StoredInv, StoredHistory
  <2> QED
    BY <2>1, <2>2
<1>9. StoredHistory'
  BY <1>6, <1>7, <1>8 DEF StoredInv, StoredHistory
<1>10. /\ GoesOn([is |-> "listLayouts", select |-> select]) /\ backup' = backup /\ read' = read
  BY DEF LayoutsWritten
<1>11. StoredCalls'
  BY <1>10, ListLayoutsIs, GoOnCalls DEF StoredInv
<1> QED
  BY <1>3, <1>4, <1>9, <1>11 DEF StoredInv

\* What the three commands on views and the two on layouts write: each id once, and no other.
ViewsList ==
    IF Cmd.is = "saveView" THEN Placed(views[dir], Cmd.id, Cmd.order)
    ELSE IF Cmd.is = "deleteView" THEN Others(views[dir], {Cmd.id})
    ELSE Reordered(views[dir], Cmd.ids)
ViewAfter ==
    IF Cmd.is = "saveView" THEN Cmd.id ELSE IF Cmd.is = "deleteView" THEN NoId ELSE "as before"

LEMMA ViewsListIs ==
    ASSUME StoredInv, SaveViewProfile \/ DeleteViewProfile \/ ReorderViewProfiles
    PROVE  /\ queued # <<>> /\ changes' = changes /\ starts' = starts
           /\ Cmd.is \in {"saveView", "deleteView", "reorderViews"}
           /\ ViewsList \in ListOf(View) /\ ViewAfter \in View \cup {NoId, "as before"}
           /\ ViewsWritten(ViewsList, ViewAfter, ToSet(ViewsList))
<1>1. /\ views[dir] \in Seq(View) /\ IsInjective(views[dir])
      /\ ToSet(views[dir]) = kept[dir].views
  <2>1. views[dir] \in ListOf(View) /\ dir \in SshDir
    BY DEF StoredInv, StoredFiles
  <2> QED
    BY <2>1, ListFields DEF StoredInv, StoredHistory
<1>2. CASE SaveViewProfile
  <2>1. queued # <<>> /\ changes' = changes /\ starts' = starts /\ Cmd.is = "saveView"
    BY <1>2 DEF SaveViewProfile, AtHead, Cmd
  <2>2. Cmd.id \in View /\ Cmd.order \in Nat
    BY <2>1, HeadIs, CommandFields DEF StoredInv
  <2>3. ViewsList = Placed(views[dir], Cmd.id, Cmd.order) /\ ViewAfter = Cmd.id
    BY <2>1 DEF ViewsList, ViewAfter
  <2>4. /\ ViewsList \in ListOf(View)
        /\ ToSet(ViewsList) = kept[dir].views \cup {Cmd.id}
    <3> DEFINE was == views[dir]
           v == Cmd.id
           order == Cmd.order
    <3>1. was \in Seq(View) /\ IsInjective(was) /\ ToSet(was) = kept[dir].views
      BY <1>1
    <3>2. v \in View /\ order \in Nat
      BY <2>2
    <3> HIDE DEF was, v, order
    <3>3. /\ Placed(was, v, order) \in Seq(View) /\ IsInjective(Placed(was, v, order))
          /\ ToSet(Placed(was, v, order)) = ToSet(was) \cup {v}
      BY <3>1, <3>2, PlacedIs
    <3> QED
      BY <2>3, <3>1, <3>3 DEF ListOf, was, v, order
  <2>5. ViewsWritten(ViewsList, ViewAfter, kept[dir].views \cup {Cmd.id})
    BY <1>2, <2>3 DEF SaveViewProfile
  <2> QED
    BY <2>1, <2>2, <2>3, <2>4, <2>5
<1>3. CASE DeleteViewProfile
  <2>1. queued # <<>> /\ changes' = changes /\ starts' = starts /\ Cmd.is = "deleteView"
    BY <1>3 DEF DeleteViewProfile, AtHead, Cmd
  <2>2. ViewsList = Others(views[dir], {Cmd.id}) /\ ViewAfter = NoId
    BY <2>1 DEF ViewsList, ViewAfter
  <2>3. /\ ViewsList \in ListOf(View)
        /\ ToSet(ViewsList) = kept[dir].views \ {Cmd.id}
    BY <1>1, <2>2, OthersIs DEF ListOf
  <2>4. ViewsWritten(ViewsList, ViewAfter, kept[dir].views \ {Cmd.id})
    BY <1>3, <2>2 DEF DeleteViewProfile
  <2> QED
    BY <2>1, <2>2, <2>3, <2>4
<1>4. CASE ReorderViewProfiles
  <2>1. queued # <<>> /\ changes' = changes /\ starts' = starts /\ Cmd.is = "reorderViews"
    BY <1>4 DEF ReorderViewProfiles, AtHead, Cmd
  <2>2. Cmd.ids \in Seq(View) /\ IsInjective(Cmd.ids)
    BY <2>1, HeadIs, CommandFields, ListFields DEF StoredInv
  <2>3. ViewsList = Reordered(views[dir], Cmd.ids) /\ ViewAfter = "as before"
    BY <2>1 DEF ViewsList, ViewAfter
  <2>4. ViewsList \in ListOf(View) /\ ToSet(ViewsList) = kept[dir].views
    BY <1>1, <2>2, <2>3, ReorderedIs DEF ListOf
  <2>5. ViewsWritten(ViewsList, ViewAfter, kept[dir].views)
    BY <1>4, <2>3 DEF ReorderViewProfiles
  <2> QED
    BY <2>1, <2>3, <2>4, <2>5
<1> QED
  BY <1>2, <1>3, <1>4

LayoutsList ==
    IF Cmd.is = "deleteLayout" THEN Others(layouts[dir], {Cmd.id})
    ELSE IF Cmd.id \in ToSet(layouts[dir]) THEN layouts[dir] ELSE Append(layouts[dir], Cmd.id)
LayoutAfter == IF Cmd.is = "deleteLayout" THEN NoId ELSE Cmd.id

LEMMA LayoutsListIs ==
    ASSUME StoredInv, SaveLayoutProfile \/ DeleteLayoutProfile
    PROVE  /\ queued # <<>> /\ changes' = changes /\ starts' = starts
           /\ Cmd.is \in {"saveLayout", "deleteLayout"}
           /\ LayoutsList \in ListOf(Layout) /\ LayoutAfter \in Layout \cup {NoId}
           /\ LayoutsWritten(LayoutsList, LayoutAfter, ToSet(LayoutsList))
<1> DEFINE was == layouts[dir]
<1>1. was \in Seq(Layout) /\ IsInjective(was) /\ ToSet(was) = kept[dir].layouts
  <2>1. layouts[dir] \in ListOf(Layout) /\ dir \in SshDir
    BY DEF StoredInv, StoredFiles
  <2> QED
    BY <2>1, ListFields DEF StoredInv, StoredHistory
<1>2. CASE SaveLayoutProfile
  <2>1. queued # <<>> /\ changes' = changes /\ starts' = starts /\ Cmd.is = "saveLayout"
    BY <1>2 DEF SaveLayoutProfile, AtHead, Cmd
  <2>2. Cmd.id \in Layout
    BY <2>1, HeadIs, CommandFields DEF StoredInv
  <2>3. /\ LayoutsList = IF Cmd.id \in ToSet(was) THEN was ELSE Append(was, Cmd.id)
        /\ LayoutAfter = Cmd.id
    BY <2>1 DEF LayoutsList, LayoutAfter
  <2>4. LayoutsList \in ListOf(Layout) /\ ToSet(LayoutsList) = kept[dir].layouts \cup {Cmd.id}
    <3>1. CASE Cmd.id \in ToSet(was)
      BY <1>1, <2>3, <3>1 DEF ListOf
    <3>2. CASE Cmd.id \notin ToSet(was)
      <4>1. /\ <<Cmd.id>> \in Seq(Layout) /\ ToSet(<<Cmd.id>>) = {Cmd.id}
            /\ IsInjective(<<Cmd.id>>)
        <5>1. <<Cmd.id>> \in Seq(Layout) /\ DOMAIN <<Cmd.id>> = {1} /\ <<Cmd.id>>[1] = Cmd.id
          BY <2>2
        <5> QED
          BY <5>1 DEF ToSet, IsInjective
      <4>2. Append(was, Cmd.id) = was \o <<Cmd.id>>
        BY <1>1, <2>2
      <4>3. ToSet(was) \cap ToSet(<<Cmd.id>>) = {}
        BY <3>2, <4>1
      <4>4. /\ was \o <<Cmd.id>> \in Seq(Layout)
            /\ ToSet(was \o <<Cmd.id>>) = ToSet(was) \cup ToSet(<<Cmd.id>>)
            /\ IsInjective(was \o <<Cmd.id>>)
        <5> DEFINE one == <<Cmd.id>>
        <5>1. one \in Seq(Layout) /\ IsInjective(one) /\ ToSet(was) \cap ToSet(one) = {}
          BY <4>1, <4>3
        <5> HIDE DEF one, was
        <5>2. /\ was \o one \in Seq(Layout) /\ ToSet(was \o one) = ToSet(was) \cup ToSet(one)
              /\ IsInjective(was) /\ IsInjective(one) /\ ToSet(was) \cap ToSet(one) = {}
                    => IsInjective(was \o one)
          BY <1>1, <5>1, ConcatIs
        <5> QED
          BY <1>1, <5>1, <5>2 DEF one
      <4> QED
        BY <1>1, <2>3, <3>2, <4>1, <4>2, <4>4 DEF ListOf
    <3> QED
      BY <3>1, <3>2
  <2>5. LayoutsWritten(LayoutsList, LayoutAfter, kept[dir].layouts \cup {Cmd.id})
    BY <1>2, <2>3 DEF SaveLayoutProfile
  <2> QED
    BY <2>1, <2>2, <2>3, <2>4, <2>5
<1>3. CASE DeleteLayoutProfile
  <2>1. queued # <<>> /\ changes' = changes /\ starts' = starts /\ Cmd.is = "deleteLayout"
    BY <1>3 DEF DeleteLayoutProfile, AtHead, Cmd
  <2>2. LayoutsList = Others(was, {Cmd.id}) /\ LayoutAfter = NoId
    BY <2>1 DEF LayoutsList, LayoutAfter
  <2>3. LayoutsList \in ListOf(Layout) /\ ToSet(LayoutsList) = kept[dir].layouts \ {Cmd.id}
    BY <1>1, <2>2, OthersIs DEF ListOf
  <2>4. LayoutsWritten(LayoutsList, LayoutAfter, kept[dir].layouts \ {Cmd.id})
    BY <1>3, <2>2 DEF DeleteLayoutProfile
  <2> QED
    BY <2>1, <2>2, <2>3, <2>4
<1> QED
  BY <1>2, <1>3

LEMMA RefreshTypes ==
    ASSUME StoredInv, RefreshLayoutProfiles
    PROVE  StoredInv'
<1>1. queued # <<>> /\ Cmd.is = "listLayouts" /\ changes' = changes /\ starts' = starts
  BY DEF RefreshLayoutProfiles, AtHead, Cmd
<1>2. Cmd.select \in Layout \cup {NoId}
  BY <1>1, HeadIs, CommandFields DEF StoredInv
<1>3. layouts[dir] \in ListOf(Layout)
  BY DEF StoredInv, StoredFiles
<1>4. OrFirst(layouts[dir], Cmd.select) \in Layout \cup {NoId}
  BY <1>2, <1>3, ListFields, OrFirstIs
<1>5. StoredFiles'
  BY FilesStay DEF StoredInv, RefreshLayoutProfiles
<1>6. StoredWindow'
  BY <1>3, <1>4 DEF StoredInv, StoredWindow, RefreshLayoutProfiles
<1>7. StoredHistory'
  BY HistoryStays DEF StoredInv, RefreshLayoutProfiles, onDiskVars
<1>8. Finished /\ backup' = backup /\ read' \in {NotRead} \cup Reading
  BY DEF RefreshLayoutProfiles, onDiskVars, StoredInv, StoredCalls
<1>9. StoredCalls'
  BY <1>1, <1>8, FinishCalls DEF StoredInv
<1> QED
  BY <1>5, <1>6, <1>7, <1>9 DEF StoredInv


-----------------------------------------------------------------------------
(* Known hosts                                                             *)

LEMMA ListedIs ==
    ASSUME NEW held \in Seq(HostKey \cup {Comment})
    PROVE  ListedLines(held) \in SUBSET Row
<1>1. \A i \in DOMAIN held : i \in Nat \ {0} /\ held[i] \in HostKey \cup {Comment}
  OBVIOUS
<1>2. ASSUME NEW i \in DOMAIN held, held[i] # Comment
      PROVE  [line |-> i, key |-> held[i]] \in Row
  BY <1>1, <1>2 DEF Row
<1> QED
  BY <1>2 DEF ListedLines

LEMMA LinesWrittenTypes ==
    ASSUME StoredInv, NEW held \in Seq(HostKey \cup {Comment}), LinesWritten(held)
    PROVE  /\ StoredFiles' /\ StoredWindow' /\ StoredHistory'
           /\ UNCHANGED <<backup, read, shownLines>>
<1>1. StoredFiles'
  BY DEF StoredInv, StoredFiles, LinesWritten
<1>2. StoredWindow'
  BY WindowStays DEF StoredInv, LinesWritten
<1>3. StoredHistory'
  BY DEF StoredInv, StoredHistory, LinesWritten
<1>4. UNCHANGED <<backup, read, shownLines>>
  BY DEF LinesWritten, shownVars
<1> QED
  BY <1>1, <1>2, <1>3, <1>4

LEMMA RemoveLineTypes ==
    ASSUME StoredInv, RemoveKnownHostsLine
    PROVE  StoredInv'
<1>1. queued # <<>> /\ changes' = changes /\ starts' = starts
  BY DEF RemoveKnownHostsLine, AtHead
<1>2. lines[dir] \in Seq(HostKey \cup {Comment})
  BY DEF StoredInv, StoredFiles
<1>3. RemoveAt(lines[dir], Cmd.line) \in Seq(HostKey \cup {Comment})
  <2>1. Cmd.line \in 1..Len(lines[dir])
    BY <1>2 DEF RemoveKnownHostsLine
  <2> QED
    BY <1>2, <2>1, RemovedIs
<1>4. LinesWritten(RemoveAt(lines[dir], Cmd.line)) /\ GoesOn([is |-> "listLines"])
  BY DEF RemoveKnownHostsLine
<1>5. StoredFiles' /\ StoredWindow' /\ StoredHistory' /\ backup' = backup /\ read' = read
  BY <1>3, <1>4, LinesWrittenTypes
<1>6. StoredCalls'
  BY <1>1, <1>4, <1>5, ListLinesIs, GoOnCalls DEF StoredInv
<1> QED
  BY <1>5, <1>6 DEF StoredInv

LEMMA KeyAddedTypes ==
    ASSUME StoredInv, NEW k \in HostKey, KeyAdded(k)
    PROVE  StoredInv'
<1>1. Append(lines[dir], k) \in Seq(HostKey \cup {Comment})
  BY DEF StoredInv, StoredFiles
<1>2. StoredFiles' /\ StoredWindow' /\ StoredHistory' /\ backup' = backup /\ read' = read
  BY <1>1, LinesWrittenTypes DEF KeyAdded
<1>3. StoredCalls'
  BY <1>2, SettingsAssumption DEF StoredInv, StoredCalls, KeyAdded
<1> QED
  BY <1>2, <1>3 DEF StoredInv

LEMMA RemoveByHostTypes ==
    ASSUME StoredInv, NEW k \in HostKey, RemoveByHost(k)
    PROVE  StoredInv'
<1>1. Others(lines[dir], {k}) \in Seq(HostKey \cup {Comment})
  BY OthersIs DEF StoredInv, StoredFiles
<1>2. StoredFiles' /\ StoredWindow' /\ StoredHistory' /\ backup' = backup /\ read' = read
  BY <1>1, LinesWrittenTypes DEF RemoveByHost
<1>3. changes' \in 0..MaxChanges
  BY ChangesCount DEF StoredInv, RemoveByHost
<1>4. StoredCalls'
  BY <1>2, <1>3 DEF StoredInv, StoredCalls, RemoveByHost
<1> QED
  BY <1>2, <1>4 DEF StoredInv

LEMMA OpenTypes ==
    ASSUME StoredInv, OpenSshTab
    PROVE  StoredInv'
<1> DEFINE c == [is |-> "listLines"]
<1>1. /\ shownLines' = {} /\ queued' = queued \o <<c>> /\ Changes
      /\ UNCHANGED <<onDiskVars, metadataStore, profileVars, appPreferences, hostTabUser, read,
                     starts, historyVars>>
  BY DEF OpenSshTab, ShowLines
<1>2. c \in Command /\ c.is # "importBackup"
  BY ListLinesIs
<1> HIDE DEF c
<1>3. queued' = Append(queued, c)
  BY <1>1, <1>2 DEF StoredInv, StoredCalls, CallsOK
<1>4. StoredFiles'
  BY <1>1, FilesStay DEF StoredInv
<1>5. StoredWindow'
  BY <1>1 DEF StoredInv, StoredWindow, profileVars
<1>6. StoredHistory'
  BY <1>1, HistoryStays DEF StoredInv, onDiskVars
<1>7. changes' \in 0..MaxChanges
  BY <1>1, ChangesCount DEF StoredInv
<1>8. backup' = backup /\ read' = read /\ starts' \in 0..MaxStarts
  BY <1>1 DEF onDiskVars, StoredInv, StoredCalls
<1>9. StoredCalls'
  BY <1>2, <1>3, <1>7, <1>8, SendCalls DEF StoredInv, Send
<1> QED
  BY <1>4, <1>5, <1>6, <1>9 DEF StoredInv

LEMMA CloseTypes ==
    ASSUME StoredInv, CloseSshTab
    PROVE  StoredInv' /\ queued' = queued
<1>1. /\ shownLines' = NotShown /\ queued' = queued \o <<>> /\ Changes
      /\ UNCHANGED <<onDiskVars, metadataStore, profileVars, appPreferences, hostTabUser, read,
                     starts, historyVars>>
  BY DEF CloseSshTab, ShowLines
<1>2. queued' = queued
  BY <1>1 DEF StoredInv, StoredCalls, CallsOK
<1>3. StoredFiles'
  BY <1>1, FilesStay DEF StoredInv
<1>4. StoredWindow'
  BY <1>1 DEF StoredInv, StoredWindow, profileVars
<1>5. StoredHistory'
  BY <1>1, HistoryStays DEF StoredInv, onDiskVars
<1>6. changes' \in 0..MaxChanges
  BY <1>1, ChangesCount DEF StoredInv
<1>7. StoredCalls'
  BY <1>1, <1>2, <1>6 DEF StoredInv, StoredCalls, onDiskVars
<1> QED
  BY <1>2, <1>3, <1>4, <1>5, <1>7 DEF StoredInv

LEMMA ListTypes ==
    ASSUME StoredInv, ListKnownHosts
    PROVE  StoredInv'
<1> DEFINE rows == ListedLines(lines[dir])
<1>1. rows \in SUBSET Row /\ dir \in SshDir
  BY ListedIs DEF StoredInv, StoredFiles
<1>2. shownLines' = IF shownLines = NotShown THEN NotShown ELSE rows
  BY DEF ListKnownHosts
<1> HIDE DEF rows
<1>3. shownLines' = NotShown \/ shownLines' \in SUBSET Row
  BY <1>1, <1>2
<1>4. StoredFiles'
  BY FilesStay DEF StoredInv, ListKnownHosts
<1>5. StoredWindow'
  BY <1>3 DEF StoredInv, StoredWindow, ListKnownHosts, profileVars
<1>6. StoredHistory'
  BY HistoryStays DEF StoredInv, ListKnownHosts, onDiskVars
<1>7. /\ queued # <<>> /\ Finished /\ backup' = backup /\ read' \in {NotRead} \cup Reading
      /\ changes' = changes /\ starts' = starts
  BY DEF ListKnownHosts, AtHead, onDiskVars, StoredInv, StoredCalls
<1>8. StoredCalls'
  BY <1>7, FinishCalls DEF StoredInv
<1> QED
  BY <1>4, <1>5, <1>6, <1>8 DEF StoredInv

-----------------------------------------------------------------------------
(* Preferences, the directory and the backup                               *)

LEMMA SavePreferencesTypes ==
    ASSUME StoredInv, SavePreferences
    PROVE  StoredInv'
<1>1. queued # <<>> /\ Cmd.is = "savePreferences" /\ changes' = changes /\ starts' = starts
  BY DEF SavePreferences, AtHead, Cmd
<1>2. Cmd.timeout \in Nat
  BY <1>1, HeadIs, CommandFields DEF StoredInv
<1> DEFINE t == Clamped(Cmd.timeout)
<1>3. t \in MinTimeout..MaxTimeout
  BY <1>2, SettingsAssumption DEF Clamped
<1>4. /\ prefs' = [prefs EXCEPT ![dir] = t] /\ prefsCache' = t /\ appPreferences' = t
      /\ UNCHANGED <<metadata, views, layouts, lines, backup, dir, metadataStore, profileVars,
                     hostTabUser, shownLines, read, historyVars>>
      /\ Finished
  BY DEF SavePreferences
<1> HIDE DEF t
<1>5. StoredFiles'
  BY <1>3, <1>4 DEF StoredInv, StoredFiles
<1>6. StoredWindow'
  BY <1>3, <1>4 DEF StoredInv, StoredWindow, profileVars
<1>7. StoredHistory'
  BY <1>4, HistoryStays DEF StoredInv
<1>8. backup' = backup /\ read' \in {NotRead} \cup Reading
  BY <1>4 DEF StoredInv, StoredCalls
<1>9. StoredCalls'
  BY <1>1, <1>4, <1>8, FinishCalls DEF StoredInv
<1> QED
  BY <1>5, <1>6, <1>7, <1>9 DEF StoredInv

LEMMA SetSshDirTypes ==
    ASSUME StoredInv, SetSshDirOverride
    PROVE  StoredInv'
<1>1. queued # <<>> /\ Cmd.is = "setSshDir" /\ changes' = changes /\ starts' = starts
  BY DEF SetSshDirOverride, AtHead, Cmd
<1>2. Cmd.to \in SshDir
  BY <1>1, HeadIs, CommandFields DEF StoredInv
<1>3. /\ dir' = Cmd.to /\ prefsCache' = prefs[Cmd.to] /\ GoesOn(LoadNext("as before"))
      /\ UNCHANGED <<metadata, views, layouts, prefs, lines, backup, shownVars, read, historyVars>>
  BY DEF SetSshDirOverride
<1>4. StoredFiles'
  BY <1>2, <1>3 DEF StoredInv, StoredFiles
<1>5. StoredWindow'
  BY <1>3, WindowStays DEF StoredInv
<1>6. StoredHistory'
  BY <1>3, HistoryStays DEF StoredInv
<1>7. LoadNext("as before") \in Command /\ LoadNext("as before").is # "importBackup"
  BY LoadNextIs
<1>8. StoredCalls'
  BY <1>1, <1>3, <1>7, GoOnCalls DEF StoredInv
<1> QED
  BY <1>4, <1>5, <1>6, <1>8 DEF StoredInv

LEMMA ExportTypes ==
    ASSUME StoredInv, ExportBackup
    PROVE  StoredInv'
<1>1. metadata[dir] \in Metadata /\ backup' = metadata[dir]
  BY DEF StoredInv, StoredFiles, ExportBackup
<1>2. StoredFiles'
  BY <1>1 DEF StoredInv, StoredFiles, ExportBackup
<1>3. StoredWindow'
  BY WindowStays DEF StoredInv, ExportBackup
<1>4. StoredHistory'
  BY HistoryStays DEF StoredInv, ExportBackup
<1>5. changes' \in 0..MaxChanges
  BY ChangesCount DEF StoredInv, ExportBackup
<1>6. CallsOK(queued, backup')
  BY <1>1 DEF StoredInv, StoredCalls, CallsOK
<1>7. StoredCalls'
  BY <1>5, <1>6 DEF StoredInv, StoredCalls, ExportBackup
<1> QED
  BY <1>2, <1>3, <1>4, <1>7 DEF StoredInv

LEMMA ImportTypes ==
    ASSUME StoredInv, ImportBackup
    PROVE  StoredInv'
<1>1. queued # <<>> /\ Cmd.is = "importBackup" /\ changes' = changes /\ starts' = starts
  BY DEF ImportBackup, AtHead, Cmd
<1>2. backup \in Metadata
  BY <1>1, HeadIs DEF StoredInv
<1>3. StoredFiles'
  BY <1>2, MetadataWritten DEF ImportBackup
<1>4. StoredWindow'
  BY WindowStays DEF StoredInv, ImportBackup
<1>5. chosen' \in [SshDir -> [SavedHost -> [Choice -> BOOLEAN]]]
  <2> DEFINE new == [a \in SavedHost |-> [f \in Choice |-> backup.hosts[a][f]]]
  <2>1. \A a \in SavedHost, f \in Choice : backup.hosts[a][f] \in BOOLEAN
    BY <1>2, StoreFields DEF Field
  <2>2. new \in [SavedHost -> [Choice -> BOOLEAN]]
    BY <2>1
  <2>3. chosen' = [chosen EXCEPT ![dir] = new]
    BY DEF ImportBackup
  <2> HIDE DEF new
  <2> QED
    BY <2>2, <2>3 DEF StoredInv, StoredHistory
<1>6. StoredHistory'
  BY <1>5 DEF StoredInv, StoredHistory, ImportBackup
<1>7. GoesOn(LoadNext("as before")) /\ backup' = backup /\ read' = read
  BY DEF ImportBackup
<1>8. LoadNext("as before") \in Command /\ LoadNext("as before").is # "importBackup"
  BY LoadNextIs
<1>9. StoredCalls'
  BY <1>1, <1>7, <1>8, GoOnCalls DEF StoredInv
<1> QED
  BY <1>3, <1>4, <1>6, <1>9 DEF StoredInv

-----------------------------------------------------------------------------
(* Every step                                                              *)

\* The steps by what they are to the invariant.
Commands ==
    \/ HostWritten \/ SaveMetadata \/ SaveMetadataFails
    \/ SaveViewProfile \/ DeleteViewProfile \/ ReorderViewProfiles
    \/ SaveLayoutProfile \/ DeleteLayoutProfile \/ RefreshLayoutProfiles
    \/ ListKnownHosts \/ RemoveKnownHostsLine
    \/ LoadReads \/ LoadShows \/ StoredCommandFails
    \/ SavePreferences \/ SetSshDirOverride \/ ImportBackup

Gestures ==
    \/ \E a \in SavedHost : SessionStarted(a)
    \/ \E u \in DefaultUser : ApplyDefaultUser(u)
    \/ EditHostDraft \/ OpenSshTab \/ CloseSshTab
    \/ \E k \in HostKey : KeyAdded(k) \/ RemoveByHost(k)
    \/ ExportBackup

LEMMA StepsAre == StoredNext => Asks \/ Selects \/ Upserts \/ Commands \/ Gestures \/ Touches
<1>1. ASSUME MetadataStep PROVE Asks \/ Upserts \/ Commands \/ Gestures \/ Touches
  <2>1. ASSUME NEW a \in SavedHost, ToggleFavoriteForHost(a) \/ ToggleJumpHostForHost(a)
        PROVE  Upserts
    BY <2>1, TogglesAre
  <2> QED
    BY <1>1, <2>1, Zenon DEF MetadataStep, Asks, Commands, Gestures, Touches
<1>2. ASSUME ProfileStep PROVE Asks \/ Selects \/ Commands
  <2>1. DeleteLayoutIntent => Asks \/ Selects
    BY DEF DeleteLayoutIntent, Asks, Selects
  <2> QED
    BY <1>2, <2>1, Zenon DEF ProfileStep, Asks, Selects, Commands
<1>3. ASSUME KnownHostsStep PROVE Asks \/ Commands \/ Gestures
  BY <1>3, Zenon DEF KnownHostsStep, Asks, Commands, Gestures
<1>4. ASSUME StoredNext
      PROVE  MetadataStep \/ ProfileStep \/ KnownHostsStep \/ Asks \/ Commands \/ Gestures
  BY <1>4, Zenon DEF StoredNext, Asks, Commands, Gestures
<1> QED
  BY <1>1, <1>2, <1>3, <1>4

LEMMA CommandTypes == StoredInv /\ Commands => StoredInv'
<1> SUFFICES ASSUME StoredInv, Commands PROVE StoredInv'
  OBVIOUS
<1>1. CASE SaveViewProfile \/ DeleteViewProfile \/ ReorderViewProfiles
  BY <1>1, ViewsListIs, ViewsWrittenTypes
<1>2. CASE SaveLayoutProfile \/ DeleteLayoutProfile
  BY <1>2, LayoutsListIs, LayoutsWrittenTypes
<1> QED
  BY <1>1, <1>2, HostWrittenTypes, SaveTypes, SaveFailsTypes, RefreshTypes, ListTypes,
     RemoveLineTypes, LoadReadsTypes, LoadShowsTypes, FailsTypes, SavePreferencesTypes,
     SetSshDirTypes, ImportTypes DEF Commands

LEMMA GestureTypes == StoredInv /\ Gestures => StoredInv'
BY StartedTypes, UserTypes, DraftTypes, OpenTypes, CloseTypes, KeyAddedTypes, RemoveByHostTypes,
   ExportTypes DEF Gestures

LEMMA StoredStepInv ==
    StoredInv /\ TouchesKnown /\ [StoredNext]_storedSettingsVars => StoredInv'
<1>1. ASSUME StoredInv, UNCHANGED storedSettingsVars  PROVE StoredInv'
  <2>1. StoredFiles' /\ StoredWindow'
    BY <1>1, FilesStay, WindowStays DEF StoredInv, storedSettingsVars
  <2>2. StoredHistory' /\ StoredCalls'
    BY <1>1, HistoryStays, CallStays DEF StoredInv, storedSettingsVars, onDiskVars
  <2> QED
    BY <2>1, <2>2 DEF StoredInv
<1>2. ASSUME StoredInv, TouchesKnown, StoredNext  PROVE StoredInv'
  <2>1. CASE Asks
    BY <1>2, <2>1, AsksAre, AskTypes
  <2>2. CASE Selects
    BY <1>2, <2>2, SelectsAre, SelectTypes
  <2>3. CASE Upserts
    BY <1>2, <2>3, UpsertTypes DEF Upserts
  <2>4. CASE Commands
    BY <1>2, <2>4, CommandTypes
  <2>5. CASE Gestures
    BY <1>2, <2>5, GestureTypes
  <2>6. CASE Touches
    BY <1>2, <2>6, TouchTypes
  <2> QED
    BY <1>2, <2>1, <2>2, <2>3, <2>4, <2>5, <2>6, StepsAre
<1> QED
  BY <1>1, <1>2

\* All but sessions and the touches themselves leave the touches alone.
LEMMA TouchesLeft ==
    StoredInv /\ (Asks \/ Selects \/ Upserts \/ Commands) => touches' = touches
<1>1. StoredInv /\ Asks => touches' = touches
  <2>1. \A c : Requests(c) => touches' = touches
    BY DEF Requests
  <2> QED
    BY <2>1, AsksAre
<1>2. StoredInv /\ Selects => touches' = touches
  <2>1. Selected => touches' = touches
    BY DEF Selected
  <2> QED
    BY <2>1, SelectsAre
<1>3. Upserts => touches' = touches
  BY DEF Upserts, UpsertHostMetadata
<1>4. Commands => touches' = touches
  <2>1. \A what : AtHead(what) => touches' = touches
    BY DEF AtHead
  <2>2. LoadShows \/ StoredCommandFails => touches' = touches
    BY DEF LoadShows, StoredCommandFails
  <2> QED
    BY <2>1, <2>2 DEF Commands, HostWritten, SaveMetadata, SaveMetadataFails, SaveViewProfile,
       DeleteViewProfile, ReorderViewProfiles, SaveLayoutProfile, DeleteLayoutProfile,
       RefreshLayoutProfiles, ListKnownHosts, RemoveKnownHostsLine, LoadReads, SavePreferences,
       SetSshDirOverride, ImportBackup
<1> QED
  BY <1>1, <1>2, <1>3, <1>4

LEMMA TouchesStart == StoredInit => TouchesKnown
<1>1. NoMetadata \in Metadata
  BY SettingsAssumption DEF NoMetadata, Metadata, DefaultFacts, Facts
<1> QED
  BY <1>1 DEF StoredInit, TouchesKnown, NoTouch

LEMMA TouchesStep ==
    StoredInv /\ TouchesKnown /\ [StoredNext]_storedSettingsVars => TouchesKnown'
<1> SUFFICES ASSUME StoredInv, TouchesKnown, [StoredNext]_storedSettingsVars
             PROVE  TouchesKnown'
  OBVIOUS
<1>1. NoMetadata \in Metadata
  BY SettingsAssumption DEF NoMetadata, Metadata, DefaultFacts, Facts
<1>2. CASE touches' = touches
  BY <1>2 DEF TouchesKnown
<1>3. ASSUME NEW a \in SavedHost, SessionStarted(a)  PROVE TouchesKnown'
  <2> DEFINE new == [at |-> "loads", alias |-> a, store |-> NoMetadata]
  <2>1. starts' \in 1..MaxStarts
    BY <1>3, SettingsAssumption DEF SessionStarted, StoredInv, StoredCalls
  <2>2. touches' = [touches EXCEPT ![starts'] = new]
    BY <1>3 DEF SessionStarted
  <2>3. /\ new \in [at : {"none", "loads", "saves"}, alias : SavedHost \cup {AnyHost},
                    store : Metadata]
        /\ new.alias \in SavedHost
    BY <1>1
  <2> HIDE DEF new
  <2> QED
    BY <2>1, <2>2, <2>3 DEF TouchesKnown
<1>4. ASSUME NEW i \in 1..MaxStarts, TouchLoads(i)  PROVE TouchesKnown'
  <2> DEFINE new == [touches[i] EXCEPT !.at = "saves", !.store = metadata[dir]]
  <2>1. touches' = [touches EXCEPT ![i] = new]
    BY <1>4 DEF TouchLoads
  <2>2. metadata[dir] \in Metadata /\ touches[i].alias \in SavedHost
    BY <1>4 DEF StoredInv, StoredFiles, TouchLoads, TouchesKnown
  <2>3. /\ new \in [at : {"none", "loads", "saves"}, alias : SavedHost \cup {AnyHost},
                    store : Metadata]
        /\ new.alias \in SavedHost
    BY <2>2 DEF TouchesKnown
  <2> HIDE DEF new
  <2> QED
    BY <2>1, <2>3 DEF TouchesKnown
<1>5. ASSUME NEW i \in 1..MaxStarts, touches' = [touches EXCEPT ![i] = NoTouch]
      PROVE  TouchesKnown'
  <2>1. /\ NoTouch \in [at : {"none", "loads", "saves"}, alias : SavedHost \cup {AnyHost},
                        store : Metadata]
        /\ NoTouch.at = "none"
    BY <1>1 DEF NoTouch
  <2> QED
    BY <1>5, <2>1 DEF TouchesKnown
<1>6. CASE Touches
  BY <1>4, <1>5, <1>6 DEF Touches, TouchSaves, TouchWrites, TouchFails
<1>7. CASE Gestures
  <2>1. ASSUME NEW k \in HostKey, KeyAdded(k) \/ RemoveByHost(k)  PROVE touches' = touches
    BY <2>1 DEF KeyAdded, RemoveByHost
  <2>2. ASSUME NEW u \in DefaultUser, ApplyDefaultUser(u)  PROVE touches' = touches
    BY <2>2 DEF ApplyDefaultUser
  <2>3. EditHostDraft \/ OpenSshTab \/ CloseSshTab \/ ExportBackup => touches' = touches
    BY DEF EditHostDraft, OpenSshTab, CloseSshTab, ShowLines, ExportBackup
  <2> QED
    BY <1>2, <1>3, <1>7, <2>1, <2>2, <2>3 DEF Gestures
<1>8. CASE UNCHANGED storedSettingsVars
  BY <1>2, <1>8 DEF storedSettingsVars
<1>9. CASE Asks \/ Selects \/ Upserts \/ Commands
  BY <1>2, <1>9, TouchesLeft
<1> QED
  BY <1>6, <1>7, <1>8, <1>9, StepsAre

LEMMA StoredInvHolds == StoredSpec => [](StoredInv /\ TouchesKnown)
<1>1. StoredInit => StoredInv /\ TouchesKnown
  BY StoredStart, TouchesStart
<1>2. StoredInv /\ TouchesKnown /\ [StoredNext]_storedSettingsVars
         => (StoredInv /\ TouchesKnown)'
  BY StoredStepInv, TouchesStep
<1> QED
  BY <1>1, <1>2, PTL DEF StoredSpec

LEMMA StoredInvTypes == StoredInv /\ TouchesKnown => StoredTypeOK
<1> SUFFICES ASSUME StoredInv, TouchesKnown PROVE StoredTypeOK
  OBVIOUS
<1>1. \A d \in SshDir : views[d] \in Seq(View) /\ layouts[d] \in Seq(Layout)
  BY ListFields DEF StoredInv, StoredFiles
<1>2. viewProfiles \in Seq(View) /\ layoutProfiles \in Seq(Layout)
  BY ListFields DEF StoredInv, StoredWindow
<1>3. prefsCache \in MinTimeout..MaxTimeout
  BY DEF StoredInv, StoredFiles
<1>4. shownLines = NotShown \/ shownLines \subseteq [line : Nat \ {0}, key : HostKey]
  BY DEF StoredInv, StoredWindow, Row
<1> QED
  BY <1>1, <1>2, <1>3, <1>4
     DEF StoredInv, StoredFiles, StoredWindow, StoredCalls, StoredHistory, TouchesKnown,
         StoredTypeOK

\* Every variable keeps values of its kind, whatever is asked before what was asked has
\* ended: the files of every directory and what the window shows of them are metadata of
\* the saved hosts, views, layouts, timeouts within their bounds and rows with a number.
THEOREM StoredTypesHold == StoredSpec => []StoredTypeOK
BY StoredInvHolds, StoredInvTypes, PTL

-----------------------------------------------------------------------------
(* With a user who waits                                                   *)

LEMMA PatientAsks ==
    ASSUME PatientSettings, Changes
    PROVE  Pending = {} /\ read = NotRead
BY DEF Changes, Waits, Pending, AwaitedIn

LEMMA PatientSends ==
    ASSUME StoredInv, NEW c \in Command, Send(c), Pending = {}
    PROVE  OneIn(queued') /\ Pending' = {c}
BY SentAwaited DEF StoredInv, StoredCalls, CallsOK, Send, Pending

LEMMA HeadAwaited ==
    ASSUME StoredInv, OneAwaited, queued # <<>>
    PROVE  Pending = {Cmd} /\ read = NotRead
<1>1. AwaitedIn(queued) = {Cmd}
  BY EndedAwaited DEF StoredInv, StoredCalls, CallsOK, OneAwaited, Cmd
<1> QED
  BY <1>1 DEF Pending, OneAwaited

LEMMA PatientEnds ==
    ASSUME StoredInv, OneAwaited, queued # <<>>, Finished
    PROVE  OneIn(queued') /\ Pending' = {}
BY EndedAwaited DEF StoredInv, StoredCalls, CallsOK, OneAwaited, Finished, Pending

LEMMA PatientGoesOn ==
    ASSUME StoredInv, OneAwaited, queued # <<>>, NEW c \in Command, GoesOn(c)
    PROVE  OneIn(queued') /\ Pending' = {c}
<1>1. Tail(queued) \in Seq(Command) /\ AwaitedIn(Tail(queued)) = {}
  BY EndedAwaited DEF StoredInv, StoredCalls, CallsOK, OneAwaited
<1>2. /\ AwaitedIn(Append(Tail(queued), c)) = {c} /\ OneIn(Append(Tail(queued), c))
  BY <1>1, SentAwaited
<1> QED
  BY <1>2 DEF GoesOn, Pending

\* What a step does not concern.
LEMMA ChoicesStay ==
    ASSUME ChoicesKept, UNCHANGED <<metadata, chosen, doubtful, dir, metadataStore, read>>,
           \A c \in Pending' : c.is \in {"saveMetadata", "saveHost", "deleteHost"} => c \in Pending,
           Awaits({"load", "saveMetadata"}) => Awaits({"load", "saveMetadata"})'
    PROVE  ChoicesKept'
BY DEF ChoicesKept, HoldsChoices, HoldsBut

LEMMA AgreesStay ==
    ASSUME WindowAgrees,
           UNCHANGED <<views, layouts, dir, prefsCache, viewProfiles, layoutProfiles,
                       appPreferences, read>>,
           Awaits({"load"}) => Awaits({"load"})',
           Awaits({"load", "listLayouts"}) => Awaits({"load", "listLayouts"})'
    PROVE  WindowAgrees'
BY DEF WindowAgrees

LEMMA PatientStart == StoredInit => PatientInv
<1> SUFFICES ASSUME StoredInit PROVE PatientInv
  OBVIOUS
<1>1. Pending = {} /\ OneIn(queued) /\ read = NotRead
  BY DEF StoredInit, Pending, AwaitedIn, OneIn
<1>2. OneAwaited
  BY <1>1 DEF OneAwaited
<1>4. \A h \in SavedHost, f \in Choice : NoMetadata.hosts[h][f] = FALSE
  BY DEF NoMetadata, DefaultFacts, Field
<1>5. \A d \in SshDir : HoldsChoices(NoMetadata, d)
  BY <1>4 DEF HoldsChoices, StoredInit
<1>6. ChoicesKept
  BY <1>1, <1>5 DEF ChoicesKept, StoredInit
<1>7. WindowAgrees
  BY <1>1 DEF WindowAgrees, StoredInit
<1> QED
  BY <1>2, <1>6, <1>7 DEF PatientInv

LEMMA AskPatient ==
    ASSUME PatientSettings, StoredInv, PatientInv, NEW c, AskedOK(c), Requests(c)
    PROVE  PatientInv'
<1>1. Pending = {} /\ read = NotRead
  BY PatientAsks DEF Requests
<1>2. OneIn(queued') /\ Pending' = {c} /\ read' = NotRead
  BY <1>1, PatientSends DEF Requests, AskedOK
<1>3. OneAwaited'
  BY <1>2 DEF OneAwaited
<1>5. ChoicesKept'
  <2>1. UNCHANGED <<metadata, chosen, doubtful, dir, metadataStore>>
    BY DEF Requests, onDiskVars, shownVars, historyVars
  <2>2. HoldsChoices(metadataStore, dir) /\ \A d \in SshDir : HoldsChoices(metadata[d], d)
    BY <1>1 DEF PatientInv, ChoicesKept, Awaits
  <2>3. c.is \in {"saveHost", "deleteHost"} => HoldsChoices(c.store, dir)
    BY <2>2 DEF AskedOK, HoldsChoices
  <2>4. c.is # "saveMetadata"
    BY DEF AskedOK
  <2>5. \A d \in SshDir : HoldsChoices(metadata[d], d)'
    BY <2>1, <2>2 DEF HoldsChoices
  <2>6. HoldsChoices(metadataStore, dir)'
    BY <2>1, <2>2 DEF HoldsChoices
  <2>7. c.is \in {"saveHost", "deleteHost"} => HoldsChoices(c.store, dir)'
    BY <2>1, <2>3 DEF HoldsChoices
  <2> QED
    BY <1>2, <2>4, <2>5, <2>6, <2>7 DEF ChoicesKept
<1>6. WindowAgrees'
  <2>1. UNCHANGED <<views, layouts, dir, prefsCache, viewProfiles, layoutProfiles,
                    appPreferences, read>>
    BY DEF Requests, onDiskVars, shownVars, profileVars
  <2> QED
    BY <1>1, <2>1, AgreesStay DEF PatientInv, Awaits
<1> QED
  BY <1>3, <1>5, <1>6 DEF PatientInv

LEMMA SelectPatient ==
    ASSUME PatientSettings, StoredInv, PatientInv, Selected
    PROVE  PatientInv'
<1>1. UNCHANGED <<onDiskVars, metadataStore, viewProfiles, layoutProfiles, appPreferences,
                  shownLines, queued, read, historyVars>>
  BY DEF Selected
<1>2. Pending' = Pending /\ OneIn(queued') = OneIn(queued)
  BY <1>1 DEF Pending
<1>4. ChoicesKept'
  BY <1>1, <1>2, ChoicesStay DEF PatientInv, onDiskVars, historyVars, Awaits
<1>5. WindowAgrees'
  BY <1>1, <1>2, AgreesStay DEF PatientInv, onDiskVars, Awaits
<1>6. OneAwaited'
  BY <1>1, <1>2 DEF PatientInv, OneAwaited
<1> QED
  BY <1>4, <1>5, <1>6 DEF PatientInv

\* A store with some fields set holds the other choices.
LEMMA WithHolds ==
    ASSUME NEW store \in Metadata, NEW a \in SavedHost, NEW set \in Setting,
           HoldsChoices(store, dir)
    PROVE  HoldsBut(With(store, a, set), dir, a, set)
<1>1. \A h \in SavedHost, f \in Choice :
         With(store, a, set).hosts[h][f] =
            IF h = a /\ f \in DOMAIN set THEN set[f] ELSE store.hosts[h][f]
  BY WithIs DEF Field
<1> QED
  BY <1>1 DEF HoldsChoices, HoldsBut

\* A handler has its store sent: what it shows and what it sends hold the choices but for
\* the fields it sets.
LEMMA StoreSent ==
    ASSUME StoredInv, PatientInv, OneIn(queued'), NEW c \in Command, Pending' = {c},
           c.is = "saveMetadata", read' = NotRead, ~Awaits({"load", "listLayouts"}),
           read = NotRead,
           UNCHANGED <<onDiskVars, profileVars, appPreferences, shownLines, historyVars>>,
           c.store = metadataStore', HoldsBut(c.store, dir, c.alias, c.set)
    PROVE  PatientInv'
<1>1. OneAwaited'
  BY DEF OneAwaited
<1>3. WindowAgrees'
  BY AgreesStay DEF PatientInv, onDiskVars, profileVars, Awaits
<1>4. ChoicesKept'
  <2>1. UNCHANGED <<metadata, chosen, doubtful, dir>>
    BY DEF onDiskVars, historyVars
  <2>2. \A d \in SshDir : HoldsChoices(metadata[d], d)'
    BY <2>1 DEF HoldsChoices, PatientInv, ChoicesKept
  <2>3. HoldsBut(c.store, dir, c.alias, c.set)'
    BY <2>1 DEF HoldsBut
  <2>4. HoldsBut(metadataStore, dir, c.alias, c.set)'
    BY <2>1 DEF HoldsBut
  <2> QED
    BY <2>2, <2>3, <2>4 DEF ChoicesKept, Awaits
<1> QED
  BY <1>1, <1>3, <1>4 DEF PatientInv

LEMMA UpsertPatient ==
    ASSUME PatientSettings, StoredInv, PatientInv, NEW a \in SavedHost, NEW set \in Setting,
           UpsertHostMetadata(a, set)
    PROVE  PatientInv'
<1>1. Pending = {} /\ read = NotRead
  BY PatientAsks DEF UpsertHostMetadata
<1>2. metadataStore \in Metadata /\ metadataStore' = With(metadataStore, a, set)
  BY DEF StoredInv, StoredWindow, UpsertHostMetadata
<1> DEFINE c == SaveOf(metadataStore', a, set, "nothing")
<1>3. metadataStore' \in Metadata
  BY <1>2, WithIs
<1>4. /\ c \in Command /\ c.is = "saveMetadata" /\ c.store = metadataStore' /\ c.alias = a
      /\ c.set = set
  BY <1>3, SaveOfIs
<1>5. Send(c) /\ read' = read
  BY DEF UpsertHostMetadata
<1>6. UNCHANGED <<onDiskVars, profileVars, appPreferences, shownLines, historyVars>>
  BY DEF UpsertHostMetadata
<1> HIDE DEF c
<1>7. OneIn(queued') /\ Pending' = {c}
  BY <1>1, <1>4, <1>5, PatientSends
<1>8. HoldsChoices(metadataStore, dir)
  BY <1>1 DEF PatientInv, ChoicesKept, Awaits
<1>9. HoldsBut(metadataStore', dir, a, set)
  <2>1. HoldsBut(With(metadataStore, a, set), dir, a, set)
    BY <1>2, <1>8, WithHolds
  <2> QED
    BY <1>2, <2>1
<1>10. ~Awaits({"load", "listLayouts"})
  BY <1>1 DEF Awaits
<1> QED
  BY <1>1, <1>4, <1>5, <1>6, <1>7, <1>9, <1>10, StoreSent

LEMMA UserPatient ==
    ASSUME PatientSettings, StoredInv, PatientInv, NEW u \in DefaultUser, ApplyDefaultUser(u)
    PROVE  PatientInv'
<1>1. Pending = {} /\ read = NotRead
  BY PatientAsks DEF ApplyDefaultUser
<1> DEFINE c == UserCommand(metadataStore')
<1>2. /\ metadataStore' \in Metadata /\ metadataStore'.hosts = metadataStore.hosts /\ Send(c)
  BY UserApplied
<1>3. /\ c \in Command /\ c.is = "saveMetadata" /\ c.store = metadataStore' /\ DOMAIN c.set = {}
  BY <1>2, UserCommandIs
<1>4. /\ read' = read
      /\ UNCHANGED <<onDiskVars, profileVars, appPreferences, shownLines, historyVars>>
  BY DEF ApplyDefaultUser
<1> HIDE DEF c
<1>5. OneIn(queued') /\ Pending' = {c}
  BY <1>1, <1>2, <1>3, PatientSends
<1>6. HoldsChoices(metadataStore, dir)
  BY <1>1 DEF PatientInv, ChoicesKept, Awaits
<1>7. HoldsBut(c.store, dir, c.alias, c.set)
  BY <1>2, <1>3, <1>6 DEF HoldsChoices, HoldsBut
<1>8. ~Awaits({"load", "listLayouts"})
  BY <1>1 DEF Awaits
<1> QED
  BY <1>1, <1>3, <1>4, <1>5, <1>7, <1>8, StoreSent

LEMMA HostWrittenPatient ==
    ASSUME StoredInv, PatientInv, HostWritten
    PROVE  PatientInv'
<1>1. queued # <<>> /\ Cmd.is \in {"saveHost", "deleteHost"}
  BY DEF HostWritten, AtHead, Cmd
<1>2. Pending = {Cmd} /\ read = NotRead
  BY <1>1, HeadAwaited DEF PatientInv
<1>3. Cmd.alias \in SavedHost /\ Cmd.store \in Metadata /\ Cmd.set \in Setting
  BY <1>1, HeadIs, CommandFields DEF StoredInv
<1>4. metadataStore' = With(Cmd.store, Cmd.alias, Cmd.set)
  BY DEF HostWritten
<1>5. metadataStore' \in Metadata
  BY <1>3, <1>4, WithIs
<1> DEFINE c == SaveOf(metadataStore', Cmd.alias, Cmd.set, "load")
<1>6. /\ c \in Command /\ c.is = "saveMetadata" /\ c.store = metadataStore' /\ c.alias = Cmd.alias
      /\ c.set = Cmd.set
  BY <1>3, <1>5, SaveOfIs
<1>7. /\ GoesOn(c) /\ read' = read
      /\ UNCHANGED <<onDiskVars, profileVars, appPreferences, shownLines, historyVars>>
  BY DEF HostWritten
<1> HIDE DEF c
<1>8. OneIn(queued') /\ Pending' = {c}
  BY <1>1, <1>6, <1>7, PatientGoesOn DEF PatientInv
<1>9. HoldsChoices(Cmd.store, dir)
  BY <1>1, <1>2 DEF PatientInv, ChoicesKept
<1>10. HoldsBut(c.store, dir, c.alias, c.set)
  <2>1. HoldsBut(With(Cmd.store, Cmd.alias, Cmd.set), dir, Cmd.alias, Cmd.set)
    BY <1>3, <1>9, WithHolds
  <2> QED
    BY <1>4, <1>6, <2>1
<1>11. ~Awaits({"load", "listLayouts"})
  BY <1>1, <1>2 DEF Awaits
<1> QED
  BY <1>2, <1>6, <1>7, <1>8, <1>10, <1>11, StoreSent


\* The choices that were saved: a store with the fields that were set holds them.
LEMMA SavedHolds ==
    ASSUME StoredInv, SaveMetadata, NEW store,
           HoldsBut(store, dir, Cmd.alias, Cmd.set)
    PROVE  \A h \in SavedHost, f \in Choice :
              store.hosts[h][f] = chosen'[dir][h][f] \/ <<dir, h, f>> \in doubtful'
<1>1. queued # <<>> /\ Cmd.is = "saveMetadata"
  BY DEF SaveMetadata, AtHead, Cmd
<1>2. /\ Cmd.alias \in SavedHost \/ DOMAIN Cmd.set = {}
      /\ Cmd.set \in Setting /\ Cmd \in Command
  BY <1>1, HeadIs, CommandFields DEF StoredInv
<1>3. chosen' = [chosen EXCEPT ![dir][Cmd.alias] = Overlaid(chosen[dir][Cmd.alias], Cmd.set)]
  BY DEF SaveMetadata
<1>4. \A h \in SavedHost, f \in Choice :
         chosen'[dir][h][f] = IF h = Cmd.alias /\ f \in DOMAIN Cmd.set THEN Cmd.set[f]
                              ELSE chosen[dir][h][f]
  <2>1. CASE Cmd.alias \in SavedHost
    BY <1>2, <1>3, <2>1, ChosenIs
  <2>2. CASE DOMAIN Cmd.set = {}
    <3>1. chosen' = chosen
      BY <1>2, <1>3, <2>2, ChosenStays
    <3> QED
      BY <2>2, <3>1
  <2> QED
    BY <1>2, <2>1, <2>2
<1>5. \A h \in SavedHost, f \in Choice :
         <<dir, h, f>> \in Concerned <=> h = Cmd.alias /\ f \in DOMAIN Cmd.set
  <2>1. dir \in SshDir /\ Choice \subseteq Field
    BY DEF StoredInv, StoredFiles, Field
  <2> QED
    BY <1>1, <1>2, <2>1, ConcernedIs
<1>6. doubtful' = doubtful \ Concerned
  BY DEF SaveMetadata
<1> QED
  BY <1>4, <1>5, <1>6 DEF HoldsBut

LEMMA SavePatient ==
    ASSUME StoredInv, PatientInv, SaveMetadata
    PROVE  PatientInv'
<1>1. queued # <<>> /\ Cmd.is = "saveMetadata"
  BY DEF SaveMetadata, AtHead, Cmd
<1>2. Pending = {Cmd} /\ read = NotRead
  BY <1>1, HeadAwaited DEF PatientInv
<1>3. /\ HoldsBut(Cmd.store, dir, Cmd.alias, Cmd.set)
      /\ HoldsBut(metadataStore, dir, Cmd.alias, Cmd.set)
  BY <1>1, <1>2 DEF PatientInv, ChoicesKept
<1>4. /\ UNCHANGED <<views, layouts, prefs, lines, prefsCache, backup, dir>>
      /\ UNCHANGED <<metadataStore, viewProfiles, layoutProfiles, appPreferences, shownLines>>
      /\ UNCHANGED <<read, kept>>
  BY DEF SaveMetadata, shownVars, profileVars
<1>5. /\ OneIn(queued')
      /\ \/ Pending' = {}
         \/ \E c \in Command : c.is = "load" /\ Pending' = {c}
  <2>1. CASE Cmd.after = "load"
    <3>1. GoesOn(LoadNext("as before"))
      BY <2>1 DEF SaveMetadata, Continues
    <3>2. LoadNext("as before") \in Command /\ LoadNext("as before").is = "load"
      BY LoadNextIs
    <3>3. OneIn(queued') /\ Pending' = {LoadNext("as before")}
      BY <1>1, <3>1, <3>2, PatientGoesOn DEF PatientInv
    <3> QED
      BY <3>2, <3>3
  <2>2. CASE Cmd.after # "load"
    <3>1. Finished
      BY <2>2 DEF SaveMetadata, Continues
    <3> QED
      BY <1>1, <3>1, PatientEnds DEF PatientInv
  <2> QED
    BY <2>1, <2>2
<1>6. OneAwaited'
  BY <1>2, <1>4, <1>5 DEF OneAwaited
<1>8. WindowAgrees'
  BY <1>1, <1>2, <1>4, <1>5, AgreesStay DEF PatientInv, Awaits
<1>9. HoldsChoices(metadataStore, dir)'
  <2>1. \A h \in SavedHost, f \in Choice :
           metadataStore.hosts[h][f] = chosen'[dir][h][f] \/ <<dir, h, f>> \in doubtful'
    BY <1>3, SavedHolds
  <2> QED
    BY <1>4, <2>1 DEF HoldsChoices
<1>10. ASSUME NEW d \in SshDir  PROVE HoldsChoices(metadata[d], d)'
  <2>1. Cmd.store \in Metadata /\ Cmd \in Command
    BY <1>1, HeadIs, CommandFields DEF StoredInv
  <2>2. metadata'[dir] = Cmd.store /\ (d # dir => metadata'[d] = metadata[d])
    BY <2>1, MetadataWritten DEF SaveMetadata
  <2>3. CASE d = dir
    <3>1. \A h \in SavedHost, f \in Choice :
             Cmd.store.hosts[h][f] = chosen'[dir][h][f] \/ <<dir, h, f>> \in doubtful'
      BY <1>3, SavedHolds
    <3> QED
      BY <2>2, <2>3, <3>1 DEF HoldsChoices
  <2>4. CASE d # dir
    <3>1. chosen'[d] = chosen[d]
      BY <2>4 DEF SaveMetadata, StoredInv, StoredHistory
    <3>2. \A h \in SavedHost, f \in Choice : <<d, h, f>> \in doubtful => <<d, h, f>> \in doubtful'
      <4>1. \A h \in SavedHost, f \in Field : <<d, h, f>> \notin Concerned
        BY <1>1, <2>1, <2>4, ConcernedIs
      <4> QED
        BY <4>1 DEF SaveMetadata, Field
    <3>3. HoldsChoices(metadata[d], d)
      BY DEF PatientInv, ChoicesKept
    <3> QED
      BY <2>2, <2>4, <3>1, <3>2, <3>3 DEF HoldsChoices
  <2> QED
    BY <2>3, <2>4
<1>11. ChoicesKept'
  BY <1>2, <1>4, <1>5, <1>9, <1>10 DEF ChoicesKept, Awaits
<1> QED
  BY <1>6, <1>8, <1>11 DEF PatientInv

LEMMA SaveFailsPatient ==
    ASSUME StoredInv, PatientInv, SaveMetadataFails
    PROVE  PatientInv'
<1>1. queued # <<>> /\ Cmd.is = "saveMetadata" /\ Finished
  BY DEF SaveMetadataFails, AtHead, Cmd
<1>2. Pending = {Cmd} /\ read = NotRead
  BY <1>1, HeadAwaited DEF PatientInv
<1>3. OneIn(queued') /\ Pending' = {}
  BY <1>1, PatientEnds DEF PatientInv
<1>4. /\ UNCHANGED <<metadata, views, layouts, prefs, lines, prefsCache, backup, dir>>
      /\ UNCHANGED <<metadataStore, viewProfiles, layoutProfiles, appPreferences, shownLines>>
      /\ UNCHANGED <<read, chosen, kept>> /\ doubtful' = doubtful \cup Concerned
  BY DEF SaveMetadataFails, onDiskVars, shownVars, profileVars
<1>5. HoldsChoices(metadataStore, dir)'
  <2>1. HoldsBut(metadataStore, dir, Cmd.alias, Cmd.set)
    BY <1>1, <1>2 DEF PatientInv, ChoicesKept
  <2>2. \A h \in SavedHost, f \in Choice :
           h = Cmd.alias /\ f \in DOMAIN Cmd.set => <<dir, h, f>> \in Concerned
    BY DEF Concerned
  <2> QED
    BY <1>4, <2>1, <2>2 DEF HoldsBut, HoldsChoices
<1>6. ASSUME NEW d \in SshDir  PROVE HoldsChoices(metadata[d], d)'
  BY <1>4 DEF PatientInv, ChoicesKept, HoldsChoices
<1>7. ChoicesKept'
  BY <1>2, <1>3, <1>4, <1>5, <1>6 DEF ChoicesKept
<1>9. WindowAgrees'
  BY <1>1, <1>2, <1>3, <1>4, AgreesStay DEF PatientInv, Awaits
<1>10. OneAwaited'
  BY <1>2, <1>3, <1>4 DEF OneAwaited
<1> QED
  BY <1>7, <1>9, <1>10 DEF PatientInv

LEMMA StartedPatient ==
    ASSUME StoredInv, PatientInv, NEW a \in SavedHost, SessionStarted(a)
    PROVE  PatientInv'
<1>1. queued' = queued
  BY DEF SessionStarted
<1>2. Pending' = Pending /\ OneIn(queued') = OneIn(queued)
  BY <1>1 DEF Pending
<1>3. /\ UNCHANGED <<metadata, views, layouts, prefs, lines, prefsCache, backup, dir>>
      /\ UNCHANGED <<viewProfiles, layoutProfiles, appPreferences, shownLines>>
      /\ UNCHANGED <<read, chosen, doubtful, kept>>
  BY DEF SessionStarted, onDiskVars, profileVars, historyVars
<1>4. metadataStore \in Metadata /\ metadataStore' = Used(metadataStore, a)
  BY DEF StoredInv, StoredWindow, SessionStarted, Used
<1>5. \A h \in SavedHost, f \in Choice : metadataStore'.hosts[h][f] = metadataStore.hosts[h][f]
  BY <1>4, UsedIs
<1>6. ChoicesKept'
  <2>1. \A d \in SshDir : HoldsChoices(metadata[d], d)'
    BY <1>3 DEF PatientInv, ChoicesKept, HoldsChoices
  <2>2. HoldsChoices(metadataStore, dir) => HoldsChoices(metadataStore, dir)'
    BY <1>3, <1>5 DEF HoldsChoices
  <2>3. ASSUME NEW c \in Pending, c.is = "saveMetadata"
        PROVE  /\ HoldsBut(c.store, dir, c.alias, c.set)'
               /\ HoldsBut(metadataStore, dir, c.alias, c.set)'
    <3>1. /\ HoldsBut(c.store, dir, c.alias, c.set)
          /\ HoldsBut(metadataStore, dir, c.alias, c.set)
      BY <2>3 DEF PatientInv, ChoicesKept
    <3> QED
      BY <1>3, <1>5, <3>1 DEF HoldsBut
  <2>4. ASSUME NEW c \in Pending, c.is \in {"saveHost", "deleteHost"}
        PROVE  HoldsChoices(c.store, dir)'
    <3>1. HoldsChoices(c.store, dir)
      BY <2>4 DEF PatientInv, ChoicesKept
    <3> QED
      BY <1>3, <3>1 DEF HoldsChoices
  <2>5. read' # NotRead => HoldsChoices(read.metadata, dir)'
    BY <1>3 DEF PatientInv, ChoicesKept, HoldsChoices
  <2>6. read = NotRead /\ ~Awaits({"load", "saveMetadata"}) => HoldsChoices(metadataStore, dir)
    BY DEF PatientInv, ChoicesKept
  <2> QED
    BY <1>2, <1>3, <2>1, <2>2, <2>3, <2>4, <2>5, <2>6 DEF ChoicesKept, Awaits
<1>8. WindowAgrees'
  BY <1>2, <1>3, AgreesStay DEF PatientInv, Awaits
<1>9. OneAwaited'
  BY <1>2, <1>3 DEF PatientInv, OneAwaited
<1> QED
  BY <1>6, <1>8, <1>9 DEF PatientInv

\* Nothing the invariant speaks of changes.
LEMMA PatientStays ==
    ASSUME PatientInv, UNCHANGED <<onDiskVars, shownVars, queued, read, historyVars>>
    PROVE  PatientInv'
<1>1. Pending' = Pending /\ OneIn(queued') = OneIn(queued)
  BY DEF Pending
<1>2. ChoicesKept'
  BY <1>1, ChoicesStay DEF PatientInv, onDiskVars, shownVars, historyVars, Awaits
<1>3. WindowAgrees'
  BY <1>1, AgreesStay DEF PatientInv, onDiskVars, shownVars, profileVars, Awaits
<1>4. OneAwaited'
  BY <1>1 DEF PatientInv, OneAwaited
<1> QED
  BY <1>2, <1>3, <1>4 DEF PatientInv

LEMMA TouchSavesPatient ==
    ASSUME StoredInv, TouchesKnown, PatientInv, NEW i \in 1..MaxStarts, TouchSaves(i)
    PROVE  PatientInv'
<1>1. /\ UNCHANGED <<views, layouts, prefs, lines, prefsCache, backup, dir>>
      /\ UNCHANGED <<metadataStore, viewProfiles, layoutProfiles, appPreferences>>
      /\ UNCHANGED <<queued, read, chosen, kept>>
  BY DEF TouchSaves, TouchWrites, shownVars, profileVars
<1>2. Pending' = Pending /\ OneIn(queued') = OneIn(queued)
  BY <1>1 DEF Pending
<1>3. doubtful \subseteq doubtful'
  BY TouchedIs
<1>4. ASSUME NEW d \in SshDir  PROVE HoldsChoices(metadata[d], d)'
  <2> DEFINE store == touches[i].store
             new == Used(store, touches[i].alias)
  <2>1. store \in Metadata /\ touches[i].alias \in SavedHost
    BY TouchedIs
  <2>2. new \in Metadata /\ \A h \in SavedHost, f \in Choice : new.hosts[h][f] = store.hosts[h][f]
    BY <2>1, UsedIs
  <2>3. metadata' = [metadata EXCEPT ![dir] = new]
    BY TouchedIs
  <2>4. \A h \in SavedHost, f \in Choice :
           store.hosts[h][f] = metadata[dir].hosts[h][f] \/ <<dir, h, f>> \in doubtful'
    BY TouchedIs
  <2> HIDE DEF new, store
  <2>5. metadata'[dir] = new /\ (d # dir => metadata'[d] = metadata[d])
    BY <1>1, <2>2, <2>3, MetadataWritten
  <2>6. HoldsChoices(metadata[d], d) /\ HoldsChoices(metadata[dir], dir)
    BY DEF PatientInv, ChoicesKept, StoredInv, StoredFiles
  <2>7. CASE d = dir
    BY <1>1, <1>3, <2>2, <2>4, <2>5, <2>6, <2>7 DEF HoldsChoices
  <2>8. CASE d # dir
    BY <1>1, <1>3, <2>5, <2>6, <2>8 DEF HoldsChoices
  <2> QED
    BY <2>7, <2>8
<1>5. ChoicesKept'
  <2>1. /\ HoldsChoices(metadataStore, dir) => HoldsChoices(metadataStore, dir)'
        /\ HoldsChoices(read.metadata, dir) => HoldsChoices(read.metadata, dir)'
    BY <1>1, <1>3 DEF HoldsChoices
  <2>2. \A c : /\ HoldsBut(c.store, dir, c.alias, c.set) => HoldsBut(c.store, dir, c.alias, c.set)'
               /\ HoldsBut(metadataStore, dir, c.alias, c.set)
                    => HoldsBut(metadataStore, dir, c.alias, c.set)'
    BY <1>1, <1>3 DEF HoldsBut
  <2>3. \A c : HoldsChoices(c.store, dir) => HoldsChoices(c.store, dir)'
    BY <1>1, <1>3 DEF HoldsChoices
  <2> QED
    BY <1>1, <1>2, <1>4, <2>1, <2>2, <2>3 DEF PatientInv, ChoicesKept, Awaits
<1>6. WindowAgrees'
  BY <1>1, <1>2, AgreesStay DEF PatientInv, Awaits
<1>7. OneAwaited'
  BY <1>1, <1>2 DEF PatientInv, OneAwaited
<1> QED
  BY <1>5, <1>6, <1>7 DEF PatientInv

LEMMA TouchPatient ==
    ASSUME StoredInv, TouchesKnown, PatientInv, Touches
    PROVE  PatientInv'
BY TouchSavesPatient, PatientStays DEF Touches, TouchLoads, TouchFails

LEMMA DraftPatient ==
    ASSUME StoredInv, PatientInv, EditHostDraft
    PROVE  PatientInv'
<1>1. UNCHANGED <<onDiskVars, metadataStore, viewProfiles, layoutProfiles, appPreferences,
                  shownLines, queued, read, historyVars>>
  BY DEF EditHostDraft, profileVars
<1>2. Pending' = Pending /\ OneIn(queued') = OneIn(queued)
  BY <1>1 DEF Pending
<1>4. ChoicesKept'
  BY <1>1, <1>2, ChoicesStay DEF PatientInv, onDiskVars, historyVars, Awaits
<1>5. WindowAgrees'
  BY <1>1, <1>2, AgreesStay DEF PatientInv, onDiskVars, Awaits
<1>6. OneAwaited'
  BY <1>1, <1>2 DEF PatientInv, OneAwaited
<1> QED
  BY <1>4, <1>5, <1>6 DEF PatientInv


LEMMA ViewsPatient ==
    ASSUME StoredInv, PatientInv, SaveViewProfile \/ DeleteViewProfile \/ ReorderViewProfiles
    PROVE  PatientInv'
<1>1. /\ queued # <<>> /\ Cmd.is \in {"saveView", "deleteView", "reorderViews"}
      /\ ViewAfter \in View \cup {NoId, "as before"}
      /\ ViewsWritten(ViewsList, ViewAfter, ToSet(ViewsList))
  BY ViewsListIs
<1>2. Pending = {Cmd} /\ read = NotRead
  BY <1>1, HeadAwaited DEF PatientInv
<1> DEFINE c == LoadNext(ViewAfter)
<1>3. c \in Command /\ c.is = "load" /\ GoesOn(c)
  BY <1>1, LoadNextIs DEF ViewsWritten
<1> HIDE DEF c
<1>4. OneIn(queued') /\ Pending' = {c}
  BY <1>1, <1>3, PatientGoesOn DEF PatientInv
<1>5. /\ UNCHANGED <<metadata, lines, dir, metadataStore, shownLines>>
      /\ UNCHANGED <<read, chosen, doubtful>>
  BY <1>1 DEF ViewsWritten, shownVars
<1>7. ChoicesKept'
  BY <1>1, <1>2, <1>3, <1>4, <1>5, ChoicesStay DEF PatientInv, Awaits
<1>8. WindowAgrees'
  BY <1>2, <1>3, <1>4, <1>5 DEF WindowAgrees, Awaits
<1>9. OneAwaited'
  BY <1>2, <1>4, <1>5 DEF OneAwaited
<1> QED
  BY <1>7, <1>8, <1>9 DEF PatientInv

LEMMA LayoutsPatient ==
    ASSUME StoredInv, PatientInv, SaveLayoutProfile \/ DeleteLayoutProfile
    PROVE  PatientInv'
<1>1. /\ queued # <<>> /\ Cmd.is \in {"saveLayout", "deleteLayout"}
      /\ LayoutAfter \in Layout \cup {NoId}
      /\ LayoutsWritten(LayoutsList, LayoutAfter, ToSet(LayoutsList))
  BY LayoutsListIs
<1>2. Pending = {Cmd} /\ read = NotRead
  BY <1>1, HeadAwaited DEF PatientInv
<1> DEFINE c == [is |-> "listLayouts", select |-> LayoutAfter]
<1>3. c \in Command /\ c.is = "listLayouts" /\ GoesOn(c)
  BY <1>1, ListLayoutsIs DEF LayoutsWritten
<1> HIDE DEF c
<1>4. OneIn(queued') /\ Pending' = {c}
  BY <1>1, <1>3, PatientGoesOn DEF PatientInv
<1>5. /\ UNCHANGED <<metadata, lines, dir, metadataStore, shownLines, read, chosen, doubtful>>
      /\ UNCHANGED <<views, prefsCache, viewProfiles, appPreferences>>
  BY <1>1 DEF LayoutsWritten, shownVars, profileVars
<1>7. ChoicesKept'
  BY <1>1, <1>2, <1>3, <1>4, <1>5, ChoicesStay DEF PatientInv, Awaits
<1>8. WindowAgrees'
  <2>1. viewProfiles = views[dir] /\ appPreferences = prefsCache
    BY <1>1, <1>2 DEF PatientInv, WindowAgrees, Awaits
  <2> QED
    BY <1>2, <1>3, <1>4, <1>5, <2>1 DEF WindowAgrees, Awaits
<1>9. OneAwaited'
  BY <1>2, <1>4, <1>5 DEF OneAwaited
<1> QED
  BY <1>7, <1>8, <1>9 DEF PatientInv

LEMMA RefreshPatient ==
    ASSUME StoredInv, PatientInv, RefreshLayoutProfiles
    PROVE  PatientInv'
<1>1. queued # <<>> /\ Cmd.is = "listLayouts" /\ Finished
  BY DEF RefreshLayoutProfiles, AtHead, Cmd
<1>2. Pending = {Cmd} /\ read = NotRead
  BY <1>1, HeadAwaited DEF PatientInv
<1>3. OneIn(queued') /\ Pending' = {}
  BY <1>1, PatientEnds DEF PatientInv
<1>4. /\ UNCHANGED <<metadata, lines, dir, metadataStore, shownLines, read, chosen, doubtful>>
      /\ UNCHANGED <<views, layouts, prefsCache, viewProfiles, appPreferences>>
      /\ layoutProfiles' = layouts[dir]
  BY DEF RefreshLayoutProfiles, onDiskVars, historyVars
<1>6. ChoicesKept'
  BY <1>1, <1>2, <1>3, <1>4, ChoicesStay DEF PatientInv, Awaits
<1>7. WindowAgrees'
  <2>1. viewProfiles = views[dir] /\ appPreferences = prefsCache
    BY <1>1, <1>2 DEF PatientInv, WindowAgrees, Awaits
  <2> QED
    BY <1>2, <1>3, <1>4, <2>1 DEF WindowAgrees
<1>8. OneAwaited'
  BY <1>2, <1>3, <1>4 DEF OneAwaited
<1> QED
  BY <1>6, <1>7, <1>8 DEF PatientInv

\* The table of known hosts opens, closes and is filled.
LEMMA OpenPatient ==
    ASSUME PatientSettings, StoredInv, PatientInv, OpenSshTab
    PROVE  PatientInv'
<1> DEFINE c == [is |-> "listLines"]
<1>1. /\ queued' = queued \o <<c>> /\ Changes
      /\ UNCHANGED <<onDiskVars, metadataStore, profileVars, appPreferences, hostTabUser, read,
                     starts, historyVars>>
  BY DEF OpenSshTab, ShowLines
<1>2. Pending = {} /\ read = NotRead
  BY <1>1, PatientAsks
<1>3. c \in Command /\ c.is = "listLines"
  BY ListLinesIs
<1> HIDE DEF c
<1>4. Send(c)
  BY <1>1, <1>3 DEF StoredInv, StoredCalls, CallsOK, Send
<1>5. OneIn(queued') /\ Pending' = {c}
  BY <1>2, <1>3, <1>4, PatientSends
<1>7. ChoicesKept'
  BY <1>1, <1>2, <1>3, <1>5, ChoicesStay DEF PatientInv, Awaits, onDiskVars, historyVars
<1>8. WindowAgrees'
  BY <1>1, <1>2, <1>3, <1>5, AgreesStay DEF PatientInv, Awaits, onDiskVars, profileVars
<1>9. OneAwaited'
  BY <1>1, <1>2, <1>5 DEF OneAwaited
<1> QED
  BY <1>7, <1>8, <1>9 DEF PatientInv

LEMMA ClosePatient ==
    ASSUME PatientSettings, StoredInv, PatientInv, CloseSshTab
    PROVE  PatientInv'
<1>1. /\ shownLines' = NotShown /\ Changes /\ queued' = queued
      /\ UNCHANGED <<onDiskVars, metadataStore, profileVars, appPreferences, hostTabUser, read,
                     starts, historyVars>>
  BY CloseTypes DEF CloseSshTab, ShowLines
<1>2. Pending = {} /\ read = NotRead
  BY <1>1, PatientAsks
<1>3. Pending' = {} /\ OneIn(queued') = OneIn(queued)
  BY <1>1, <1>2 DEF Pending
<1>5. ChoicesKept'
  BY <1>1, <1>2, <1>3, ChoicesStay DEF PatientInv, Awaits, onDiskVars, historyVars
<1>6. WindowAgrees'
  BY <1>1, <1>2, <1>3, AgreesStay DEF PatientInv, Awaits, onDiskVars, profileVars
<1>7. OneAwaited'
  BY <1>1, <1>2, <1>3 DEF PatientInv, OneAwaited
<1> QED
  BY <1>5, <1>6, <1>7 DEF PatientInv

LEMMA ListPatient ==
    ASSUME StoredInv, PatientInv, ListKnownHosts
    PROVE  PatientInv'
<1>1. queued # <<>> /\ Cmd.is = "listLines" /\ Finished
  BY DEF ListKnownHosts, AtHead, Cmd
<1>2. Pending = {Cmd} /\ read = NotRead
  BY <1>1, HeadAwaited DEF PatientInv
<1>3. OneIn(queued') /\ Pending' = {}
  BY <1>1, PatientEnds DEF PatientInv
<1>4. UNCHANGED <<onDiskVars, metadataStore, profileVars, appPreferences, read, historyVars>>
  BY DEF ListKnownHosts
<1>8. ChoicesKept'
  BY <1>1, <1>2, <1>3, <1>4, ChoicesStay DEF PatientInv, Awaits, onDiskVars, historyVars
<1>9. WindowAgrees'
  BY <1>1, <1>2, <1>3, <1>4, AgreesStay DEF PatientInv, Awaits, onDiskVars, profileVars
<1>10. OneAwaited'
  BY <1>2, <1>3, <1>4 DEF OneAwaited
<1> QED
  BY <1>8, <1>9, <1>10 DEF PatientInv

\* known_hosts is written: the rest stays.
LEMMA LinesPatient ==
    ASSUME PatientInv, NEW held, LinesWritten(held),
           \A c \in Pending' : c.is \in {"saveMetadata", "saveHost", "deleteHost"} => c \in Pending,
           Awaits({"load", "saveMetadata"}) => Awaits({"load", "saveMetadata"})',
           Awaits({"load"}) => Awaits({"load"})',
           Awaits({"load", "listLayouts"}) => Awaits({"load", "listLayouts"})'
    PROVE  ChoicesKept' /\ WindowAgrees'
<1>1. /\ UNCHANGED <<metadata, views, layouts, prefs, prefsCache, dir>>
      /\ UNCHANGED <<metadataStore, viewProfiles, layoutProfiles, appPreferences>>
      /\ UNCHANGED <<read, chosen, doubtful>>
  BY DEF LinesWritten, shownVars, profileVars
<1>2. ChoicesKept'
  BY <1>1, ChoicesStay DEF PatientInv
<1>3. WindowAgrees'
  BY <1>1, AgreesStay DEF PatientInv
<1> QED
  BY <1>2, <1>3

LEMMA RemoveLinePatient ==
    ASSUME StoredInv, PatientInv, RemoveKnownHostsLine
    PROVE  PatientInv'
<1>1. queued # <<>> /\ Cmd.is = "removeLine" /\ Cmd.line \in DOMAIN lines[dir]
  BY DEF RemoveKnownHostsLine, AtHead, Cmd
<1>2. Pending = {Cmd} /\ read = NotRead
  BY <1>1, HeadAwaited DEF PatientInv
<1> DEFINE c == [is |-> "listLines"]
<1>3. c \in Command /\ c.is = "listLines" /\ GoesOn(c)
  BY ListLinesIs DEF RemoveKnownHostsLine
<1> HIDE DEF c
<1>4. OneIn(queued') /\ Pending' = {c}
  BY <1>1, <1>3, PatientGoesOn DEF PatientInv
<1>8. ChoicesKept' /\ WindowAgrees'
  BY <1>1, <1>2, <1>3, <1>4, LinesPatient DEF RemoveKnownHostsLine, Awaits
<1>9. OneAwaited'
  BY <1>2, <1>4 DEF OneAwaited, RemoveKnownHostsLine, LinesWritten
<1> QED
  BY <1>8, <1>9 DEF PatientInv

LEMMA KeyAddedPatient ==
    ASSUME StoredInv, PatientInv, NEW k \in HostKey, KeyAdded(k)
    PROVE  PatientInv'
<1>1. LinesWritten(Append(lines[dir], k)) /\ queued' = queued
  BY DEF KeyAdded
<1>2. Pending' = Pending /\ OneIn(queued') = OneIn(queued)
  BY <1>1 DEF Pending
<1>7. ChoicesKept' /\ WindowAgrees'
  BY <1>1, <1>2, LinesPatient DEF Awaits
<1>8. OneAwaited'
  BY <1>1, <1>2 DEF PatientInv, OneAwaited, LinesWritten
<1> QED
  BY <1>7, <1>8 DEF PatientInv

LEMMA RemoveByHostPatient ==
    ASSUME PatientSettings, StoredInv, PatientInv, NEW k \in HostKey, RemoveByHost(k)
    PROVE  PatientInv'
<1>1. LinesWritten(Others(lines[dir], {k})) /\ queued' = queued /\ Changes
  BY DEF RemoveByHost
<1>2. Pending = {} /\ read = NotRead
  BY <1>1, PatientAsks
<1>3. Pending' = {} /\ OneIn(queued') = OneIn(queued)
  BY <1>1, <1>2 DEF Pending
<1>4. read' = NotRead
  BY <1>1, <1>2 DEF LinesWritten
<1>6. ChoicesKept' /\ WindowAgrees'
  BY <1>1, <1>2, <1>3, LinesPatient DEF Awaits
<1>7. OneAwaited'
  BY <1>3, <1>4 DEF PatientInv, OneAwaited
<1> QED
  BY <1>6, <1>7 DEF PatientInv


LEMMA LoadReadsPatient ==
    ASSUME StoredInv, PatientInv, LoadReads
    PROVE  PatientInv'
<1>1. queued # <<>> /\ Cmd.is = "load" /\ Finished
  BY DEF LoadReads, AtHead, Cmd
<1>2. Pending = {Cmd} /\ read = NotRead
  BY <1>1, HeadAwaited DEF PatientInv
<1>3. OneIn(queued') /\ Pending' = {}
  BY <1>1, PatientEnds DEF PatientInv
<1>4. UNCHANGED <<onDiskVars, shownVars, historyVars>>
  BY DEF LoadReads
<1>5. /\ read'.metadata = metadata[dir] /\ read'.views = views[dir]
      /\ read'.layouts = layouts[dir] /\ read'.timeout = prefsCache /\ read' # NotRead
  <2>1. read'.is = "all" /\ NotRead.is = "nothing"
    BY DEF LoadReads, NotRead
  <2> QED
    BY <2>1 DEF LoadReads
<1>7. ChoicesKept'
  <2>1. UNCHANGED <<metadata, chosen, doubtful, dir>>
    BY <1>4 DEF onDiskVars, historyVars
  <2>2. \A d \in SshDir : HoldsChoices(metadata[d], d)'
    BY <2>1 DEF PatientInv, ChoicesKept, HoldsChoices
  <2>3. HoldsChoices(metadata[dir], dir)
    BY DEF PatientInv, ChoicesKept, StoredInv, StoredFiles
  <2>4. HoldsChoices(read.metadata, dir)'
    BY <1>5, <2>1, <2>3 DEF HoldsChoices
  <2> QED
    BY <1>3, <1>5, <2>2, <2>4 DEF ChoicesKept
<1>8. WindowAgrees'
  BY <1>4, <1>5 DEF WindowAgrees, onDiskVars
<1>9. OneAwaited'
  BY <1>3 DEF OneAwaited
<1> QED
  BY <1>7, <1>8, <1>9 DEF PatientInv

LEMMA LoadShowsPatient ==
    ASSUME StoredInv, PatientInv, LoadShows
    PROVE  PatientInv'
<1>1. Pending = {} /\ read # NotRead
  BY DEF PatientInv, OneAwaited, LoadShows
<1>2. /\ read' = NotRead /\ metadataStore' = read.metadata /\ viewProfiles' = read.views
      /\ layoutProfiles' = read.layouts /\ appPreferences' = read.timeout
      /\ UNCHANGED <<onDiskVars, shownLines, queued, historyVars>>
  BY DEF LoadShows
<1>3. Pending' = {} /\ OneIn(queued') = OneIn(queued)
  BY <1>1, <1>2 DEF Pending
<1>5. ChoicesKept'
  <2>1. UNCHANGED <<metadata, chosen, doubtful, dir>>
    BY <1>2 DEF onDiskVars, historyVars
  <2>2. \A d \in SshDir : HoldsChoices(metadata[d], d)'
    BY <2>1 DEF PatientInv, ChoicesKept, HoldsChoices
  <2>3. HoldsChoices(metadataStore, dir)'
    BY <1>1, <1>2, <2>1 DEF PatientInv, ChoicesKept, HoldsChoices
  <2> QED
    BY <1>2, <1>3, <2>2, <2>3 DEF ChoicesKept
<1>6. WindowAgrees'
  BY <1>1, <1>2 DEF PatientInv, WindowAgrees, onDiskVars
<1>7. OneAwaited'
  BY <1>2, <1>3 DEF PatientInv, OneAwaited
<1> QED
  BY <1>5, <1>6, <1>7 DEF PatientInv

LEMMA FailsPatient ==
    ASSUME StoredInv, PatientInv, StoredCommandFails
    PROVE  PatientInv'
<1>1. /\ queued # <<>> /\ Cmd.is \notin {"load", "listLayouts", "listLines", "saveMetadata"}
      /\ Finished /\ UNCHANGED <<onDiskVars, shownVars, read, historyVars>>
  BY DEF StoredCommandFails
<1>2. /\ OneAwaited' /\ \A c \in Pending' : c \in Pending
      /\ Awaits({"load"}) => Awaits({"load"})'
      /\ Awaits({"load", "saveMetadata"}) => Awaits({"load", "saveMetadata"})'
      /\ Awaits({"load", "listLayouts"}) => Awaits({"load", "listLayouts"})'
  <2>1. Pending = {Cmd}
    BY <1>1, HeadAwaited DEF PatientInv
  <2>2. OneIn(queued') /\ Pending' = {}
    BY <1>1, PatientEnds DEF PatientInv
  <2> QED
    BY <1>1, <2>1, <2>2 DEF OneAwaited, Awaits
<1>4. ChoicesKept'
  BY <1>1, <1>2, ChoicesStay DEF PatientInv, onDiskVars, shownVars, historyVars
<1>5. WindowAgrees'
  BY <1>1, <1>2, AgreesStay DEF PatientInv, onDiskVars, shownVars, profileVars
<1> QED
  BY <1>2, <1>4, <1>5 DEF PatientInv

LEMMA PreferencesPatient ==
    ASSUME StoredInv, PatientInv, SavePreferences
    PROVE  PatientInv'
<1>1. queued # <<>> /\ Cmd.is = "savePreferences" /\ Finished
  BY DEF SavePreferences, AtHead, Cmd
<1>2. Pending = {Cmd} /\ read = NotRead
  BY <1>1, HeadAwaited DEF PatientInv
<1>3. OneIn(queued') /\ Pending' = {}
  BY <1>1, PatientEnds DEF PatientInv
<1>4. /\ UNCHANGED <<metadata, views, layouts, lines, dir, metadataStore, shownLines, read>>
      /\ UNCHANGED <<viewProfiles, layoutProfiles, chosen, doubtful>>
      /\ appPreferences' = prefsCache'
  BY DEF SavePreferences, profileVars, historyVars
<1>6. ChoicesKept'
  BY <1>1, <1>2, <1>3, <1>4, ChoicesStay DEF PatientInv, Awaits
<1>7. WindowAgrees'
  <2>1. viewProfiles = views[dir] /\ layoutProfiles = layouts[dir]
    BY <1>1, <1>2 DEF PatientInv, WindowAgrees, Awaits
  <2> QED
    BY <1>2, <1>4, <2>1 DEF WindowAgrees
<1>8. OneAwaited'
  BY <1>2, <1>3, <1>4 DEF OneAwaited
<1> QED
  BY <1>6, <1>7, <1>8 DEF PatientInv

LEMMA SetSshDirPatient ==
    ASSUME StoredInv, PatientInv, SetSshDirOverride
    PROVE  PatientInv'
<1>1. queued # <<>> /\ Cmd.is = "setSshDir"
  BY DEF SetSshDirOverride, AtHead, Cmd
<1>2. Pending = {Cmd} /\ read = NotRead
  BY <1>1, HeadAwaited DEF PatientInv
<1> DEFINE c == LoadNext("as before")
<1>3. c \in Command /\ c.is = "load" /\ GoesOn(c)
  BY LoadNextIs DEF SetSshDirOverride
<1> HIDE DEF c
<1>4. OneIn(queued') /\ Pending' = {c}
  BY <1>1, <1>3, PatientGoesOn DEF PatientInv
<1>5. UNCHANGED <<metadata, lines, shownLines, read, chosen, doubtful>>
  BY DEF SetSshDirOverride, shownVars, historyVars
<1>7. ChoicesKept'
  <2>1. \A d \in SshDir : HoldsChoices(metadata[d], d)'
    BY <1>5 DEF PatientInv, ChoicesKept, HoldsChoices
  <2> QED
    BY <1>2, <1>3, <1>4, <1>5, <2>1 DEF ChoicesKept, Awaits
<1>8. WindowAgrees'
  BY <1>2, <1>3, <1>4, <1>5 DEF WindowAgrees, Awaits
<1>9. OneAwaited'
  BY <1>2, <1>4, <1>5 DEF OneAwaited
<1> QED
  BY <1>7, <1>8, <1>9 DEF PatientInv

LEMMA ExportPatient ==
    ASSUME PatientSettings, StoredInv, PatientInv, ExportBackup
    PROVE  PatientInv'
<1>1. /\ Changes /\ queued' = queued /\ read' = read
      /\ UNCHANGED <<metadata, views, layouts, lines, prefsCache, dir, shownVars, historyVars>>
  BY DEF ExportBackup
<1>2. Pending' = Pending /\ OneIn(queued') = OneIn(queued)
  BY <1>1 DEF Pending
<1>4. ChoicesKept'
  BY <1>1, <1>2, ChoicesStay DEF PatientInv, shownVars, historyVars, Awaits
<1>5. WindowAgrees'
  BY <1>1, <1>2, AgreesStay DEF PatientInv, shownVars, profileVars, Awaits
<1>6. OneAwaited'
  BY <1>1, <1>2 DEF PatientInv, OneAwaited
<1> QED
  BY <1>4, <1>5, <1>6 DEF PatientInv

LEMMA ImportPatient ==
    ASSUME StoredInv, PatientInv, ImportBackup
    PROVE  PatientInv'
<1>1. queued # <<>> /\ Cmd.is = "importBackup"
  BY DEF ImportBackup, AtHead, Cmd
<1>2. Pending = {Cmd} /\ read = NotRead
  BY <1>1, HeadAwaited DEF PatientInv
<1> DEFINE c == LoadNext("as before")
<1>3. c \in Command /\ c.is = "load" /\ GoesOn(c)
  BY LoadNextIs DEF ImportBackup
<1> HIDE DEF c
<1>4. OneIn(queued') /\ Pending' = {c}
  BY <1>1, <1>3, PatientGoesOn DEF PatientInv
<1>5. UNCHANGED <<lines, dir, shownLines, read>>
  BY DEF ImportBackup, shownVars
<1>7. ASSUME NEW d \in SshDir  PROVE HoldsChoices(metadata[d], d)'
  <2> DEFINE new == [a \in SavedHost |-> [f \in Choice |-> backup.hosts[a][f]]]
  <2>1. backup \in Metadata
    BY <1>1, HeadIs DEF StoredInv
  <2>2. metadata'[dir] = backup /\ (d # dir => metadata'[d] = metadata[d])
    BY <2>1, MetadataWritten DEF ImportBackup
  <2>3. chosen' = [chosen EXCEPT ![dir] = new]
    BY DEF ImportBackup
  <2>4. \A a \in SavedHost, f \in Choice : new[a][f] = backup.hosts[a][f]
    OBVIOUS
  <2> HIDE DEF new
  <2>5. chosen'[dir] = new /\ (d # dir => chosen'[d] = chosen[d])
    BY <2>3 DEF StoredInv, StoredHistory, StoredFiles
  <2>6. CASE d = dir
    BY <2>2, <2>4, <2>5, <2>6 DEF HoldsChoices
  <2>7. CASE d # dir
    <3>1. \A h \in SavedHost, f \in Choice : <<d, h, f>> \in doubtful => <<d, h, f>> \in doubtful'
      BY <2>7 DEF ImportBackup
    <3>2. HoldsChoices(metadata[d], d)
      BY DEF PatientInv, ChoicesKept
    <3> QED
      BY <2>2, <2>5, <2>7, <3>1, <3>2 DEF HoldsChoices
  <2> QED
    BY <2>6, <2>7
<1>8. ChoicesKept'
  BY <1>2, <1>3, <1>4, <1>5, <1>7 DEF ChoicesKept, Awaits
<1>9. WindowAgrees'
  BY <1>2, <1>3, <1>4, <1>5 DEF WindowAgrees, Awaits
<1>10. OneAwaited'
  BY <1>2, <1>4, <1>5 DEF OneAwaited
<1> QED
  BY <1>8, <1>9, <1>10 DEF PatientInv

LEMMA CommandPatient == StoredInv /\ PatientInv /\ Commands => PatientInv'
BY HostWrittenPatient, SavePatient, SaveFailsPatient, ViewsPatient, LayoutsPatient,
   RefreshPatient, ListPatient, RemoveLinePatient, LoadReadsPatient, LoadShowsPatient,
   FailsPatient, PreferencesPatient, SetSshDirPatient, ImportPatient DEF Commands

LEMMA GesturePatient == PatientSettings /\ StoredInv /\ PatientInv /\ Gestures => PatientInv'
BY StartedPatient, UserPatient, DraftPatient, OpenPatient, ClosePatient, KeyAddedPatient,
   RemoveByHostPatient, ExportPatient DEF Gestures

LEMMA PatientStep ==
    PatientSettings /\ StoredInv /\ TouchesKnown /\ PatientInv /\ [StoredNext]_storedSettingsVars
        => PatientInv'
<1>1. ASSUME PatientInv, UNCHANGED storedSettingsVars  PROVE PatientInv'
  BY <1>1, PatientStays DEF storedSettingsVars
<1>2. ASSUME PatientSettings, StoredInv, TouchesKnown, PatientInv, StoredNext  PROVE PatientInv'
  <2>1. CASE Asks
    BY <1>2, <2>1, AsksAre, AskPatient
  <2>2. CASE Selects
    BY <1>2, <2>2, SelectsAre, SelectPatient
  <2>3. CASE Upserts
    BY <1>2, <2>3, UpsertPatient DEF Upserts
  <2>4. CASE Commands
    BY <1>2, <2>4, CommandPatient
  <2>5. CASE Gestures
    BY <1>2, <2>5, GesturePatient
  <2>6. CASE Touches
    BY <1>2, <2>6, TouchPatient
  <2> QED
    BY <1>2, <2>1, <2>2, <2>3, <2>4, <2>5, <2>6, StepsAre
<1> QED
  BY <1>1, <1>2

LEMMA PatientHolds ==
    ASSUME PatientSettings
    PROVE  StoredSpec => []PatientInv
<1>1. StoredInv /\ TouchesKnown /\ PatientInv /\ [StoredNext]_storedSettingsVars
         => PatientInv'
  BY PatientStep
<1> QED
  BY <1>1, StoredInvHolds, PatientStart, PTL DEF StoredSpec

LEMMA AtRest == StoredInv /\ PatientInv => SettingsSurvive
<1> SUFFICES ASSUME StoredInv, PatientInv, NothingQueued
             PROVE  /\ HoldsChoices(metadataStore, dir)
                    /\ \A d \in SshDir :
                         /\ HoldsChoices(metadata[d], d)
                         /\ HoldsKept(views[d], kept[d].views)
                         /\ HoldsKept(layouts[d], kept[d].layouts)
                    /\ viewProfiles = views[dir] /\ layoutProfiles = layouts[dir]
                    /\ appPreferences = prefsCache /\ prefsCache = prefs[dir]
  BY DEF SettingsSurvive
<1>1. Pending = {} /\ read = NotRead
  BY DEF NothingQueued, Pending, AwaitedIn
<1>2. HoldsChoices(metadataStore, dir) /\ \A d \in SshDir : HoldsChoices(metadata[d], d)
  BY <1>1 DEF PatientInv, ChoicesKept, Awaits
<1>3. /\ viewProfiles = views[dir] /\ layoutProfiles = layouts[dir]
      /\ appPreferences = prefsCache
  BY <1>1 DEF PatientInv, WindowAgrees, Awaits
<1>4. prefsCache = prefs[dir]
  BY DEF StoredInv, StoredFiles
<1>5. \A d \in SshDir : HoldsKept(views[d], kept[d].views) /\ HoldsKept(layouts[d], kept[d].layouts)
  BY ListFields DEF StoredInv, StoredFiles, StoredHistory, HoldsKept
<1> QED
  BY <1>2, <1>3, <1>4, <1>5

\* Nothing that was saved is lost or comes back, for a user who waits for what he asked,
\* but where a touch has overwritten it with what it had read before: each handler sends
\* the whole store it has captured, but it was captured with nothing under way that would
\* change another's choices, a touch brings back former choices only where its copy
\* differs from the file by then, what load() has read is what the files still hold, or
\* what such a touch has spoiled since, when it is shown, and a directory's files change
\* only while it is the one in use.
THEOREM StoredSettingsSurvive ==
    ASSUME PatientSettings
    PROVE  StoredSpec => []SettingsSurvive
BY StoredInvHolds, PatientHolds, AtRest, PTL

=============================================================================
