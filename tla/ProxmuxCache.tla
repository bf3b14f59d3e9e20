---------------------------- MODULE ProxmuxCache ----------------------------
(***************************************************************************)
(* The cache of the Proxmox plugin (plugins/proxmux.rs).  Answers of a     *)
(* cluster are kept for a few seconds, one caller per key fetches while    *)
(* the others wait on a condition variable, and the commands that change a *)
(* cluster or a guest drop the keys they touch.  Every command first reads *)
(* the plugin's state file, and those that change it write the whole copy  *)
(* back.                                                                   *)
(*                                                                         *)
(* A step is a critical section of the mutex, a read of the clock, a read  *)
(* or write of the file or an exchange with the cluster: what another      *)
(* caller can come between.  Answers are abstracted to the versions they   *)
(* show: of the cluster's settings and of the cluster's own state.         *)
(***************************************************************************)
EXTENDS Naturals, FiniteSets, Sequences

CONSTANTS
    Callers,    \* threads that run a plugin command
    Clusters,
    Guests,     \* virtual machines of a cluster
    Begins,     \* Begins[c]: the clusters whose id begins with the id of c
    Ttl,        \* lifetime of an answer by kind of key
    MaxEntries, \* PROXMUX_CACHE_MAX_ENTRIES
    none,       \* a value that is no guest and no answer
    MaxNow,     \* bound on the clock
    MaxChanges, \* bound on the versions given out
    MaxCalls    \* bound on the commands started

ResourcesKey(cl) == [kind |-> "resources", cluster |-> cl, guest |-> none]
GuestKey(cl, g) == [kind |-> "guest", cluster |-> cl, guest |-> g]

GuestKeys(cl) == {GuestKey(cl, g) : g \in Guests}
KeysOf(cl) == {ResourcesKey(cl)} \cup GuestKeys(cl)
Keys == UNION {KeysOf(cl) : cl \in Clusters}

ASSUME CacheAssumption ==
    /\ none \notin Guests
    /\ Begins \in [Clusters -> SUBSET Clusters]
    /\ \A cl \in Clusters : cl \in Begins[cl]
    /\ Ttl \in [{"resources", "guest"} -> Nat]
    /\ MaxEntries \in Nat \ {0}
    /\ MaxNow \in Nat /\ MaxChanges \in Nat /\ MaxCalls \in Nat

VARIABLES
    now,       \* the system clock
    changes,   \* versions given out so far, to settings and to clusters
    world,     \* version of what the cluster would answer for a key
    file,      \* version of the settings of each cluster; 0: not in the file
    entries,   \* the cached answers
    inFlight,  \* keys some caller has claimed
    call,      \* what each caller is doing
    calls,     \* commands started so far
    floor      \* history: versions an answer for a key has to show from now on

vars == <<now, changes, world, file, entries, inFlight, call, calls, floor>>

Versions == [file : Nat, world : Nat]
Nothing == [file |-> 0, world |-> 0]
Entries == [value : Versions, cachedAt : Nat, expiresAt : Nat]

Idle == [at |-> "idle"]
Reader(at, k, f, asked, clock, value) ==
    [at |-> at, key |-> k, file |-> f, asked |-> asked, clock |-> clock, value |-> value]
GoesTo(at, r) == Reader(at, r.key, r.file, r.asked, r.clock, r.value)
ReaderPlaces == {"clock", "look", "fetch", "store", "wait"}
Readers == [at : ReaderPlaces, key : Keys, file : Nat, asked : Nat, clock : Nat,
            value : Versions \cup {none}]

\* Commands that change something: the keys they bear on and the sets of keys
\* they drop afterwards; shows: for the keys that nobody else has been busy
\* with, the versions after the change, Nothing for the others (history).
Writers == [at : {"write"}, op : {"save", "remove", "keep"}, cluster : Clusters,
            copy : [Clusters -> Nat], touches : SUBSET Keys, drops : Seq(SUBSET Keys)]
Posters == [at : {"post"}, touches : SUBSET Keys, drops : Seq(SUBSET Keys)]
Droppers == [at : {"drop"}, shows : [Keys -> Versions], drops : Seq(SUBSET Keys)]
Calls == {Idle} \cup Readers \cup Writers \cup Posters \cup Droppers

-----------------------------------------------------------------------------
(* The state under the mutex                                               *)

\* Faulty: an answer is still served at the end of its lifetime.
FreshAtTheEnd(e, clock) == clock <= e.expiresAt

Fresh(e, clock) == clock < e.expiresAt

\* A map m without the keys of ks.
Without(m, ks) == [k \in DOMAIN m \ ks |-> m[k]]

PurgeExpired(m, clock) == Without(m, {k \in DOMAIN m : ~Fresh(m[k], clock)})

\* Faulty: the sort is the wrong way round.
EvictsYoungest(m) ==
    IF Cardinality(DOMAIN m) <= MaxEntries THEN {{}}
    ELSE {gone \in SUBSET DOMAIN m :
             /\ Cardinality(DOMAIN m \ gone) = MaxEntries
             /\ \A old \in gone, kept \in DOMAIN m \ gone : m[old].cachedAt >= m[kept].cachedAt}

\* Sorted by age the oldest go first; entries of one millisecond come in the
\* arbitrary order of the map.
Evictions(m) ==
    IF Cardinality(DOMAIN m) <= MaxEntries THEN {{}}
    ELSE {gone \in SUBSET DOMAIN m :
             /\ Cardinality(DOMAIN m \ gone) = MaxEntries
             /\ \A old \in gone, kept \in DOMAIN m \ gone : m[old].cachedAt <= m[kept].cachedAt}

\* Faulty: nobody is notified.
NotifiesNobody(cs) == cs

\* notify_all: every caller that waits goes back to the top of its loop.
Notified(cs) ==
    [c \in Callers |-> IF cs[c].at = "wait" THEN GoesTo("clock", cs[c]) ELSE cs[c]]

-----------------------------------------------------------------------------
(* What each command drops                                                 *)

DropsOfCluster(cl) == <<{ResourcesKey(d) : d \in Begins[cl]}, GuestKeys(cl)>>
\* Faulty: the list of the cluster's guests is kept after an order.
DropsStatusOnly(cl, g) == <<{GuestKey(cl, g)}>>

DropsOfPower(cl, g) == <<{GuestKey(cl, g)}, {ResourcesKey(cl)}>>
DropsOfFavorite(cl) == <<{ResourcesKey(cl)}>>

Writes(op, cl, touches, drops) ==
    [at |-> "write", op |-> op, cluster |-> cl, copy |-> file, touches |-> touches, drops |-> drops]

(* The start of a command: its arguments are parsed and the state file is  *)
(* read.  A cluster that is not in the file ends the commands that name it *)
(* except the two that save and remove it.                                 *)
Starting(c, next) ==
    /\ call[c] = Idle
    /\ calls < MaxCalls
    /\ calls' = calls + 1
    /\ call' = [call EXCEPT ![c] = next]
    /\ UNCHANGED <<now, changes, world, file, entries, inFlight, floor>>

\* fetchResources and guestStatus.
Ask(c) ==
    \E k \in Keys :
        /\ file[k.cluster] # 0
        /\ Starting(c, Reader("clock", k, file[k.cluster], now, 0, none))

GuestPower(c) ==
    \E cl \in Clusters, g \in Guests :
        /\ file[cl] # 0
        /\ Starting(c, [at |-> "post", touches |-> {GuestKey(cl, g), ResourcesKey(cl)},
                        drops |-> DropsOfPower(cl, g)])

SaveCluster(c) ==
    \E cl \in Clusters : Starting(c, Writes("save", cl, KeysOf(cl), DropsOfCluster(cl)))

RemoveCluster(c) ==
    \E cl \in Clusters : Starting(c, Writes("remove", cl, KeysOf(cl), DropsOfCluster(cl)))

ToggleFavorite(c) ==
    \E cl \in Clusters :
        /\ file[cl] # 0
        /\ Starting(c, Writes("keep", cl, {ResourcesKey(cl)}, DropsOfFavorite(cl)))

-----------------------------------------------------------------------------
(* proxmux_cached_json                                                     *)

\* The clock is read before the mutex is taken.
ReadClock(c) ==
    /\ call[c].at = "clock"
    /\ call' = [call EXCEPT ![c] = Reader("look", @.key, @.file, @.asked, now, @.value)]
    /\ UNCHANGED <<now, changes, world, file, entries, inFlight, calls, floor>>

Looking(c) ==
    /\ call[c].at = "look"
    /\ entries' = PurgeExpired(entries, call[c].clock)
    /\ UNCHANGED <<now, changes, world, file, calls, floor>>

Hit(c) ==
    /\ Looking(c)
    /\ call[c].key \in DOMAIN entries'
    /\ call' = [call EXCEPT ![c] = Idle]
    /\ UNCHANGED inFlight

\* Faulty: the key is not claimed.
ClaimsNothing(c) ==
    /\ Looking(c)
    /\ call[c].key \notin DOMAIN entries' \cup inFlight
    /\ call' = [call EXCEPT ![c] = GoesTo("fetch", @)]
    /\ UNCHANGED inFlight

Claim(c) ==
    /\ Looking(c)
    /\ call[c].key \notin DOMAIN entries' \cup inFlight
    /\ inFlight' = inFlight \cup {call[c].key}
    /\ call' = [call EXCEPT ![c] = GoesTo("fetch", @)]

Wait(c) ==
    /\ Looking(c)
    /\ call[c].key \notin DOMAIN entries'
    /\ call[c].key \in inFlight
    /\ call' = [call EXCEPT ![c] = GoesTo("wait", @)]
    /\ UNCHANGED inFlight

\* A condition variable may wake a caller for no reason.
WakeUp(c) ==
    /\ call[c].at = "wait"
    /\ call' = [call EXCEPT ![c] = GoesTo("clock", @)]
    /\ UNCHANGED <<now, changes, world, file, entries, inFlight, calls, floor>>

\* The fetcher asks the cluster with the settings its command has loaded; it
\* answers or fails.
Fetch(c) ==
    /\ call[c].at = "fetch"
    /\ \E v \in {none, [file |-> call[c].file, world |-> world[call[c].key]]} :
          call' = [call EXCEPT ![c] = Reader("store", @.key, @.file, @.asked, @.clock, v)]
    /\ UNCHANGED <<now, changes, world, file, entries, inFlight, calls, floor>>

Entry(c) ==
    [value |-> call[c].value, cachedAt |-> now, expiresAt |-> now + Ttl[call[c].key.kind]]

With(m, k, e) == [x \in DOMAIN m \cup {k} |-> IF x = k THEN e ELSE m[x]]

Releasing(c) ==
    /\ call[c].at = "store"
    /\ inFlight' = inFlight \ {call[c].key}
    /\ call' = Notified([call EXCEPT ![c] = Idle])
    /\ UNCHANGED <<now, changes, world, file, calls, floor>>

\* Faulty: a failure is kept as an answer.
StoresFailures(c) ==
    /\ Releasing(c)
    /\ LET m == With(entries, call[c].key, Entry(c)) IN
       \E gone \in Evictions(m) : entries' = Without(m, gone)

Store(c) ==
    /\ Releasing(c)
    /\ call[c].value # none
    /\ LET m == With(entries, call[c].key, Entry(c)) IN
       \E gone \in Evictions(m) : entries' = Without(m, gone)

\* Faulty: the error returns before the claim is given up.
GivesUpClaimed(c) ==
    /\ call[c].at = "store"
    /\ call[c].value = none
    /\ call' = [call EXCEPT ![c] = Idle]
    /\ UNCHANGED <<now, changes, world, file, entries, inFlight, calls, floor>>

GiveUp(c) ==
    /\ Releasing(c)
    /\ call[c].value = none
    /\ UNCHANGED entries

-----------------------------------------------------------------------------
(* The commands that change something                                      *)

Written(w) ==
    IF w.op = "save" THEN [w.copy EXCEPT ![w.cluster] = changes + 1]
    ELSE IF w.op = "remove" THEN [w.copy EXCEPT ![w.cluster] = 0]
    ELSE w.copy

\* No other caller reads k or holds a copy of the file.
Quiet(c, k) ==
    \A d \in Callers \ {c} :
        /\ call[d].at \in ReaderPlaces => call[d].key # k
        /\ call[d].at # "write"

\* What an answer for k that is fetched now shows; when its cluster has been
\* removed, the settings of a later save.
Current(k) ==
    [file |-> IF file'[k.cluster] = 0 THEN changes' + 1 ELSE file'[k.cluster], world |-> world[k]]

\* The change is made, the drops come next.
Changed(c) ==
    [at |-> "drop", drops |-> call[c].drops,
     shows |-> [k \in Keys |->
                  IF k \in call[c].touches /\ Quiet(c, k) THEN Current(k) ELSE Nothing]]

\* save_state; a save gives the cluster settings of a new version.
Writing(c) ==
    /\ call[c].at = "write"
    /\ changes' = IF call[c].op = "save" THEN changes + 1 ELSE changes
    /\ UNCHANGED <<now, world, entries, inFlight, calls, floor>>

WriteFile(c) ==
    /\ Writing(c)
    /\ file' = Written(call[c])
    /\ call' = [call EXCEPT ![c] = Changed(c)]

\* An error ends the command before anything is dropped, with the file
\* written when it comes from the permissions that are set afterwards.
WriteFails(c) ==
    /\ Writing(c)
    /\ file' \in {file, Written(call[c])}
    /\ call' = [call EXCEPT ![c] = Idle]

Posting(c) ==
    /\ call[c].at = "post"
    /\ UNCHANGED <<now, changes, world, file, entries, inFlight, calls, floor>>

\* The cluster takes the order, or the request fails.
Post(c) ==
    /\ Posting(c)
    /\ call' = [call EXCEPT ![c] = Changed(c)]

PostFails(c) ==
    /\ Posting(c)
    /\ call' = [call EXCEPT ![c] = Idle]

AtLeast(v, w) == v.file >= w.file /\ v.world >= w.world

Higher(v, w) ==
    [file |-> IF v.file >= w.file THEN v.file ELSE w.file,
     world |-> IF v.world >= w.world THEN v.world ELSE w.world]

\* One invalidation: entries removed under the mutex, everybody notified.  With
\* the last one the command returns.
Drop(c) ==
    /\ call[c].at = "drop"
    /\ LET rest == Tail(call[c].drops)
           shows == [k \in Keys |-> IF Quiet(c, k) THEN call[c].shows[k] ELSE Nothing]
       IN  /\ entries' = Without(entries, Head(call[c].drops))
           /\ call' = Notified([call EXCEPT ![c] =
                  IF rest = <<>> THEN Idle ELSE [at |-> "drop", drops |-> rest, shows |-> shows]])
           /\ floor' = [k \in Keys |->
                  IF rest = <<>> THEN Higher(floor[k], shows[k]) ELSE floor[k]]
    /\ UNCHANGED <<now, changes, world, file, inFlight, calls>>

-----------------------------------------------------------------------------
(* The surroundings                                                        *)

Tick ==
    /\ now < MaxNow
    /\ now' = now + 1
    /\ UNCHANGED <<changes, world, file, entries, inFlight, call, calls, floor>>

\* What the cluster would answer for k changes: a guest starts or stops, by an
\* order given here or elsewhere.
ClusterChanges(k) ==
    /\ changes < MaxChanges
    /\ changes' = changes + 1
    /\ world' = [world EXCEPT ![k] = changes + 1]
    /\ UNCHANGED <<now, file, entries, inFlight, call, calls, floor>>

Init ==
    /\ now = 0
    /\ changes = 1
    /\ world = [k \in Keys |-> 1]
    /\ file = [cl \in Clusters |-> 1]
    /\ entries = [k \in {} |-> none]
    /\ inFlight = {}
    /\ call = [c \in Callers |-> Idle]
    /\ calls = 0
    /\ floor = [k \in Keys |-> Nothing]

Begin(c) == Ask(c) \/ GuestPower(c) \/ SaveCluster(c) \/ RemoveCluster(c) \/ ToggleFavorite(c)

\* The steps a caller takes by itself once its command has begun.
Advance(c) ==
    \/ ReadClock(c) \/ Hit(c) \/ Claim(c) \/ Wait(c)
    \/ Fetch(c) \/ Store(c) \/ GiveUp(c)
    \/ WriteFile(c) \/ WriteFails(c) \/ Post(c) \/ PostFails(c) \/ Drop(c)

Next ==
    \/ \E c \in Callers : Begin(c) \/ Advance(c) \/ WakeUp(c)
    \/ Tick
    \/ \E k \in Keys : ClusterChanges(k)

Spec == Init /\ [][Next]_vars

\* Threads are scheduled, file writes end and the HTTP client gives up after
\* its timeout.  Spurious wake-ups are not counted on.
LiveSpec == Spec /\ \A c \in Callers : WF_vars(Advance(c))

-----------------------------------------------------------------------------
(* Properties                                                              *)

\* Every variable keeps its type; in particular a failed fetch is not cached.
TypeOK ==
    /\ now \in Nat /\ changes \in Nat /\ calls \in Nat
    /\ world \in [Keys -> Nat]
    /\ file \in [Clusters -> Nat]
    /\ DOMAIN entries \subseteq Keys
    /\ \A k \in DOMAIN entries : entries[k] \in Entries
    /\ inFlight \subseteq Keys
    /\ call \in [Callers -> Calls]
    /\ floor \in [Keys -> Versions]

Fetching == {c \in Callers : call[c].at \in {"fetch", "store"}}

\* A key is fetched by one caller at a time, and exactly the keys being fetched
\* are claimed: a claim outlives neither an answer nor a failure.
SingleFlight ==
    /\ inFlight = {call[c].key : c \in Fetching}
    /\ \A c, d \in Fetching : call[c].key = call[d].key => c = d

\* A caller sleeps only while somebody is fetching its key: every way out of a
\* fetch wakes the callers that wait for it.
SleepersHaveFetcher ==
    \A c \in Callers : call[c].at = "wait" => \E d \in Fetching : call[d].key = call[c].key

\* Between two critical sections the cache holds at most its maximum.
WithinCapacity == Cardinality(DOMAIN entries) <= MaxEntries

\* Once an order, a save or a removal has returned, no answer from before it is
\* kept or about to be kept for the keys it bears on, provided nobody else was
\* reading these keys or rewriting the file while it ran.
ChangesShow ==
    /\ \A k \in DOMAIN entries : AtLeast(entries[k].value, floor[k])
    /\ \A c \in Fetching :
          call[c].value # none => AtLeast(call[c].value, floor[call[c].key])

IsHit(c) == call[c].at = "look" /\ call'[c].at = "idle"

\* What a caller is given from the cache had not reached the end of its lifetime
\* when the caller asked, however long it has waited for others since.
HitsAreFresh ==
    [][\A c \in Callers : IsHit(c) => call[c].asked < entries[call[c].key].expiresAt]_vars

\* A store into a full cache drops no answer that is younger than one it keeps;
\* in particular the answer just stored stays unless all others are as young.
EvictsTheOldest ==
    [][\A c \in Callers : call[c].at = "store" /\ call[c].value # none /\ call'[c].at = "idle" =>
          LET held == With(entries, call[c].key, Entry(c)) IN
          \A old \in DOMAIN held \ DOMAIN entries', kept \in DOMAIN entries' :
             held[old].cachedAt <= entries'[kept].cachedAt]_vars

\* Every command returns, whatever the others do and however fetches fail.
EveryCallReturns == \A c \in Callers : call[c].at # "idle" ~> call[c].at = "idle"

=============================================================================
