---------------------------- MODULE IdentityStore ----------------------------
(***************************************************************************)
(* The identity store: users, groups and SSH keys that hosts are bound to  *)
(* (secure_store.rs, the handlers of App.tsx, the Identity Store tabs and  *)
(* the host form).  The window keeps a copy; its handlers compute a whole  *)
(* new store from the copy of their render and send it to be saved, while  *)
(* the commands for encrypted keys change the file themselves.  Tags are   *)
(* treated like groups and left out; so are names and other fields.        *)
(* Commands run in the order they were sent.                               *)
(***************************************************************************)
EXTENDS Lists, SequencesExt, FiniteSets

CONSTANTS
    Alias, User, Group,
    PathKey,      \* keys that are a file
    SecretKey,    \* keys kept encrypted
    FirstStore,   \* what nosuckshell.store.v1.json holds at the start
    FirstHosts,   \* the hosts of the SSH config: FirstHosts[alias] is an IdentityFile
    MaxEdits      \* bound on what the user does

NoAlias == "no host"
NoUser == "nobody"
NoKey == "no key"
OtherFile == "another file"
StoreKey == PathKey \cup SecretKey
IdentityFile == StoreKey \cup {NoKey, OtherFile}

\* EntityStore: users with their keys, groups with their members, and for every host
\* its user, keys and groups; a host that is not bound has none.
KeyRef == [key : StoreKey, primary : BOOLEAN]
HostBinding == [user : User \cup {NoUser}, refs : Seq(KeyRef), groups : SUBSET Group]
EntityStore ==
    [users : SUBSET User, groups : SUBSET Group, keys : SUBSET StoreKey,
     held : [User -> Seq(KeyRef)], members : [Group -> SUBSET User],
     bindings : [Alias -> HostBinding]]

HasLinks(s) ==
    /\ \A u \in s.users : \A i \in DOMAIN s.held[u] : s.held[u][i].key \in s.keys
    /\ \A g \in s.groups : s.members[g] \subseteq s.users
    /\ \A a \in Alias : s.bindings[a].user \in s.users \cup {NoUser}

ASSUME IdentityStoreAssumption ==
    /\ PathKey \cap SecretKey = {} /\ NoUser \notin User /\ {NoKey, OtherFile} \cap StoreKey = {}
    /\ FirstStore \in EntityStore /\ HasLinks(FirstStore)
    /\ FirstHosts \in UNION {[A -> IdentityFile] : A \in SUBSET Alias}
    /\ NoAlias \notin Alias
    /\ MaxEdits \in Nat

VARIABLES
    file,       \* the store on disk
    config,     \* the hosts of the SSH config on disk: alias -> IdentityFile
    entityStore,\* the window's copy
    hosts,      \* the window's copy of config
    edited,     \* hostSettingsSelectedAlias, or none
    identity,   \* hostSettingsDraftHost: its IdentityFile
    binding,    \* hostSettingsDraftBinding
    unlocked,   \* UNLOCKED_KEY_MATERIAL
    runtime,    \* files in nosuckshell.runtime/keys
    sent,       \* saves, and the commands of the handlers under way, in the order sent
    listing,    \* what load() has read, or nothing
    ids,        \* the ids that were given: a new one is never an old one
    edits

identityStoreVars == <<file, config, entityStore, hosts, edited, identity, binding, unlocked,
                       runtime, sent, listing, ids, edits>>
backendVars == <<file, config, unlocked, runtime>>
draftVars == <<edited, identity, binding>>

NotLoading == [is |-> "nothing"]
NoBinding == [user |-> NoUser, refs |-> <<>>, groups |-> {}]

-----------------------------------------------------------------------------
(* Links                                                                   *)

\* A key reference says whether it is the primary one.
Ref(k, primary) == [key |-> k, primary |-> primary]
Refers(refs, k) == \E i \in DOMAIN refs : refs[i].key = k

Without(refs, k) == Kept(refs, {i \in DOMAIN refs : refs[i].key # k})
Normalized(refs) == [i \in DOMAIN refs |-> Ref(refs[i].key, i = 1)]

\* The reference a session uses: the primary one, or else the first.
PrimaryOf(refs) ==
    IF refs = <<>> THEN NoKey
    ELSE LET marked == Kept(refs, {i \in DOMAIN refs : refs[i].primary})
         IN IF marked # <<>> THEN Head(marked).key ELSE Head(refs).key

\* A checkbox: the last key that is checked comes last, the first is primary.
Toggled(refs, k) ==
    IF Refers(refs, k) THEN Normalized(Without(refs, k))
    ELSE Normalized(Append(refs, Ref(k, FALSE)))

ReplacePrimary(refs, k) == <<Ref(k, TRUE)>> \o Kept(refs, {i \in DOMAIN refs : ~refs[i].primary})

\* The value the identity list of the form shows.
IdentityShown(path, refs, keys) ==
    IF PrimaryOf(refs) \in keys THEN PrimaryOf(refs)
    ELSE path

\* applyIdentitySelection: what the host and its binding become with a value.
ApplyIdentity(value, refs, keys) ==
    IF value \in keys
    THEN [path |-> IF value \in PathKey THEN value ELSE NoKey, refs |-> ReplacePrimary(refs, value)]
    ELSE [path |-> value, refs |-> <<>>]

\* Faulty: the draft is saved as it is.
Unsynced(path, b, store) == [path |-> path, binding |-> b]

\* syncSidebarHostWithStore: the draft as it is saved, without links to a primary
\* key and a user that are gone.
Synced(path, b, store) ==
    LET applied == ApplyIdentity(IdentityShown(path, b.refs, store.keys), b.refs, store.keys)
    IN [path |-> applied.path,
        binding |-> [user |-> IF b.user \in store.users THEN b.user ELSE NoUser,
                     refs |-> applied.refs, groups |-> b.groups]]

-----------------------------------------------------------------------------
(* The stores the handlers compute                                         *)

WithUser(s, u) == [s EXCEPT !.users = @ \cup {u}, !.held[u] = <<>>]

WithoutUser(s, u) ==
    [s EXCEPT !.users = @ \ {u},
              !.members = [g \in Group |-> @[g] \ {u}],
              !.bindings = [a \in Alias |->
                  IF @[a].user = u THEN [@[a] EXCEPT !.user = NoUser] ELSE @[a]]]

WithoutGroup(s, g) ==
    [s EXCEPT !.groups = @ \ {g},
              !.bindings = [a \in Alias |-> [@[a] EXCEPT !.groups = s.bindings[a].groups \ {g}]]]

WithKey(s, k) == [s EXCEPT !.keys = @ \cup {k}]

\* delete_key and removeStoreKey: the references go with the key.
WithoutKey(s, k) ==
    [s EXCEPT !.keys = @ \ {k},
              !.held = [u \in User |-> Without(@[u], k)],
              !.bindings = [a \in Alias |->
                  [@[a] EXCEPT !.refs = Without(s.bindings[a].refs, k)]]]

WithBinding(s, a, b) == [s EXCEPT !.bindings[a] = b]

-----------------------------------------------------------------------------
(* Handlers and commands                                                   *)

\* persistEntityStore: the window shows the new store at once; the save, and what
\* the handler does after it, come later.
Persist(next, after) ==
    /\ entityStore' = next
    /\ sent' = Append(sent, [is |-> "save", store |-> next, after |-> after])

Edits == edits < MaxEdits /\ edits' = edits + 1

EditStore(next) ==
    /\ Edits
    /\ Persist(next, "nothing")
    /\ UNCHANGED <<backendVars, hosts, draftVars, listing>>

NewId(id) == id \notin ids /\ ids' = ids \cup {id}

AddUser(u) == NewId(u) /\ EditStore(WithUser(entityStore, u))
DeleteUser(u) == u \in entityStore.users /\ EditStore(WithoutUser(entityStore, u)) /\ UNCHANGED ids

\* toggleUserKey and reorderUserStoreKeys.
EditUserKeys(u) ==
    /\ u \in entityStore.users
    /\ LET refs == entityStore.held[u]
       IN \E next \in {Toggled(refs, k) : k \in entityStore.keys}
                  \cup {Normalized(Reverse(refs)) : i \in {j \in {2} : Len(refs) = j}} :
            EditStore([entityStore EXCEPT !.held[u] = next])
    /\ UNCHANGED ids

AddGroup(g) ==
    /\ NewId(g)
    /\ EditStore([entityStore EXCEPT !.groups = @ \cup {g}, !.members[g] = {}])
DeleteGroup(g) ==
    g \in entityStore.groups /\ EditStore(WithoutGroup(entityStore, g)) /\ UNCHANGED ids

\* From the group's members or from the user's groups.
ToggleMember(g, u) ==
    /\ g \in entityStore.groups /\ u \in entityStore.users
    /\ EditStore([entityStore EXCEPT !.members[g] = IF u \in @ THEN @ \ {u} ELSE @ \cup {u}])
    /\ UNCHANGED ids

AddPathKey(k) == NewId(k) /\ EditStore(WithKey(entityStore, k))

\* A handler that sent a command first; it goes on with the store of its render.
CallCommand(call) ==
    /\ Edits
    /\ sent' = Append(sent, call)
    /\ UNCHANGED <<backendVars, entityStore, hosts, draftVars, listing>>

AddSecretKey(k) ==
    /\ NewId(k)
    /\ CallCommand([is |-> "create", key |-> k, store |-> entityStore])

RemoveKey(k) ==
    /\ k \in entityStore.keys
    /\ CallCommand([is |-> "remove", key |-> k, store |-> entityStore])
    /\ UNCHANGED ids

\* saveHostFromSettingsTab and createHost.
SaveHost ==
    /\ edited # NoAlias
    /\ CallCommand([is |-> "saveHost", alias |-> edited, store |-> entityStore,
                    synced |-> Synced(identity, binding, entityStore)])
    /\ UNCHANGED ids

\* The commands run one after the other; each ends by answering its handler.
SaveStore ==
    /\ sent # <<>> /\ Head(sent).is = "save"
    /\ file' \in {Head(sent).store, file}  \* or the save fails
    /\ IF file' = Head(sent).store /\ Head(sent).after = "load"
       THEN sent' = Append(Tail(sent), [is |-> "load"]) ELSE sent' = Tail(sent)
    /\ UNCHANGED <<config, unlocked, runtime, entityStore, hosts, draftVars, listing, ids, edits>>

\* A command answers, its handler persists the store it computes.
Answer(next, after) ==
    /\ entityStore' = next
    /\ sent' = Append(Tail(sent), [is |-> "save", store |-> next, after |-> after])

CreateKey ==
    /\ sent # <<>> /\ Head(sent).is = "create"
    /\ file' = WithKey(file, Head(sent).key)
    /\ Answer(WithKey(Head(sent).store, Head(sent).key), "nothing")
    /\ UNCHANGED <<config, unlocked, runtime, hosts, draftVars, listing, ids, edits>>

DeleteKey ==
    /\ sent # <<>> /\ Head(sent).is = "remove"
    /\ file' = WithoutKey(file, Head(sent).key)
    /\ unlocked' = unlocked \ {Head(sent).key}
    /\ Answer(WithoutKey(Head(sent).store, Head(sent).key), "nothing")
    /\ UNCHANGED <<config, runtime, hosts, draftVars, listing, ids, edits>>

\* No passphrase, an empty HostName, a file that cannot be written.
CommandFails ==
    /\ sent # <<>> /\ Head(sent).is \in {"create", "remove", "saveHost", "deleteHost"}
    /\ sent' = Tail(sent)
    /\ UNCHANGED <<backendVars, entityStore, hosts, draftVars, listing, ids, edits>>

WriteHost ==
    /\ sent # <<>> /\ Head(sent).is = "saveHost"
    /\ LET c == Head(sent)
       IN /\ config' = [a \in DOMAIN config \cup {c.alias} |->
                            IF a = c.alias THEN c.synced.path ELSE config[a]]
          /\ Answer(WithBinding(c.store, c.alias, c.synced.binding), "load")
    /\ UNCHANGED <<file, unlocked, runtime, hosts, draftVars, listing, ids, edits>>

\* onDelete: the host goes, its binding stays.
DeleteHost(a) ==
    /\ a \in DOMAIN hosts
    /\ CallCommand([is |-> "deleteHost", alias |-> a])
    /\ UNCHANGED ids

EraseHost ==
    /\ sent # <<>> /\ Head(sent).is = "deleteHost"
    /\ config' = [a \in DOMAIN config \ {Head(sent).alias} |-> config[a]]
    /\ sent' = Append(Tail(sent), [is |-> "load"])
    /\ UNCHANGED <<file, unlocked, runtime, entityStore, hosts, draftVars, listing, ids, edits>>

\* load(): the listings are read, then shown together.
ReadAll ==
    /\ sent # <<>> /\ Head(sent).is = "load"
    /\ listing = NotLoading
    /\ listing' = [is |-> "read", store |-> file, hosts |-> config]
    /\ sent' = Tail(sent)
    /\ UNCHANGED <<backendVars, entityStore, hosts, draftVars, ids, edits>>

ShowAll ==
    /\ listing # NotLoading
    /\ entityStore' = listing.store /\ hosts' = listing.hosts
    /\ listing' = NotLoading
    /\ UNCHANGED <<backendVars, draftVars, sent, ids, edits>>

-----------------------------------------------------------------------------
(* The host form                                                           *)

\* loadHostIntoSettingsEditor, or an empty form for a new host.
EditHost(a) ==
    /\ a # edited
    /\ edited' = a
    /\ LET path == IF a \in DOMAIN hosts THEN hosts[a] ELSE NoKey
           synced == Synced(path, IF a \in DOMAIN hosts THEN entityStore.bindings[a] ELSE NoBinding,
                            entityStore)
       IN identity' = synced.path /\ binding' = synced.binding
    /\ Edits
    /\ UNCHANGED <<backendVars, entityStore, hosts, sent, listing, ids>>

\* The list of identities, the list of users, the checkboxes of keys and groups.
EditDraft ==
    /\ edited # NoAlias
    /\ \/ \E v \in entityStore.keys \cup {NoKey} :
            LET applied == ApplyIdentity(v, binding.refs, entityStore.keys)
            IN identity' = applied.path /\ binding' = [binding EXCEPT !.refs = applied.refs]
       \/ \E u \in entityStore.users \cup {NoUser} :
            binding' = [binding EXCEPT !.user = u] /\ UNCHANGED identity
       \/ \E k \in entityStore.keys :
            binding' = [binding EXCEPT !.refs = Toggled(@, k)] /\ UNCHANGED identity
       \/ \E g \in entityStore.groups :
            /\ binding' = [binding EXCEPT !.groups = IF g \in @ THEN @ \ {g} ELSE @ \cup {g}]
            /\ UNCHANGED identity
    /\ Edits
    /\ UNCHANGED <<backendVars, edited, entityStore, hosts, sent, listing, ids>>

-----------------------------------------------------------------------------
(* Sessions                                                                *)

\* unlock_key_material with the right passphrase.
UnlockKey(k) ==
    /\ k \in entityStore.keys \cap file.keys \cap SecretKey
    /\ unlocked' = unlocked \cup {k}
    /\ Edits
    /\ UNCHANGED <<file, config, runtime, entityStore, hosts, draftVars, sent, listing, ids>>

Usable(k) == k \in file.keys /\ (k \in PathKey \/ k \in unlocked)

\* resolve_host_config_with_store: the host's own key, else its user's, else the
\* IdentityFile of the host.
SessionKey(a) ==
    LET b == file.bindings[a]
        own == PrimaryOf(b.refs)
        users == IF b.user \in file.users THEN PrimaryOf(file.held[b.user]) ELSE NoKey
    IN IF Usable(own) THEN own ELSE IF Usable(users) THEN users ELSE hosts[a]

\* start_session: a key that is unlocked is written to a file for ssh; nothing is
\* started when every key is locked (ensure_ssh_session_identity_ready).
StartSession(a) ==
    /\ a \in DOMAIN hosts
    /\ SessionKey(a) \in unlocked
    /\ runtime' = runtime \cup {SessionKey(a)}
    /\ Edits
    /\ UNCHANGED <<file, config, unlocked, entityStore, hosts, draftVars, sent, listing, ids>>

\* The unlocked keys are gone; what was sent was saved or was not.
RestartApp ==
    /\ unlocked # {}
    /\ unlocked' = {} /\ sent' = <<>> /\ listing' = NotLoading
    /\ entityStore' = file /\ hosts' = config
    /\ edited' = NoAlias /\ identity' = NoKey /\ binding' = NoBinding
    /\ UNCHANGED <<file, config, runtime, ids, edits>>

-----------------------------------------------------------------------------
IdentityStoreInit ==
    /\ file = FirstStore /\ entityStore = FirstStore
    /\ config = FirstHosts /\ hosts = FirstHosts
    /\ edited = NoAlias /\ identity = NoKey /\ binding = NoBinding
    /\ unlocked = {} /\ runtime = {} /\ sent = <<>> /\ listing = NotLoading
    /\ ids = FirstStore.users \cup FirstStore.groups \cup FirstStore.keys
    /\ edits = 0

StoreCommand ==
    \/ SaveStore
    \/ CreateKey
    \/ DeleteKey
    \/ CommandFails
    \/ WriteHost
    \/ EraseHost
    \/ ReadAll
    \/ ShowAll

StoreEdit ==
    \/ \E u \in User : AddUser(u) \/ DeleteUser(u) \/ EditUserKeys(u)
    \/ \E g \in Group : AddGroup(g) \/ DeleteGroup(g)
    \/ \E g \in Group, u \in User : ToggleMember(g, u)
    \/ \E k \in PathKey : AddPathKey(k)
    \/ \E k \in SecretKey : AddSecretKey(k) \/ UnlockKey(k)
    \/ \E k \in StoreKey : RemoveKey(k)

HostEdit ==
    \/ EditDraft
    \/ SaveHost
    \/ \E a \in Alias : EditHost(a) \/ DeleteHost(a) \/ StartSession(a)

IdentityStoreNext == StoreCommand \/ StoreEdit \/ HostEdit \/ RestartApp

IdentityStoreSpec == IdentityStoreInit /\ [][IdentityStoreNext]_identityStoreVars

-----------------------------------------------------------------------------
(* Properties                                                              *)

\* Every variable keeps values of its kind.
IdentityStoreTypeOK ==
    /\ file \in EntityStore /\ entityStore \in EntityStore
    /\ DOMAIN config \subseteq Alias /\ DOMAIN hosts \subseteq Alias
    /\ edited \in Alias \cup {NoAlias} /\ identity \in IdentityFile /\ binding \in HostBinding
    /\ unlocked \cup runtime \subseteq SecretKey
    /\ ids \subseteq UNION {User, Group, StoreKey}
    /\ edits \in 0..MaxEdits

\* Whatever handlers overlap, fail or end with the application, and however old the
\* form is that is saved: on disk and in the window the users of hosts and groups
\* and the keys of users exist.
LinksResolve == HasLinks(file) /\ HasLinks(entityStore)

=============================================================================
