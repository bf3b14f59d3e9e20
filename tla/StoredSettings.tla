---------------------------- MODULE StoredSettings ----------------------------
(***************************************************************************)
(* What the window keeps in files of the SSH directory besides the hosts   *)
(* and their identities: the metadata of hosts (host_metadata.rs), custom  *)
(* views (view_profiles.rs), layout profiles (layout_profiles.rs), the     *)
(* preferences with their cache (app_prefs.rs), known hosts                *)
(* (known_hosts.rs) and the backup (backup.rs), with the handlers of       *)
(* App.tsx, the tab "SSH" and the choice of another directory.             *)
(* Commands run in the order they were sent (on worker threads: for a user *)
(* who waits there is one at a time), beside them the touches of sessions, *)
(* which nobody waits for; a handler goes on in the step of its command.   *)
(***************************************************************************)
EXTENDS Lists, SequencesExt, FiniteSets

CONSTANTS
    SavedHost,
    DefaultUser,
    View,          \* ids of custom views
    FirstViews,    \* views of each directory at the start
    Layout,        \* ids of layout profiles
    HostKey,       \* entries of known_hosts
    FirstLines,    \* known_hosts of each directory at the start
    SshDir,
    MinTimeout, MaxTimeout,
    PatientSettings, \* the user waits for what he has asked for
    MaxChanges,    \* bound on what the user does
    MaxStarts      \* bound on sessions and on keys that ssh accepts

NoUserName == ""
NoId == ""
Comment == "#"
NotShown == {[line |-> 0, key |-> Comment]}
NoBackup == [user |-> NoUserName, hosts |-> <<>>]
NotRead == [is |-> "nothing"]

ASSUME SettingsAssumption ==
    /\ NoUserName \in DefaultUser /\ NoId \notin View \cup Layout /\ Comment \notin HostKey
    /\ FirstViews \in Seq(View) /\ IsInjective(FirstViews)
    /\ FirstLines \in Seq(HostKey \cup {Comment})
    /\ MinTimeout \in Nat /\ MaxTimeout \in Nat /\ MinTimeout <= MaxTimeout
    /\ MaxChanges \in Nat /\ MaxStarts \in Nat

\* What is known of a host.  The user chooses all but whether it was used: trusts
\* stands for the key policy, jump for the tags.
Choice == {"favorite", "jump", "trusts"}
Field == Choice \cup {"used"}
Facts == [Field -> BOOLEAN]
DefaultFacts == [f \in Field |-> FALSE]
Metadata == [user : DefaultUser, hosts : [SavedHost -> Facts]]
NoMetadata == [user |-> NoUserName, hosts |-> [a \in SavedHost |-> DefaultFacts]]
\* It concerns no host.
AnyHost == CHOOSE a \in SavedHost : TRUE
NoTouch == [at |-> "none", alias |-> AnyHost, store |-> NoMetadata]

VARIABLES
    dir,            \* effective_ssh_dir
    metadata,       \* nosuckshell.metadata.json of each directory
    views,          \* nosuckshell.views.json: the order of a view is its place
    layouts,        \* nosuckshell.layouts.json
    prefs,          \* nosuckshell.app_prefs.v1.json: the timeout
    lines,          \* known_hosts
    prefsCache,     \* PREFS_CACHE
    backup,         \* the metadata in a backup file
    metadataStore, viewProfiles, layoutProfiles, appPreferences, \* of the window
    selectedView,   \* selectedViewProfileIdInSettings
    selectedLayout, pendingDelete, \* selectedLayoutProfileId, pendingLayoutProfileDeleteId
    hostTabUser,    \* the default user saveHostFromSettingsTab has captured
    shownLines,     \* knownHostEntries, or NotShown
    queued,         \* commands under way, with what their handlers do next
    touches,        \* calls of touch_host_last_used, and what each has read
    read,           \* what load() has read, or nothing
    changes, starts,
    chosen,         \* history: what the user has chosen for each host, and was saved
    doubtful,       \* history: <<directory, alias, field>> whose save has failed, or that
                    \* a touch has overwritten with what it had read before
    kept            \* history: the views and layouts that were saved and not deleted

onDiskVars == <<metadata, views, layouts, prefs, lines, prefsCache, backup, dir>>
profileVars == <<viewProfiles, layoutProfiles, selectedView, selectedLayout, pendingDelete>>
shownVars == <<metadataStore, profileVars, appPreferences, hostTabUser, shownLines>>
historyVars == <<chosen, doubtful, kept>>
storedSettingsVars == <<onDiskVars, shownVars, queued, touches, read, changes, starts, historyVars>>

-----------------------------------------------------------------------------
(* Handlers and commands                                                   *)

Waits == read # NotRead \/ queued # <<>>

Changes ==
    /\ PatientSettings => ~Waits
    /\ changes < MaxChanges /\ changes' = changes + 1

Send(c) == queued' = Append(queued, c)

\* A gesture that sends a command and leaves the window as it is.
Requests(c) ==
    /\ Changes
    /\ Send(c)
    /\ UNCHANGED <<onDiskVars, shownVars, touches, read, starts, historyVars>>

\* The command at the head runs.
AtHead(what) ==
    queued # <<>> /\ Head(queued).is = what /\ UNCHANGED <<touches, changes, starts>>
Cmd == Head(queued)
Finished == queued' = Tail(queued)
GoesOn(c) == queued' = Append(Tail(queued), c)

\* A handler ends with an error: nothing was written.  A file that was written by
\* the program can be read.
StoredCommandFails ==
    /\ queued # <<>> /\ Cmd.is \notin {"load", "listLayouts", "listLines", "saveMetadata"}
    /\ Finished
    /\ UNCHANGED <<onDiskVars, shownVars, read, changes, starts, touches, historyVars>>

-----------------------------------------------------------------------------
(* Metadata of hosts                                                       *)

Overlaid(facts, set) == [f \in DOMAIN facts |-> IF f \in DOMAIN set THEN set[f] ELSE facts[f]]
With(store, a, set) == [store EXCEPT !.hosts[a] = Overlaid(store.hosts[a], set)]

SaveOf(store, a, set, after) ==
    [is |-> "saveMetadata", store |-> store, alias |-> a, set |-> set, after |-> after]

\* upsertHostMetadata, persistMetadataStore: the window shows the new store at once
\* and the whole of it is sent.
UpsertHostMetadata(a, set) ==
    /\ Changes
    /\ metadataStore' = With(metadataStore, a, set)
    /\ hostTabUser' = metadataStore.user
    /\ Send(SaveOf(metadataStore', a, set, "nothing"))
    /\ UNCHANGED <<onDiskVars, profileVars, appPreferences, shownLines, read, starts,
                   touches, historyVars>>

ToggleFavoriteForHost(a) ==
    UpsertHostMetadata(a, [f \in {"favorite"} |-> ~metadataStore.hosts[a][f]])
ToggleJumpHostForHost(a) ==
    UpsertHostMetadata(a, [f \in {"jump"} |-> ~metadataStore.hosts[a][f]])

\* The hosts are the same object as before: the handler of the host tab is not made
\* anew and keeps the former user.
ApplyDefaultUser(u) ==
    /\ Changes
    /\ metadataStore' = [metadataStore EXCEPT !.user = u]
    /\ Send([is |-> "saveMetadata", store |-> metadataStore', after |-> "nothing",
             alias |-> AnyHost, set |-> [f \in {} |-> FALSE]])
    /\ UNCHANGED <<onDiskVars, profileVars, appPreferences, hostTabUser, shownLines,
                   read, starts, touches, historyVars>>

\* The draft of the host tab changes.
EditHostDraft ==
    /\ hostTabUser # metadataStore.user
    /\ hostTabUser' = metadataStore.user
    /\ UNCHANGED <<onDiskVars, metadataStore, profileVars, appPreferences, shownLines,
                   queued, read, changes, starts, touches, historyVars>>

\* saveHostFromSettingsTab: host and binding, then tags and key policy upon the
\* metadata it has captured, then load().
SaveHostTab(a, jump, trusts) ==
    Requests([is |-> "saveHost", alias |-> a, store |-> [metadataStore EXCEPT !.user = hostTabUser],
              set |-> [f \in {"jump", "trusts"} |-> IF f = "jump" THEN jump ELSE trusts]])

\* onDelete.
RemoveHost(a) ==
    Requests([is |-> "deleteHost", alias |-> a, set |-> DefaultFacts, store |-> metadataStore])

HostWritten ==
    /\ AtHead("saveHost") \/ AtHead("deleteHost")
    /\ metadataStore' = With(Cmd.store, Cmd.alias, Cmd.set)
    /\ hostTabUser' = metadataStore'.user
    /\ GoesOn(SaveOf(metadataStore', Cmd.alias, Cmd.set, "load"))
    /\ UNCHANGED <<onDiskVars, profileVars, appPreferences, shownLines, read, historyVars>>

\* The rest of the handler: load(), and what it selects then.
LoadNext(view) == [is |-> "load", view |-> view]
Continues == IF Cmd.after = "load" THEN GoesOn(LoadNext("as before")) ELSE Finished

Concerned == {<<dir, Cmd.alias, f>> : f \in DOMAIN Cmd.set}

SaveMetadata ==
    /\ AtHead("saveMetadata")
    /\ metadata' = [metadata EXCEPT ![dir] = Cmd.store]
    /\ chosen' = [chosen EXCEPT ![dir][Cmd.alias] =
                    Overlaid(chosen[dir][Cmd.alias], Cmd.set)]
    /\ doubtful' = doubtful \ Concerned
    /\ Continues
    /\ UNCHANGED <<views, layouts, prefs, lines, prefsCache, backup, dir, shownVars, read, kept>>

SaveMetadataFails ==
    /\ AtHead("saveMetadata")
    /\ doubtful' = doubtful \cup Concerned
    /\ Finished
    /\ UNCHANGED <<onDiskVars, shownVars, read, chosen, kept>>

\* connectToHost, when its session has started: the handler does not wait.
SessionStarted(a) ==
    /\ starts < MaxStarts /\ starts' = starts + 1
    /\ metadataStore' = [metadataStore EXCEPT !.hosts[a].used = TRUE]
    /\ hostTabUser' = metadataStore.user
    /\ touches' = [touches EXCEPT ![starts'] = [at |-> "loads", alias |-> a, store |-> NoMetadata]]
    /\ UNCHANGED <<onDiskVars, profileVars, appPreferences, shownLines, queued, read, changes,
                   historyVars>>

\* touch_host_last_used reads the file and writes it back, without a lock: what was
\* saved between the two is lost.
TouchLoads(i) ==
    /\ touches[i].at = "loads"
    /\ touches' = [touches EXCEPT ![i].at = "saves", ![i].store = metadata[dir]]
    /\ UNCHANGED <<onDiskVars, shownVars, queued, read, changes, starts, historyVars>>

TouchWrites(i, store) ==
    /\ touches[i].at = "saves"
    /\ metadata' = [metadata EXCEPT ![dir] = store]
    /\ touches' = [touches EXCEPT ![i] = NoTouch]
    /\ doubtful' = doubtful \cup
         {c \in {dir} \X SavedHost \X Choice :
            touches[i].store.hosts[c[2]][c[3]] # metadata[dir].hosts[c[2]][c[3]]}
    /\ UNCHANGED <<views, layouts, prefs, lines, prefsCache, backup, dir, shownVars, queued, read,
                   changes, starts, chosen, kept>>

\* Faulty: an entry that is touched is made anew.
TouchRenews(i) ==
    TouchWrites(i, [touches[i].store EXCEPT
                      !.hosts[touches[i].alias] = [DefaultFacts EXCEPT !.used = TRUE]])

TouchSaves(i) ==
    TouchWrites(i, [touches[i].store EXCEPT !.hosts[touches[i].alias].used = TRUE])

TouchFails(i) ==
    /\ touches[i].at # "none"
    /\ touches' = [touches EXCEPT ![i] = NoTouch]
    /\ UNCHANGED <<onDiskVars, shownVars, queued, read, changes, starts, historyVars>>

-----------------------------------------------------------------------------
(* Reading everything: load()                                              *)

LoadReads ==
    /\ AtHead("load") /\ read = NotRead
    /\ read' = [is |-> "all", metadata |-> metadata[dir], views |-> views[dir],
                layouts |-> layouts[dir], timeout |-> prefsCache, view |-> Cmd.view]
    /\ Finished
    /\ UNCHANGED <<onDiskVars, shownVars, historyVars>>

\* What is selected stays so while it is listed; else the first is.
OrFirst(list, prev) ==
    IF prev \in ToSet(list) THEN prev ELSE IF list = <<>> THEN NoId ELSE list[1]

LoadShows ==
    /\ read # NotRead
    /\ metadataStore' = read.metadata
    /\ hostTabUser' = read.metadata.user
    /\ viewProfiles' = read.views
    /\ layoutProfiles' = read.layouts
    /\ appPreferences' = read.timeout
    /\ selectedLayout' = OrFirst(read.layouts, selectedLayout)
    /\ selectedView' = IF read.view = "as before" THEN OrFirst(read.views, selectedView)
                       ELSE read.view
    /\ read' = NotRead
    /\ UNCHANGED <<onDiskVars, pendingDelete, shownLines, queued, changes, starts,
                   touches, historyVars>>

-----------------------------------------------------------------------------
(* Custom views                                                            *)

SelectView(v) ==
    /\ Changes
    /\ v \in ToSet(viewProfiles) /\ selectedView' = v
    /\ UNCHANGED <<onDiskVars, metadataStore, viewProfiles, layoutProfiles,
                   selectedLayout, pendingDelete, appPreferences, hostTabUser,
                   shownLines, queued, read, starts, touches, historyVars>>

NewView ==
    /\ Changes
    /\ selectedView # NoId /\ selectedView' = NoId
    /\ UNCHANGED <<onDiskVars, metadataStore, viewProfiles, layoutProfiles,
                   selectedLayout, pendingDelete, appPreferences, hostTabUser,
                   shownLines, queued, read, starts, touches, historyVars>>

\* How many precede v: all of them when it is not in the list.
Place(list, v) == Cardinality({i \in DOMAIN list : \A j \in 1..i : list[j] # v})

\* A new draft has an id of its own and goes to the end.  Another is the listed one,
\* which an effect puts into the draft: its order is its place.
SaveView(v) ==
    /\ IF selectedView # NoId THEN v = selectedView
       ELSE \A d \in SshDir : v \notin ToSet(views[d])
    /\ Requests([is |-> "saveView", id |-> v, order |-> Place(viewProfiles, v)])

DeleteView ==
    /\ selectedView # NoId
    /\ Requests([is |-> "deleteView", id |-> selectedView])

MoveView(up) ==
    LET here == Place(viewProfiles, selectedView) + 1
        there == IF up THEN here - 1 ELSE here + 1
    IN /\ {here, there} \subseteq DOMAIN viewProfiles
       /\ Requests([is |-> "reorderViews",
                    ids |-> [viewProfiles EXCEPT ![here] = viewProfiles[there],
                                                 ![there] = viewProfiles[here]]])

\* The list sorted by order, when v has a new one: ties stay as they were.
Placed(list, v, order) ==
    LET was == Place(list, v)
        before == {i \in 0..(Len(list) - 1) : i # was /\ (i < order \/ (i = order /\ i < was))}
    IN InsertAt(Others(list, {v}), Cardinality(before) + 1, v)

\* The ids that were named, in their order, and then the others.
Reordered(list, ids) ==
    Among(ids, ToSet(list)) \o Others(list, ToSet(ids))

ViewsWritten(list, view, ids) ==
    /\ views' = [views EXCEPT ![dir] = list]
    /\ kept' = [kept EXCEPT ![dir].views = ids]
    /\ GoesOn(LoadNext(view))
    /\ UNCHANGED <<metadata, layouts, prefs, lines, prefsCache, backup, dir, shownVars, read,
                   chosen, doubtful>>

SaveViewProfile ==
    /\ AtHead("saveView")
    /\ ViewsWritten(Placed(views[dir], Cmd.id, Cmd.order), Cmd.id, kept[dir].views \cup {Cmd.id})

DeleteViewProfile ==
    /\ AtHead("deleteView")
    /\ ViewsWritten(Others(views[dir], {Cmd.id}), NoId, kept[dir].views \ {Cmd.id})

ReorderViewProfiles ==
    /\ AtHead("reorderViews")
    /\ ViewsWritten(Reordered(views[dir], Cmd.ids), "as before", kept[dir].views)

-----------------------------------------------------------------------------
(* Layout profiles                                                         *)

SelectLayout(l) ==
    /\ Changes
    /\ l \in ToSet(layoutProfiles) /\ selectedLayout' = l
    /\ pendingDelete' = NoId
    /\ UNCHANGED <<onDiskVars, metadataStore, viewProfiles, layoutProfiles,
                   selectedView, appPreferences, hostTabUser, shownLines, queued, read,
                   starts, touches, historyVars>>

SaveLayout(l) ==
    /\ IF selectedLayout \in ToSet(layoutProfiles) THEN l = selectedLayout
       ELSE \A d \in SshDir : l \notin ToSet(layouts[d])
    /\ Requests([is |-> "saveLayout", id |-> l])

\* The first click arms the button, the second deletes.
DeleteLayoutIntent ==
    /\ selectedLayout # NoId
    /\ IF pendingDelete # selectedLayout
       THEN /\ Changes
            /\ pendingDelete' = selectedLayout
            /\ UNCHANGED <<onDiskVars, metadataStore, viewProfiles, layoutProfiles,
                           selectedView, selectedLayout, appPreferences, hostTabUser,
                           shownLines, queued, read, starts, touches, historyVars>>
       ELSE Requests([is |-> "deleteLayout", id |-> selectedLayout])

LayoutsWritten(list, select, ids) ==
    /\ layouts' = [layouts EXCEPT ![dir] = list]
    /\ kept' = [kept EXCEPT ![dir].layouts = ids]
    /\ GoesOn([is |-> "listLayouts", select |-> select])
    /\ UNCHANGED <<metadata, views, prefs, lines, prefsCache, backup, dir, shownVars, read,
                   chosen, doubtful>>

SaveLayoutProfile ==
    /\ AtHead("saveLayout")
    /\ LayoutsWritten(IF Cmd.id \in ToSet(layouts[dir]) THEN layouts[dir]
                      ELSE Append(layouts[dir], Cmd.id),
                      Cmd.id, kept[dir].layouts \cup {Cmd.id})

DeleteLayoutProfile ==
    /\ AtHead("deleteLayout")
    /\ LayoutsWritten(Others(layouts[dir], {Cmd.id}), NoId, kept[dir].layouts \ {Cmd.id})

RefreshLayoutProfiles ==
    /\ AtHead("listLayouts")
    /\ layoutProfiles' = layouts[dir]
    /\ selectedLayout' = OrFirst(layouts[dir], Cmd.select)
    /\ pendingDelete' = IF Cmd.select = NoId THEN NoId ELSE pendingDelete
    /\ Finished
    /\ UNCHANGED <<onDiskVars, metadataStore, viewProfiles, selectedView, appPreferences,
                   hostTabUser, shownLines, read, historyVars>>

-----------------------------------------------------------------------------
(* Known hosts: the tab "SSH" and the dialogs of a remote file pane        *)

ShowLines(shown, commands) ==
    /\ Changes
    /\ shownLines' = shown
    /\ queued' = queued \o commands
    /\ UNCHANGED <<onDiskVars, metadataStore, profileVars, appPreferences, hostTabUser,
                   read, starts, touches, historyVars>>

OpenSshTab == shownLines = NotShown /\ ShowLines({}, <<[is |-> "listLines"]>>)
CloseSshTab == shownLines # NotShown /\ ShowLines(NotShown, <<>>)

\* While a list is loaded the table is away.
TableShown == shownLines # NotShown /\ ~\E i \in DOMAIN queued : queued[i].is = "listLines"

ReloadLines == TableShown /\ Requests([is |-> "listLines"])

\* Only the button of a row whose removal is under way is disabled.
RemoveLine(row) ==
    /\ TableShown /\ row \in shownLines
    /\ ~\E i \in DOMAIN queued : queued[i].is = "removeLine" /\ queued[i].line = row.line
    /\ Requests([is |-> "removeLine", line |-> row.line])

\* list_entries: a row for each line that is an entry, with its number in the file.
ListedLines(file) ==
    {[line |-> i, key |-> file[i]] : i \in {j \in DOMAIN file : file[j] # Comment}}

ListKnownHosts ==
    /\ AtHead("listLines")
    /\ shownLines' = IF shownLines = NotShown THEN NotShown ELSE ListedLines(lines[dir])
    /\ Finished
    /\ UNCHANGED <<onDiskVars, metadataStore, profileVars, appPreferences, hostTabUser, read,
                   historyVars>>

LinesWritten(file) ==
    /\ lines' = [lines EXCEPT ![dir] = file]
    /\ UNCHANGED <<metadata, views, layouts, prefs, prefsCache, backup, dir, shownVars, read,
                   chosen, doubtful, kept>>

\* remove_line goes by the number alone, whatever the line holds by then.
RemoveKnownHostsLine ==
    /\ AtHead("removeLine") /\ Cmd.line \in DOMAIN lines[dir]
    /\ LinesWritten(RemoveAt(lines[dir], Cmd.line))
    /\ GoesOn([is |-> "listLines"])

\* add_known_host_entry: the dialog of a remote file pane, or ssh itself.
KeyAdded(k) ==
    /\ starts < MaxStarts /\ starts' = starts + 1
    /\ LinesWritten(Append(lines[dir], k))
    /\ UNCHANGED <<queued, touches, changes>>

\* sftp_remove_known_host_entries: the dialog about a key that has changed, whatever
\* the settings show.
RemoveByHost(k) ==
    /\ Changes
    /\ LinesWritten(Others(lines[dir], {k}))
    /\ UNCHANGED <<queued, touches, starts>>

-----------------------------------------------------------------------------
(* Preferences, the SSH directory and the backup                           *)

SaveTimeouts(t) == Requests([is |-> "savePreferences", timeout |-> t])

Clamped(t) ==
    IF t < MinTimeout THEN MinTimeout ELSE IF t > MaxTimeout THEN MaxTimeout ELSE t

SavePreferences ==
    /\ AtHead("savePreferences")
    /\ prefs' = [prefs EXCEPT ![dir] = Clamped(Cmd.timeout)]
    /\ prefsCache' = Clamped(Cmd.timeout)
    /\ appPreferences' = Clamped(Cmd.timeout)
    /\ Finished
    /\ UNCHANGED <<metadata, views, layouts, lines, backup, dir, metadataStore, profileVars,
                   hostTabUser, shownLines, read, historyVars>>

ApplySshDir(d) == Requests([is |-> "setSshDir", to |-> d])

\* set_ssh_dir_override reads the preferences again; the handler loads the rest.
SetSshDirOverride ==
    /\ AtHead("setSshDir")
    /\ dir' = Cmd.to
    /\ prefsCache' = prefs[Cmd.to]
    /\ GoesOn(LoadNext("as before"))
    /\ UNCHANGED <<metadata, views, layouts, prefs, lines, backup, shownVars, read, historyVars>>

ExportBackup ==
    /\ Changes
    /\ backup' = metadata[dir]
    /\ UNCHANGED <<metadata, views, layouts, prefs, lines, prefsCache, dir, shownVars,
                   queued, read, starts, touches, historyVars>>

AskImport == backup # NoBackup /\ Requests([is |-> "importBackup"])

ImportBackup ==
    /\ AtHead("importBackup")
    /\ metadata' = [metadata EXCEPT ![dir] = backup]
    /\ chosen' = [chosen EXCEPT ![dir] =
                    [a \in SavedHost |-> [f \in Choice |-> backup.hosts[a][f]]]]
    /\ doubtful' = {c \in doubtful : c[1] # dir}
    /\ GoesOn(LoadNext("as before"))
    /\ UNCHANGED <<views, layouts, prefs, lines, prefsCache, backup, dir, shownVars, read, kept>>

-----------------------------------------------------------------------------
StoredInit ==
    /\ dir \in SshDir
    /\ metadata = [d \in SshDir |-> NoMetadata]
    /\ views = [d \in SshDir |-> FirstViews]
    /\ layouts = [d \in SshDir |-> <<>>]
    /\ prefs = [d \in SshDir |-> MinTimeout]
    /\ lines = [d \in SshDir |-> FirstLines]
    /\ prefsCache = MinTimeout
    /\ backup = NoBackup
    /\ metadataStore = NoMetadata
    /\ viewProfiles = FirstViews /\ layoutProfiles = <<>>
    /\ appPreferences = MinTimeout
    /\ selectedView = OrFirst(FirstViews, NoId)
    /\ selectedLayout = NoId /\ pendingDelete = NoId
    /\ hostTabUser = NoUserName
    /\ shownLines = NotShown
    /\ queued = <<>> /\ read = NotRead
    /\ changes = 0 /\ starts = 0
    /\ chosen = [d \in SshDir |-> [a \in SavedHost |-> [f \in Choice |-> FALSE]]]
    /\ doubtful = {} /\ touches = [i \in 1..MaxStarts |-> NoTouch]
    /\ kept = [d \in SshDir |-> [views |-> ToSet(FirstViews), layouts |-> {}]]

MetadataStep ==
    \/ \E a \in SavedHost :
         \/ ToggleFavoriteForHost(a) \/ ToggleJumpHostForHost(a) \/ RemoveHost(a)
         \/ \E jump, trusts \in BOOLEAN : SaveHostTab(a, jump, trusts)
         \/ SessionStarted(a)
    \/ \E i \in 1..MaxStarts : TouchLoads(i) \/ TouchSaves(i) \/ TouchFails(i)
    \/ \E u \in DefaultUser : ApplyDefaultUser(u)
    \/ EditHostDraft \/ HostWritten \/ SaveMetadata \/ SaveMetadataFails

ProfileStep ==
    \/ \E v \in View : SelectView(v) \/ SaveView(v)
    \/ NewView \/ DeleteView \/ \E up \in BOOLEAN : MoveView(up)
    \/ SaveViewProfile \/ DeleteViewProfile \/ ReorderViewProfiles
    \/ \E l \in Layout : SelectLayout(l) \/ SaveLayout(l)
    \/ DeleteLayoutIntent \/ SaveLayoutProfile \/ DeleteLayoutProfile \/ RefreshLayoutProfiles

KnownHostsStep ==
    \/ OpenSshTab \/ CloseSshTab \/ ReloadLines \/ ListKnownHosts \/ RemoveKnownHostsLine
    \/ \E row \in shownLines : RemoveLine(row)
    \/ \E k \in HostKey : KeyAdded(k) \/ RemoveByHost(k)

StoredNext ==
    \/ MetadataStep \/ ProfileStep \/ KnownHostsStep
    \/ LoadReads \/ LoadShows \/ StoredCommandFails
    \/ \E t \in 0..(MaxTimeout + 1) : SaveTimeouts(t)
    \/ SavePreferences
    \/ \E d \in SshDir : ApplySshDir(d)
    \/ SetSshDirOverride \/ ExportBackup \/ AskImport \/ ImportBackup

StoredSpec == StoredInit /\ [][StoredNext]_storedSettingsVars

-----------------------------------------------------------------------------
(* What holds                                                              *)

\* Every variable keeps values of its kind (the fields of HostMetadataStore,
\* ViewProfile, LayoutProfile, KnownHostEntry and AppPreferences).
StoredTypeOK ==
    /\ dir \in SshDir
    /\ metadata \in [SshDir -> Metadata] /\ metadataStore \in Metadata
    /\ backup = NoBackup \/ backup \in Metadata
    /\ \A d \in SshDir :
         /\ views[d] \in Seq(View) /\ layouts[d] \in Seq(Layout)
         /\ lines[d] \in Seq(HostKey \cup {Comment})
    /\ viewProfiles \in Seq(View) /\ layoutProfiles \in Seq(Layout)
    /\ prefs \in [SshDir -> MinTimeout..MaxTimeout]
    /\ {prefsCache, appPreferences} \subseteq MinTimeout..MaxTimeout
    /\ selectedView \in View \cup {NoId}
    /\ {selectedLayout, pendingDelete} \subseteq Layout \cup {NoId}
    /\ hostTabUser \in DefaultUser
    /\ shownLines = NotShown \/ shownLines \subseteq [line : Nat \ {0}, key : HostKey]
    /\ touches \in [1..MaxStarts ->
                      [at : {"none", "loads", "saves"}, alias : SavedHost \cup {AnyHost},
                       store : Metadata]]
    /\ changes \in 0..MaxChanges /\ starts \in 0..MaxStarts
    /\ chosen \in [SshDir -> [SavedHost -> [Choice -> BOOLEAN]]]
    /\ doubtful \subseteq SshDir \X SavedHost \X Field

NothingQueued == queued = <<>> /\ read = NotRead

\* What was saved of a host in a directory is what the user chose last.
HoldsChoices(store, d) ==
    \A a \in SavedHost, f \in Choice :
        store.hosts[a][f] = chosen[d][a][f] \/ <<d, a, f>> \in doubtful

HoldsKept(list, ids) == IsInjective(list) /\ ToSet(list) = ids

\* Nothing that was saved is lost or comes back, whatever ran in between (handlers
\* that send whole stores from the window's copy, sessions that start, reloads,
\* another directory, a backup): when nothing the user waits for is under way, the
\* files of every directory hold what he chose last and was told to be saved, the
\* window shows the same, each view and layout once, and the backend's cached
\* preferences are those of the directory.  But a touch writes what it has read:
\* where that was older than the file (doubtful), it brings the former choice back.
SettingsSurvive ==
    NothingQueued =>
        /\ HoldsChoices(metadataStore, dir)
        /\ \A d \in SshDir :
             /\ HoldsChoices(metadata[d], d)
             /\ HoldsKept(views[d], kept[d].views) /\ HoldsKept(layouts[d], kept[d].layouts)
        /\ viewProfiles = views[dir] /\ layoutProfiles = layouts[dir]
        /\ appPreferences = prefsCache /\ prefsCache = prefs[dir]

=============================================================================
