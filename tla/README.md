# NoSuckShell in TLA+

Specifications of NoSuckShell, an SSH and shell workspace manager: a Tauri 2
backend in Rust (`src/apps/desktop/src-tauri`), a React frontend in TypeScript
(`src/apps/desktop/src`) and a small license server
(`src/services/license-server`). Fourteen parts of the desktop application are
modelled and model-checked with TLC, and all of them have theorems
proved with TLAPS. What is left out is said at each part and in section 6.

`PROJECT.json` maps every definition to the lines it stands for, lists the runs,
the mutants that show each property can fail, the hazards of the code and the
theorems. Paths below are relative to `src/apps/desktop`; `ui` is `src`, `tauri`
is `src-tauri/src`.

## 1. Inventory

### How the parts interact

- The webview calls commands of the backend with `invoke`; each call is a
  promise that settles when the command returns. All but one command
  (`proxmux_ws_proxy_start`) are synchronous functions.
- The backend sends events to the webview (`session-output`, host-key prompts,
  transfer progress).
- Inside the webview, `App.tsx` holds the state of the window in React state and
  in refs. Handlers are `async` and go on after an `await` with the state their
  closure captured; effects run after a render and repair what handlers leave
  inconsistent.
- Inside the backend, state is behind mutexes (`SessionState`, the Proxmox cache,
  transfer flags, the list of proxies) or in files that commands read and write
  as a whole.

### Parts

| Part | State it keeps | Operations | What is hard | What makes it correct |
| --- | --- | --- | --- | --- |
| Session input (`ui/tauri-api.ts`, `ui/features/session-input-queue.ts`, `tauri/session.rs`) | per-session queue, drain flags, timers; map of live sessions, PTY writers | `sendInput`, timer, request settled; `send_input`, `close` | timer, next keystroke and end of a loop race; a failed request in the middle; close and exit of the child under way | input arrives in order, once; none stranded; promises honest; after a close nothing but what was already being written |
| Workspaces and panes (`ui/App.tsx`, `ui/features/workspace-snapshot.ts`, `split.ts`, `split-tree.ts`) | sessions, panes, split tree, snapshots of hidden workspaces, handlers that wait | connect, quick connect, web console, split, duplicate, drag, close, workspaces, presets, NSS-Commander, profiles, reaper, restart | closures older than the state they are applied to; effects that act between two awaits; two handlers at once | a session in one visible slot; tabs and children agree; no session closed that is wanted, none forgotten that is not; every pane has a slot and a number of its own; effects come to rest |
| Proxmox cache (`tauri/plugins/proxmux.rs`) | entries with expiry, keys being fetched, callers asleep; the plugin's state file | cached fetch, orders to guests, save, remove, favourite | single flight with failures; invalidation between two critical sections; clock read outside the lock | one fetch per key; no lost wake-up; nothing past its lifetime; changes show |
| Session output and host-key prompts (`tauri/session.rs`, `ui/session-output-bridge.ts`, `ui/features/terminal-output-batch.ts`, `ui/features/terminal-scrollback-buffer.ts`, `ui/components/TerminalPane.tsx`, `ui/hooks/useSessionOutputTrustListener.ts`) | pending bytes of a reader thread, events on their way, handler maps, per-frame batch, scrollback, queue of prompts | read, emit, dispatch, mount, unmount, frame, accept, dismiss | terminals that move while a batch waits, or share a session; tabs that appear late; a second click on an answered prompt | a terminal shows its stream, once and in order; "yes" answers a question |
| File panes (`ui/components/RemoteFilePane.tsx`, `LocalFilePane.tsx`, `tauri/sftp.rs`) | folder, rows, selection, dialogs, editor, listings and handlers under way | open, refresh, select, make, rename, delete, recover, edit, transfer, export | handlers that go on in a folder that has changed; listings without a number; links; a deletion that fails half-way | only what was chosen is deleted or written over; the rows are those of the folder |
| Transfers (`tauri/sftp_transfer_ops.rs`, `sftp.rs`, `ui/features/file-pane-transfer.ts`, the batch in `ui/App.tsx`) | the two folders, questions, overlay, flags per transfer id, the disk | copy, move, answer, pause, resume, cancel | pause, cancel and a new batch share a flag; sources are deleted long after they were copied; failure of any part | nothing is lost that nobody gave up; a cancelled batch ends |
| Proxmox panel (`ui/components/ProxmuxSidebarPanel.tsx`) | chosen cluster, its rows and a cache, open guest with its status, power action, SPICE probes | choose, refresh, open, poll, retry, order | answers of an earlier choice | what is shown is of what is chosen |
| Proxmox settings and requests (`ui/components/settings/tabs/AppSettingsProxmuxTab.tsx`, `tauri/plugins/proxmux.rs`) | drafts and lists of the tab, state file, login tickets | save, remove, activate, test, profiles; login, request, failover | tickets shared by requests, forgotten by servers, older than a password | a request is refused for its password only |
| Console panes and WebSocket proxy (`ui/components/Proxmox*Pane.tsx`, `HetznerVncPane.tsx`, `tauri/proxmux_ws_proxy.rs`) | runs of the pane's effect, refs to socket and proxy, listeners, connections | mount, reconnect, unmount, start, accept, stop | a cancelled run that goes on to its next check, with refs its successor owns | no proxy outlives its pane; a terminal has its proxy |
| Identity store (`tauri/secure_store.rs`, `store_models.rs`, `key_crypto.rs`, handlers of `ui/App.tsx`) | store and SSH config on disk, the window's copies, the host form, unlocked keys | users, groups, keys, bindings, hosts; unlock; key of a session | whole stores computed from a copy, commands that change the file themselves, forms older than both | links resolve |
| Stored settings: host metadata, views, layout profiles, preferences, known hosts (`tauri/host_metadata.rs`, `view_profiles.rs`, `layout_profiles.rs`, `app_prefs.rs`, `known_hosts.rs`, `ssh_home.rs`) and backup (`tauri/backup.rs`) | a file each per SSH directory, the window's copies, a cache of the preferences | favourite, policy, host form, views, layouts, known hosts, timeouts, another directory, export, import | two saves from one render; sessions that rewrite the file; `load()` between; line numbers | nothing saved is lost or comes back |
| Pane views, keyboard and broadcasting (`ui/components/SplitWorkspace.tsx`, `TerminalPane.tsx`, `ui/features/context-actions.ts`, handlers of `ui/App.tsx`) | views per session, keyboard, broadcast mode and its marks | toggle files, click, hover, next pane, mark, broadcast to visible; switch, send, drop, close | views and marks belong to sessions that start, move and end elsewhere; a commander overrides them | a pane shows files of its session; keys go to living sessions the user marked |
| NSS-Commander keys and buttons (`ui/features/nss-commander-file-ops-bar.ts`, its keyboard hook, `ui/components/NssCommander*.tsx`, the ends of it in `ui/App.tsx` and the file panes) | selection and dialogs of each browser, the copy of the selections by pane number, the last request | F2 to F9, their buttons, Tab, focus, gutter; panes that change under them | decided on a copy that outlives the browser; requests that are never taken away; keys that bar and browser share | an order names what is selected on the screen, in the pane it is given for |
| Hetzner plugin, licenses, plugin switch (`tauri/plugins/hetzner.rs`, `plugins/mod.rs`, `license.rs`, `ui/components/HetznerSidebarPanel.tsx`, its settings tab) | license in its file and in memory, switch, projects, panel | activate, expire, switch; projects; choose, fetch, open, order | servers of the last project stay on the screen; the panel comes and goes with the license | an order goes to the project of its server |
| Proxmox console windows (`tauri/main.rs`) | embedded browser windows | open, close | what happens in them is decided by pages of the server | - |
| License server | none between requests | sign a token | - | - |
| Launch from the command line (`tauri/launch_cli.rs`) | arguments | one event at the start | nothing | - |
| Views, forms, appearance (`ui/components/*`) | presentation | - | - | - |

The hazards of the code, each at its line, are in `PROJECT.json`; those without
a property are explained there.

## 2. Plan

Done, the parts that carry every use of the program first:

1. `SessionInput`, with `InputPipe` as its abstract specification.
2. `PaneLayout` (pure helpers) and `Workspace` on top of it.
3. `ProxmuxCache`.
4. `SessionOutput`, the other direction of a session.
5. `FilePane` and `NssTransfer`: what touches the user's files.
6. `ProxmuxPanel`, `ProxmuxSettings`, `ProxmuxConsole`, `HetznerPlugin`: the
   plugins in front of and behind the cache.
7. `IdentityStore`, `StoredSettings`: what is kept on disk.
8. `PaneViews`: what the panes of `Workspace` show and where keys go.
9. `CommanderOps`: which files an NSS-Commander's keys name; `NssTransfer` goes on
   with the names.
10. Proofs of the safety properties of all of these; last those of `Workspace` at
    rest, whose invariants have to speak of each kind of waiting handler.

What could follow, in this order:

11. A refinement of `ProxmuxCache` to a plain map with lifetimes.
12. `ProxmuxPanel` above `ProxmuxCache` in one module: today an answer is "some
    inventory of the cluster", which is what the cache promises.
13. The lists of `proxmux_ws_proxy.rs` on their own: a connection accepted while
    its proxy is stopped is in `ProxmuxConsole`, without a property.

Runs are merged rather than multiplied: one run per question, with the parts of
one component that can be asked together in one instance.

## 3. Modules

| Module | Role |
| --- | --- |
| `SessionInput` | queue, timers and drain loops of the webview, `send_input` and `close` of the backend |
| `InputPipe` | what `sendInput` promises: one ordered pipe per session |
| `SessionInput_proofs` | theorems about `SessionInput`, among them the refinement |
| `PaneLayout` | slot arrays, sets of panes and the helpers that change them |
| `Workspace` | the window: tabs, desk, snapshots, handlers, effects |
| `Workspace_proofs` | theorems about `Workspace` and lemmas about `PaneLayout` |
| `ProxmuxCache` | cache, state file and commands of the Proxmox plugin |
| `ProxmuxCache_proofs` | theorems about `ProxmuxCache` |
| `SessionOutput` | reader thread, events, terminals, host-key questions |
| `FilePane` | a file pane and the file system commands it calls |
| `NssTransfer` | copy and move between the panes of an NSS-Commander |
| `ProxmuxPanel`, `ProxmuxPanel_proofs` | the panel of the sidebar |
| `ProxmuxSettings` | clusters in the settings, tickets and requests |
| `ProxmuxConsole`, `ProxmuxConsole_proofs` | console panes and their WebSocket proxy |
| `HetznerPlugin`, `HetznerPlugin_proofs` | a licensed plugin from its license to its panel |
| `Lists` | what filtering leaves of a list, for the two that follow |
| `IdentityStore` | users, groups, keys and the hosts bound to them |
| `StoredSettings` | the other files of the SSH directory and the backup |
| `PaneViews` | views of panes, keyboard and broadcasting |
| `CommanderOps` | keys and buttons of an NSS-Commander |
| `Panes_proofs` | theorems about `SessionOutput`, `FilePane`, `NssTransfer`, `CommanderOps`, `PaneViews` |
| `Settings_proofs` | theorems about `ProxmuxSettings`, `IdentityStore`, `StoredSettings` |
| `MCDesktop` | the eleven modules above that share no state, in one instance |
| `MC...` | instances for TLC, one or more `.cfg` each |

An operator introduced by `Faulty:` is a plausible bug of the definition that
follows it. It is used nowhere; `PROJECT.json` names the property that fails
when it replaces that definition.

### SessionInput

One action is one macrotask of the webview or one command of the backend. Inputs
of a session are numbered, and a queue entry is the interval of inputs whose
characters it holds. Thus order, loss and repetition are seen in the numbers
that reach `pty`.

| Code | Model |
| --- | --- |
| `sendInput`, for one or several targets | `SendInput(T, single)`: enqueue or coalesce, schedule the timer, then start a loop at once |
| `enqueueSessionInputEntry` | `EnqueueEntry`, `CanCoalesce` |
| `drainSessionInputQueue` | `StartDrain` for its first round, `RequestSettled` for each further round |
| `setTimeout` callback | `TimerFires` |
| `send_input` | `LookUp` (a clone of the writer is taken under the lock) and `WriteInput` (it is used without), or `RefuseInput` |
| `close` | `Close`; the id leaves the map before the kill, which may fail; it can come between the two steps of `send_input` |
| the child ends | `ChildExits` (external) |

Commands run on worker threads (`docs/performance.md`), so those of different
requests interleave. A write to a PTY whose child is gone may succeed, or fail with any prefix taken.
Promises settle in the macrotask in which the request's answer arrives.

### Workspace

One action is a gesture of the user, the answer of a backend command together
with the handler's code up to its next `await`, or one pass over the effects of
a render (`RunEffects`). State setters of one macrotask take effect together.

- `desk` is `splitSlots` and `splitTree`; a tree is abstracted to the set of its
  leaf panes, since no property depends on axes, ratios or the order of leaves.
  "The first free pane in tree order" is therefore "some free pane". Pane p is
  `paneIndex` p - 1; `nextPane` is `nextPaneIndexRef` plus one.
- `activePaneIndex` is dropped: a gesture quantifies over the visible pane it is
  made in.
- `calls` holds handlers that wait. `view` is what their closure captured, and
  they apply their result to the current `desk` with decisions taken on `view`,
  as `App.tsx` does.
- `close_session` can fail because the backend does not know the id, or after the
  id has left its map, at the kill (`CloseFails`): the handler throws, and tab and
  slot stay. `broken` is history: the ids to which the second has happened.
- `dirty` names the state that changed since the last pass, and decides which
  effects run: cleaning of lost slots, profile release, reaper (`seen`,
  `closing`), `nextPaneIndexRef`, snapshot of the active workspace, compaction.
- Gestures are made on a settled screen; with `Patient` the user also waits for
  what he started. The instances differ in this constant: a patient user shows
  that each gesture is right, an impatient one what overlapping handlers do.
- `Restart` models the window that comes back from local storage with the ids of
  the last run. `boot` is history: ids up to it belong to earlier runs.

### ProxmuxCache

A step is a critical section of the cache's mutex, a read of the clock, a read or
write of the state file, or an exchange with the cluster.

| Code | Model |
| --- | --- |
| `fetchResources`, `guestStatus` | `Ask`, then the loop of `proxmux_cached_json`: `ReadClock`, `Hit`/`Claim`/`Wait`, `Fetch`, `Store`/`GiveUp` |
| `Condvar::wait` and `notify_all` | place `wait`, `Notified`; `WakeUp` for a spurious wake-up |
| `purge_expired`, `evict_if_needed` | `PurgeExpired`, `Evictions` (entries of one millisecond in any order) |
| `guestPower` | `GuestPower`, `Post`/`PostFails`, one `Drop` per invalidation |
| `saveCluster`, `removeCluster`, `toggleProxmuxFavorite` | the command reads the whole file (`Writes`), writes its copy back (`WriteFile`/`WriteFails`), then drops keys |
| prefix invalidation | `DropsOfCluster`: the keys of clusters whose id *begins* with the id go too |

An answer is abstracted to two versions: of the settings it was fetched with and
of the cluster's own state. `floor` and `shows` are history: versions that
answers have to show once a change has returned. A fetch of many requests is one
instant.

The read-change-write of the state file is in the model, and a write is one step
of it, here and in the other parts: of two saves that overlap, the second writes the first one's cluster back. `docs/performance.md`
says that commands run on worker threads; should the runtime run synchronous
commands one after the other, its behaviours are among those of the model.

### SessionOutput

What a child prints is numbered; a number in `Asks` is the second half of a
host-key question, so a cut between the halves makes a chunk that asks nothing.

| Code | Model |
| --- | --- |
| reader thread: `read`, pending bytes, `split_off`, `emit` | `ChildPrints`, `ReadAndEmit` (a read goes out in one chunk or two, or the cut falls inside a character and the thread panics), `ReaderEnds` |
| dispatch of `session-output` | `DispatchOutput`: the question to the listener, the text to each terminal of the session |
| `createTerminalOutputBatcher`, the scrollback | `Enqueue`, `Flush`, `Frame`, `MountTerminal`, `UnmountTerminal`, `RemountTerminal` |
| `handleHostKeyPrompt`, `acceptTrustPrompt`, `dismissTrustPrompt` | `HandleHostKeyPrompt`, `AcceptTrustPrompt`, `MetadataSaved`, `AnswerSent`, `AcceptFails`, `DismissTrustPrompt` |
| `sessionsRef`, `metadataStoreRef` set by effects | `SyncRefs` |

A session has any number of terminals (`SessionOf`), as a duplicate shows its source
until it has its own session: each is given every chunk and appends it to the one
scrollback of the session, which then holds it twice. `doubled` is history: the
sessions to which this has happened.

`queue` is the prompts in order: for each session that asks, those ahead of it.
`asked`, `answers`, `arrived` (to a terminal) and `seen` (by any of a session's) are
history. `accepting` counts the confirmations
under way, since the button is not disabled while one is.

### FilePane

One pane, remote or local, and the file system it works on. An entry is the
sequence of names that leads to it; the last name says whether it is a file, a
directory or a link. Handlers that wait are `jobs`, listings that wait are
`loads`; both carry the folder they began in. The pane's clicks and dialogs
(`PaneClick`, `PaneDialog`) and the answers (`PaneAnswer`) interleave.

- `list` and its answer: `Load`, `ListDir`, `ListAnswer`, `ListFails`; a host key
  that is unknown or has changed opens a dialog (`ConfirmKey`, `CancelKey`).
- Deletion in three ways (`DeleteStrict`, `DeleteBestEffort`, `DeleteChmod`), the
  latter two from the recovery dialog. `StrictLeaves` is what a deletion that
  fails half-way can leave behind: directories are read in any order.
- `Resolve` and `Written`: a local name goes through `canonicalize`, hence through
  a link, a remote one does not.
- `strays` is history: what was removed or written over and not chosen. `fresh` is
  history: nothing has failed half-way since the rows were listed.

### NssTransfer

The handler of a batch is a program counter (`handler[b].pc`) with one action per
await: the question before, the listing of the destination, then for each name
begin, ask, look, remove, make, list, copy, release; for a move the sources at the
end. The backend's loop over bytes is `CopyBytes` and `CopyStops`, which look at
the flags of the id (`handles`); cancel and pause are commands of their own
(`calls`, `DeliverCall`) and may come before or after. A failure leads to
`ReleaseItem` from everywhere, as `finally` does. `spec` is what `remoteSshSpecForPane`
finds when the batch begins: without it `transferOne` returns without a copy, and the
item counts as done.

What is on the disk is `content`: each part of an entry is worth the folder its
bytes came from, or "half". `givenUp` is history: parts the user agreed to replace;
nobody agrees to replace an entry by itself.

### ProxmuxPanel

One action per handler or answer. Requests for a status carry whether they are the
newest (`guestStatusReq`), probes whether their effect was cancelled, and fetches
what `resourcesInflightRef` holds. The effects of a new cluster and of new rows are
part of the action that brings them (`EnterCluster`, `ShowRows`); the probes of a new
cluster ask about the rows of the former one before its own are there. An answer of the
backend is one of `Inventories`; that it is of the cluster asked for is what
`ProxmuxCache` is about.

### ProxmuxSettings

The tab runs one command at a time: `command` says which, and each ends by
`RefreshState`. Requests are what `with_failover`, `session_auth_for_base` and
`login_ticket_session` do: `TakeTicket`, `Login`, `Refused` (one new login),
`NextBase`. Requests of the sidebar run meanwhile and share the tickets. `Revoke`
is external: servers forget tickets. `live` says whether the ticket taken is still
good and `shaken` whether the second one was forgotten too.

### ProxmuxConsole

A pane's effect may run several times; `runs[p][n]` is where the n-th run is, and
a cleanup only sets `cancelled`: the run goes on to its next check. The refs
(`proxyIdRef`, `socketRef`) belong to the pane, not to the run. Four components
share one shape and are two kinds here: panes with a screen import noVNC between
the proxy and the socket, panes with a terminal do not. The proxy is
`StartProxy`, `Accept`, `ListConnection`, `StopProxy`: a task is spawned in one
step and put on the list in another.

### HetznerPlugin

From the license to the order, as the panel exists only while the plugin is on and
licensed: `ActivateLicense`, `ClearLicense`, `LicenseExpires` (the clock is looked
at when a license is read, not when it is used), `TogglePlugin`, `ProbePlugins`
and `RestartWindow`; `MayInvoke` is the gate of every command. Projects and
favorites are the state file, `editing` the form. The panel is like the one of
Proxmox without probes.

### IdentityStore

`entityStore` is the window's copy and `file` the one on disk. A handler computes
a whole store from the copy of its render and sends it; `create` and `remove` of an
encrypted key change the file first and then go on with the store of *their*
render (`sent` holds it). `sent` is in order, since commands are. `load()` reads
and shows in two steps. The host form is `identity` and `binding`; `Synced` is
`syncSidebarHostWithStore`, which drops a user and a primary key that are gone.
`SessionKey` is the key a session gets.

### StoredSettings

Five files per SSH directory and what the window holds of them. A handler sends a
command and goes on in the step of its answer; `queued` is the commands in order.
`UpsertHostMetadata` sends the whole metadata of the render it comes from,
and `load()` (`LoadReads`, `LoadShows`) replaces the copy. `SessionStarted` lets the
backend touch one host in the same file, which nobody waits for: `touches` run beside
the commands and are a read and a write of the whole file (`TouchLoads`, `TouchSaves`),
so that a save between the two is undone. `chosen`, `kept` and `doubtful` (choices
whose save failed, where either is right, or which a touch has written over) are
history.

Three things the model shows are left out of the properties, because no document or
test says otherwise: `saveHostFromSettingsTab` misses the default user among its
dependencies and writes the former one back; a touch writes over what was saved while
it ran; and "Remove" in the table of known hosts sends the line number of a row that
may be old (lines removed by name, a second click, another SSH directory), so that
another line goes.

### PaneViews

`Workspace` has slots and trees; here a pane is named by the session in it, panes
without one are left out, and `placeOf` says in which workspace a session is. Three
facts of React are in it: a terminal is mounted anew when its pane moves in the tree, a
terminal that is mounted takes the keyboard, and effects of new sessions run in the
commit that shows them.

| Code | Model |
| --- | --- |
| `sessionFileViews` and its toggles | `fileViews`, `ToggleRemoteFiles`, `ToggleLocalFiles`, `SetFilePlugin`, `ForgetHost` |
| `resolvePaneFileView`, the `renderPane` cascade | `PaneFileView`, `Shows`; the icon of a commander is `PaneKindIcon` |
| toolbar and menu of a pane, with what a commander blocks | `ToolbarActions`, `ContextMenuActions`, `Does` |
| `applyWorkspaceSnapshot` | `ViewsOf`: a commander shows local files everywhere, others terminals |
| focus requests, hover, shortcuts | `ClickPane`, `HoverPane`, `FocusNextPane`, `QuickNavPane`, `KeyboardFollows`, `KeyboardMoves` |
| broadcast mode, targets, `resolveInputTargets` | `SetBroadcastMode`, `TogglePaneTarget`, `BroadcastToVisiblePanes`, `InputTargets` |
| starts, moves and ends of sessions | `BeginOpen`, `Opened`, `OpenedElsewhere`, `DropHost`, `Rearrange`, `SendToWorkspace`, `CloseSession` |

The focused pane (`activePaneIndex`) is not kept: gestures that step from it reach every
pane. A Hetzner console is left out of the icons, since `PaneKindIcon` of the code does
not test for it. Three things follow from the code which no document denies, hence are
in no property: an SSH or web session of a commander has view "local" after switching
away and back (`ViewsOf`); marks on sessions of hidden workspaces still get keys; and
where the next pane has no terminal, the keyboard stays in the old one.

### CommanderOps

A file browser keeps its selection to itself and tells it to `App.tsx`, which decides on
its copy. Copies and moves begin there; any other order goes back to a browser as a
request with a number. One action is a gesture with the render that follows it.

| Code | Model |
| --- | --- |
| a browser of a pane, kept while the pane shows files of the same kind | `browser[i]`, `Browses`, `Rendered` |
| `nssPaneSelection`, `onSelectionChange` | `picked`, `Tells` |
| `nssPaneOpRequest`, `fireNssFilePaneOp`, the effect that serves it | `opRequest`, `PressPaneOp`, `Serves`, `CanAsk` |
| `handleRowClick`, folders, hidden files, dialogs | `ClickRow`, `EnterFolder`, `HideDotFiles`, `OpenDialog`, `AnswerDialog` |
| F5 and F6, with Shift, and the bar's buttons; the gutter | `PressTransfer`, `BaseSource`, `CanTransfer`; `ClickGutter` |
| the browser's own F5 and Tab | `OwnF5`, `TabSwitch` |
| sessions that come, go and are dragged; other workspaces, plugin, hosts | `PlaceSession`, `SessionLeaves`, `DragSession`, `LeaveCommander`, `EnterCommander`, `SwitchPlugin`, `ForgetSpec` |

`lastOrder` is history: the order the last step gave. Sessions are known by their kind
or their host. The code of the browsers is taken as loaded. Four things follow from the
code which no property denies:

- A request is never taken away, and a browser starts with number 0: one that is mounted
  in the pane later (another session, another NSS-Commander with a pane of that number,
  leaving and coming back) serves it again. A dialog opens; with `archive` the names are
  packed once more. `HelpPanel.tsx:202` says "Archive selected items in the focused pane."
- Shift+F5 whose direction is refused falls through to the browser's own F5, which copies
  forwards.
- F5 and Tab in a dialog go through the portal to the browser behind it.
- A web console counts as a file pane after switching away and back, with the selection
  told last; `WithConsoles` is FALSE for that reason.

### MCDesktop

The eleven modules above share no variable (`FilePane` and `NssTransfer` are two
users of the same commands on different disks). One instance holds them all, and
`part` says which of them moves: no step of one is a step of another, so every
state of a part is reached with the others at rest. That makes eleven small state
spaces, added and not multiplied.

## 4. Runs

| Run | Instance | States, time | Shows |
| --- | --- | --- | --- |
| `input` | 2 sessions, 3 inputs each | 2.6 M, 50 s | order, one loop, nothing stranded, honest promises |
| `input_settles` | 1 session, 5 inputs | 18 k, 7 s | silence after close; every promise settles; the code implements `InputPipe`, with its liveness |
| `input_window` | 1 session, 3 inputs | violation | a lone keystroke does not wait for the 6 ms window |
| `workspace` | 2 sessions, 3 panes, 2 workspaces, patient user, no auto-arrange | 2.2 M, 65 s | `InOnePlace`; `SessionsAgree`, with closes that fail; the reaper closes nothing |
| `workspace_layouts` | 2 sessions, 2 panes, 2 workspaces, patient user, auto-arrange, restart | 2.7 M, 55 s | `SnapshotsAgree`: presets, profiles, NSS-Commander, removed workspaces leave no ghost and no snapshot without tab; `FreshNumbers`; `OrphansAreSeen` |
| `workspace_busy` | 2 sessions, 2 panes, 2 overlapping handlers, auto-arrange | 2.1 M, 110 s | panes keep their slots, the effects come to rest |
| `open_twice` | 2 overlapping starts | violation | both sessions take one pane, one is left without |
| `profile_with_shells` | a profile of two shells | violation | the reaper closes the first while the second starts |
| `preset_and_switch` | preset applied with switch | violation | the old layout is shown and saved over the preset |
| `cache` | 2 callers, 1 cluster with 1 guest, room for 1 answer, 3 commands, 2 ticks, 2 versions | 0.6 M, 65 s | everything listed under `ProxmuxCache` below |
| `desktop` | the eleven other parts, one moving per behaviour (constants in `MCDesktop`) | 0.8 M, 120 s | one to three properties per part, listed below |
| `copy_onto_itself` | one batch, both panes may show one folder | violation | a copy of a directory onto itself deletes it |

Why the bounds are enough for the interesting cases:

- *Input.* Three inputs give one under way, one waiting and one coalesced into
  it; five give two entries behind a request that fails. Two sessions show that
  the failure of one leaves the other alone when broadcasting.
- *Workspace.* Two sessions and three panes give swaps, moves with a pane that
  goes, a free pane beside a taken one and a new pane. Two workspaces give a
  hidden one. Two overlapping handlers are enough for every race of a closure
  with a state that has moved on. Four things are bounded by guards: `MaxSessions`
  (ids ever given), `MaxPanes` (pane numbers), `MaxCalls` (waiting handlers), and
  the set `Ops` of gestures per instance; together the instances make all
  gestures.
- *Cache.* Two callers give a fetcher with a sleeper, or a fetcher with a
  command that changes the cluster. Room for one answer makes every second store
  evict. Lifetimes of one and two ticks make entries end while others wait.
  `MaxNow`, `MaxChanges` (versions), `MaxCalls` (commands) bound the counters;
  `MaxChanges` bounds what the cluster does by itself, not the saves.

- *Output.* Two sessions, one of a saved host, with two terminals, and one quick; while
  the two terminals are there the other session is not started (`OneDoubled`); two numbers are a
  question that one read takes whole or in halves; a scrollback of one number is
  always full.
- *Files.* A link in the root and a read-only directory with a file and a link to
  it: deletions that fail half-way, links that are resolved, a folder that can be
  left. One listing and one handler under way, which with dialogs, editor and
  navigation is every pair that a patient user can overlap.
- *Transfer.* A file and a directory in both panes, so that every name is asked
  about, and a second source folder with a file of the same name, so that what is
  deleted at the end could be another one. One batch: an attentive user begins the
  next when it has ended, with the flags reset (`Prefetched`).
- *Panel, Hetzner.* Two clusters or projects with different answers, a guest that
  comes and goes, two requests under way.
- *Settings.* A saved cluster whose first address has no account, drafts with a
  right and a wrong password, one revocation, two callers.
- *Console.* Both kinds of pane, each with a proxy, two runs; only one pane runs in
  a behaviour, since two share neither refs nor proxies.
- *Identity, stored settings.* Three things the user does, which is a save under
  way, another one, and a form from before both; two directories.
- *Views.* A saved session, a local shell and a web console, an ordinary workspace and
  an NSS-Commander: each kind in each workspace, with one to move away from. Nothing
  is counted, hence nothing is bounded.
- *Commander keys.* Two panes, each with a shell, a host or nothing, and a name that is
  selected or not. `GivenOps` has one operation that names a file, `MaxOrders` allows one
  request. The property holds as well with two names (80 k states) and with three panes
  (0.4 M), and `OrdersAreSeen` is about any number of either.
- Their bounds are guards as well: `MaxPrinted`, `MaxConfirms`, `MaxLoads`,
  `MaxJobs`, `MaxCalls`, `MaxRequests`, `MaxCommands`, `MaxRevoked`, `MaxRuns`,
  `MaxSettings`, `MaxStatuses`, `MaxEdits`, `MaxChanges`, `MaxStarts`.

Some properties hold only for a user who waits, and a constant says so rather
than a hidden guard. Each of these provisos is needed: without it TLC shows the
property violated.

| Constant | The user who satisfies it | Without it |
| --- | --- | --- |
| `Patient` (`Workspace`, `FilePane`) | waits for what he started | sessions share a pane (`open_twice`); rows of one folder under the path of another |
| `MaxConfirms` = 1 (`SessionOutput`) | does not click "Trust" again while it is being saved or sent | "yes" is sent twice |
| `Attentive` (`NssTransfer`) | stays in the folders while a batch runs, with a list of hosts that stays, and confirms its destination once | a source is deleted in another folder, or without a copy; the second listing moves the destination under the batch |
| `Undisturbed` (`ProxmuxPanel`) | opens no other guest during a power action | the status of the former guest is shown |
| `PatientSettings` (`StoredSettings`) | waits for a save before the next change | the second save undoes the first |
| `WithConsoles` = FALSE (`CommanderOps`) | opens no web console in an NSS-Commander | an old selection is copied from a console's pane |

Deadlock is not checked: in every instance the user may stop, and with the
bounds used up nothing is left to do.

### The properties

*SessionInput.* `InOrder`, `OneLoop`, `NoneStranded`, `PromisesHonest`,
`SilentAfterClose` (after a close the child receives at most the request that held
its writer at that moment), and under fairness `EverySettles` and `ImplementsPipe`.

*Workspace.* Most are stated for `Quiet` states, where every handler has ended
and the effects have run, because handlers pass through inconsistent states that
effects repair.

- `InOnePlace` is `SingleOwner` (a session has one slot) and `InSight` (its slot is a
  pane of the tree).
- `SessionsAgree` is `NoGhost`, `TabsMatchBackend` and `TabsHaveSlots`: the backend
  knows no session without a tab, and of those with a tab it has lost only the ones
  whose close failed at the kill.
- `SnapshotsAgree` is `NoGhost` and `TabsMatchSnapshots`.
- `FreshNumbers`: the number of the next pane is in no slot array's range on the
  desk. A tree is a set of panes here; this is what keeps it from holding one twice.
- `OrphansAreSeen`: the orphan effect misses no session that has lost its last slot,
  in whatever way: those of a removed workspace, of a preset, of a late answer.

Always: `PanesBacked`, and for a patient user `NoneReaped`. Under fairness:
`EffectsSettle`.

*ProxmuxCache.* `SingleFlight`: a key has one fetcher, and claims are exactly
fetches. `SleepersHaveFetcher`: no wake-up is lost. `EvictsTheOldest`:
what goes is older than what stays (that enough goes, `WithinCapacity`, is proved). `HitsAreFresh`: what a caller gets was within its lifetime
when the caller asked (not when it is handed over: the clock is read before the
lock). `ChangesShow`: after a save, a removal or an order has returned, no older
answer is kept, provided nobody else read these keys or rewrote the file while
it ran. Without the proviso it fails: a fetch that began before the change
stores its answer after the invalidation. No document promises otherwise, so
this is a hazard in `PROJECT.json` and not a finding. `EveryCallReturns` under
fairness.

*The other parts.*

- `ScreenShowsStream` (`SessionOutput`): what a terminal shows, with the batch that
  waits, ends with all that reached it; and it is the end of what its session's
  terminals were given, in order, nothing twice, and so is the scrollback, unless two
  of them have shown the session at once. `AnswersAreAsked`: "yes" is sent no more often
  than a question came. Otherwise the child reads it as a login or a command.
- `ActsOnTheChosen` (`FilePane`): nothing is removed or written over but what was
  selected when the dialog opened, with what is in it, and the file in the editor.
  `ShowsItsFolder`: at rest and without an error, the rows are those of the folder.
- `NothingLost` (`NssTransfer`): every part that was on the disk is still somewhere,
  whole, unless its replacement was agreed to, whatever is cancelled, fails or runs
  again. `CancelEnds`, under fairness: a cancelled batch ends, paused or not, unless
  it waits for an answer.
- `ShowsTheChosen` (`ProxmuxPanel`): rows, status and SPICE buttons are of the
  cluster and the guest that are chosen.
- `RefusedOnlyWhenWrong` (`ProxmuxSettings`): a request is refused because of its
  password and never because of an old ticket.
- `NoProxyOutlivesItsPane` (`ProxmuxConsole`): a proxy whose run is over is held by
  its open pane or being stopped; and a terminal that is connecting has its proxy,
  no late run has stopped it. For a screen the latter is not so: a run cancelled
  while it imports tears down what its successor has put into the refs.
- `OrdersHitTheirProject` (`HetznerPlugin`): an order carries the project its server
  is in, also while servers of the last project are on the screen.
- `LinksResolve` (`IdentityStore`): users of hosts and groups and keys of users
  exist, on disk and in the window. Keys and groups of hosts may dangle.
- `SettingsSurvive` (`StoredSettings`): at rest the files of every directory hold
  what was chosen last and saved, but for what a touch has written over, the window
  shows the same, and the cached preferences are those of the directory.
- `ShowsItsOwnFiles` (`PaneViews`): in an ordinary workspace local files are shown in the
  pane of a local shell only, remote ones in that of a session that can be reached; in a
  commander the icon tells what is shown. `MarksAreCurrent`: marks end with broadcasting
  and with their session, and keys reach living sessions that take them.
- `OrdersNameTheShown` (`CommanderOps`): an order names files that are selected on the
  screen, in the focused browser or the one a transfer leaves; it goes to another browser,
  with the own machine at one end; a request has reached its browser when it is given.

### What the violations say

- `open_twice`: `findFirstFreePaneInOrder` looks at the panes of the closure from
  before the awaits. Two double clicks before the first session has started put
  both into one pane, and the orphan effect closes the one that lost it.
- `profile_with_shells`: the sessions of a profile get their slots when the last
  one has started, and the orphan effect closes in its second pass what has no
  slot. A profile with two shells shows a dead id; and as
  `pendingProfileLoadSessionIdsRef` holds it, lost slots are not cleaned any more.
- `preset_and_switch`: `switchWorkspace` applies the snapshot of its closure, the
  layout before the preset; the snapshot effect then writes it over the preset.
- `copy_onto_itself`: for a directory `runFilePaneTransfer` removes the entry of
  that name at the destination before it copies, without a look at whether the
  destination is the source. For a file the backend refuses ("Source and
  destination are the same.").
- `input_window`: `docs/performance.md` describes a window that keystrokes wait
  for; `sendInput` drains at once, and coalescing happens only behind a request.

### Fairness

- *SessionInput.* Weak fairness, per session, of the timer, of the settlement of
  requests and of the backend's answers: the event loop runs its callbacks and a
  synchronous command returns. Users, closes and exits are under no obligation.
- *Workspace.* Weak fairness of `RunEffects` (React runs the effects of a render)
  and of the reaper's answers. Handlers of the user need not be answered.
- *ProxmuxCache.* Weak fairness of the steps a command takes by itself: threads
  are scheduled, file writes end and the HTTP client gives up after its timeout
  (`proxmux.rs:885`). A command need not begin, and spurious wake-ups are not
  counted on. Starvation is possible in principle when a key is claimed again
  and again before a sleeper runs; the bound on commands hides it, as does every
  real use.
- *NssTransfer.* Weak fairness of each batch's handler and of `DeliverCall`: awaits
  are answered (commands return, with an error if nothing else) and commands that
  were sent run. The user owes no answer and no resume: hence the exception for a
  batch that asks, and none for one that is paused.
- The other parts have safety properties only and state no fairness.

## 5. Proofs

`tlapm` proves every obligation of the eight `..._proofs` modules with SMT, Zenon and
LS4, for every value of the constants that satisfies the assumptions of the
modules.

### SessionInput_proofs

`InputInv` adds to the properties that the requests and queue entries of a
session are consecutive intervals which end at the last input, and that what was
written or settled lies before the first of them. Order in `pty` is not
inductive without it: nothing else says that the next request is above what was
written. From it: `TypeCorrect`, `Ordered`, `SingleLoop`, `Unstranded`,
`Honest`, `Silence` (after a close at most the request that held the writer reaches
the child), and `Refinement`: each step is one of `InputPipe` or none
(accepting, handing a block over, settling a block).

### Workspace_proofs

`PanesStayBacked`: every pane of every tree has an entry in its slot array.
The invariant `IInv` has to speak about closures as well: a handler that waits
puts layouts derived from its `view` back on the desk or into a snapshot, so
each layout in `calls` must be backed, and pane numbers in calls must be
numbers. It is proved once as preservation of typed, backed layouts by each
helper of `PaneLayout` (among them `AppendGood`), and then action by action.
`TypeCorrect` comes from the same invariant.

The properties at rest are not inductive, since handlers wait in the middle and
effects repair what a gesture leaves. Five more invariants rest on `IInv`:

- `BackInv`, for `TabsAreChildren` (`TabsMatchBackend`). Tabs and children change in
  the same macrotasks, but for closes that fail at the kill, so they agree at every
  moment up to `broken` (`TabsRun`); of a waiting handler it is enough that "Close all"
  names every tab. Other handlers may overlap.
- `Rest`, for `NumbersStayFresh` (`FreshNumbers`) and `OrphansAreFound`
  (`OrphansAreSeen`), for every user and every gesture: what the next pass has to look
  at is marked, and what is not marked has been looked at.
- `HomeInv`, for `TabBarIsStored` (`TabsMatchSnapshots`): a handler that will show
  another workspace, or save the desk, names one of the tab bar. Handlers may overlap.
- `Places`, for `NoSessionTwice` (`InOnePlace`) and `SnapshotsStayTrue`
  (`SnapshotsAgree`). A patient user has one handler at a time (`OneCall`). `Alone`
  and `Sighted` say of every moment what the property says at rest, but for the pane
  of a duplicate that has not started, which shows its source (`Spare`). `Current` has
  a line for each kind of handler: the desk it has captured shows the same sessions as
  the desk now (`Alike`), and the pane it has chosen is still there. `Safe`, `Apart`
  and `Newer` say what may be in a slot: sessions with a tab or of an earlier run, and
  none that the effects are closing. `Current` cannot be left out: a handler puts its
  captured desk into a snapshot, and what an effect has removed must not come back so.
- `TidyInv`, for `EffectsCloseNothing` (`NoneReaped`) and `TabsChildrenAndSlotsAgree`
  (`SessionsAgree`). `Housed`: every session has a slot, between any two macrotasks and
  in every pass of the effects. It needs `Fresh` (a new pane takes a number that no
  slot has) and `Steady` (what a handler will write is no session's slot).

The theorems leave out the gestures (`Ops`) with which TLC shows their statements
violated, or which are meant to close sessions:

- `NoSessionTwice` and `SnapshotsStayTrue` leave out hosts dropped on a pane and
  profiles, which reuse a running session wherever it is (App.tsx:3915). `InOnePlace` fails with one session: a host that is dropped beside
  it takes it into a second pane. `SnapshotsAgree` fails with a profile of two shells,
  as `profile_with_shells` explains, and with three sessions when the host's session is
  one the reaper is closing: it is put into a pane, an NSS-Commander is begun, and its
  handler stores the captured desk with that session after the close.
  `workspace_layouts` has both gestures, with two sessions and a profile of one, where
  `SnapshotsAgree` holds.
- `EffectsCloseNothing` and `TabsChildrenAndSlotsAgree` are about the gestures of run
  `workspace` and a restart (`TidyOps`). Presets, NSS-Commander, quick connects over a
  pane and removed workspaces take slots from sessions, and then the effects are to
  close them.
- `TabsAreChildren` leaves out NSS-Commander, whose second shell may not start
  (App.tsx:4378), and, when handlers overlap, "Close all", which ends with no tab
  whatever has started meanwhile (App.tsx:4155). Both are hazards in `PROJECT.json` (at session.rs:387).
- `TabBarIsStored` leaves out removed workspaces when handlers overlap: a handler that
  waits for the start of a session can store a snapshot of one that is gone (App.tsx:4729).

The steps are proved by what they do to a layout: slots are emptied, a session comes
to the desk, sessions move, a workspace is shown. Each is one lemma, and the gestures
and answers are cases of them.

### ProxmuxCache_proofs

Four invariants, one on top of the other:

1. `TypeInv`: types, and that a command which changes something drops at least
   one set of keys, and all keys it touches are in these sets.
2. `FlightInv`: `SingleFlight` and `SleepersHaveFetcher` together; the second
   needs the first when a fetch begins or ends. `OneFetchPerKey`, `NoLostWakeUp`.
3. `ShowInv`, for `ChangesAreShown`. A pair of versions b is a *bound* for a key
   when nothing that is under way or may still begin can bring up an answer below
   b: the cluster's state is at least b, the settings in the file and in every
   copy that waits to be written are at least b or absent, a save yet to come
   exceeds b, and every reader of the key holds settings and answers from b on.
   `BoundKept` shows that a bound stays one under every step. The floor of a key
   and what an unfinished command shows are bounds, and a cached answer is above
   them or in a set of keys still to be dropped. The property itself says
   nothing about copies and readers, hence is not inductive.
4. `AskedInv`: a caller looks with a clock it has read after asking.
   `HitsAreAlwaysFresh`.

`CacheIsBounded` rests on the cardinality lemmas of `FiniteSetTheorems`.
`OldestIsEvicted` (`EvictsTheOldest`) needs `TypeInv` only: a caller that holds an
answer comes to its end by its own store (`StoreEnds`), whatever the others do. TLC runs
two callers; the theorems hold for any number of callers, clusters, guests and
entries, and any prefix relation between ids.

### HetznerPlugin_proofs

`OrdersAreSafe` (`OrdersHitTheirProject`) and `TypeCorrect`. That an order hits its
project depends on what is on the screen: `ShowsOwnServers` says that servers of
another project are shown only while the panel is busy with the first fetch of the
chosen one, and it needs `OneFetch`: at most one list is under way, it is that of
the chosen project, the panel is busy with it, and a cache holds servers of its
project. The buttons are disabled while the panel is busy; the mutant without that
guard fails.

### ProxmuxConsole_proofs

`NoProxyIsLeft` (`NoProxyOutlivesItsPane`) and `TypeCorrect`, for any panes and any
number of reconnects. `ProxyInv`: a run that is not cancelled belongs to an open
pane and is the only such one (`LiveInOpen`, `OneLive`); what a ref points to
belongs to it (`HeldByLive`); every listening proxy is about to be handed over, held
or being stopped (`ProxiesAccounted`); only panes with a screen have a run in an
import (`ImportsAreScreens`), which is why a terminal's proxy is safe from late
runs (`TerminalsBridged`).

### ProxmuxPanel_proofs

`ShowsChosen` (`ShowsTheChosen`) under `Undisturbed`, and `TypeCorrect` without it.
`OwnRows`: one fetch at a time, that of the chosen cluster, with the panel busy; a
fetch that began with rows in the cache began with those rows on the screen, so that
its failure may leave them there. `OwnProbes`: a probe that is not cancelled is of
the chosen cluster. `OwnStatus`: the newest request and the power action are of the
open guest; this is the part that needs `Undisturbed`.

### Panes_proofs

*Session output.* `StreamIsShown` (`ScreenShowsStream`). `EndsWith` compares with the
last places of a sequence; `EndsWithIs` restates it as `IsEnd`, a relation between
places. Its companions `EndGrows` (what is appended to both) and `EndOfEnd` are what
every step of a terminal comes down to. The property is not inductive: a chunk that
is still on its way must fit behind what was shown, so `Ordered` speaks of the events
of a session, of the numbers given and of the last one read, all at once. `YesIsAsked`
(`AnswersAreAsked`) needs `OutputAnswered`: each question was answered, is being
answered, or stands in the window; a "yes" takes one that stands.

*File panes.* `ChosenOnly` (`ActsOnTheChosen`) and `RowsAreTheFolder`
(`ShowsItsFolder`), both from `PatientInv`, and both for a user who waits. `OneAtATime`
says that then one thing at a time is open, listed or under way; hence what a handler
carries from its render is what is shown (`JobHere`, `LoadHere`, `DialogsHere`), and
what is listed is the folder's (`RowsOK`). The first theorem is for a pane of a
server, where a name is the entry; on the own machine a link leads elsewhere.

*Transfers.* `NothingIsLost` (`NothingLost`) for an attentive user and panes that show
different folders; `copy_onto_itself` is the other case. `RunOK` has a line for each place
of a handler between two awaits: nothing is at the destination before a file is copied
there or the user gave it up (`Unseen`, `Loose`), what is done is copied whole
(`Copied`), what a copy has begun is one part short. `SourcesOwn` says that no step
touches a source before the delete of a move, and that delete takes only what is
done. `OneBatch`: one handler works, and while it waits for a destination none does.
`Informed`: while the list of hosts stays, a batch whose destination is confirmed knows
its host, so no item counts as done without a copy.
The step of a handler is proved place by place, once for the types and once for `RunOK`.

*Keys of an NSS-Commander.* `OrdersAreSeen` (`OrdersNameTheShown`) without web consoles.
Orders are decided on the copy in `App.tsx`, so `CommanderInv` relates three places. A
session without a host has no remote view (`ViewsFit`), hence the browser that is mounted
is what the pane is to show (`MountedIsShown`), and where one is mounted the copy is its
selection (`CopyIsTold`); where none is, the copy may be old, but such a pane is no file
pane. A web console is the exception: it counts as one. The effects of a render are one
lemma for every step (`RenderInv`).

*Views.* `OwnFilesShown` (`ShowsItsOwnFiles`) and `MarksEnd` (`MarksAreCurrent`).
`ViewsAreOwn` asks of every view, wherever its session is, what the property asks of those
on the screen, since a session with a view can come from another workspace. A host that is
added again needs it too: a remote view left over would take the keyboard's terminal away.

`OutputTypesHold`, `FilePaneTypesHold` and `TransferTypesHold` are the type invariants;
those of the last two parts are in their theorems.

### Settings_proofs

*Proxmux settings.* `RequestsRefusedWhenWrong` (`RefusedOnlyWhenWrong`) and
`SettingsTypesHold`. `RequestOK`: a request under way stands at an address of its own,
and when it is sent a second time it carries a ticket that is good unless the servers
have forgotten it since. A request that ends refused was refused a login, or such a ticket.

*Identity store.* `LinksHold` (`LinksResolve`) and `IdentityTypesHold`. `StoreInv` asks of
every store there is what the property asks of two: that on disk, that in the window,
that of each call under way and that of a listing, since any of them can become the
other. Every operation on a store keeps its links (`WithUserLinks`, `WithoutKeyLinks`
and so on). `Kept` filters a sequence; what it returns is an induction over its length,
which the provers cannot do by a theorem of the library. The lemmas `KeptExists` and
`KeptIs` prove it from `Least`: a set of numbers that is not empty has a least member, so a first
length at which the claim failed would contradict the one before it.

*Stored settings.* `StoredSettingsSurvive` (`SettingsSurvive`) for a user who waits, and
`StoredTypesHold` without. The property is not inductive. `OneAwaited`: one command that
a user waits for is under way, and none while `load()` goes on between reading and
showing; sessions that touch the metadata may come in any number. `ChoicesKept` then asks
of every copy what the property asks at rest: a copy holds the choices but for what the
command under way is setting, which is `chosen` only when it is written, and for what is
`doubtful`. Of a touch only the host and the type of its copy matter (`TouchesKnown`):
where its copy differs from the file, its write says so. `WindowAgrees` says
which command stands in for each list the window does not show yet. `KeptAll` and its
corollaries (`OthersIs`, `ReorderedIs`, `RemovedIs`, `InsertedIs`, `PlacedIs`,
`SwappedIs`) say which elements the list operators return, once each and in which order,
by the same least counterexample.

### Only model-checked

- Liveness (`EverySettles`, the liveness part of `ImplementsPipe`,
  `EffectsSettle`, `EveryCallReturns`, `CancelEnds`): fairness and ENABLED are out of the
  prover's reach.
- `SnapshotsAgree` when hosts are dropped on panes or profiles are loaded: it holds in
  the instance of `workspace_layouts` and not beyond, as said above.
- `MCDesktop.TypeOK`, which is the type invariant of the part that moves. Those of the
  eleven parts are theorems; the instance that puts them side by side is for TLC only.

## 6. Not modelled

- In `SessionInput`: the content of keystrokes; only whether an input is a single
  character.
- In `Workspace`: the launch from the command line, views and focus (`PaneViews`),
  zoom, ratios, the stacked layout of narrow windows, which tab is active.
  `Restart` happens between gestures. A child that survives its close is in
  `SessionInput`.
- In `ProxmuxCache`: the ticket cache of the HTTP sessions, console and probe
  commands (no cached state), a truncated state file, poisoned locks, a clock
  that is set back, orders repeated by the failover.
- In `SessionOutput`: characters (a read that ends inside one), keyboard, selection
  and size of a terminal. Output that arrives before a terminal has subscribed is
  dropped in the model as in the code, and the property is about the rest.
- In `FilePane`: column widths, sorting, opening a file with another program. In
  `NssTransfer`: trees deeper than one level, rates and estimates.
- In `PaneViews`: sizes and colours, the text of labels, and the focused pane
  (`CommanderOps` has it). In `CommanderOps`: folders and entries (`FilePane`), the reload of
  both panes, files dragged or pasted, the drawing of the bars.
- In `ProxmuxPanel`: favorites, search and grouping, the buttons that open a console.
  In `ProxmuxSettings`: fetching a certificate, the global proxy, what a proxy does
  to a connection. In `ProxmuxConsole`: the bytes that flow. In `HetznerPlugin`:
  search and sorting, the console buttons, text and signature of a license token,
  plugins without a license.
- In `IdentityStore`: names, tags (they behave like groups) and other fields without
  links, the import of users from hosts, migration and export of files, encryption.
- In `StoredSettings`: names, filters and sort rules of a view, the panes of a layout
  profile (loaded in `Workspace`), the raw SSH config, preferences kept in local
  storage, the encryption of a backup and the SSH config inside it.
- Whole parts: the embedded browser windows for Proxmox logins and consoles, whose
  behaviour is that of pages of the server; the license server, which keeps nothing
  between two requests; the launch from the command line, one event that
  `StartSession` of `Workspace` covers; views, forms and appearance, presentation
  that nothing else depends on.
