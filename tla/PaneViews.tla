------------------------------ MODULE PaneViews ------------------------------
(***************************************************************************)
(* What the panes show, where the keyboard is and which sessions get what  *)
(* is typed (SplitWorkspace.tsx, TerminalPane.tsx, context-actions.ts and  *)
(* their handlers in App.tsx).                                             *)
(*                                                                         *)
(* Workspace has the slots and trees of the panes.  Here a pane is named   *)
(* by the session in it, panes without one are left out, and placeOf says  *)
(* in which workspace a session has its pane.  A pane shows a terminal, a  *)
(* file browser or a web console; React mounts a terminal anew when its    *)
(* pane moves in the tree, and a terminal takes the keyboard when it is    *)
(* mounted.  The focused pane (activePaneIndex) is not kept: the gestures  *)
(* that step from it to another reach every pane.                          *)
(***************************************************************************)
EXTENDS Naturals, FiniteSets

CONSTANTS
    Tab,         \* sessions the user opens
    TabKind,     \* TabKind[s]: "saved", "quick", "local" or "web"
    Desk,        \* workspaces
    Paired       \* those created as NSS-Commander

VARIABLES
    onDesk,       \* activeWorkspaceId
    paired,       \* workspaces whose snapshot has kind "nss-commander"
    placeOf,      \* placeOf[s]: the workspace of its pane, Nowhere or Gone
    starting,     \* starting[s]: what the handler that awaits its start has seen
    fileViews,    \* sessionFileViews
    filePlugin,   \* fileWorkspacePluginEnabled
    unhosted,     \* saved sessions whose host is not in `hosts`
    keyboard,     \* the session whose terminal has the keyboard, or NoTerminal
    broadcasting, \* isBroadcastModeEnabled
    marked        \* broadcastTargets

placeVars == <<onDesk, paired, placeOf, starting>>
castVars == <<broadcasting, marked>>
paneViewsVars == <<placeVars, fileViews, filePlugin, unhosted, keyboard, castVars>>

Gone == "gone"           \* no session
Nowhere == "nowhere"     \* a session without a slot, which is closed soon
NoTerminal == "none"

ASSUME PlacesAssumption ==
    /\ {Gone, Nowhere} \cap Desk = {} /\ NoTerminal \notin Tab
    /\ Paired \subseteq Desk
    /\ TabKind \in [Tab -> {"saved", "quick", "local", "web"}]

Live == {s \in Tab : placeOf[s] # Gone}
OnScreen == {s \in Tab : placeOf[s] = onDesk}
WebLike(s) == TabKind[s] = "web"
Dropping(f, S) == [s \in DOMAIN f \ S |-> f[s]]
Setting(f, s, v) == [t \in DOMAIN f \cup {s} |-> IF t = s THEN v ELSE f[t]]

-----------------------------------------------------------------------------
(* What a pane shows                                                       *)

PaneFileView(s) == IF filePlugin /\ s \in DOMAIN fileViews THEN fileViews[s] ELSE "terminal"

HasRemoteSpec(s) == TabKind[s] = "quick" \/ (TabKind[s] = "saved" /\ s \notin unhosted)

Shows(s) ==
    CASE WebLike(s) -> "web"
      [] ~WebLike(s) /\ PaneFileView(s) = "remote" /\ HasRemoteSpec(s) -> "remote"
      [] ~WebLike(s) /\ PaneFileView(s) = "local" -> "local"
      [] OTHER -> "terminal"

(* The icon in the title of a pane of an NSS-Commander.  It knows no       *)
(* Hetzner console: "web" stands for the others.                           *)
PaneKindIcon(s) ==
    CASE WebLike(s) -> "web"
      [] ~WebLike(s) /\ PaneFileView(s) \in {"remote", "local"} -> PaneFileView(s)
      [] OTHER -> "terminal"

Terminals == {s \in OnScreen : Shows(s) = "terminal"}

-----------------------------------------------------------------------------
(* The keyboard                                                            *)

(* A terminal takes the keyboard when it is mounted; of several the last   *)
(* one.  A button or a tab takes it on some platforms.                     *)
KeyboardFollows ==
    LET mounted == Terminals' \ Terminals
    IN  keyboard' \in IF mounted # {} THEN mounted
                      ELSE {keyboard, NoTerminal} \cap (Terminals' \cup {NoTerminal})

(* Panes moved in the tree: any terminal may have been mounted anew. *)
KeyboardMoves == keyboard' \in Terminals' \cup {NoTerminal}

ClickPane(s) ==
    /\ s \in OnScreen
    /\ keyboard' = IF s \in Terminals THEN s ELSE NoTerminal
    /\ UNCHANGED <<placeVars, fileViews, filePlugin, unhosted, castVars>>

(* Only a pane in terminal view reacts, and a web console has no terminal  *)
(* that would answer the request for focus.                                *)
HoverPane(s) ==
    /\ s \in OnScreen /\ PaneFileView(s) = "terminal"
    /\ s \in Terminals
    /\ keyboard' = s
    /\ UNCHANGED <<placeVars, fileViews, filePlugin, unhosted, castVars>>

(* The shortcuts for the next and the previous pane, and the quick         *)
(* navigation and the pager of stacked panes: where there is no terminal   *)
(* the keyboard stays in the old one.                                      *)
FocusNextPane(s) ==
    /\ s \in Terminals
    /\ keyboard' = s
    /\ UNCHANGED <<placeVars, fileViews, filePlugin, unhosted, castVars>>

QuickNavPane(s) ==
    /\ s \in Terminals
    /\ keyboard' \in {s, keyboard}
    /\ UNCHANGED <<placeVars, fileViews, filePlugin, unhosted, castVars>>

(* The settings change the font: every terminal is mounted anew. *)
ChangeFont ==
    /\ Terminals # {}
    /\ keyboard' \in Terminals
    /\ UNCHANGED <<placeVars, fileViews, filePlugin, unhosted, castVars>>

-----------------------------------------------------------------------------
(* Buttons and menu of a pane                                              *)

ContextKind(s) ==
    CASE WebLike(s) -> "web"
      [] TabKind[s] = "local" -> "local"
      [] OTHER -> "ssh"

(* What an NSS-Commander refuses to do (`blocked`). *)
RefusedInCommander == {"toggleRemote", "toggleLocal", "clear", "close", "split", "freeMove"}

(* The groups of the toolbar. *)
BroadcastButtons(s) ==
    {"mode"}
    \cup (IF broadcasting THEN {"all"} ELSE {})
    \cup (IF broadcasting /\ ~WebLike(s) THEN {"target"} ELSE {})

FileButtons(s) ==
    CASE ContextKind(s) = "web" -> {}
      [] ContextKind(s) = "local" /\ PaneFileView(s) # "remote" -> {"toggleLocal"}
      [] OTHER -> {"toggleRemote"}

(* A QEMU, LXC or node console has them all, a Hetzner console the first.  *)
ConsoleButtons(s) == IF WebLike(s) THEN {"reconnect", "window", "browser"} ELSE {}

CloseButtons == {"clear", "close"}

(* An NSS-Commander has no toolbar. *)
ToolbarActions(s) ==
    IF onDesk \in paired THEN {}
    ELSE {"expand", "split"} \cup BroadcastButtons(s) \cup FileButtons(s)
         \cup ConsoleButtons(s) \cup CloseButtons

ContextMenuActions(s) ==
    {"mode"}
    \cup (IF broadcasting /\ ~WebLike(s) THEN {"target"} ELSE {})
    \cup (IF onDesk \in paired THEN {}
          ELSE {"split", "freeMove", "clear", "close"}
               \cup (CASE filePlugin /\ ContextKind(s) = "ssh" -> {"toggleRemote"}
                       [] filePlugin /\ ContextKind(s) = "local" -> {"toggleLocal"}
                       [] OTHER -> {}))

(* The button of a file browser that leads back to the terminal. *)
BackAction(s) ==
    CASE Shows(s) = "local" -> {"toggleLocal"}
      [] Shows(s) = "remote" -> {"toggleRemote"}
      [] OTHER -> {}

(* "Send to ...": every other workspace. *)
SendTargets == Desk \ {onDesk}

Does(action, s) ==
    /\ s \in OnScreen
    /\ action \in ToolbarActions(s) \cup ContextMenuActions(s) \cup BackAction(s)
    /\ onDesk \in paired => action \notin RefusedInCommander

(* A button of the toolbar itself, or of the console in the pane, which is *)
(* not kept here.                                                          *)
PressButton(s) ==
    /\ \E action \in {"expand"} \cup ConsoleButtons(s) : Does(action, s)
    /\ UNCHANGED <<placeVars, fileViews, filePlugin, unhosted, castVars>>
    /\ KeyboardFollows

ToggledView(s, view) ==
    IF s \in DOMAIN fileViews /\ fileViews[s] = view
    THEN Dropping(fileViews, {s})
    ELSE Setting(fileViews, s, view)

(* Dropping the plugin the settings open instead. *)
ToggleRemoteFiles(s) ==
    /\ Does("toggleRemote", s) /\ filePlugin
    /\ TabKind[s] \in {"saved", "quick"}
    /\ HasRemoteSpec(s) \/ PaneFileView(s) = "remote"
    /\ fileViews' = ToggledView(s, "remote")
    /\ UNCHANGED <<placeVars, filePlugin, unhosted, castVars>>
    /\ KeyboardFollows

ToggleLocalFiles(s) ==
    /\ Does("toggleLocal", s) /\ filePlugin
    /\ TabKind[s] = "local"
    /\ fileViews' = ToggledView(s, "local")
    /\ UNCHANGED <<placeVars, filePlugin, unhosted, castVars>>
    /\ KeyboardFollows

-----------------------------------------------------------------------------
(* Broadcasting                                                            *)

(* Faulty: the marks stay when broadcasting ends. *)
KeepMarks(on) ==
    /\ broadcasting' = on
    /\ UNCHANGED <<marked, placeVars, fileViews, filePlugin, unhosted>>
    /\ KeyboardFollows

(* From a toolbar, a menu or the settings. *)
SetBroadcastMode(on) ==
    /\ broadcasting' = on
    /\ marked' = IF on THEN marked ELSE {}
    /\ UNCHANGED <<placeVars, fileViews, filePlugin, unhosted>>
    /\ KeyboardFollows

ToggleBroadcastTarget(s) ==
    /\ broadcasting
    /\ marked' = IF s \in marked THEN marked \ {s} ELSE marked \cup {s}

TogglePaneTarget(s) ==
    /\ Does("target", s) /\ ~WebLike(s)
    /\ ToggleBroadcastTarget(s)
    /\ UNCHANGED <<placeVars, fileViews, filePlugin, unhosted, broadcasting>>
    /\ KeyboardFollows

Eligible == {s \in OnScreen : ~WebLike(s)}

BroadcastToVisiblePanes ==
    /\ Eligible # {} /\ \E s \in OnScreen : Does("all", s)
    /\ marked' = IF Eligible \subseteq marked THEN marked \ Eligible ELSE marked \cup Eligible
    /\ UNCHANGED <<placeVars, fileViews, filePlugin, unhosted, broadcasting>>
    /\ KeyboardFollows

(* Sessions that leave are no longer marked. *)
Unmark(S) ==
    /\ marked' = marked \ S
    /\ UNCHANGED broadcasting

(* resolveInputTargets: who gets what is typed in the terminal of s. *)
InputTargets(s) ==
    LET reached == {t \in marked \cap Live : ~WebLike(t)}
    IN  IF broadcasting /\ reached # {} THEN reached ELSE {s}

-----------------------------------------------------------------------------
(* Sessions start, move and end                                            *)

(* A session goes to a pane of workspace d; those of `out` lose their slot *)
(* to it, or to a new layout.                                              *)
PutInPane(s, d, out) ==
    placeOf' = [t \in Tab |-> IF t = s THEN d ELSE IF t \in out THEN Nowhere ELSE placeOf[t]]

(* The handler keeps what it saw when it began: in an NSS-Commander it     *)
(* will show the files of a new SSH session, unless a layout profile       *)
(* opens it.                                                               *)
BeginOpen(s) ==
    /\ placeOf[s] = Gone /\ s \notin DOMAIN starting
    /\ ~WebLike(s) /\ s \notin unhosted
    /\ \E files \in {FALSE, (onDesk \in paired /\ filePlugin /\ TabKind[s] # "local")} :
          starting' = Setting(starting, s, [files |-> files, from |-> onDesk])
    /\ UNCHANGED <<onDesk, paired, placeOf, fileViews, filePlugin, unhosted, castVars>>
    /\ KeyboardFollows

(* The ids of sessions are never used twice.  An effect of the new session *)
(* takes the view back if its host was removed meanwhile.                  *)
Opened(s, out) ==
    /\ s \in DOMAIN starting
    /\ out \subseteq OnScreen
    /\ PutInPane(s, onDesk, out)
    /\ starting' = Dropping(starting, {s})
    /\ fileViews' = IF starting[s].files /\ HasRemoteSpec(s)
                    THEN Setting(fileViews, s, "remote") ELSE Dropping(fileViews, {s})
    /\ UNCHANGED <<onDesk, paired, filePlugin, unhosted, castVars>>
    /\ KeyboardMoves

OpenFails(s) ==
    /\ s \in DOMAIN starting
    /\ starting' = Dropping(starting, {s})
    /\ UNCHANGED <<onDesk, paired, placeOf, fileViews, filePlugin, unhosted, keyboard, castVars>>

OpenWebConsole(s) ==
    /\ WebLike(s) /\ placeOf[s] = Gone
    /\ PutInPane(s, onDesk, {})
    /\ fileViews' = Dropping(fileViews, {s})
    /\ UNCHANGED <<onDesk, paired, starting, filePlugin, unhosted, castVars>>
    /\ KeyboardMoves

(* A host dropped on a pane brings the session that it has. *)
DropHost(s, out) ==
    /\ TabKind[s] = "saved" /\ s \notin unhosted /\ s \in Live
    /\ out \subseteq OnScreen \ {s} /\ Cardinality(out) <= 1
    /\ PutInPane(s, onDesk, out)
    /\ UNCHANGED <<onDesk, paired, starting, fileViews, filePlugin, unhosted, castVars>>
    /\ KeyboardMoves

(* Splits, swaps and moves of panes, closed empty panes, and layouts that  *)
(* take the slots of sessions.  A drag from another program ends as one of *)
(* the pane or the host that was dragged last.                             *)
Rearrange(out) ==
    /\ out \subseteq OnScreen
    /\ placeOf' = [s \in Tab |-> IF s \in out THEN Nowhere ELSE placeOf[s]]
    /\ UNCHANGED <<onDesk, paired, starting, fileViews, filePlugin, unhosted, castVars>>
    /\ KeyboardMoves

(* The backend has closed a session of a pane, or one without a slot, of   *)
(* which the view stays.                                                   *)
CloseSession(s) ==
    /\ s \in Live
    /\ placeOf' = [placeOf EXCEPT ![s] = Gone]
    /\ fileViews' = IF placeOf[s] = Nowhere THEN fileViews ELSE Dropping(fileViews, {s})
    /\ Unmark({s})
    /\ UNCHANGED <<onDesk, paired, starting, filePlugin, unhosted>>
    /\ KeyboardMoves

CloseAllSessions ==
    /\ Live # {}
    /\ placeOf' = [s \in Tab |-> Gone]
    /\ fileViews' = <<>>
    /\ Unmark(Tab)
    /\ UNCHANGED <<onDesk, paired, starting, filePlugin, unhosted>>
    /\ KeyboardMoves

-----------------------------------------------------------------------------
(* Workspaces                                                              *)

(* Faulty: an ordinary workspace keeps the views of the one before. *)
KeepViews(d, place) ==
    IF d \in paired
    THEN [s \in {t \in Tab : place[t] = d} |-> "local"]
    ELSE fileViews

(* applyWorkspaceSnapshot: an NSS-Commander shows local files in all of    *)
(* its panes, whatever they hold; any other workspace starts with          *)
(* terminals.                                                              *)
ViewsOf(d, place) ==
    IF d \in paired
    THEN [s \in {t \in Tab : place[t] = d} |-> "local"]
    ELSE <<>>

SwitchWorkspace(d) ==
    /\ d \in Desk \ {onDesk}
    /\ onDesk' = d
    /\ fileViews' = ViewsOf(d, placeOf)
    /\ UNCHANGED <<paired, placeOf, starting, filePlugin, unhosted, castVars>>
    /\ KeyboardFollows

(* "Connect in workspace": it is shown with the session, and the one where *)
(* the user asked for it loses its kind.                                   *)
OpenedElsewhere(s, d) ==
    /\ s \in DOMAIN starting /\ TabKind[s] = "saved"
    /\ d \in Desk \ {starting[s].from}
    /\ PutInPane(s, d, {})
    /\ starting' = Dropping(starting, {s})
    /\ onDesk' = d /\ paired' = paired \ {starting[s].from}
    /\ fileViews' = ViewsOf(d, placeOf')
    /\ UNCHANGED <<filePlugin, unhosted, castVars>>
    /\ KeyboardFollows

(* The pane of the session goes, unless it is the only one. *)
SendToWorkspace(s, d) ==
    /\ s \in OnScreen /\ d \in SendTargets
    /\ PutInPane(s, d, {})
    /\ Unmark({s})
    /\ UNCHANGED <<onDesk, paired, starting, fileViews, filePlugin, unhosted>>
    /\ KeyboardMoves

-----------------------------------------------------------------------------
(* Settings                                                                *)

SetFilePlugin(on) ==
    /\ filePlugin # on
    /\ filePlugin' = on
    /\ fileViews' = IF on THEN fileViews ELSE <<>>
    /\ UNCHANGED <<placeVars, unhosted, castVars>>
    /\ KeyboardFollows

(* An effect takes the remote view from the sessions of the host. *)
ForgetHost(s) ==
    /\ TabKind[s] = "saved" /\ s \notin unhosted
    /\ unhosted' = unhosted \cup {s}
    /\ fileViews' = Dropping(fileViews, {t \in {s} \cap DOMAIN fileViews : fileViews[t] = "remote"})
    /\ UNCHANGED <<placeVars, filePlugin, castVars>>
    /\ KeyboardFollows

AddHost(s) ==
    /\ s \in unhosted
    /\ unhosted' = unhosted \ {s}
    /\ UNCHANGED <<placeVars, fileViews, filePlugin, keyboard, castVars>>

-----------------------------------------------------------------------------

PaneViewsInit ==
    /\ onDesk \in Desk /\ paired = Paired
    /\ placeOf = [s \in Tab |-> Gone] /\ starting = <<>>
    /\ fileViews = <<>>
    /\ filePlugin = TRUE /\ unhosted = {}
    /\ keyboard = NoTerminal
    /\ broadcasting = FALSE /\ marked = {}

PaneViewsNext ==
    \/ \E s \in Tab :
          \/ ClickPane(s) \/ HoverPane(s) \/ FocusNextPane(s) \/ QuickNavPane(s)
          \/ PressButton(s)
          \/ ToggleRemoteFiles(s) \/ ToggleLocalFiles(s) \/ TogglePaneTarget(s)
          \/ BeginOpen(s) \/ OpenFails(s) \/ OpenWebConsole(s) \/ CloseSession(s)
          \/ \E out \in SUBSET OnScreen : Opened(s, out) \/ DropHost(s, out)
          \/ \E d \in Desk : OpenedElsewhere(s, d) \/ SendToWorkspace(s, d)
          \/ ForgetHost(s) \/ AddHost(s)
    \/ \E out \in SUBSET OnScreen : Rearrange(out)
    \/ ChangeFont \/ BroadcastToVisiblePanes \/ CloseAllSessions
    \/ \E on \in BOOLEAN : SetBroadcastMode(on) \/ SetFilePlugin(on)
    \/ \E d \in Desk : SwitchWorkspace(d)

PaneViewsSpec == PaneViewsInit /\ [][PaneViewsNext]_paneViewsVars

-----------------------------------------------------------------------------
(* Properties                                                              *)

PaneViewsTypeOK ==
    /\ onDesk \in Desk /\ paired \subseteq Paired
    /\ placeOf \in [Tab -> Desk \cup {Gone, Nowhere}]
    /\ DOMAIN starting \subseteq Tab
    /\ starting \in [DOMAIN starting -> [files : BOOLEAN, from : Desk]]
    /\ DOMAIN fileViews \subseteq Tab
    /\ fileViews \in [DOMAIN fileViews -> {"remote", "local"}]
    /\ filePlugin \in BOOLEAN /\ broadcasting \in BOOLEAN
    /\ unhosted \subseteq Tab /\ marked \subseteq Tab
    /\ keyboard \in Terminals \cup {NoTerminal}

(* In an ordinary workspace a pane shows files of its own session: local   *)
(* ones only in the pane of a local shell, remote ones only in that of an  *)
(* SSH session that can still be reached.  It holds although an            *)
(* NSS-Commander shows local files under every session, although sessions  *)
(* move between workspaces, and although a session may start in one and    *)
(* arrive in another.  In an NSS-Commander the icon tells what is shown.   *)
ShowsItsOwnFiles ==
    \A s \in OnScreen :
        IF onDesk \in paired
        THEN PaneKindIcon(s) = Shows(s)
        ELSE /\ PaneFileView(s) = "local" => TabKind[s] = "local"
             /\ PaneFileView(s) = "remote" => ~WebLike(s) /\ HasRemoteSpec(s)

(* The marks that divert the keyboard end with broadcasting, and with the  *)
(* session that has them: no session starts with one, and what is typed    *)
(* reaches sessions that take keys, only that of the keyboard unless the   *)
(* user broadcasts.                                                        *)
MarksAreCurrent ==
    /\ ~broadcasting => marked = {}
    /\ \A s \in marked : s \in Live /\ ~WebLike(s)
    /\ keyboard # NoTerminal => \A s \in InputTargets(keyboard) : s \in Live /\ ~WebLike(s)

=============================================================================
