----------------------------- MODULE Workspace -----------------------------
(***************************************************************************)
(* Sessions, panes and workspaces of the desktop window (App.tsx).         *)
(*                                                                         *)
(* A session has a tab (`sessions`), usually a child process in the        *)
(* backend (`running`) and a slot in some pane.  The panes on screen are   *)
(* `desk`; the other workspaces are in `snaps`, where the active one keeps *)
(* a copy too.  React effects repair what the handlers leave behind: they  *)
(* clean slots of lost sessions, close sessions without a slot, copy the   *)
(* desk into its snapshot and compact the slot array.                      *)
(*                                                                         *)
(* One action is one macrotask of the event loop: a user's gesture, the    *)
(* answer of a backend command with the handler's code up to its next      *)
(* await, or one pass over the effects of a render (RunEffects).  State    *)
(* setters of one macrotask take effect together.  A handler that awaits   *)
(* goes on with the values its closure captured: they are the `view` of    *)
(* its call.  `dirty` names the state that changed since the last pass.    *)
(***************************************************************************)
EXTENDS PaneLayout, FiniteSets

CONSTANTS
    Hosts,       \* saved hosts
    Workspaces,  \* ids of workspaces, `Main` among them
    Main,        \* DEFAULT_WORKSPACE_ID
    Profiles,    \* saved layout profiles: pane -> host, "local" or None
    Ops,         \* the gestures the user makes
    Patient,     \* the user waits until what he started has ended
    Compacts,    \* auto-arrange mode a or c
    MaxSessions, \* bound: sessions ever started
    MaxPanes,    \* bound: pane numbers
    MaxCalls     \* bound: handlers that await at a time

ASSUME BoundsAssumption == MaxSessions \in Nat /\ MaxPanes \in PaneNr /\ MaxCalls \in Nat
ASSUME MainAssumption == Main \in Workspaces
ASSUME IdsAssumption == None \notin Nat /\ {"local", "web"} \cap Hosts = {}
ASSUME ProfilesAssumption == \A f \in Profiles :
    /\ DOMAIN f \subseteq 1..MaxPanes /\ DOMAIN f # {}
    /\ \A p \in DOMAIN f : f[p] \in Hosts \cup {"local", None}

VARIABLES
    sessions,  \* ids with a tab
    kinds,     \* kinds[s]: a host, "local" or "web"; the ids are 1..Len(kinds)
    running,   \* ids of the backend's session map
    desk,      \* splitSlots and splitTree
    snaps,     \* workspaceSnapshots: layouts by workspace
    nss,       \* workspaces whose snapshot has kind "nss-commander"
    ws,        \* activeWorkspaceId
    wsOrder,   \* the workspaces of workspaceOrder
    nextPane,  \* nextPaneIndexRef, as a pane number
    seen,      \* orphanSeenSessionIdsRef
    closing,   \* orphanClosingSessionIdsRef: a close of each is under way
    pending,   \* pendingProfileLoadSessionIdsRef, {} for null
    calls,     \* calls[k]: a handler that awaits, or Idle
    dirty,     \* changed since the last pass over the effects
    boot,      \* history: sessions up to this one belong to earlier runs
    broken     \* history: ids that a close took from the map and failed after

tabVars == <<sessions, kinds, running>>
wsVars == <<snaps, nss, ws, wsOrder>>
refVars == <<seen, closing, pending, boot, broken>>
vars == <<tabVars, desk, wsVars, nextPane, refVars, calls, dirty>>

Ids == 1..MaxSessions
Panes == 1..MaxPanes
Kinds == Hosts \cup {"local", "web"}
Idle == [op |-> "idle"]

Touch(parts) == dirty' = dirty \cup parts
Everything == {"tabs", "slots", "panes", "snaps"}

-----------------------------------------------------------------------------
(* Gestures and calls                                                      *)

Pending(k) == calls[k] # Idle
Settled == dirty = {}
Quiet == Settled /\ \A k \in DOMAIN calls : ~Pending(k)

(* The user sees a finished render; a patient one also waits for answers. *)
May(op) == op \in Ops /\ Settled /\ (Patient => Quiet)

Begin(call) == \E k \in DOMAIN calls :
    /\ ~Pending(k)
    /\ calls' = [calls EXCEPT ![k] = call]

End(k) == calls' = [calls EXCEPT ![k] = Idle]

(* What the closure of a handler holds. *)
View == [desk |-> desk, ws |-> ws, nss |-> ws \in nss]

CloseCall(s, leaf) == [op |-> "close", s |-> s, leaf |-> leaf]

NewId == Len(kinds) + 1

Starts(kind) ==
    /\ NewId \in Ids
    /\ kinds' = Append(kinds, kind)
    /\ running' = IF kind = "web" THEN running ELSE running \cup {NewId}

(* Faulty: the session gets no tab. *)
OpensWithoutTab(kind) == Starts(kind) /\ UNCHANGED sessions

Opens(kind) == Starts(kind) /\ sessions' = sessions \cup {NewId}

StartFails(k, op) ==
    /\ calls[k].op = op
    /\ End(k)
    /\ UNCHANGED <<tabVars, desk, wsVars, nextPane, refVars, dirty>>

-----------------------------------------------------------------------------
(* Placing a session                                                       *)

(* splitFocusedPane(_, p, "empty"), then the session goes to the new pane. *)
SplitFor(view, p, s) ==
    /\ nextPane \in Panes
    /\ nextPane' = nextPane + 1
    /\ \E t \in IF p \in view.desk.panes THEN {p} ELSE view.desk.panes :
          desk' = AssignSessionToPane(SplitPane(desk, t, nextPane), nextPane, s)

(* The closure's layout says which pane is free, and whether a session of  *)
(* the NSS-Commander workspace is replaced, which is then closed.          *)
PlaceInNewOrFreePane(k, view, p, s) ==
    LET old == SlotOf(view.desk, p)
    IN  /\ IF view.nss
           THEN /\ desk' = AssignSessionToPane(desk, p, s)
                /\ UNCHANGED nextPane
           ELSE IF FreePanes(view.desk) # {}
           THEN /\ \E q \in FreePanes(view.desk) : desk' = AssignSessionToPane(desk, q, s)
                /\ UNCHANGED nextPane
           ELSE SplitFor(view, p, s)
        /\ calls' = [calls EXCEPT ![k] = IF view.nss /\ old # None
                                         THEN CloseCall(old, None) ELSE Idle]

-----------------------------------------------------------------------------
(* Opening sessions                                                        *)

(* A double click, the pane menu, SSH from a plugin: a new session for a   *)
(* free pane or a new one.                                                 *)
OpenSession(kind, p) ==
    /\ May("new")
    /\ p \in desk.panes
    /\ Begin([op |-> "new", kind |-> kind, p |-> p, view |-> View])
    /\ UNCHANGED <<tabVars, desk, wsVars, nextPane, refVars, dirty>>

(* The button of an empty pane, and quick connect from the menu of any.    *)
OpenSessionHere(kind, p) ==
    /\ (May("here") /\ SlotOf(desk, p) = None) \/ May("quick")
    /\ p \in desk.panes
    /\ Begin([op |-> "here", kind |-> kind, p |-> p])
    /\ UNCHANGED <<tabVars, desk, wsVars, nextPane, refVars, dirty>>

OpenedNew(k) ==
    /\ calls[k].op = "new"
    /\ Opens(calls[k].kind)
    /\ PlaceInNewOrFreePane(k, calls[k].view, calls[k].p, NewId)
    /\ Touch({"tabs", "slots", "panes"})
    /\ UNCHANGED <<wsVars, refVars>>

OpenedHere(k) ==
    /\ calls[k].op = "here"
    /\ Opens(calls[k].kind)
    /\ desk' = AssignSessionToPane(desk, calls[k].p, NewId)
    /\ End(k)
    /\ Touch({"tabs", "slots"})
    /\ UNCHANGED <<wsVars, nextPane, refVars>>

(* Web consoles have no child process and nothing to wait for. *)
OpenWeb(p) ==
    /\ May("web")
    /\ p \in desk.panes
    /\ Opens("web")
    /\ IF FreePanes(desk) # {}
       THEN /\ \E q \in FreePanes(desk) : desk' = AssignSessionToPane(desk, q, NewId)
            /\ UNCHANGED nextPane
       ELSE SplitFor(View, p, NewId)
    /\ Touch({"tabs", "slots", "panes"})
    /\ UNCHANGED <<wsVars, refVars, calls>>

(* A split without a session, and one that shows the session of its source *)
(* until the duplicate has started.                                        *)
DuplicateSource(p) ==
    IF SlotOf(desk, p) # None THEN {SlotOf(desk, p)}
    ELSE IF Shown(desk) # {} THEN Shown(desk) ELSE sessions

SplitEmpty(p) ==
    /\ May("split") \/ (May("duplicate") /\ DuplicateSource(p) \cap sessions = {})
    /\ p \in desk.panes /\ ws \notin nss
    /\ nextPane \in Panes
    /\ desk' = SplitPane(desk, p, nextPane)
    /\ nextPane' = nextPane + 1
    /\ Touch({"slots", "panes"})
    /\ UNCHANGED <<tabVars, wsVars, refVars, calls>>

SplitDuplicate(p) ==
    /\ May("duplicate")
    /\ p \in desk.panes /\ ws \notin nss
    /\ nextPane \in Panes
    /\ \E s \in DuplicateSource(p) \cap sessions :
          /\ desk' = AssignSessionToPane(SplitPane(desk, p, nextPane), nextPane, s)
          /\ Begin([op |-> "duplicate", kind |-> kinds[s], p |-> nextPane])
    /\ nextPane' = nextPane + 1
    /\ Touch({"slots", "panes"})
    /\ UNCHANGED <<tabVars, wsVars, refVars>>

OpenedDuplicate(k) ==
    /\ calls[k].op = "duplicate"
    /\ Opens(calls[k].kind)
    /\ desk' = AssignSessionToPane(desk, calls[k].p, NewId)
    /\ End(k)
    /\ Touch({"tabs", "slots"})
    /\ UNCHANGED <<wsVars, nextPane, refVars>>

DuplicateFails(k) ==
    /\ calls[k].op = "duplicate"
    /\ desk' = ClearPaneAtIndex(desk, calls[k].p)
    /\ End(k)
    /\ Touch({"slots"})
    /\ UNCHANGED <<tabVars, wsVars, nextPane, refVars>>

-----------------------------------------------------------------------------
(* Drag and drop                                                           *)

(* In an NSS-Commander workspace every drop is one on the centre. *)
DropZones == IF ws \in nss THEN {"center"} ELSE {"center", "edge"}

FirstSlotOf(s) == {p \in DOMAIN desk.slots : desk.slots[p] = s
                       /\ \A q \in 1..(p - 1) : desk.slots[q] # s}

(* Faulty: the dragged session stays in its old slot as well. *)
MoveByCopy(l, s, src, p) ==
    LET there == SlotOf(l, p)
        moved == AssignSessionToPane(l, p, s)
    IN  IF there = None THEN RemovePane(moved, src)
        ELSE AssignSessionToPane(moved, src, there)

(* s swaps with the session of p, or moves there and its pane goes. *)
MoveToPane(l, s, src, p) ==
    LET there == SlotOf(l, p)
        moved == AssignSessionToPane(RemoveSessionFromSlots(l, s), p, s)
    IN  IF there = None THEN ClearPaneAtIndex(RemovePane(moved, src), src)
        ELSE AssignSessionToPane(moved, src, there)

DragToPane(s, src, p) ==
    /\ May("drag")
    /\ src \in FirstSlotOf(s) \cap desk.panes /\ p \in desk.panes \ {src}
    /\ desk' = MoveToPane(desk, s, src, p)
    /\ Touch({"slots", "panes"})
    /\ UNCHANGED <<tabVars, wsVars, nextPane, refVars, calls>>

(* An edge of another pane splits it, and the source pane goes. *)
DragToEdge(s, src, p) ==
    /\ May("drag") /\ "edge" \in DropZones
    /\ src \in FirstSlotOf(s) \cap desk.panes /\ p \in desk.panes \ {src}
    /\ nextPane \in Panes
    /\ desk' = LET split == SplitPane(desk, p, nextPane)
                   moved == AssignSessionToPane(RemoveSessionFromSlots(split, s), nextPane, s)
               IN  ClearPaneAtIndex(RemovePane(moved, src), src)
    /\ nextPane' = nextPane + 1
    /\ Touch({"slots", "panes"})
    /\ UNCHANGED <<tabVars, wsVars, refVars, calls>>

(* An edge of its own pane: a duplicate starts and goes to the new pane. *)
DragToOwnEdge(s, p) ==
    /\ May("drag") /\ "edge" \in DropZones
    /\ p \in FirstSlotOf(s) \cap desk.panes /\ s \in sessions
    /\ Begin([op |-> "zone", kind |-> kinds[s], p |-> p, view |-> View])
    /\ UNCHANGED <<tabVars, desk, wsVars, nextPane, refVars, dirty>>

OpenedInZone(k) ==
    /\ calls[k].op = "zone"
    /\ Opens(calls[k].kind)
    /\ SplitFor(calls[k].view, calls[k].p, NewId)
    /\ End(k)
    /\ Touch({"tabs", "slots", "panes"})
    /\ UNCHANGED <<wsVars, refVars>>

SessionsOf(host) == {s \in sessions : kinds[s] = host}

(* A host dropped on a pane: a session of it that exists is used again,    *)
(* otherwise one is started.  On the centre it replaces the pane's session,*)
(* on an edge it is placed in a new pane and keeps the slot it has.        *)
DropZone(p, zone) == IF SlotOf(desk, p) = None THEN "center" ELSE zone

DropHostOver(h, p, zone) ==
    /\ May("host")
    /\ p \in desk.panes /\ zone \in DropZones /\ DropZone(p, zone) = "center"
    /\ LET old == SlotOf(desk, p)
       IN  IF SessionsOf(h) = {}
           THEN /\ Begin([op |-> "replace", kind |-> h, p |-> p, old |-> old])
                /\ UNCHANGED <<desk, dirty>>
           ELSE \E s \in SessionsOf(h) :
                /\ desk' = AssignSessionToPane(RemoveSessionFromSlots(desk, s), p, s)
                /\ Touch({"slots"})
                /\ IF old \in {None, s} THEN UNCHANGED calls ELSE Begin(CloseCall(old, None))
    /\ UNCHANGED <<tabVars, wsVars, nextPane, refVars>>

OpenedOver(k) ==
    /\ calls[k].op = "replace"
    /\ Opens(calls[k].kind)
    /\ desk' = AssignSessionToPane(desk, calls[k].p, NewId)
    /\ calls' = [calls EXCEPT ![k] = IF @.old = None THEN Idle ELSE CloseCall(@.old, None)]
    /\ Touch({"tabs", "slots"})
    /\ UNCHANGED <<wsVars, nextPane, refVars>>

DropHostBeside(h, p, zone) ==
    /\ May("host")
    /\ p \in desk.panes /\ zone \in DropZones /\ DropZone(p, zone) = "edge"
    /\ IF SessionsOf(h) = {}
       THEN /\ Begin([op |-> "zone", kind |-> h, p |-> p, view |-> View])
            /\ UNCHANGED <<desk, nextPane, dirty>>
       ELSE /\ \E s \in SessionsOf(h) : SplitFor(View, p, s)
            /\ Touch({"slots", "panes"})
            /\ UNCHANGED calls
    /\ UNCHANGED <<tabVars, wsVars, refVars>>

-----------------------------------------------------------------------------
(* Closing                                                                 *)

(* The tab and the slots in every snapshot. *)
RemoveEverywhere(s) ==
    /\ sessions' = sessions \ {s}
    /\ snaps' = [w \in DOMAIN snaps |-> RemoveSessionFromSlots(snaps[w], s)]

(* A web console is closed without the backend, which refuses to close     *)
(* what is not in its map.                                                 *)
IsWebTab(s) == s \in sessions /\ kinds[s] = "web"

Closes(s) == IsWebTab(s) \/ s \in running

CloseInPane(p) ==
    /\ May("clear")
    /\ p \in desk.panes /\ ws \notin nss /\ SlotOf(desk, p) # None
    /\ Begin(CloseCall(SlotOf(desk, p), None))
    /\ UNCHANGED <<tabVars, desk, wsVars, nextPane, refVars, dirty>>

ClosePane(p) ==
    /\ May("close")
    /\ p \in desk.panes /\ ws \notin nss /\ desk.panes # {p}
    /\ IF SlotOf(desk, p) = None
       THEN /\ desk' = ClearPaneAtIndex(RemovePane(desk, p), p)
            /\ Touch({"slots", "panes"})
            /\ UNCHANGED calls
       ELSE /\ Begin(CloseCall(SlotOf(desk, p), p))
            /\ UNCHANGED <<desk, dirty>>
    /\ UNCHANGED <<tabVars, wsVars, nextPane, refVars>>

Closed(k) ==
    LET s == calls[k].s
        leaf == calls[k].leaf
        without == RemoveSessionFromSlots(desk, s)
    IN  /\ calls[k].op = "close"
        /\ Closes(s)
        /\ running' = running \ {s}
        /\ RemoveEverywhere(s)
        /\ desk' = IF leaf = None THEN without
                   ELSE ClearPaneAtIndex(RemovePane(without, leaf), leaf)
        /\ End(k)
        /\ Touch(Everything)
        /\ UNCHANGED <<kinds, nss, ws, wsOrder, nextPane, refVars>>

(* close_session fails and the handler throws: tab and slots stay.  The    *)
(* backend did not know the id, or has taken it from its map and then      *)
(* could not kill the child.                                               *)
CloseFails(k) ==
    LET s == calls[k].s
    IN  /\ calls[k].op = "close"
        /\ ~IsWebTab(s)
        /\ running' = running \ {s}
        /\ broken' = broken \cup (running \cap {s})
        /\ End(k)
        /\ UNCHANGED <<sessions, kinds, desk, wsVars, nextPane, seen, closing, pending, boot, dirty>>

(* "Close all", with or without a reset of the layout to one pane. *)
CloseAll(reset) ==
    /\ May("all")
    /\ IF sessions # {}
       THEN /\ Begin([op |-> "all", ids |-> sessions, reset |-> reset])
            /\ UNCHANGED <<desk, nextPane, dirty>>
       ELSE /\ reset
            /\ desk' = Blank(1) /\ nextPane' = 2
            /\ Touch({"slots", "panes"})
            /\ UNCHANGED calls
    /\ UNCHANGED <<tabVars, wsVars, refVars>>

Emptied(l) == KeepSessionsOf(l, {})

(* Every tab goes, those too that were opened after the gesture. *)
AllClosed(k) ==
    /\ calls[k].op = "all"
    /\ running' = running \ calls[k].ids
    /\ sessions' = {}
    /\ IF calls[k].reset
       THEN desk' = Blank(1) /\ nextPane' = 2
       ELSE desk' = Emptied(desk) /\ UNCHANGED nextPane
    /\ snaps' = [w \in DOMAIN snaps |-> Emptied(snaps[w])]
    /\ End(k)
    /\ Touch(Everything)
    /\ UNCHANGED <<kinds, nss, ws, wsOrder, refVars>>

-----------------------------------------------------------------------------
(* Workspaces                                                              *)

(* An id that no snapshot and no waiting handler has. *)
Unused(w) ==
    /\ w \notin DOMAIN snaps \cup wsOrder \cup {ws}
    /\ \A k \in DOMAIN calls : Pending(k) =>
          /\ "view" \in DOMAIN calls[k] => calls[k].view.ws # w
          /\ "target" \in DOMAIN calls[k] => calls[k].target # w

Save(w, l) == [x \in DOMAIN snaps \cup {w} |-> IF x = w THEN l ELSE snaps[x]]

Show(w, l) == ws' = w /\ desk' = l

SwitchWorkspace(w) ==
    /\ May("switch")
    /\ w \in wsOrder \cap DOMAIN snaps /\ w # ws
    /\ snaps' = Save(ws, desk)
    /\ Show(w, snaps[w])
    /\ Touch({"slots", "panes", "snaps"})
    /\ UNCHANGED <<tabVars, nss, wsOrder, nextPane, refVars, calls>>

CreateWorkspace(w) ==
    /\ May("create")
    /\ Unused(w)
    /\ snaps' = [x \in DOMAIN snaps \cup {w, ws} |->
                    IF x = w THEN Blank(1) ELSE IF x = ws THEN desk ELSE snaps[x]]
    /\ wsOrder' = wsOrder \cup {w}
    /\ Show(w, Blank(1))
    /\ Touch({"slots", "panes", "snaps"})
    /\ UNCHANGED <<tabVars, nss, nextPane, refVars, calls>>

(* Faulty: the snapshot of a removed workspace stays. *)
ForgetNothing(w) == snaps

Forget(w) == [x \in DOMAIN snaps \ {w} |-> snaps[x]]

(* The sessions of the removed workspace lose their slots; the effects     *)
(* close them later.                                                       *)
RemoveWorkspace(w) ==
    /\ May("remove")
    /\ w \in wsOrder \cap DOMAIN snaps /\ wsOrder # {w}
    /\ wsOrder' = wsOrder \ {w}
    /\ snaps' = Forget(w)
    /\ nss' = nss \ {w}
    /\ \/ /\ w # ws
          /\ Touch({"snaps"})
          /\ UNCHANGED <<desk, ws>>
       \/ /\ w = ws
          /\ \E next \in wsOrder' \cap DOMAIN snaps : Show(next, snaps[next])
          /\ Touch({"slots", "panes", "snaps"})
    /\ UNCHANGED <<tabVars, nextPane, refVars, calls>>

(* NSS-Commander: two local sessions, then a workspace for them. *)
CreateCommander(w) ==
    /\ May("commander")
    /\ Unused(w)
    /\ Begin([op |-> "left", target |-> w, view |-> View])
    /\ UNCHANGED <<tabVars, desk, wsVars, nextPane, refVars, dirty>>

LeftStarted(k) ==
    /\ calls[k].op = "left"
    /\ Starts("local")
    /\ calls' = [calls EXCEPT ![k] = [op |-> "right", left |-> NewId,
                                      target |-> @.target, view |-> @.view]]
    /\ UNCHANGED <<sessions, desk, wsVars, nextPane, refVars, dirty>>

(* The desk of the closure overwrites the snapshot it came from. *)
RightStarted(k) ==
    LET c == calls[k]
        panels == [slots |-> <<c.left, NewId>>, panes |-> {1, 2}]
    IN  /\ c.op = "right"
        /\ Starts("local")
        /\ sessions' = sessions \cup {c.left, NewId}
        /\ snaps' = [x \in DOMAIN snaps \cup {c.target, c.view.ws} |->
                        IF x = c.target THEN panels
                        ELSE IF x = c.view.ws THEN c.view.desk ELSE snaps[x]]
        /\ nss' = nss \cup {c.target}
        /\ wsOrder' = wsOrder \cup {c.target}
        /\ Show(c.target, panels)
        /\ End(k)
        /\ Touch(Everything)
        /\ UNCHANGED <<nextPane, refVars>>

(* Faulty: the target's snapshot is not written. *)
AppendNowhere(w, s) == {snaps[w]}

AppendToSnapshot(w, s) == AppendSession(snaps[w], s)

(* "Send to workspace": the source pane goes unless it is the only one. *)
SendSession(s, w) ==
    /\ May("send")
    /\ s \in Shown(desk) /\ w \in wsOrder \cap DOMAIN snaps /\ w # ws
    /\ \E l \in AppendToSnapshot(w, s) : l.panes \subseteq Panes /\ snaps' = Save(w, l)
    /\ \E src \in FirstSlotOf(s) :
          desk' = LET without == RemoveSessionFromSlots(desk, s)
                  IN  IF src \in desk.panes /\ desk.panes # {src}
                      THEN ClearPaneAtIndex(RemovePane(without, src), src)
                      ELSE without
    /\ Touch({"slots", "panes", "snaps"})
    /\ UNCHANGED <<tabVars, nss, ws, wsOrder, nextPane, refVars, calls>>

(* "Connect in workspace": the closure holds both workspaces. *)
OpenInWorkspace(h, w, p) ==
    /\ May("elsewhere")
    /\ w \in wsOrder \cap DOMAIN snaps /\ p \in desk.panes
    /\ Begin([op |-> "elsewhere", kind |-> h, p |-> p, view |-> View,
              target |-> w, there |-> snaps[w], commander |-> w \in nss])
    /\ UNCHANGED <<tabVars, desk, wsVars, nextPane, refVars, dirty>>

OpenedInActive(k) ==
    /\ calls[k].op = "elsewhere" /\ calls[k].target = calls[k].view.ws
    /\ Opens(calls[k].kind)
    /\ PlaceInNewOrFreePane(k, calls[k].view, calls[k].p, NewId)
    /\ Touch({"tabs", "slots", "panes"})
    /\ UNCHANGED <<wsVars, refVars>>

(* The snapshot of the workspace that was active loses its kind. *)
OpenedElsewhere(k) ==
    LET c == calls[k]
    IN  /\ c.op = "elsewhere" /\ c.target # c.view.ws
        /\ Opens(c.kind)
        /\ \E l \in AppendSession(c.there, NewId) :
              /\ l.panes \subseteq Panes
              /\ snaps' = [x \in DOMAIN snaps \cup {c.target, c.view.ws} |->
                              IF x = c.target THEN l
                              ELSE IF x = c.view.ws THEN c.view.desk ELSE snaps[x]]
              /\ Show(c.target, l)
        /\ nss' = (nss \ {c.target, c.view.ws}) \cup (IF c.commander THEN {c.target} ELSE {})
        /\ End(k)
        /\ Touch(Everything)
        /\ UNCHANGED <<wsOrder, nextPane, refVars>>

-----------------------------------------------------------------------------
(* Presets and layout profiles                                             *)

(* n panes without sessions; the sessions that lose their slots are closed *)
(* by the effects.                                                         *)
ApplyPreset(w, n) ==
    /\ May("preset")
    /\ w \in wsOrder
    /\ IF w = ws
       THEN /\ desk' = Blank(n) /\ nextPane' = n + 1
            /\ Touch({"slots", "panes"})
            /\ UNCHANGED snaps
       ELSE /\ w \in DOMAIN snaps
            /\ snaps' = Save(w, Blank(n))
            /\ Touch({"snaps"})
            /\ UNCHANGED <<desk, nextPane>>
    /\ UNCHANGED <<tabVars, nss, ws, wsOrder, refVars, calls>>

(* "Switch to that workspace after apply" shows the snapshot that the      *)
(* closure of the handler holds, the one before the preset.                *)
ApplyPresetAndSwitch(w, n) ==
    /\ May("preset_switch")
    /\ w \in wsOrder \cap DOMAIN snaps /\ w # ws
    /\ snaps' = [Save(ws, desk) EXCEPT ![w] = Blank(n)]
    /\ Show(w, snaps[w])
    /\ Touch({"slots", "panes", "snaps"})
    /\ UNCHANGED <<tabVars, nss, wsOrder, nextPane, refVars, calls>>

ProfileLoaded(got) ==
    /\ desk' = Filled(got)
    /\ pending' = {got[p] : p \in DOMAIN got} \ {None}
    /\ nextPane' = LastPane(DOMAIN got) + 1

(* A saved host takes a session that it has, one that no other pane took.  *)
Reusable(f) ==
    {got \in [DOMAIN f -> sessions \cup {None}] : \A p \in DOMAIN f :
        LET free == SessionsOf(f[p]) \ {got[q] : q \in DOMAIN f \ {p}}
        IN  IF f[p] \in Hosts /\ (got[p] # None \/ free # {})
            THEN got[p] \in free ELSE got[p] = None}

LoadProfile(f) ==
    /\ May("profile")
    /\ \E got \in Reusable(f) :
          LET todo == {p \in DOMAIN f : f[p] # None /\ got[p] = None}
          IN  IF todo = {}
              THEN /\ ProfileLoaded(got)
                   /\ Touch({"slots", "panes"})
                   /\ UNCHANGED calls
              ELSE /\ Begin([op |-> "profile", want |-> f, got |-> got, todo |-> todo])
                   /\ UNCHANGED <<desk, pending, nextPane, dirty>>
    /\ UNCHANGED <<tabVars, wsVars, seen, closing, boot, broken>>

(* One session after the other; the panes are set when the last has        *)
(* started, and a start that fails leaves its pane empty.                  *)
ProfileStep(k) ==
    LET c == calls[k]
    IN  /\ c.op = "profile"
        /\ \E p \in c.todo :
              \E ok \in BOOLEAN :
                  /\ IF ok THEN Opens(c.want[p]) ELSE UNCHANGED tabVars
                  /\ LET got == IF ok THEN [c.got EXCEPT ![p] = NewId] ELSE c.got
                     IN  IF c.todo = {p}
                         THEN ProfileLoaded(got) /\ End(k) /\ Touch({"tabs", "slots", "panes"})
                         ELSE /\ calls' = [calls EXCEPT ![k] =
                                     [op |-> "profile", want |-> c.want, got |-> got, todo |-> c.todo \ {p}]]
                              /\ Touch(IF ok THEN {"tabs"} ELSE {})
                              /\ UNCHANGED <<desk, pending, nextPane>>
        /\ UNCHANGED <<wsVars, seen, closing, boot, broken>>

-----------------------------------------------------------------------------
(* Effects                                                                 *)

(* Slots of sessions without a tab are cleaned when the tabs change, but   *)
(* not while a profile waits for the tabs of its sessions.                 *)
Cleans == "tabs" \in dirty /\ pending \subseteq sessions

(* Faulty: the reaper does not look at the workspaces in the background. *)
AssignedOnDesk == Shown(desk)

Assigned == Shown(desk) \cup UNION {Shown(snaps[w]) : w \in DOMAIN snaps}

Orphans == sessions \ Assigned

(* Faulty: the result counts as new even when nothing moved. *)
CompactsAlways == Compacts /\ dirty \cap {"slots", "panes"} # {}

CompactsNow ==
    /\ Compacts
    /\ dirty \cap {"slots", "panes"} # {}
    /\ CompactSplitSlots(desk) # desk

(* Faulty: the orphan effect does not depend on the snapshots. *)
ReapWithoutSnapshots ==
    IF dirty \cap {"tabs", "slots"} # {}
    THEN /\ seen' = (seen \cap Orphans) \cup (Orphans \ closing)
         /\ closing' = closing \cup (seen \cap Orphans)
    ELSE UNCHANGED <<seen, closing>>

(* A session without a slot in two passes is closed. *)
Reap ==
    IF dirty \cap {"tabs", "slots", "snaps"} # {}
    THEN /\ seen' = (seen \cap Orphans) \cup (Orphans \ closing)
         /\ closing' = closing \cup (seen \cap Orphans)
    ELSE UNCHANGED <<seen, closing>>

(* Faulty: the number is raised when tabs change, not slots. *)
NumberAfterTabs ==
    IF "tabs" \in dirty /\ nextPane <= Len(desk.slots) THEN Len(desk.slots) + 1 ELSE nextPane

(* The next pane number is beyond the slot array. *)
NumberAfterSlots ==
    IF "slots" \in dirty /\ nextPane <= Len(desk.slots) THEN Len(desk.slots) + 1 ELSE nextPane

SyncsSnapshot ==
    /\ dirty \cap {"slots", "panes"} # {}
    /\ ws \in DOMAIN snaps
    /\ snaps[ws] # desk

RunEffects ==
    /\ ~Settled
    /\ desk' = IF CompactsNow THEN CompactSplitSlots(desk)
               ELSE IF Cleans THEN KeepSessionsOf(desk, sessions) ELSE desk
    /\ pending' = IF Cleans THEN {} ELSE pending
    /\ Reap
    /\ nextPane' = NumberAfterSlots
    /\ snaps' = IF SyncsSnapshot THEN Save(ws, desk) ELSE snaps
    /\ dirty' = (IF CompactsNow \/ Cleans THEN {"slots"} ELSE {})
                \cup (IF SyncsSnapshot THEN {"snaps"} ELSE {})
    /\ UNCHANGED <<tabVars, nss, ws, wsOrder, calls, boot, broken>>

(* The answer to a close of the reaper: an error is shown and the session  *)
(* is removed all the same.                                                *)
Reaped(s) ==
    /\ s \in closing
    /\ running' = running \ {s}
    /\ RemoveEverywhere(s)
    /\ desk' = RemoveSessionFromSlots(desk, s)
    /\ seen' = seen \ {s} /\ closing' = closing \ {s}
    /\ Touch({"tabs", "slots", "snaps"})
    /\ UNCHANGED <<kinds, nss, ws, wsOrder, nextPane, pending, calls, boot, broken>>

(* The window is closed and the program started again: tabs and children   *)
(* are gone, the workspaces come back from localStorage with the ids of    *)
(* the last run, and the first pass cleans the desk.                       *)
Restart ==
    /\ "restart" \in Ops /\ Settled
    /\ sessions' = {} /\ running' = {}
    /\ boot' = Len(kinds)
    /\ LET kept == wsOrder \cap DOMAIN snaps
       IN  /\ wsOrder' = kept /\ nss' = nss \cap kept
           /\ snaps' = [w \in kept |-> snaps[w]]
           /\ \E w \in IF ws \in kept THEN {ws} ELSE kept : Show(w, Emptied(snaps[w]))
    /\ nextPane' = 2
    /\ seen' = {} /\ closing' = {} /\ pending' = {}
    /\ calls' = [k \in DOMAIN calls |-> Idle]
    /\ dirty' = {"slots", "panes", "snaps"}
    /\ UNCHANGED <<kinds, broken>>

-----------------------------------------------------------------------------

Init ==
    /\ sessions = {} /\ kinds = <<>> /\ running = {}
    /\ desk = Blank(1)
    /\ snaps = [w \in {Main} |-> Blank(1)]
    /\ nss = {} /\ ws = Main /\ wsOrder = {Main}
    /\ nextPane = 2
    /\ seen = {} /\ closing = {} /\ pending = {}
    /\ calls = [k \in 1..MaxCalls |-> Idle]
    /\ dirty = {}
    /\ boot = 0
    /\ broken = {}

Opening ==
    \/ \E kind \in Kinds \ {"web"}, p \in Panes :
          OpenSession(kind, p) \/ OpenSessionHere(kind, p)
    \/ \E p \in Panes : OpenWeb(p) \/ SplitEmpty(p) \/ SplitDuplicate(p)

Dragging ==
    \/ \E s \in Ids, src, p \in Panes : DragToPane(s, src, p) \/ DragToEdge(s, src, p)
    \/ \E s \in Ids, p \in Panes : DragToOwnEdge(s, p)
    \/ \E h \in Hosts, p \in Panes, zone \in {"center", "edge"} :
          DropHostOver(h, p, zone) \/ DropHostBeside(h, p, zone)

Closing ==
    \/ \E p \in Panes : CloseInPane(p) \/ ClosePane(p)
    \/ \E reset \in BOOLEAN : CloseAll(reset)

Arranging ==
    \/ \E w \in Workspaces :
          \/ SwitchWorkspace(w) \/ CreateWorkspace(w) \/ RemoveWorkspace(w)
          \/ CreateCommander(w)
          \/ \E s \in Ids : SendSession(s, w)
          \/ \E h \in Hosts, p \in Panes : OpenInWorkspace(h, w, p)
          \/ \E n \in Panes : ApplyPreset(w, n) \/ ApplyPresetAndSwitch(w, n)
    \/ \E f \in Profiles : LoadProfile(f)

Answers(k) ==
    \/ OpenedNew(k) \/ OpenedHere(k) \/ OpenedInZone(k) \/ OpenedOver(k)
    \/ OpenedDuplicate(k) \/ DuplicateFails(k)
    \/ OpenedInActive(k) \/ OpenedElsewhere(k)
    \/ LeftStarted(k) \/ RightStarted(k) \/ ProfileStep(k)
    \/ Closed(k) \/ CloseFails(k) \/ AllClosed(k)
    \/ \E op \in {"new", "here", "zone", "replace", "elsewhere", "left", "right"} :
          StartFails(k, op)

Next ==
    \/ Opening \/ Dragging \/ Closing \/ Arranging
    \/ \E k \in DOMAIN calls : Answers(k)
    \/ RunEffects
    \/ \E s \in Ids : Reaped(s)
    \/ Restart

Spec == Init /\ [][Next]_vars

(* React runs the effects of a render. *)
LiveSpec == Spec /\ WF_vars(RunEffects) /\ WF_vars(\E s \in Ids : Reaped(s))

-----------------------------------------------------------------------------
(* Properties                                                              *)

LayoutOf(w) == IF w = ws THEN desk ELSE snaps[w]

Shelf == {LayoutOf(w) : w \in DOMAIN snaps \cup {ws}}

(* The handlers that await, with the layouts of L in their closures. *)
Calls(L) ==
    LET views == [desk : L, ws : Workspaces, nss : BOOLEAN]
        slots == Ids \cup {None}
    IN  {Idle}
        \cup [op : {"new", "zone"}, kind : Kinds, p : PaneNr, view : views]
        \cup [op : {"here", "duplicate"}, kind : Kinds, p : PaneNr]
        \cup [op : {"replace"}, kind : Kinds, p : PaneNr, old : slots]
        \cup [op : {"close"}, s : Ids, leaf : PaneNr \cup {None}]
        \cup [op : {"all"}, ids : SUBSET Ids, reset : BOOLEAN]
        \cup [op : {"left"}, target : Workspaces, view : views]
        \cup [op : {"right"}, left : Ids, target : Workspaces, view : views]
        \cup [op : {"elsewhere"}, kind : Kinds, p : PaneNr, view : views,
              target : Workspaces, there : L, commander : BOOLEAN]
        \cup UNION {[op : {"profile"}, want : {f}, got : [DOMAIN f -> slots],
                     todo : SUBSET {p \in DOMAIN f : f[p] # None}] : f \in Profiles}

TypeOK ==
    /\ sessions \subseteq Ids /\ running \subseteq Ids
    /\ kinds \in Seq(Kinds) /\ Len(kinds) <= MaxSessions
    /\ desk \in Layouts(Ids)
    /\ DOMAIN snaps \subseteq Workspaces /\ \A w \in DOMAIN snaps : snaps[w] \in Layouts(Ids)
    /\ nss \subseteq Workspaces /\ ws \in Workspaces /\ wsOrder \subseteq Workspaces
    /\ nextPane \in PaneNr
    /\ seen \subseteq Ids /\ closing \subseteq Ids /\ pending \subseteq Ids
    /\ calls \in [1..MaxCalls -> Calls(Layouts(Ids))]
    /\ dirty \subseteq Everything
    /\ boot \in 0..MaxSessions
    /\ broken \subseteq Ids

(* Every pane of a split tree has its entry in the slot array, on screen   *)
(* and in the snapshots: findFirstFreePaneInOrder takes a pane whose entry *)
(* is undefined for one in use.                                            *)
PanesBacked == Backed(desk) /\ \A w \in DOMAIN snaps : Backed(snaps[w])

(* Once everything has ended, a session is in one slot of one workspace:   *)
(* two slots would mount two terminals on one session.                     *)
SingleOwner == Quiet =>
    \A s \in sessions :
        /\ \A l, m \in Shelf : s \in Shown(l) \cap Shown(m) => l = m
        /\ \A l \in Shelf : \A p, q \in DOMAIN l.slots :
              l.slots[p] = s /\ l.slots[q] = s => p = q

(* ... in a slot that is a pane of its tree, where the user can see it.    *)
InSight == Quiet =>
    \A l \in Shelf : \A p \in DOMAIN l.slots : l.slots[p] \in sessions => p \in l.panes

(* Both: every session has one place, and it is on the screen when its     *)
(* workspace is.                                                           *)
InOnePlace == SingleOwner /\ InSight

(* The number a split will give to its pane is in no slot array's range on *)
(* the desk, wherever the desk came from (a switch, a preset, a profile, a *)
(* restart that sets the counter back): no two panes get one slot.         *)
FreshNumbers == Settled => nextPane \notin desk.panes \cup DOMAIN desk.slots

(* The orphan effect has missed no session that has lost its last slot,    *)
(* also to a removed workspace: the next change of tabs, slots or          *)
(* snapshots closes it, if its close is not under way.                     *)
OrphansAreSeen == Quiet => Orphans \subseteq seen \cup closing

(* What is in a slot has a tab, unless it is left from a run of the        *)
(* program before this one.                                                *)
NoGhost == Quiet =>
    \A l \in Shelf : \A s \in Shown(l) : s > boot => s \in sessions

(* The backend knows exactly the sessions that have a tab, but for those   *)
(* whose close failed half-way: their tabs stay and it has lost their ids. *)
TabsMatchBackend == Quiet => running = {s \in sessions : kinds[s] # "web"} \ broken

(* The effects never close a session behind the user's back.               *)
NoneReaped == closing = {}

(* A session that was opened is in a pane of some workspace.               *)
TabsHaveSlots == Quiet => Orphans = {}

(* Tabs, backend and slots are about the same sessions: the backend knows  *)
(* none without a tab and has lost only those whose close failed half-way, *)
(* no tab is without a slot and no slot shows what is gone.                *)
SessionsAgree == NoGhost /\ TabsMatchBackend /\ TabsHaveSlots

(* "Load layouts with hosts": the sessions that a profile has put into its *)
(* panes are still running when it shows them.                             *)
LoadKeepsSessions ==
    [][\A k \in DOMAIN calls :
          calls[k].op = "profile" /\ calls'[k] = Idle => pending' \subseteq running']_vars

(* "Switch to that workspace after apply": the preset is what is shown.    *)
SwitchShowsPreset ==
    [][\A w \in Workspaces, n \in Panes :
          ApplyPresetAndSwitch(w, n) => Cardinality(desk'.panes) = n]_vars

(* The workspaces of the tab bar are those with a snapshot.                *)
TabsMatchSnapshots == Quiet => DOMAIN snaps = wsOrder /\ ws \in wsOrder

(* The workspaces and what their snapshots hold are those of the tab bar.  *)
SnapshotsAgree == NoGhost /\ TabsMatchSnapshots

(* The effects come to rest: no pass triggers the next for ever.           *)
EffectsSettle == []<>Settled
=============================================================================
