----------------------------- MODULE CommanderOps -----------------------------
(***************************************************************************)
(* The keys and buttons of an NSS-Commander: which files they name, in     *)
(* which pane (App.tsx, nss-commander-file-ops-bar.ts, its keyboard hook,  *)
(* the two bars, and the ends of it in LocalFilePane and RemoteFilePane).  *)
(*                                                                         *)
(* A file browser keeps its selection to itself and tells it to App.tsx,   *)
(* which decides on its copy.  Copies and moves begin there with names     *)
(* (NssTransfer goes on from here); any other order goes back to a browser *)
(* as a request that is never taken away.  React keeps a browser while its *)
(* pane goes on to show a browser of the same kind.                        *)
(***************************************************************************)
EXTENDS Integers, FiniteSets

CONSTANTS
    PaneNumber,   \* panes the commander may get, in the order of its tree
    Host,         \* SSH hosts whose files a pane may show
    RowName,      \* names of files and folders, the same everywhere
    WithConsoles, \* web consoles are opened in its panes
    GivenOps,     \* the operations given to a pane
    MaxOrders     \* bound on requests

VARIABLES
    onTop,        \* a workspace of kind "nss-commander" is on the screen
    within,       \* within[i]: Absent, Empty, or what the session in pane i is
    viewIn,       \* sessionFileViews of that session
    filesOn,     \* fileWorkspacePluginEnabled
    activePane,   \* activePaneIndex
    browser,      \* browser[i]: the file browser mounted in pane i
    picked,       \* nssPaneSelection
    opRequest,    \* nssPaneOpRequest with the number of nssPaneOpRequestIdRef
    lastOrder     \* the order that the last step gave, if it gave one

Absent == "absent"
Empty == "empty"
Shell == "shell"
Console == "console"
Own == "own"              \* the files of the own machine
NoFiles == "no files"
NoPane == -1

PaneOp == {"delete", "rename", "mkdir", "archive", "newTextFile", "editTextFile", "viewFile"}

ASSUME CommanderAssumption ==
    /\ PaneNumber \subseteq Nat /\ MaxOrders \in Nat
    /\ WithConsoles \in BOOLEAN /\ GivenOps \subseteq PaneOp
    /\ Host \cap {Absent, Empty, Shell, Console, Own, NoFiles} = {}

whereVars == <<onTop, within, viewIn, filesOn>>
commanderVars == <<whereVars, activePane, browser, picked, opRequest, lastOrder>>

Session == {Shell, Console} \cup Host
Views == {"terminal", "local", "remote"}
NoOpRequest == [id |-> 0, pane |-> NoPane, op |-> "none", names |-> {}]
NoPress == [op |-> "none", from |-> NoPane, to |-> NoPane, names |-> {}]

-----------------------------------------------------------------------------
(* Panes and their browsers                                                *)

FileViewOf(i) ==
    IF filesOn /\ within[i] \in Session THEN viewIn[i] ELSE "terminal"

FilePanes == {i \in PaneNumber : FileViewOf(i) # "terminal"}

(* commanderPaneIndices: the first two. *)
CommanderPanes ==
    IF onTop THEN {i \in FilePanes : Cardinality({j \in FilePanes : j < i}) < 2} ELSE {}

TwoPanes == \E i, j \in PaneNumber : i < j /\ CommanderPanes = {i, j}
LeftPane == CHOOSE i \in CommanderPanes : \A j \in CommanderPanes : i <= j
RightPane == CHOOSE i \in CommanderPanes : \A j \in CommanderPanes : j <= i
Across(i) == IF i = LeftPane THEN RightPane ELSE LeftPane

(* What a browser in the pane would show. *)
Browses(i) ==
    CASE onTop /\ within[i] # Console /\ FileViewOf(i) = "local" -> Own
      [] onTop /\ within[i] \in Host /\ FileViewOf(i) = "remote" -> within[i]
      [] OTHER -> NoFiles

(* `chosen` is selectedNames, `served` the number of the last request, and *)
(* `asks` that a dialog or the editor is open.                             *)
NoBrowser == [of |-> NoFiles, chosen |-> {}, served |-> 0, asks |-> FALSE]
Mounts(files) == [NoBrowser EXCEPT !.of = files]

SameKind(f, g) == f # NoFiles /\ g # NoFiles /\ (f = Own) = (g = Own)

(* Another host takes the selection from a browser that stays. *)
Rendered(b, files) ==
    IF ~SameKind(b.of, files) THEN Mounts(files)
    ELSE IF b.of = files THEN b ELSE [b EXCEPT !.of = files, !.chosen = {}]

(* The effect of a browser that finds a request for its pane.  A browser   *)
(* just mounted has no rows yet: it finds no entry to edit or delete, but  *)
(* asks about several.                                                     *)
CanAsk(req, before) ==
    CASE req.op \in {"mkdir", "newTextFile", "rename"} -> {TRUE}
      [] req.op = "delete" /\ Cardinality(req.names) > 1 -> {TRUE}
      [] req.op \in {"delete", "editTextFile"} /\ before # NoFiles -> BOOLEAN
      [] OTHER -> {FALSE}

Serves(i, b, req, asks) ==
    IF b.of = NoFiles \/ req.pane # i \/ req.id = b.served THEN b
    ELSE [b EXCEPT !.served = req.id, !.asks = @ \/ asks,
                   !.chosen = IF req.op = "rename" THEN req.names ELSE @]

(* Faulty: a browser tells its selection only when it has one. *)
TellsPicks(b) == [i \in PaneNumber |-> IF b[i].chosen # {} THEN b[i].chosen ELSE picked[i]]

(* onSelectionChange of the browsers that are there. *)
Tells(b) == [i \in PaneNumber |-> IF b[i].of # NoFiles THEN b[i].chosen ELSE picked[i]]

(* A render with its effects: panes get their browsers, these serve what   *)
(* is asked of them and tell their selection.                              *)
Render(b) ==
    /\ \E asks \in BOOLEAN :
          /\ \A i \in PaneNumber :
                i = opRequest'.pane => asks \in CanAsk(opRequest', b[i].of)
          /\ browser' = [i \in PaneNumber |->
                            Serves(i, Rendered(b[i], Browses(i)'), opRequest', asks)]
    /\ picked' = Tells(browser')

(* A dialog lies over the whole window. *)
DialogOpen == \E i \in PaneNumber : browser[i].asks

-----------------------------------------------------------------------------
(* In a browser                                                            *)

Chooses(i, names, active) ==
    /\ browser[i].of # NoFiles /\ ~DialogOpen
    /\ activePane' = active
    /\ lastOrder' = NoPress
    /\ UNCHANGED <<whereVars, opRequest>>
    /\ Render([browser EXCEPT ![i].chosen = names])

(* handleRowClick: alone, with Ctrl, with Shift.  A click on the link of a *)
(* folder does not reach the pane around it.                               *)
ClickRow(i, n) ==
    \E active \in {i, activePane} :
        \/ Chooses(i, {n}, active)
        \/ Chooses(i, (browser[i].chosen \cup {n}) \ (browser[i].chosen \cap {n}), active)
        \/ \E S \in SUBSET (RowName \ (browser[i].chosen \cup {n})) :
              Chooses(i, browser[i].chosen \cup S \cup {n}, active)

(* Another folder, or files that are hidden from now on. *)
EnterFolder(i) == \E active \in {i, activePane} : Chooses(i, {}, active)
HideDotFiles(i) == \E S \in SUBSET browser[i].chosen : Chooses(i, S, i)

(* The pane's own menu. *)
OpenDialog(i) ==
    /\ browser[i].of # NoFiles /\ ~DialogOpen
    /\ browser' = [browser EXCEPT ![i].asks = TRUE]
    /\ lastOrder' = NoPress
    /\ UNCHANGED <<whereVars, activePane, picked, opRequest>>

(* Cancelled, or done: deleted names leave the selection, or all do, and a *)
(* renamed one has a new name.                                             *)
AnswerDialog(i) ==
    /\ browser[i].asks
    /\ lastOrder' = NoPress
    /\ UNCHANGED <<whereVars, activePane, opRequest>>
    /\ \E S \in SUBSET RowName :
          /\ Cardinality(S) <= Cardinality(browser[i].chosen)
          /\ Render([browser EXCEPT ![i].asks = FALSE, ![i].chosen = S])

FocusPane(i) ==
    /\ within[i] # Absent /\ onTop /\ ~DialogOpen
    /\ activePane' = i
    /\ lastOrder' = NoPress
    /\ UNCHANGED <<whereVars, browser, picked, opRequest>>

(* Views are looked at without the plugin. *)
HasFiles(i) == within[i] \in Session /\ viewIn[i] # "terminal"

OtherFilePane(i) == {j \in PaneNumber \ {i} : HasFiles(j)}
FirstOther(i) == CHOOSE j \in OtherFilePane(i) : \A k \in OtherFilePane(i) : j <= k

(* Tab in a browser, and in a dialog of it as well. *)
TabSwitch(i) ==
    /\ browser[i].of # NoFiles /\ OtherFilePane(i) # {}
    /\ DialogOpen => browser[i].asks
    /\ activePane' = FirstOther(i)
    /\ lastOrder' = NoPress
    /\ UNCHANGED <<whereVars, browser, picked, opRequest>>

-----------------------------------------------------------------------------
(* Orders                                                                  *)

(* canCopyOrMoveInDirection *)
CanTransfer(i, j) ==
    /\ picked[i] # {}
    /\ FileViewOf(i) # "terminal" /\ FileViewOf(j) # "terminal"
    /\ "local" \in {FileViewOf(i), FileViewOf(j)}

(* The pane with a selection; of two the focused one. *)
BaseSource ==
    LET having == {i \in CommanderPanes : picked[i] # {}}
    IN  CASE having = {} -> NoPane
          [] having = CommanderPanes ->
                IF activePane = RightPane THEN RightPane ELSE LeftPane
          [] OTHER -> CHOOSE i \in having : TRUE

Orders(op, i, j, names) ==
    /\ lastOrder' = [op |-> op, from |-> i, to |-> j, names |-> names]
    /\ UNCHANGED <<whereVars, activePane, browser, picked, opRequest>>

(* F5 and F6 and their buttons; with Shift the other way round. *)
PressTransfer(op, shift) ==
    /\ TwoPanes /\ ~DialogOpen /\ BaseSource # NoPane
    /\ LET i == IF shift THEN Across(BaseSource) ELSE BaseSource
       IN  /\ CanTransfer(i, Across(i))
           /\ Orders(op, i, Across(i), picked[i])

(* The buttons between the panes name the direction. *)
ClickGutter(op, i) ==
    /\ TwoPanes /\ ~DialogOpen /\ i \in CommanderPanes
    /\ CanTransfer(i, Across(i))
    /\ Orders(op, i, Across(i), picked[i])

(* The browser's own F5, which gets the key when the bar leaves it alone:  *)
(* with a dialog open, without two file panes, or when the direction is    *)
(* refused.  Between two hosts the transfer is refused as well.            *)
BarLeavesF5 ==
    \/ DialogOpen \/ ~TwoPanes
    \/ BaseSource # NoPane /\ \E i \in CommanderPanes : ~CanTransfer(i, Across(i))

OwnF5(i) ==
    /\ browser[i].chosen # {} /\ BarLeavesF5
    /\ DialogOpen => browser[i].asks
    /\ OtherFilePane(i) # {}
    /\ "local" \in {viewIn[i], viewIn[FirstOther(i)]}
    /\ Orders("copy", i, FirstOther(i), browser[i].chosen)

(* fireNssFilePaneOp and what enables its keys and buttons. *)
Enabled(op, S) ==
    CASE op \in {"mkdir", "newTextFile"} -> TRUE
      [] op \in {"delete", "archive"} -> S # {}
      [] OTHER -> Cardinality(S) = 1

PressPaneOp(op) ==
    /\ TwoPanes /\ ~DialogOpen /\ activePane \in CommanderPanes
    /\ Enabled(op, picked[activePane])
    /\ opRequest.id < MaxOrders
    /\ LET names == IF op \in {"mkdir", "newTextFile"} THEN {} ELSE picked[activePane]
       IN  /\ opRequest' = [id |-> opRequest.id + 1, pane |-> activePane,
                            op |-> op, names |-> names]
           /\ lastOrder' = [op |-> op, from |-> activePane, to |-> NoPane, names |-> names]
    /\ UNCHANGED <<whereVars, activePane>>
    /\ Render(browser)

-----------------------------------------------------------------------------
(* The commander around the browsers (Workspace and PaneViews have more)   *)

Rearranged ==
    /\ lastOrder' = NoPress
    /\ UNCHANGED opRequest
    /\ Render(browser)

Holds(i, what, view) ==
    /\ within' = [within EXCEPT ![i] = what]
    /\ viewIn' = [viewIn EXCEPT ![i] = view]

(* A session that has started or was brought; with no free pane it gets a  *)
(* new one.  Only an SSH session of a host comes with a view.              *)
PlaceSession(i, what) ==
    /\ onTop
    /\ what = Console => WithConsoles
    /\ \E view \in (IF what \in Host /\ filesOn THEN Views ELSE {"terminal"}) :
          Holds(i, what, view)
    /\ activePane' = i
    /\ UNCHANGED <<onTop, filesOn>>
    /\ Rearranged

(* Closed, or sent to another workspace; its pane is empty then, or is     *)
(* removed and the focus goes elsewhere.                                   *)
SessionLeaves(i) ==
    /\ onTop /\ within[i] \in Session
    /\ \/ Holds(i, Empty, "terminal") /\ UNCHANGED activePane
       \/ Holds(i, Absent, "terminal") /\ activePane' \in PaneNumber
    /\ UNCHANGED <<onTop, filesOn>>
    /\ Rearranged

(* handlePaneDrop, in an NSS-Commander on the whole pane: the session there *)
(* goes to the other pane, which is removed if there is none.              *)
DragSession(i, j) ==
    /\ onTop /\ ~DialogOpen /\ i # j /\ within[i] \in Session /\ within[j] # Absent
    /\ LET stays == within[j] \in Session
       IN  /\ within' = [within EXCEPT ![j] = within[i],
                                       ![i] = IF stays THEN within[j] ELSE Absent]
           /\ viewIn' = [viewIn EXCEPT ![j] = viewIn[i], ![i] = viewIn[j]]
    /\ activePane' = j
    /\ UNCHANGED <<onTop, filesOn>>
    /\ Rearranged

LeaveCommander ==
    /\ onTop /\ ~DialogOpen
    /\ onTop' = FALSE
    /\ viewIn' = [i \in PaneNumber |-> "terminal"]
    /\ UNCHANGED <<within, filesOn, activePane>>
    /\ Rearranged

(* applyWorkspaceSnapshot: local files in every pane. *)
EnterCommander ==
    /\ ~onTop
    /\ onTop' = TRUE
    /\ viewIn' = [i \in PaneNumber |-> IF within[i] \in Session THEN "local" ELSE "terminal"]
    /\ UNCHANGED <<within, filesOn, activePane>>
    /\ Rearranged

SwitchPlugin ==
    /\ ~DialogOpen
    /\ filesOn' = ~filesOn
    /\ viewIn' = [i \in PaneNumber |-> "terminal"]
    /\ UNCHANGED <<onTop, within, activePane>>
    /\ Rearranged

ForgetSpec(h) ==
    /\ ~DialogOpen
    /\ viewIn' = [i \in PaneNumber |->
                     IF within[i] = h /\ viewIn[i] = "remote" THEN "terminal" ELSE viewIn[i]]
    /\ UNCHANGED <<onTop, within, filesOn, activePane>>
    /\ Rearranged

-----------------------------------------------------------------------------

(* Two local sessions that show files. *)
CommanderInit ==
    /\ onTop = TRUE /\ filesOn = TRUE
    /\ within \in [PaneNumber -> {Shell, Absent}]
    /\ Cardinality({i \in PaneNumber : within[i] = Shell}) = 2
    /\ viewIn = [i \in PaneNumber |-> IF within[i] = Shell THEN "local" ELSE "terminal"]
    /\ activePane \in {i \in PaneNumber : within[i] = Shell}
    /\ browser = [i \in PaneNumber |-> IF within[i] = Shell THEN Mounts(Own) ELSE NoBrowser]
    /\ picked = [i \in PaneNumber |-> {}]
    /\ opRequest = NoOpRequest /\ lastOrder = NoPress

CommanderNext ==
    \/ \E i \in PaneNumber :
          \/ \E n \in RowName : ClickRow(i, n)
          \/ EnterFolder(i) \/ HideDotFiles(i) \/ OpenDialog(i) \/ AnswerDialog(i)
          \/ FocusPane(i) \/ TabSwitch(i) \/ OwnF5(i) \/ SessionLeaves(i)
          \/ \E op \in {"copy", "move"} : ClickGutter(op, i)
          \/ \E what \in Session : PlaceSession(i, what)
          \/ \E j \in PaneNumber : DragSession(i, j)
    \/ \E op \in {"copy", "move"}, shift \in BOOLEAN : PressTransfer(op, shift)
    \/ \E op \in GivenOps : PressPaneOp(op)
    \/ \E h \in Host : ForgetSpec(h)
    \/ LeaveCommander \/ EnterCommander \/ SwitchPlugin

CommanderSpec == CommanderInit /\ [][CommanderNext]_commanderVars

-----------------------------------------------------------------------------
(* Properties                                                              *)

CommanderTypeOK ==
    /\ onTop \in BOOLEAN /\ filesOn \in BOOLEAN
    /\ within \in [PaneNumber -> Session \cup {Absent, Empty}]
    /\ viewIn \in [PaneNumber -> Views]
    /\ activePane \in PaneNumber
    /\ browser \in [PaneNumber -> [of : Host \cup {Own, NoFiles}, chosen : SUBSET RowName,
                                   served : 0 .. MaxOrders, asks : BOOLEAN]]
    /\ picked \in [PaneNumber -> SUBSET RowName]
    /\ opRequest \in [id : 0 .. MaxOrders, pane : PaneNumber \cup {NoPane},
                      op : PaneOp \cup {"none"}, names : SUBSET RowName]
    /\ lastOrder \in [op : PaneOp \cup {"copy", "move", "none"}, from : PaneNumber \cup {NoPane},
                  to : PaneNumber \cup {NoPane}, names : SUBSET RowName]

(* An order names files that are selected on the screen, in the browser it *)
(* is given for: the focused one, or the one a transfer leaves, and that   *)
(* goes to another browser, with the own machine at one end.  It holds     *)
(* although orders are decided on a copy of the selections that outlives   *)
(* the browsers, and a request has reached its browser when it is given.   *)
OrdersNameTheShown ==
    lastOrder.op # "none" =>
        /\ browser[lastOrder.from].of # NoFiles
        /\ lastOrder.names \subseteq browser[lastOrder.from].chosen
        /\ IF lastOrder.op \in PaneOp
           THEN /\ lastOrder.from = activePane
                /\ browser[lastOrder.from].served = opRequest.id
           ELSE /\ lastOrder.names # {} /\ lastOrder.to # lastOrder.from
                /\ browser[lastOrder.to].of # NoFiles
                /\ Own \in {browser[lastOrder.from].of, browser[lastOrder.to].of}

=============================================================================
