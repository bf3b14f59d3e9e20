----------------------------- MODULE PaneLayout -----------------------------
(***************************************************************************)
(* The pane layouts of the workspace and the helpers that change them      *)
(* (features/split.ts, features/split-tree.ts,                             *)
(* features/workspace-snapshot.ts).                                        *)
(*                                                                         *)
(* A layout is a slot array and a split tree.  Panes are numbered from 1:  *)
(* pane p is paneIndex p - 1 of the code, and slots[p] is splitSlots[p-1]. *)
(* Nothing here depends on axes, ratios or the order of the leaves, so the *)
(* tree is the set of the panes at its leaves, and "the first leaf such    *)
(* that" becomes "some leaf such that".                                    *)
(***************************************************************************)
EXTENDS Integers, Sequences

CONSTANT None   \* null: the slot holds no session

PaneNr == Nat \ {0}

Layouts(Ids) == [slots : Seq(Ids \cup {None}), panes : SUBSET PaneNr]

(* Every pane of the tree has an entry in the slot array. *)
Backed(l) == l.panes # {} /\ l.panes \subseteq DOMAIN l.slots

(* Faulty: a missing entry is not read as null. *)
SlotOrZero(l, p) == IF p \in DOMAIN l.slots THEN l.slots[p] ELSE 0

(* slots[p] ?? null *)
SlotOf(l, p) == IF p \in DOMAIN l.slots THEN l.slots[p] ELSE None

Shown(l) == {l.slots[p] : p \in DOMAIN l.slots} \ {None}

LastPane(panes) == CHOOSE p \in panes : \A q \in panes : q <= p

(* n equal panes without sessions. *)
Blank(n) == [slots |-> [p \in 1..n |-> None], panes |-> 1..n]

(* A tree whose leaves are the panes of `got`, each with its session. *)
Filled(got) ==
    [slots |-> [p \in 1..LastPane(DOMAIN got) |-> IF p \in DOMAIN got THEN got[p] ELSE None],
     panes |-> DOMAIN got]

(* Faulty: the array does not grow to the new pane. *)
EnsureNothing(l, p) == l

EnsurePaneIndex(l, p) ==
    [l EXCEPT !.slots = [i \in 1..(IF p > Len(l.slots) THEN p ELSE Len(l.slots)) |-> SlotOf(l, i)]]

AssignSessionToPane(l, p, s) ==
    [l EXCEPT !.slots = [EnsurePaneIndex(l, p).slots EXCEPT ![p] = s]]

ClearPaneAtIndex(l, p) ==
    [l EXCEPT !.slots = [i \in DOMAIN l.slots |-> IF i = p THEN None ELSE l.slots[i]]]

RemoveSessionFromSlots(l, s) ==
    [l EXCEPT !.slots = [i \in DOMAIN l.slots |-> IF l.slots[i] = s THEN None ELSE l.slots[i]]]

KeepSessionsOf(l, ids) ==
    [l EXCEPT !.slots = [i \in DOMAIN l.slots |-> IF l.slots[i] \in ids THEN l.slots[i] ELSE None]]

(* The callers keep the tree when its last leaf would go. *)
RemovePane(l, p) ==
    IF l.panes \subseteq {p} THEN l ELSE [l EXCEPT !.panes = @ \ {p}]

(* Pane q appears beside pane t; a tree without t stays as it is. The      *)
(* panes of a tree are a set: that q is in use neither as a pane nor as a  *)
(* slot, where the code would show one slot twice, is FreshNumbers.        *)
SplitPane(l, t, q) ==
    [EnsurePaneIndex(l, q) EXCEPT !.panes = IF t \in @ THEN @ \cup {q} ELSE @]

(* A pane whose entry is missing (undefined) does not count as free. *)
FreePanes(l) == {p \in l.panes \cap DOMAIN l.slots : l.slots[p] = None}

(* Where a session goes in the snapshot of another workspace. *)
AppendSession(l, s) ==
    IF FreePanes(l) # {}
    THEN {AssignSessionToPane(l, p, s) : p \in FreePanes(l)}
    ELSE LET q == LastPane(l.panes) + 1
         IN  {[AssignSessionToPane(l, q, s) EXCEPT !.panes = @ \cup {q}]}

(* Auto-arrange: the array ends at the last pane, and entries of numbers   *)
(* that are no panes are dropped.                                          *)
CompactSplitSlots(l) ==
    [l EXCEPT !.slots = [p \in 1..LastPane(l.panes) |->
                            IF p \in l.panes THEN SlotOf(l, p) ELSE None]]
=============================================================================
