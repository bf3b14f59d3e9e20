-------------------------- MODULE Workspace_proofs --------------------------
(***************************************************************************)
(* Proofs about Workspace for any number of sessions, panes, workspaces    *)
(* and, where a theorem does not say otherwise, of handlers that overlap.  *)
(*                                                                         *)
(* IInv is the invariant all others rest on: every split tree has entries  *)
(* in its slot array for its panes, also in the closures of waiting        *)
(* handlers, since their answers put those back on screen and into         *)
(* snapshots.  BackInv and HomeInv say of waiting handlers what keeps tabs *)
(* and children, tab bar and snapshots together.                           *)
(*                                                                         *)
(* For a patient user one handler waits at a time (OneCall).  Places says  *)
(* where sessions are while it waits and while effects have copied half of *)
(* a change: each in at most one pane that is shown, but for a duplicate   *)
(* that has not started; what the handler has captured still agrees with   *)
(* the desk.  TidyInv adds that each session has a slot, so that the       *)
(* effects close none, if no gesture takes slots from sessions.            *)
(***************************************************************************)
EXTENDS Workspace, WellFoundedInduction, TLAPS

(* Layouts whose panes all have entries. *)
Good == {l \in Layouts(Ids) : Backed(l)}

SlotValues == Ids \cup {None}

-----------------------------------------------------------------------------
(* Layouts                                                                 *)

(* A set of pane numbers with a bound has a last one. *)
LEMMA LastPaneIsLast ==
    ASSUME NEW n \in Nat, NEW panes \in SUBSET (1..n), panes # {}
    PROVE  LastPane(panes) \in panes /\ \A q \in panes : q <= LastPane(panes)
<1> DEFINE T == {n - p : p \in panes}
           R == OpToRel(<, Nat)
<1>1. T \subseteq Nat /\ T # {}
  <2>1. \A p \in panes : n - p \in Nat
    OBVIOUS
  <2>2. PICK p \in panes : TRUE
    OBVIOUS
  <2> QED
    BY <2>1, <2>2
<1>2. PICK x \in T : \A y \in T : ~(<<y, x>> \in R)
  <2> HIDE DEF T, R
  <2>1. IsWellFoundedOn(R, Nat)
    BY NatLessThanWellFounded DEF R
  <2> QED
    BY <1>1, <2>1, WFMin
<1>3. PICK p \in panes : x = n - p
  OBVIOUS
<1>4. \A q \in panes : q <= p
  <2> SUFFICES ASSUME NEW q \in panes, q > p
               PROVE  FALSE
    OBVIOUS
  <2>1. n - q \in T /\ n - q < x /\ n - q \in Nat /\ x \in Nat
    BY <1>1, <1>3
  <2>2. <<n - q, x>> \in R
    BY <2>1 DEF OpToRel
  <2> QED
    BY <1>2, <2>1, <2>2
<1> QED
  BY <1>3, <1>4 DEF LastPane

(* What a layout of the right kind is made of. *)
LEMMA GoodLayout ==
    ASSUME NEW l \in Good
    PROVE  /\ l = [slots |-> l.slots, panes |-> l.panes]
           /\ Len(l.slots) \in Nat
           /\ l.slots \in [1..Len(l.slots) -> SlotValues]
           /\ l.panes \in SUBSET (1..Len(l.slots))
           /\ l.panes # {}
BY DEF Good, Layouts, Backed, SlotValues

LEMMA MakeGood ==
    ASSUME NEW n \in Nat, NEW slots \in [1..n -> SlotValues],
           NEW panes \in SUBSET (1..n), panes # {}
    PROVE  [slots |-> slots, panes |-> panes] \in Good
<1>1. slots \in Seq(SlotValues)
  OBVIOUS
<1> QED
  BY <1>1 DEF Good, Layouts, Backed, SlotValues, PaneNr

LEMMA ExceptLayout ==
    ASSUME NEW l \in Good, NEW x
    PROVE  /\ [l EXCEPT !.slots = x] = [slots |-> x, panes |-> l.panes]
           /\ [l EXCEPT !.panes = x] = [slots |-> l.slots, panes |-> x]
BY DEF Good, Layouts

LEMMA BlankGood ==
    ASSUME NEW n \in PaneNr
    PROVE  Blank(n) \in Good
<1>1. 1..n # {}
  BY DEF PaneNr
<1> QED
  BY <1>1, MakeGood DEF Blank, PaneNr, SlotValues

LEMMA SlotOfType ==
    ASSUME NEW l \in Good, NEW p
    PROVE  SlotOf(l, p) \in SlotValues
BY GoodLayout DEF SlotOf, SlotValues

LEMMA EnsureGood ==
    ASSUME NEW l \in Good, NEW p \in PaneNr
    PROVE  /\ EnsurePaneIndex(l, p) \in Good
           /\ EnsurePaneIndex(l, p).panes = l.panes
           /\ p \in DOMAIN EnsurePaneIndex(l, p).slots
<1> DEFINE n == IF p > Len(l.slots) THEN p ELSE Len(l.slots)
           wide == [i \in 1..n |-> SlotOf(l, i)]
<1>1. n \in Nat /\ 1..Len(l.slots) \subseteq 1..n /\ p \in 1..n
  BY GoodLayout DEF PaneNr
<1>2. wide \in [1..n -> SlotValues]
  BY SlotOfType
<1>3. EnsurePaneIndex(l, p) = [slots |-> wide, panes |-> l.panes]
  BY ExceptLayout DEF EnsurePaneIndex
<1>4. l.panes \in SUBSET (1..n) /\ l.panes # {}
  BY <1>1, GoodLayout
<1> HIDE DEF n, wide
<1>5. [slots |-> wide, panes |-> l.panes] \in Good
  BY <1>1, <1>2, <1>4, MakeGood
<1>6. DOMAIN wide = 1..n
  BY <1>2
<1> QED
  BY <1>1, <1>3, <1>5, <1>6

LEMMA AssignGood ==
    ASSUME NEW l \in Good, NEW p \in PaneNr, NEW s \in SlotValues
    PROVE  /\ AssignSessionToPane(l, p, s) \in Good
           /\ AssignSessionToPane(l, p, s).panes = l.panes
           /\ p \in DOMAIN AssignSessionToPane(l, p, s).slots
<1> DEFINE wide == EnsurePaneIndex(l, p)
<1>1. wide \in Good /\ wide.panes = l.panes /\ p \in DOMAIN wide.slots
  BY EnsureGood
<1> HIDE DEF wide
<1>2. AssignSessionToPane(l, p, s) = [slots |-> [wide.slots EXCEPT ![p] = s], panes |-> l.panes]
  BY ExceptLayout DEF AssignSessionToPane, wide
<1> DEFINE n == Len(wide.slots)
           slots == [wide.slots EXCEPT ![p] = s]
<1>3. n \in Nat /\ wide.slots \in [1..n -> SlotValues] /\ p \in 1..n
  BY <1>1, GoodLayout
<1>4. slots \in [1..n -> SlotValues] /\ l.panes \in SUBSET (1..n) /\ l.panes # {}
  BY <1>1, <1>3, GoodLayout
<1>5. AssignSessionToPane(l, p, s) = [slots |-> slots, panes |-> l.panes]
  BY <1>2
<1> HIDE DEF n, slots
<1>6. [slots |-> slots, panes |-> l.panes] \in Good
  BY <1>3, <1>4, MakeGood
<1> QED
  BY <1>3, <1>4, <1>5, <1>6

LEMMA ClearGood ==
    ASSUME NEW l \in Good, NEW p
    PROVE  ClearPaneAtIndex(l, p) \in Good /\ ClearPaneAtIndex(l, p).panes = l.panes
<1> DEFINE n == Len(l.slots)
           slots == [i \in DOMAIN l.slots |-> IF i = p THEN None ELSE l.slots[i]]
<1>1. n \in Nat /\ slots \in [1..n -> SlotValues]
  BY GoodLayout DEF SlotValues
<1>2. l.panes \in SUBSET (1..n) /\ l.panes # {}
  BY GoodLayout
<1>3. ClearPaneAtIndex(l, p) = [slots |-> slots, panes |-> l.panes]
  BY ExceptLayout DEF ClearPaneAtIndex
<1> HIDE DEF n, slots
<1> QED
  BY <1>1, <1>2, <1>3, MakeGood

LEMMA RemoveGood ==
    ASSUME NEW l \in Good, NEW s
    PROVE  RemoveSessionFromSlots(l, s) \in Good /\ RemoveSessionFromSlots(l, s).panes = l.panes
<1> DEFINE n == Len(l.slots)
           slots == [i \in DOMAIN l.slots |-> IF l.slots[i] = s THEN None ELSE l.slots[i]]
<1>1. n \in Nat /\ slots \in [1..n -> SlotValues]
  BY GoodLayout DEF SlotValues
<1>2. l.panes \in SUBSET (1..n) /\ l.panes # {}
  BY GoodLayout
<1>3. RemoveSessionFromSlots(l, s) = [slots |-> slots, panes |-> l.panes]
  BY ExceptLayout DEF RemoveSessionFromSlots
<1> HIDE DEF n, slots
<1> QED
  BY <1>1, <1>2, <1>3, MakeGood

LEMMA KeepGood ==
    ASSUME NEW l \in Good, NEW ids
    PROVE  KeepSessionsOf(l, ids) \in Good
<1> DEFINE n == Len(l.slots)
           slots == [i \in DOMAIN l.slots |-> IF l.slots[i] \in ids THEN l.slots[i] ELSE None]
<1>1. n \in Nat /\ slots \in [1..n -> SlotValues]
  BY GoodLayout DEF SlotValues
<1>2. l.panes \in SUBSET (1..n) /\ l.panes # {}
  BY GoodLayout
<1>3. KeepSessionsOf(l, ids) = [slots |-> slots, panes |-> l.panes]
  BY ExceptLayout DEF KeepSessionsOf
<1> HIDE DEF n, slots
<1> QED
  BY <1>1, <1>2, <1>3, MakeGood

(* Another set of panes on the same slots. *)
LEMMA RepanedGood ==
    ASSUME NEW l \in Good, NEW panes \in SUBSET DOMAIN l.slots, panes # {}
    PROVE  [l EXCEPT !.panes = panes] \in Good
<1> DEFINE n == Len(l.slots)
<1>1. n \in Nat /\ l.slots \in [1..n -> SlotValues] /\ panes \in SUBSET (1..n)
  BY GoodLayout
<1>2. [l EXCEPT !.panes = panes] = [slots |-> l.slots, panes |-> panes]
  BY ExceptLayout
<1> HIDE DEF n
<1> QED
  BY <1>1, <1>2, MakeGood

LEMMA RemovePaneGood ==
    ASSUME NEW l \in Good, NEW p
    PROVE  RemovePane(l, p) \in Good
<1>1. l.panes \in SUBSET DOMAIN l.slots
  BY GoodLayout
<1>2. CASE l.panes \subseteq {p}
  BY <1>2 DEF RemovePane
<1>3. CASE ~(l.panes \subseteq {p})
  <2>1. l.panes \ {p} \in SUBSET DOMAIN l.slots /\ l.panes \ {p} # {}
    BY <1>1, <1>3
  <2>2. [l EXCEPT !.panes = l.panes \ {p}] \in Good
    BY <2>1, RepanedGood
  <2>3. RemovePane(l, p) = [l EXCEPT !.panes = l.panes \ {p}]
    BY <1>3 DEF RemovePane
  <2> QED
    BY <2>2, <2>3
<1> QED
  BY <1>2, <1>3

LEMMA SplitGood ==
    ASSUME NEW l \in Good, NEW t, NEW q \in PaneNr
    PROVE  SplitPane(l, t, q) \in Good
<1> DEFINE wide == EnsurePaneIndex(l, q)
           panes == IF t \in wide.panes THEN wide.panes \cup {q} ELSE wide.panes
<1>1. wide \in Good /\ q \in DOMAIN wide.slots
  BY EnsureGood
<1>2. panes \in SUBSET DOMAIN wide.slots /\ panes # {}
  BY <1>1, GoodLayout
<1>3. SplitPane(l, t, q) = [wide EXCEPT !.panes = panes]
  BY DEF SplitPane
<1> HIDE DEF wide, panes
<1> QED
  BY <1>1, <1>2, <1>3, RepanedGood

LEMMA LastPaneOfGood ==
    ASSUME NEW l \in Good
    PROVE  LastPane(l.panes) \in PaneNr /\ \A q \in l.panes : q <= LastPane(l.panes)
<1>1. Len(l.slots) \in Nat /\ l.panes \in SUBSET (1..Len(l.slots)) /\ l.panes # {}
  BY GoodLayout
<1>2. LastPane(l.panes) \in l.panes /\ \A q \in l.panes : q <= LastPane(l.panes)
  BY <1>1, LastPaneIsLast
<1> QED
  BY <1>1, <1>2 DEF PaneNr

LEMMA AppendGood ==
    ASSUME NEW l \in Good, NEW s \in Ids, NEW m \in AppendSession(l, s)
    PROVE  m \in Good
<1>1. s \in SlotValues
  BY DEF SlotValues
<1>2. CASE FreePanes(l) # {}
  <2>1. PICK p \in FreePanes(l) : m = AssignSessionToPane(l, p, s)
    BY <1>2 DEF AppendSession
  <2>2. p \in PaneNr
    BY GoodLayout DEF FreePanes, PaneNr
  <2> QED
    BY <1>1, <2>1, <2>2, AssignGood
<1>3. CASE FreePanes(l) = {}
  <2> DEFINE q == LastPane(l.panes) + 1
             wide == AssignSessionToPane(l, q, s)
             panes == wide.panes \cup {q}
  <2>1. q \in PaneNr
    BY LastPaneOfGood DEF PaneNr
  <2>2. m = [wide EXCEPT !.panes = panes]
    BY <1>3 DEF AppendSession
  <2>3. wide \in Good /\ q \in DOMAIN wide.slots
    BY <1>1, <2>1, AssignGood
  <2>4. panes \in SUBSET DOMAIN wide.slots /\ panes # {}
    BY <2>3, GoodLayout
  <2> HIDE DEF q, wide, panes
  <2> QED
    BY <2>2, <2>3, <2>4, RepanedGood
<1> QED
  BY <1>2, <1>3

LEMMA CompactGood ==
    ASSUME NEW l \in Good
    PROVE  CompactSplitSlots(l) \in Good
<1> DEFINE n == LastPane(l.panes)
           slots == [p \in 1..n |-> IF p \in l.panes THEN SlotOf(l, p) ELSE None]
<1>1. n \in Nat /\ l.panes \in SUBSET (1..n) /\ l.panes # {}
  BY LastPaneOfGood, GoodLayout DEF PaneNr
<1>2. slots \in [1..n -> SlotValues]
  BY SlotOfType DEF SlotValues
<1>3. CompactSplitSlots(l) = [slots |-> slots, panes |-> l.panes]
  BY ExceptLayout DEF CompactSplitSlots
<1> HIDE DEF n, slots
<1> QED
  BY <1>1, <1>2, <1>3, MakeGood

(* The panes of a profile are a bounded set. *)
LEMMA FilledGood ==
    ASSUME NEW panes \in SUBSET (1..MaxPanes), panes # {}, NEW got \in [panes -> SlotValues]
    PROVE  Filled(got) \in Good /\ LastPane(DOMAIN got) + 1 \in PaneNr
<1> DEFINE n == LastPane(panes)
           slots == [p \in 1..n |-> IF p \in panes THEN got[p] ELSE None]
<1>1. MaxPanes \in Nat
  BY BoundsAssumption DEF PaneNr
<1>2. n \in panes /\ \A q \in panes : q <= n
  BY <1>1, LastPaneIsLast
<1>3. n \in Nat /\ panes \in SUBSET (1..n) /\ n + 1 \in PaneNr
  <2> HIDE DEF n, slots
  <2>1. n \in Nat /\ \A q \in panes : q \in Nat /\ q >= 1
    BY <1>1, <1>2
  <2> QED
    BY <1>2, <2>1 DEF PaneNr
<1>4. slots \in [1..n -> SlotValues]
  BY DEF SlotValues
<1>5. Filled(got) = [slots |-> slots, panes |-> panes] /\ DOMAIN got = panes
  BY DEF Filled
<1> HIDE DEF slots
<1>6. Filled(got) \in Good
  <2> HIDE DEF n
  <2> QED
    BY <1>3, <1>4, <1>5, MakeGood
<1> QED
  BY <1>3, <1>5, <1>6

-----------------------------------------------------------------------------
(* The inductive invariant                                                 *)

Views == [desk : Good, ws : Workspaces, nss : BOOLEAN]

(* Closures hold good layouts, and the left session of an NSS-Commander    *)
(* has been started.                                                       *)
CallsNow == {c \in Calls(Good) : c.op = "right" => c.left \in DOMAIN kinds}

TabsInv ==
    /\ kinds \in Seq(Kinds) /\ Len(kinds) <= MaxSessions
    /\ sessions \subseteq DOMAIN kinds
    /\ running \subseteq Ids

ShelfInv ==
    /\ DOMAIN snaps \subseteq Workspaces
    /\ \A w \in DOMAIN snaps : snaps[w] \in Good
    /\ nss \subseteq Workspaces /\ ws \in Workspaces /\ wsOrder \subseteq Workspaces

RefsInv ==
    /\ seen \subseteq Ids /\ closing \subseteq Ids /\ pending \subseteq Ids
    /\ boot \in 0..MaxSessions
    /\ broken \subseteq Ids

CallsInv == calls \in [1..MaxCalls -> CallsNow]

IInv ==
    /\ TabsInv
    /\ desk \in Good
    /\ ShelfInv
    /\ nextPane \in PaneNr
    /\ RefsInv
    /\ CallsInv
    /\ dirty \subseteq Everything

-----------------------------------------------------------------------------
(* Calls                                                                   *)

(* What a waiting handler of each kind holds. *)
LEMMA CallShape ==
    ASSUME NEW c \in Calls(Good)
    PROVE  /\ c.op \in {"new", "zone"} => c.kind \in Kinds /\ c.p \in PaneNr /\ c.view \in Views
           /\ c.op \in {"here", "duplicate"} => c.kind \in Kinds /\ c.p \in PaneNr
           /\ c.op = "replace" => c.kind \in Kinds /\ c.p \in PaneNr /\ c.old \in SlotValues
           /\ c.op = "close" => c.s \in Ids /\ c.leaf \in PaneNr \cup {None}
           /\ c.op = "all" => c.ids \subseteq Ids
           /\ c.op \in {"left", "right"} => c.target \in Workspaces /\ c.view \in Views
           /\ c.op = "right" => c.left \in Ids
           /\ c.op = "elsewhere" => /\ c.kind \in Kinds /\ c.p \in PaneNr /\ c.view \in Views
                                    /\ c.target \in Workspaces /\ c.there \in Good
           /\ c.op = "profile" => /\ c.want \in Profiles
                                  /\ c.got \in [DOMAIN c.want -> SlotValues]
                                  /\ c.todo \subseteq {p \in DOMAIN c.want : c.want[p] # None}
                                  /\ c = [op |-> "profile", want |-> c.want,
                                          got |-> c.got, todo |-> c.todo]
BY DEF Calls, Views, SlotValues, Idle

(* The calls that gestures and answers make. *)
LEMMA MakeCall ==
    ASSUME NEW kind \in Kinds, NEW p \in PaneNr, NEW view \in Views, NEW w \in Workspaces
    PROVE  /\ Idle \in CallsNow
           /\ \A op \in {"new", "zone"} : [op |-> op, kind |-> kind, p |-> p, view |-> view] \in CallsNow
           /\ \A op \in {"here", "duplicate"} : [op |-> op, kind |-> kind, p |-> p] \in CallsNow
           /\ \A old \in SlotValues :
                 [op |-> "replace", kind |-> kind, p |-> p, old |-> old] \in CallsNow
           /\ [op |-> "left", target |-> w, view |-> view] \in CallsNow
           /\ \A left \in DOMAIN kinds \cap Ids :
                 [op |-> "right", left |-> left, target |-> w, view |-> view] \in CallsNow
           /\ \A there \in Good, commander \in BOOLEAN :
                 [op |-> "elsewhere", kind |-> kind, p |-> p, view |-> view,
                  target |-> w, there |-> there, commander |-> commander] \in CallsNow
BY DEF CallsNow, Calls, Views, SlotValues, Idle

LEMMA MakeOtherCall ==
    /\ Idle \in CallsNow
    /\ \A s \in Ids, leaf \in PaneNr \cup {None} : CloseCall(s, leaf) \in CallsNow
    /\ \A ids \in SUBSET Ids, reset \in BOOLEAN :
          [op |-> "all", ids |-> ids, reset |-> reset] \in CallsNow
BY DEF CallsNow, Calls, CloseCall, Idle

LEMMA MakeProfileCall ==
    ASSUME NEW f \in Profiles, NEW got \in [DOMAIN f -> SlotValues],
           NEW todo \in SUBSET {p \in DOMAIN f : f[p] # None}
    PROVE  [op |-> "profile", want |-> f, got |-> got, todo |-> todo] \in CallsNow
BY DEF CallsNow, Calls, SlotValues

LEMMA CallWritten ==
    ASSUME NEW S, NEW f \in [1..MaxCalls -> S], NEW k \in 1..MaxCalls, NEW c \in S
    PROVE  [f EXCEPT ![k] = c] \in [1..MaxCalls -> S]
OBVIOUS

LEMMA PanesAreNumbers == Panes \subseteq PaneNr
BY BoundsAssumption DEF Panes, PaneNr

(* A session with a tab has a kind and fits a slot. *)
LEMMA TabHasKind ==
    ASSUME IInv, NEW s \in sessions
    PROVE  kinds[s] \in Kinds /\ s \in Ids /\ s \in SlotValues
<1>1. kinds \in Seq(Kinds) /\ s \in DOMAIN kinds /\ Len(kinds) <= MaxSessions
  BY DEF IInv, TabsInv
<1>2. Len(kinds) \in Nat /\ s \in 1..Len(kinds)
  BY <1>1
<1>3. s \in Ids
  BY <1>1, <1>2, BoundsAssumption DEF Ids
<1> QED
  BY <1>1, <1>3 DEF SlotValues

(* A waiting handler, and its place in `calls`. *)
LEMMA CallTyped ==
    ASSUME IInv, NEW k \in DOMAIN calls
    PROVE  k \in 1..MaxCalls /\ calls[k] \in CallsNow /\ calls[k] \in Calls(Good)
BY DEF IInv, CallsInv, CallsNow

LEMMA BeginStep ==
    ASSUME IInv, NEW c \in CallsNow, Begin(c)
    PROVE  calls' \in [1..MaxCalls -> CallsNow]
<1>1. PICK k \in DOMAIN calls : calls' = [calls EXCEPT ![k] = c]
  BY DEF Begin
<1>2. calls \in [1..MaxCalls -> CallsNow] /\ k \in 1..MaxCalls
  BY <1>1, CallTyped DEF IInv, CallsInv
<1> QED
  BY <1>1, <1>2, CallWritten

LEMMA EndStep ==
    ASSUME IInv, NEW k \in DOMAIN calls, End(k)
    PROVE  calls' \in [1..MaxCalls -> CallsNow]
<1>1. calls \in [1..MaxCalls -> CallsNow] /\ k \in 1..MaxCalls /\ Idle \in CallsNow
  BY CallTyped, MakeOtherCall DEF IInv, CallsInv
<1> QED
  BY <1>1, CallWritten DEF End

(* What the closures hold. *)
LEMMA ViewTyped ==
    ASSUME IInv
    PROVE  View \in Views
BY DEF IInv, ShelfInv, View, Views

-----------------------------------------------------------------------------
(* Steps that several actions share                                        *)

LEMMA TabsStay ==
    ASSUME IInv, UNCHANGED tabVars
    PROVE  TabsInv' /\ CallsNow' = CallsNow
BY DEF IInv, TabsInv, tabVars, CallsNow

LEMMA ShelfStays ==
    ASSUME IInv, UNCHANGED wsVars
    PROVE  ShelfInv'
BY DEF IInv, ShelfInv, wsVars

LEMMA RefsStay ==
    ASSUME IInv, UNCHANGED refVars
    PROVE  RefsInv'
BY DEF IInv, RefsInv, refVars

LEMMA StartsStep ==
    ASSUME IInv, NEW kind \in Kinds, Starts(kind)
    PROVE  /\ NewId \in Ids /\ NewId \in DOMAIN kinds' /\ NewId \in SlotValues
           /\ DOMAIN kinds \subseteq DOMAIN kinds'
           /\ kinds' \in Seq(Kinds) /\ Len(kinds') <= MaxSessions
           /\ running' \subseteq Ids
           /\ CallsNow \subseteq CallsNow'
<1>1. kinds \in Seq(Kinds) /\ NewId \in Ids /\ kinds' = Append(kinds, kind)
  BY DEF IInv, TabsInv, Starts
<1>2. Len(kinds) \in Nat /\ kinds' \in Seq(Kinds) /\ Len(kinds') = NewId
  BY <1>1 DEF NewId
<1>3. DOMAIN kinds = 1..Len(kinds) /\ DOMAIN kinds' = 1..NewId
  BY <1>1, <1>2
<1>4. NewId \in DOMAIN kinds' /\ DOMAIN kinds \subseteq DOMAIN kinds'
  BY <1>2, <1>3 DEF NewId
<1>5. CallsNow \subseteq CallsNow'
  BY <1>4 DEF CallsNow
<1>6. running' \subseteq Ids
  BY <1>1 DEF IInv, TabsInv, Starts
<1>7. NewId <= MaxSessions
  BY <1>1, BoundsAssumption DEF Ids
<1> QED
  BY <1>1, <1>2, <1>4, <1>5, <1>6, <1>7 DEF SlotValues

LEMMA OpensStep ==
    ASSUME IInv, NEW kind \in Kinds, Opens(kind)
    PROVE  /\ TabsInv' /\ CallsNow \subseteq CallsNow'
           /\ NewId \in Ids /\ NewId \in SlotValues
BY StartsStep DEF IInv, TabsInv, Opens

LEMMA SplitForStep ==
    ASSUME IInv, NEW view \in Views, NEW p, NEW s \in SlotValues, SplitFor(view, p, s)
    PROVE  desk' \in Good /\ nextPane' \in PaneNr
<1>1. desk \in Good /\ nextPane \in PaneNr
  BY DEF IInv
<1>2. PICK t : desk' = AssignSessionToPane(SplitPane(desk, t, nextPane), nextPane, s)
  BY DEF SplitFor
<1>3. SplitPane(desk, t, nextPane) \in Good
  BY <1>1, SplitGood
<1> QED
  BY <1>1, <1>2, <1>3, AssignGood DEF SplitFor, PaneNr

LEMMA PlaceStep ==
    ASSUME IInv, NEW k \in DOMAIN calls, NEW view \in Views, NEW p \in PaneNr,
           NEW s \in SlotValues, PlaceInNewOrFreePane(k, view, p, s)
    PROVE  /\ desk' \in Good /\ nextPane' \in PaneNr
           /\ calls' \in [1..MaxCalls -> CallsNow]
<1> DEFINE old == SlotOf(view.desk, p)
           next == IF view.nss /\ old # None THEN CloseCall(old, None) ELSE Idle
<1>1. desk \in Good /\ nextPane \in PaneNr /\ view.desk \in Good
  BY DEF IInv, Views
<1>2. old \in SlotValues
  BY <1>1, SlotOfType
<1>3. next \in CallsNow
  BY <1>2, MakeOtherCall DEF SlotValues
<1>4. calls' = [calls EXCEPT ![k] = next]
  BY DEF PlaceInNewOrFreePane
<1>5. calls' \in [1..MaxCalls -> CallsNow]
  <2> HIDE DEF next
  <2>1. calls \in [1..MaxCalls -> CallsNow] /\ k \in 1..MaxCalls
    BY CallTyped DEF IInv, CallsInv
  <2> QED
    BY <1>3, <1>4, <2>1, CallWritten
<1>6. CASE view.nss
  BY <1>1, <1>5, <1>6, AssignGood DEF PlaceInNewOrFreePane
<1>7. CASE ~view.nss /\ FreePanes(view.desk) # {}
  <2>1. PICK q \in FreePanes(view.desk) : desk' = AssignSessionToPane(desk, q, s)
    BY <1>7 DEF PlaceInNewOrFreePane
  <2>2. q \in PaneNr
    BY <1>1, GoodLayout DEF FreePanes, PaneNr
  <2>3. desk' \in Good
    BY <1>1, <2>1, <2>2, AssignGood
  <2>4. nextPane' = nextPane
    BY <1>7 DEF PlaceInNewOrFreePane
  <2> QED
    BY <1>1, <1>5, <2>3, <2>4
<1>8. CASE ~view.nss /\ FreePanes(view.desk) = {}
  <2>1. SplitFor(view, p, s)
    BY <1>8 DEF PlaceInNewOrFreePane
  <2> QED
    BY <1>5, <2>1, SplitForStep
<1> QED
  BY <1>6, <1>7, <1>8

LEMMA TouchStep ==
    ASSUME IInv, NEW parts \in SUBSET Everything, Touch(parts)
    PROVE  dirty' \subseteq Everything
BY DEF IInv, Touch

(* The parts of the invariant after a step that opens no session, ...      *)
LEMMA SameTabs ==
    ASSUME IInv, UNCHANGED <<tabVars, refVars>>,
           desk' \in Good, ShelfInv', nextPane' \in PaneNr,
           calls' \in [1..MaxCalls -> CallsNow], dirty' \subseteq Everything
    PROVE  IInv'
<1>1. TabsInv' /\ CallsNow' = CallsNow /\ RefsInv'
  BY TabsStay, RefsStay
<1> QED
  BY <1>1 DEF IInv, CallsInv

(* ... after one that opens a session, ...                                 *)
LEMMA NewTab ==
    ASSUME IInv, NEW kind \in Kinds, Opens(kind), UNCHANGED refVars,
           desk' \in Good, ShelfInv', nextPane' \in PaneNr,
           calls' \in [1..MaxCalls -> CallsNow], dirty' \subseteq Everything
    PROVE  IInv'
<1>1. TabsInv' /\ CallsNow \subseteq CallsNow' /\ RefsInv'
  BY OpensStep, RefsStay
<1> QED
  BY <1>1 DEF IInv, CallsInv

(* ... and after one that only waits.                                      *)
LEMMA WaitStep ==
    ASSUME IInv, calls' \in [1..MaxCalls -> CallsNow],
           UNCHANGED <<tabVars, desk, wsVars, nextPane, refVars, dirty>>
    PROVE  IInv'
<1>1. desk' \in Good /\ ShelfInv' /\ nextPane' \in PaneNr /\ dirty' \subseteq Everything
  BY ShelfStays DEF IInv
<1> QED
  BY <1>1, SameTabs

-----------------------------------------------------------------------------
(* Opening sessions                                                        *)

LEMMA OpenSessionStep ==
    ASSUME IInv, NEW kind \in Kinds, NEW p \in Panes, OpenSession(kind, p)
    PROVE  IInv'
<1>1. [op |-> "new", kind |-> kind, p |-> p, view |-> View] \in CallsNow
  BY ViewTyped, MakeCall, MainAssumption, PanesAreNumbers
<1> QED
  BY <1>1, BeginStep, WaitStep DEF OpenSession

LEMMA OpenSessionHereStep ==
    ASSUME IInv, NEW kind \in Kinds, NEW p \in Panes, OpenSessionHere(kind, p)
    PROVE  IInv'
<1>1. [op |-> "here", kind |-> kind, p |-> p] \in CallsNow
  BY ViewTyped, MakeCall, MainAssumption, PanesAreNumbers
<1> QED
  BY <1>1, BeginStep, WaitStep DEF OpenSessionHere

LEMMA StartFailsStep ==
    ASSUME IInv, NEW k \in DOMAIN calls, NEW op, StartFails(k, op)
    PROVE  IInv'
BY EndStep, WaitStep DEF StartFails

LEMMA OpenedNewStep ==
    ASSUME IInv, NEW k \in DOMAIN calls, OpenedNew(k)
    PROVE  IInv'
<1> DEFINE c == calls[k]
<1>1. c.kind \in Kinds /\ c.p \in PaneNr /\ c.view \in Views
  BY CallTyped, CallShape DEF OpenedNew
<1>2. Opens(c.kind) /\ UNCHANGED <<wsVars, refVars>>
  BY DEF OpenedNew
<1>3. NewId \in SlotValues
  BY <1>1, <1>2, OpensStep
<1>4. desk' \in Good /\ nextPane' \in PaneNr /\ calls' \in [1..MaxCalls -> CallsNow]
  BY <1>1, <1>3, PlaceStep DEF OpenedNew
<1>5. dirty' \subseteq Everything
  BY TouchStep DEF OpenedNew, Everything
<1> QED
  BY <1>1, <1>2, <1>4, <1>5, ShelfStays, NewTab

(* A session goes to the pane that its gesture named. *)
LEMMA OpenedAtPaneStep ==
    ASSUME IInv, NEW k \in DOMAIN calls, NEW kind \in Kinds, NEW p \in PaneNr,
           Opens(kind), desk' = AssignSessionToPane(desk, p, NewId),
           calls' \in [1..MaxCalls -> CallsNow],
           dirty' \subseteq Everything, UNCHANGED <<wsVars, nextPane, refVars>>
    PROVE  IInv'
<1>1. NewId \in SlotValues /\ desk \in Good /\ nextPane' \in PaneNr
  BY OpensStep DEF IInv
<1>2. desk' \in Good
  BY <1>1, AssignGood
<1> QED
  BY <1>1, <1>2, ShelfStays, NewTab

LEMMA OpenedHereStep ==
    ASSUME IInv, NEW k \in DOMAIN calls, OpenedHere(k)
    PROVE  IInv'
<1>1. calls[k].kind \in Kinds /\ calls[k].p \in PaneNr
  BY CallTyped, CallShape DEF OpenedHere
<1>2. dirty' \subseteq Everything
  BY TouchStep DEF OpenedHere, Everything
<1>3. calls' \in [1..MaxCalls -> CallsNow]
  BY EndStep DEF OpenedHere
<1> QED
  BY <1>1, <1>2, <1>3, OpenedAtPaneStep DEF OpenedHere

LEMMA OpenedDuplicateStep ==
    ASSUME IInv, NEW k \in DOMAIN calls, OpenedDuplicate(k)
    PROVE  IInv'
<1>1. calls[k].kind \in Kinds /\ calls[k].p \in PaneNr
  BY CallTyped, CallShape DEF OpenedDuplicate
<1>2. dirty' \subseteq Everything
  BY TouchStep DEF OpenedDuplicate, Everything
<1>3. calls' \in [1..MaxCalls -> CallsNow]
  BY EndStep DEF OpenedDuplicate
<1> QED
  BY <1>1, <1>2, <1>3, OpenedAtPaneStep DEF OpenedDuplicate

LEMMA OpenedOverStep ==
    ASSUME IInv, NEW k \in DOMAIN calls, OpenedOver(k)
    PROVE  IInv'
<1> DEFINE old == calls[k].old
           next == IF old = None THEN Idle ELSE CloseCall(old, None)
<1>1. calls[k].kind \in Kinds /\ calls[k].p \in PaneNr /\ old \in SlotValues
  BY CallTyped, CallShape DEF OpenedOver
<1>2. dirty' \subseteq Everything
  BY TouchStep DEF OpenedOver, Everything
<1>3. next \in CallsNow
  BY <1>1, MakeOtherCall DEF SlotValues
<1>4. calls' = [calls EXCEPT ![k] = next]
  BY DEF OpenedOver
<1>5. calls' \in [1..MaxCalls -> CallsNow]
  <2> HIDE DEF next
  <2>1. calls \in [1..MaxCalls -> CallsNow] /\ k \in 1..MaxCalls
    BY CallTyped DEF IInv, CallsInv
  <2> QED
    BY <1>3, <1>4, <2>1, CallWritten
<1> QED
  BY <1>1, <1>2, <1>5, OpenedAtPaneStep DEF OpenedOver

LEMMA OpenedInZoneStep ==
    ASSUME IInv, NEW k \in DOMAIN calls, OpenedInZone(k)
    PROVE  IInv'
<1>1. calls[k].kind \in Kinds /\ calls[k].p \in PaneNr /\ calls[k].view \in Views
  BY CallTyped, CallShape DEF OpenedInZone
<1>2. dirty' \subseteq Everything
  BY TouchStep DEF OpenedInZone, Everything
<1>3. calls' \in [1..MaxCalls -> CallsNow]
  BY EndStep DEF OpenedInZone
<1>4. NewId \in SlotValues
  BY <1>1, OpensStep DEF OpenedInZone
<1>5. desk' \in Good /\ nextPane' \in PaneNr
  BY <1>1, <1>4, SplitForStep DEF OpenedInZone
<1> QED
  BY <1>1, <1>2, <1>3, <1>5, ShelfStays, NewTab DEF OpenedInZone

LEMMA OpenWebStep ==
    ASSUME IInv, NEW p \in Panes, OpenWeb(p)
    PROVE  IInv'
<1>1. "web" \in Kinds /\ Opens("web") /\ UNCHANGED <<wsVars, refVars, calls>>
  BY DEF OpenWeb, Kinds
<1>2. NewId \in SlotValues /\ desk \in Good /\ nextPane \in PaneNr
  BY <1>1, OpensStep DEF IInv
<1>3. dirty' \subseteq Everything
  BY TouchStep DEF OpenWeb, Everything
<1>4. calls' \in [1..MaxCalls -> CallsNow]
  BY <1>1 DEF IInv, CallsInv
<1>5. CASE FreePanes(desk) # {}
  <2>1. PICK q \in FreePanes(desk) : desk' = AssignSessionToPane(desk, q, NewId)
    BY <1>5 DEF OpenWeb
  <2>2. q \in PaneNr
    BY <1>2, GoodLayout DEF FreePanes, PaneNr
  <2>3. desk' \in Good /\ nextPane' \in PaneNr
    BY <1>2, <1>5, <2>1, <2>2, AssignGood DEF OpenWeb
  <2> QED
    BY <1>1, <1>3, <1>4, <2>3, ShelfStays, NewTab
<1>6. CASE FreePanes(desk) = {}
  <2>1. SplitFor(View, p, NewId)
    BY <1>6 DEF OpenWeb
  <2>2. desk' \in Good /\ nextPane' \in PaneNr
    BY <1>2, <2>1, ViewTyped, SplitForStep
  <2> QED
    BY <1>1, <1>3, <1>4, <2>2, ShelfStays, NewTab
<1> QED
  BY <1>5, <1>6

LEMMA SplitEmptyStep ==
    ASSUME IInv, NEW p \in Panes, SplitEmpty(p)
    PROVE  IInv'
<1>1. desk \in Good /\ nextPane \in PaneNr /\ nextPane' = nextPane + 1
  BY DEF IInv, SplitEmpty
<1>2. desk' \in Good /\ nextPane' \in PaneNr
  BY <1>1, SplitGood DEF SplitEmpty, PaneNr
<1>3. dirty' \subseteq Everything
  BY TouchStep DEF SplitEmpty, Everything
<1>4. calls' \in [1..MaxCalls -> CallsNow]
  BY DEF SplitEmpty, IInv, CallsInv
<1> QED
  BY <1>2, <1>3, <1>4, ShelfStays, SameTabs DEF SplitEmpty

LEMMA SplitDuplicateStep ==
    ASSUME IInv, NEW p \in Panes, SplitDuplicate(p)
    PROVE  IInv'
<1>1. desk \in Good /\ nextPane \in PaneNr /\ nextPane' = nextPane + 1
  BY DEF IInv, SplitDuplicate
<1>2. PICK s \in sessions :
        /\ desk' = AssignSessionToPane(SplitPane(desk, p, nextPane), nextPane, s)
        /\ Begin([op |-> "duplicate", kind |-> kinds[s], p |-> nextPane])
  BY DEF SplitDuplicate
<1>3. kinds[s] \in Kinds /\ s \in SlotValues
  BY TabHasKind
<1>4. desk' \in Good /\ nextPane' \in PaneNr
  BY <1>1, <1>2, <1>3, SplitGood, AssignGood DEF PaneNr
<1>5. [op |-> "duplicate", kind |-> kinds[s], p |-> nextPane] \in CallsNow
  BY <1>1, <1>3, ViewTyped, MakeCall, MainAssumption
<1>6. calls' \in [1..MaxCalls -> CallsNow]
  BY <1>2, <1>5, BeginStep
<1>7. dirty' \subseteq Everything
  BY TouchStep DEF SplitDuplicate, Everything
<1> QED
  BY <1>4, <1>6, <1>7, ShelfStays, SameTabs DEF SplitDuplicate

LEMMA DuplicateFailsStep ==
    ASSUME IInv, NEW k \in DOMAIN calls, DuplicateFails(k)
    PROVE  IInv'
<1>1. desk' \in Good /\ nextPane' \in PaneNr
  BY ClearGood DEF DuplicateFails, IInv
<1>2. calls' \in [1..MaxCalls -> CallsNow]
  BY EndStep DEF DuplicateFails
<1>3. dirty' \subseteq Everything
  BY TouchStep DEF DuplicateFails, Everything
<1> QED
  BY <1>1, <1>2, <1>3, ShelfStays, SameTabs DEF DuplicateFails

-----------------------------------------------------------------------------
(* Drag and drop                                                           *)

(* A step of the desk alone. *)
LEMMA DeskStep ==
    ASSUME IInv, desk' \in Good, nextPane' \in PaneNr,
           calls' \in [1..MaxCalls -> CallsNow], dirty' \subseteq Everything,
           UNCHANGED <<tabVars, wsVars, refVars>>
    PROVE  IInv'
BY ShelfStays, SameTabs

LEMMA CallsStay ==
    ASSUME IInv, UNCHANGED calls
    PROVE  calls' \in [1..MaxCalls -> CallsNow]
BY DEF IInv, CallsInv

LEMMA FirstSlotTyped ==
    ASSUME IInv, NEW s, NEW src \in FirstSlotOf(s) \cap desk.panes
    PROVE  src \in PaneNr /\ (s \in Ids => s \in SlotValues)
BY GoodLayout DEF IInv, SlotValues, PaneNr

LEMMA MoveGood ==
    ASSUME NEW l \in Good, NEW s \in SlotValues, NEW src \in PaneNr, NEW p \in PaneNr
    PROVE  MoveToPane(l, s, src, p) \in Good
<1> DEFINE there == SlotOf(l, p)
           moved == AssignSessionToPane(RemoveSessionFromSlots(l, s), p, s)
<1>1. there \in SlotValues /\ moved \in Good
  BY SlotOfType, RemoveGood, AssignGood
<1> HIDE DEF there, moved
<1>2. MoveToPane(l, s, src, p) = IF there = None THEN ClearPaneAtIndex(RemovePane(moved, src), src)
                                 ELSE AssignSessionToPane(moved, src, there)
  BY DEF MoveToPane, there, moved
<1>3. CASE there = None
  BY <1>1, <1>2, <1>3, RemovePaneGood, ClearGood
<1>4. CASE there # None
  BY <1>1, <1>2, <1>4, AssignGood
<1> QED
  BY <1>3, <1>4

LEMMA DragToPaneStep ==
    ASSUME IInv, NEW s \in Ids, NEW src \in Panes, NEW p \in Panes, DragToPane(s, src, p)
    PROVE  IInv'
<1>1. src \in PaneNr /\ p \in PaneNr /\ s \in SlotValues /\ desk \in Good /\ nextPane \in PaneNr
  BY PanesAreNumbers DEF SlotValues, IInv
<1>2. desk' \in Good /\ nextPane' \in PaneNr
  BY <1>1, MoveGood DEF DragToPane
<1>3. dirty' \subseteq Everything
  BY TouchStep DEF DragToPane, Everything
<1> QED
  BY <1>2, <1>3, CallsStay, DeskStep DEF DragToPane

LEMMA DragToEdgeStep ==
    ASSUME IInv, NEW s \in Ids, NEW src \in Panes, NEW p \in Panes, DragToEdge(s, src, p)
    PROVE  IInv'
<1>1. src \in PaneNr /\ p \in PaneNr /\ s \in SlotValues /\ desk \in Good /\ nextPane \in PaneNr
  BY PanesAreNumbers DEF SlotValues, IInv
<1> DEFINE split == SplitPane(desk, p, nextPane)
           moved == AssignSessionToPane(RemoveSessionFromSlots(split, s), nextPane, s)
<1>2. moved \in Good
  BY <1>1, SplitGood, RemoveGood, AssignGood
<1>3. desk' = ClearPaneAtIndex(RemovePane(moved, src), src) /\ nextPane' = nextPane + 1
  BY DEF DragToEdge
<1> HIDE DEF moved
<1>4. desk' \in Good /\ nextPane' \in PaneNr
  BY <1>1, <1>2, <1>3, RemovePaneGood, ClearGood DEF PaneNr
<1>5. dirty' \subseteq Everything
  BY TouchStep DEF DragToEdge, Everything
<1> QED
  BY <1>4, <1>5, CallsStay, DeskStep DEF DragToEdge

LEMMA DragToOwnEdgeStep ==
    ASSUME IInv, NEW s \in Ids, NEW p \in Panes, DragToOwnEdge(s, p)
    PROVE  IInv'
<1>1. s \in sessions
  BY DEF DragToOwnEdge
<1>2. [op |-> "zone", kind |-> kinds[s], p |-> p, view |-> View] \in CallsNow
  BY <1>1, TabHasKind, ViewTyped, MakeCall, MainAssumption, PanesAreNumbers
<1> QED
  BY <1>2, BeginStep, WaitStep DEF DragToOwnEdge

LEMMA DropHostOverStep ==
    ASSUME IInv, NEW h \in Hosts, NEW p \in Panes, NEW zone, DropHostOver(h, p, zone)
    PROVE  IInv'
<1> DEFINE old == SlotOf(desk, p)
<1>1. p \in PaneNr /\ desk \in Good /\ nextPane \in PaneNr /\ h \in Kinds
  BY PanesAreNumbers DEF IInv, Kinds
<1>2. old \in SlotValues
  BY <1>1, SlotOfType
<1>3. UNCHANGED <<tabVars, wsVars, nextPane, refVars>>
  BY DEF DropHostOver
<1>4. CASE SessionsOf(h) = {}
  <2>1. Begin([op |-> "replace", kind |-> h, p |-> p, old |-> old]) /\ UNCHANGED <<desk, dirty>>
    BY <1>4 DEF DropHostOver
  <2>2. [op |-> "replace", kind |-> h, p |-> p, old |-> old] \in CallsNow
    BY <1>1, <1>2, ViewTyped, MakeCall, MainAssumption
  <2> QED
    BY <1>3, <2>1, <2>2, BeginStep, WaitStep
<1>5. CASE SessionsOf(h) # {}
  <2>1. PICK s \in SessionsOf(h) :
          /\ desk' = AssignSessionToPane(RemoveSessionFromSlots(desk, s), p, s)
          /\ Touch({"slots"})
          /\ IF old \in {None, s} THEN UNCHANGED calls ELSE Begin(CloseCall(old, None))
    BY <1>5 DEF DropHostOver
  <2>2. s \in SlotValues
    BY TabHasKind DEF SessionsOf
  <2>3. desk' \in Good
    BY <1>1, <2>1, <2>2, RemoveGood, AssignGood
  <2>4. calls' \in [1..MaxCalls -> CallsNow]
    <3>1. CASE old \in {None, s}
      BY <2>1, <3>1, CallsStay
    <3>2. CASE old \notin {None, s}
      <4>1. CloseCall(old, None) \in CallsNow
        BY <1>2, <3>2, MakeOtherCall DEF SlotValues
      <4> QED
        BY <2>1, <3>2, <4>1, BeginStep
    <3> QED
      BY <3>1, <3>2
  <2>5. dirty' \subseteq Everything
    BY <2>1, TouchStep DEF Everything
  <2> QED
    BY <1>1, <1>3, <2>3, <2>4, <2>5, DeskStep
<1> QED
  BY <1>4, <1>5

LEMMA DropHostBesideStep ==
    ASSUME IInv, NEW h \in Hosts, NEW p \in Panes, NEW zone, DropHostBeside(h, p, zone)
    PROVE  IInv'
<1>1. p \in PaneNr /\ h \in Kinds /\ View \in Views
  BY PanesAreNumbers, ViewTyped DEF Kinds
<1>2. UNCHANGED <<tabVars, wsVars, refVars>>
  BY DEF DropHostBeside
<1>3. CASE SessionsOf(h) = {}
  <2>1. [op |-> "zone", kind |-> h, p |-> p, view |-> View] \in CallsNow
    BY <1>1, MakeCall, MainAssumption
  <2>2. Begin([op |-> "zone", kind |-> h, p |-> p, view |-> View])
        /\ UNCHANGED <<desk, nextPane, dirty>>
    BY <1>3 DEF DropHostBeside
  <2> QED
    BY <1>2, <2>1, <2>2, BeginStep, WaitStep
<1>4. CASE SessionsOf(h) # {}
  <2>1. PICK s \in SessionsOf(h) : SplitFor(View, p, s)
    BY <1>4 DEF DropHostBeside
  <2>2. s \in SlotValues
    BY TabHasKind DEF SessionsOf
  <2>3. desk' \in Good /\ nextPane' \in PaneNr
    BY <1>1, <2>1, <2>2, SplitForStep
  <2>4. Touch({"slots", "panes"}) /\ UNCHANGED calls
    BY <1>4 DEF DropHostBeside
  <2>5. dirty' \subseteq Everything
    BY <2>4, TouchStep DEF Everything
  <2> QED
    BY <1>2, <2>3, <2>4, <2>5, CallsStay, DeskStep
<1> QED
  BY <1>3, <1>4

-----------------------------------------------------------------------------
(* Closing                                                                 *)

LEMMA CloseInPaneStep ==
    ASSUME IInv, NEW p \in Panes, CloseInPane(p)
    PROVE  IInv'
<1>1. SlotOf(desk, p) \in Ids
  BY SlotOfType DEF CloseInPane, IInv, SlotValues
<1>2. CloseCall(SlotOf(desk, p), None) \in CallsNow
  BY <1>1, MakeOtherCall
<1> QED
  BY <1>2, BeginStep, WaitStep DEF CloseInPane

LEMMA ClosePaneStep ==
    ASSUME IInv, NEW p \in Panes, ClosePane(p)
    PROVE  IInv'
<1>1. SlotOf(desk, p) \in SlotValues /\ p \in PaneNr /\ desk \in Good /\ nextPane \in PaneNr
  BY SlotOfType, PanesAreNumbers DEF IInv
<1>2. UNCHANGED <<tabVars, wsVars, nextPane, refVars>>
  BY DEF ClosePane
<1>3. CASE SlotOf(desk, p) = None
  <2>1. desk' = ClearPaneAtIndex(RemovePane(desk, p), p) /\ Touch({"slots", "panes"})
        /\ UNCHANGED calls
    BY <1>3 DEF ClosePane
  <2>2. desk' \in Good
    BY <1>1, <2>1, RemovePaneGood, ClearGood
  <2>3. dirty' \subseteq Everything
    BY <2>1, TouchStep DEF Everything
  <2> QED
    BY <1>1, <1>2, <2>1, <2>2, <2>3, CallsStay, DeskStep
<1>4. CASE SlotOf(desk, p) # None
  <2>1. CloseCall(SlotOf(desk, p), p) \in CallsNow
    BY <1>1, <1>4, MakeOtherCall DEF SlotValues
  <2>2. Begin(CloseCall(SlotOf(desk, p), p)) /\ UNCHANGED <<desk, dirty>>
    BY <1>4 DEF ClosePane
  <2> QED
    BY <1>2, <2>1, <2>2, BeginStep, WaitStep
<1> QED
  BY <1>3, <1>4

LEMMA CloseFailsStep ==
    ASSUME IInv, NEW k \in DOMAIN calls, CloseFails(k)
    PROVE  IInv'
<1>1. /\ running' = running \ {calls[k].s} /\ broken' = broken \cup (running \cap {calls[k].s})
      /\ End(k) /\ UNCHANGED <<sessions, kinds, desk, wsVars, nextPane, seen, closing, pending, boot, dirty>>
  BY DEF CloseFails
<1>2. TabsInv' /\ CallsNow' = CallsNow /\ RefsInv'
  BY <1>1 DEF IInv, TabsInv, CallsNow, RefsInv
<1>3. ShelfInv' /\ calls' \in [1..MaxCalls -> CallsNow]
  BY <1>1, ShelfStays, EndStep
<1> QED
  BY <1>1, <1>2, <1>3 DEF IInv, CallsInv

(* Sessions go: their tabs, their children, their slots in the snapshots. *)
LEMMA SessionsGo ==
    ASSUME IInv, sessions' \subseteq sessions, running' \subseteq running, UNCHANGED kinds,
           DOMAIN snaps' = DOMAIN snaps, \A w \in DOMAIN snaps : snaps'[w] \in Good,
           UNCHANGED <<nss, ws, wsOrder>>, RefsInv',
           desk' \in Good, nextPane' \in PaneNr,
           calls' \in [1..MaxCalls -> CallsNow], dirty' \subseteq Everything
    PROVE  IInv'
<1>1. TabsInv' /\ CallsNow' = CallsNow
  BY DEF IInv, TabsInv, CallsNow
<1>2. ShelfInv'
  BY DEF IInv, ShelfInv
<1> QED
  BY <1>1, <1>2 DEF IInv, CallsInv

LEMMA RemoveEverywhereStep ==
    ASSUME IInv, NEW s, RemoveEverywhere(s)
    PROVE  /\ sessions' \subseteq sessions
           /\ DOMAIN snaps' = DOMAIN snaps /\ \A w \in DOMAIN snaps : snaps'[w] \in Good
BY RemoveGood DEF IInv, ShelfInv, RemoveEverywhere

LEMMA ClosedStep ==
    ASSUME IInv, NEW k \in DOMAIN calls, Closed(k)
    PROVE  IInv'
<1> DEFINE s == calls[k].s
           leaf == calls[k].leaf
           without == RemoveSessionFromSlots(desk, s)
<1>1. desk \in Good /\ nextPane \in PaneNr
  BY DEF IInv
<1>2. without \in Good
  BY <1>1, RemoveGood
<1>3. desk' = IF leaf = None THEN without ELSE ClearPaneAtIndex(RemovePane(without, leaf), leaf)
  BY DEF Closed
<1>4. desk' \in Good
  <2> HIDE DEF without, leaf
  <2> QED
    BY <1>2, <1>3, RemovePaneGood, ClearGood
<1>5. RemoveEverywhere(s) /\ running' \subseteq running
      /\ UNCHANGED <<kinds, nss, ws, wsOrder, nextPane, refVars>>
  BY DEF Closed
<1>6. calls' \in [1..MaxCalls -> CallsNow] /\ dirty' \subseteq Everything
  BY EndStep, TouchStep DEF Closed
<1> QED
  BY <1>1, <1>4, <1>5, <1>6, RemoveEverywhereStep, RefsStay, SessionsGo

LEMMA OneNumber == 1 \in PaneNr /\ 2 \in PaneNr /\ Blank(1) \in Good
<1>1. 1 \in PaneNr /\ 2 \in PaneNr
  BY DEF PaneNr
<1> QED
  BY <1>1, BlankGood

LEMMA CloseAllStep ==
    ASSUME IInv, NEW reset \in BOOLEAN, CloseAll(reset)
    PROVE  IInv'
<1>1. UNCHANGED <<tabVars, wsVars, refVars>>
  BY DEF CloseAll
<1>2. CASE sessions # {}
  <2>1. [op |-> "all", ids |-> sessions, reset |-> reset] \in CallsNow
    BY TabHasKind, MakeOtherCall
  <2>2. Begin([op |-> "all", ids |-> sessions, reset |-> reset])
        /\ UNCHANGED <<desk, nextPane, dirty>>
    BY <1>2 DEF CloseAll
  <2> QED
    BY <1>1, <2>1, <2>2, BeginStep, WaitStep
<1>3. CASE sessions = {}
  <2>1. desk' = Blank(1) /\ nextPane' = 2 /\ Touch({"slots", "panes"}) /\ UNCHANGED calls
    BY <1>3 DEF CloseAll
  <2>2. dirty' \subseteq Everything
    BY <2>1, TouchStep DEF Everything
  <2> QED
    BY <1>1, <2>1, <2>2, OneNumber, CallsStay, DeskStep
<1> QED
  BY <1>2, <1>3

LEMMA AllClosedStep ==
    ASSUME IInv, NEW k \in DOMAIN calls, AllClosed(k)
    PROVE  IInv'
<1>1. desk' \in Good /\ nextPane' \in PaneNr
  BY OneNumber, KeepGood DEF AllClosed, Emptied, IInv
<1>2. DOMAIN snaps' = DOMAIN snaps /\ \A w \in DOMAIN snaps : snaps'[w] \in Good
  BY KeepGood DEF AllClosed, Emptied, IInv, ShelfInv
<1>3. calls' \in [1..MaxCalls -> CallsNow] /\ dirty' \subseteq Everything
  BY EndStep, TouchStep DEF AllClosed
<1>4. sessions' \subseteq sessions /\ running' \subseteq running
      /\ UNCHANGED <<kinds, nss, ws, wsOrder, refVars>>
  BY DEF AllClosed
<1> QED
  BY <1>1, <1>2, <1>3, <1>4, RefsStay, SessionsGo

-----------------------------------------------------------------------------
(* Workspaces                                                              *)

(* A step of desk and workspaces that opens no session. *)
LEMMA ArrangeStep ==
    ASSUME IInv, desk' \in Good, ShelfInv', nextPane' \in PaneNr,
           calls' \in [1..MaxCalls -> CallsNow], dirty' \subseteq Everything,
           UNCHANGED <<tabVars, refVars>>
    PROVE  IInv'
BY SameTabs

(* A layout is written into a snapshot. *)
LEMMA SaveTyped ==
    ASSUME IInv, NEW w \in Workspaces, NEW l \in Good
    PROVE  DOMAIN Save(w, l) \subseteq Workspaces /\ \A x \in DOMAIN Save(w, l) : Save(w, l)[x] \in Good
BY DEF IInv, ShelfInv, Save

LEMMA SwitchWorkspaceStep ==
    ASSUME IInv, NEW w \in Workspaces, SwitchWorkspace(w)
    PROVE  IInv'
<1>1. desk \in Good /\ nextPane \in PaneNr /\ ws \in Workspaces
  BY DEF IInv, ShelfInv
<1>2. desk' \in Good /\ nextPane' \in PaneNr
  BY <1>1 DEF IInv, ShelfInv, SwitchWorkspace, Show
<1>3. ShelfInv'
  BY <1>1, SaveTyped DEF IInv, ShelfInv, SwitchWorkspace, Show
<1>4. dirty' \subseteq Everything
  BY TouchStep DEF SwitchWorkspace, Everything
<1> QED
  BY <1>2, <1>3, <1>4, CallsStay, ArrangeStep DEF SwitchWorkspace

LEMMA CreateWorkspaceStep ==
    ASSUME IInv, NEW w \in Workspaces, CreateWorkspace(w)
    PROVE  IInv'
<1>1. desk \in Good /\ nextPane \in PaneNr /\ ws \in Workspaces
  BY DEF IInv, ShelfInv
<1>2. desk' \in Good /\ nextPane' \in PaneNr
  BY <1>1, OneNumber DEF CreateWorkspace, Show
<1>3. ShelfInv'
  BY <1>1, OneNumber DEF IInv, ShelfInv, CreateWorkspace, Show
<1>4. dirty' \subseteq Everything
  BY TouchStep DEF CreateWorkspace, Everything
<1> QED
  BY <1>2, <1>3, <1>4, CallsStay, ArrangeStep DEF CreateWorkspace

LEMMA RemoveWorkspaceStep ==
    ASSUME IInv, NEW w \in Workspaces, RemoveWorkspace(w)
    PROVE  IInv'
<1>1. desk \in Good /\ nextPane' \in PaneNr
  BY DEF IInv, RemoveWorkspace
<1>2. DOMAIN snaps' \subseteq Workspaces /\ (\A x \in DOMAIN snaps' : snaps'[x] \in Good)
      /\ nss' \subseteq Workspaces /\ wsOrder' \subseteq Workspaces
  BY DEF IInv, ShelfInv, RemoveWorkspace, Forget
<1>3. /\ desk' \in Good /\ ws' \in Workspaces
      /\ dirty' \subseteq Everything
  <2>1. CASE Touch({"snaps"}) /\ UNCHANGED <<desk, ws>>
    BY <1>1, <2>1, TouchStep DEF IInv, ShelfInv, Everything
  <2>2. CASE /\ \E next \in wsOrder' \cap DOMAIN snaps : Show(next, snaps[next])
             /\ Touch({"slots", "panes", "snaps"})
    BY <1>2, <2>2, TouchStep DEF IInv, ShelfInv, Everything, Show
  <2> QED
    BY <2>1, <2>2 DEF RemoveWorkspace
<1>4. ShelfInv'
  BY <1>2, <1>3 DEF ShelfInv
<1> QED
  BY <1>1, <1>3, <1>4, CallsStay, ArrangeStep DEF RemoveWorkspace

LEMMA CreateCommanderStep ==
    ASSUME IInv, NEW w \in Workspaces, CreateCommander(w)
    PROVE  IInv'
<1>1. "local" \in Kinds
  BY DEF Kinds
<1>2. [op |-> "left", target |-> w, view |-> View] \in CallsNow
  BY <1>1, OneNumber, ViewTyped, MakeCall
<1> QED
  BY <1>2, BeginStep, WaitStep DEF CreateCommander

LEMMA LeftStartedStep ==
    ASSUME IInv, NEW k \in DOMAIN calls, LeftStarted(k)
    PROVE  IInv'
<1> DEFINE c == calls[k]
           next == [op |-> "right", left |-> NewId, target |-> c.target, view |-> c.view]
<1>1. c.target \in Workspaces /\ c.view \in Views
  BY CallTyped, CallShape DEF LeftStarted
<1>2. "local" \in Kinds /\ Starts("local")
  BY DEF LeftStarted, Kinds
<1>3. /\ NewId \in DOMAIN kinds' \cap Ids /\ CallsNow \subseteq CallsNow' /\ running' \subseteq Ids
      /\ kinds' \in Seq(Kinds) /\ Len(kinds') <= MaxSessions /\ DOMAIN kinds \subseteq DOMAIN kinds'
  BY <1>2, StartsStep
<1>4. next \in CallsNow'
  BY <1>1, <1>3 DEF CallsNow, Calls, Views
<1>5. calls' = [calls EXCEPT ![k] = next]
  BY DEF LeftStarted
<1>6. calls' \in [1..MaxCalls -> CallsNow']
  <2> HIDE DEF next
  <2>1. calls \in [1..MaxCalls -> CallsNow'] /\ k \in 1..MaxCalls
    BY <1>3, CallTyped DEF IInv, CallsInv
  <2> QED
    BY <1>4, <1>5, <2>1, CallWritten
<1>7. TabsInv'
  BY <1>3 DEF IInv, TabsInv, LeftStarted
<1>8. UNCHANGED <<desk, wsVars, nextPane, refVars, dirty>>
  BY DEF LeftStarted
<1> QED
  BY <1>6, <1>7, <1>8, ShelfStays, RefsStay DEF IInv, CallsInv

LEMMA RightStartedStep ==
    ASSUME IInv, NEW k \in DOMAIN calls, RightStarted(k)
    PROVE  IInv'
<1> DEFINE c == calls[k]
           panels == [slots |-> <<c.left, NewId>>, panes |-> {1, 2}]
<1>1. c.target \in Workspaces /\ c.view \in Views /\ c.left \in Ids /\ c.left \in DOMAIN kinds
  BY CallTyped, CallShape DEF RightStarted, CallsNow
<1>2. "local" \in Kinds /\ Starts("local")
  BY DEF RightStarted, Kinds
<1>3. /\ NewId \in DOMAIN kinds' \cap Ids /\ CallsNow \subseteq CallsNow' /\ running' \subseteq Ids
      /\ kinds' \in Seq(Kinds) /\ Len(kinds') <= MaxSessions /\ DOMAIN kinds \subseteq DOMAIN kinds'
  BY <1>2, StartsStep
<1>4. panels \in Good
  <2>1. <<c.left, NewId>> \in [1..2 -> SlotValues] /\ {1, 2} \in SUBSET (1..2) /\ {1, 2} # {}
    BY <1>1, <1>3 DEF SlotValues
  <2> QED
    BY <2>1, MakeGood
<1>5. c.view.desk \in Good /\ c.view.ws \in Workspaces
  BY <1>1 DEF Views
<1>6. /\ snaps' = [x \in DOMAIN snaps \cup {c.target, c.view.ws} |->
                      IF x = c.target THEN panels
                      ELSE IF x = c.view.ws THEN c.view.desk ELSE snaps[x]]
      /\ nss' = nss \cup {c.target} /\ wsOrder' = wsOrder \cup {c.target}
      /\ ws' = c.target /\ desk' = panels
      /\ sessions' = sessions \cup {c.left, NewId}
      /\ UNCHANGED <<nextPane, refVars>>
  BY DEF RightStarted, Show
<1>7. ShelfInv' /\ desk' \in Good
  <2> HIDE DEF panels
  <2> QED
    BY <1>1, <1>4, <1>5, <1>6 DEF IInv, ShelfInv
<1>8. TabsInv'
  BY <1>1, <1>3, <1>6 DEF IInv, TabsInv
<1>9. calls' \in [1..MaxCalls -> CallsNow'] /\ dirty' \subseteq Everything
  BY <1>3, EndStep, TouchStep DEF RightStarted
<1> QED
  BY <1>6, <1>7, <1>8, <1>9, RefsStay DEF IInv, CallsInv

LEMMA SendSessionStep ==
    ASSUME IInv, NEW s \in Ids, NEW w \in Workspaces, SendSession(s, w)
    PROVE  IInv'
<1>1. desk \in Good /\ nextPane' \in PaneNr /\ snaps[w] \in Good
  BY DEF IInv, ShelfInv, SendSession
<1>2. PICK l \in AppendSession(snaps[w], s) : snaps' = Save(w, l)
  BY DEF SendSession, AppendToSnapshot
<1>3. ShelfInv'
  BY <1>1, <1>2, AppendGood, SaveTyped DEF IInv, ShelfInv, SendSession
<1> DEFINE without == RemoveSessionFromSlots(desk, s)
<1>4. without \in Good
  BY <1>1, RemoveGood
<1>5. PICK src : desk' = IF src \in desk.panes /\ desk.panes # {src}
                         THEN ClearPaneAtIndex(RemovePane(without, src), src) ELSE without
  BY DEF SendSession
<1>6. desk' \in Good
  <2> HIDE DEF without
  <2> QED
    BY <1>4, <1>5, RemovePaneGood, ClearGood
<1>7. dirty' \subseteq Everything
  BY TouchStep DEF SendSession, Everything
<1> QED
  BY <1>1, <1>3, <1>6, <1>7, CallsStay, ArrangeStep DEF SendSession

LEMMA OpenInWorkspaceStep ==
    ASSUME IInv, NEW h \in Hosts, NEW w \in Workspaces, NEW p \in Panes, OpenInWorkspace(h, w, p)
    PROVE  IInv'
<1>1. h \in Kinds /\ p \in PaneNr /\ snaps[w] \in Good /\ (w \in nss) \in BOOLEAN
  BY PanesAreNumbers DEF Kinds, IInv, ShelfInv, OpenInWorkspace
<1>2. [op |-> "elsewhere", kind |-> h, p |-> p, view |-> View,
       target |-> w, there |-> snaps[w], commander |-> w \in nss] \in CallsNow
  BY <1>1, ViewTyped, MakeCall
<1> QED
  BY <1>2, BeginStep, WaitStep DEF OpenInWorkspace

LEMMA OpenedInActiveStep ==
    ASSUME IInv, NEW k \in DOMAIN calls, OpenedInActive(k)
    PROVE  IInv'
<1> DEFINE c == calls[k]
<1>1. c.kind \in Kinds /\ c.p \in PaneNr /\ c.view \in Views
  BY CallTyped, CallShape DEF OpenedInActive
<1>2. Opens(c.kind) /\ UNCHANGED <<wsVars, refVars>>
  BY DEF OpenedInActive
<1>3. NewId \in SlotValues
  BY <1>1, <1>2, OpensStep
<1>4. desk' \in Good /\ nextPane' \in PaneNr /\ calls' \in [1..MaxCalls -> CallsNow]
  BY <1>1, <1>3, PlaceStep DEF OpenedInActive
<1>5. dirty' \subseteq Everything
  BY TouchStep DEF OpenedInActive, Everything
<1> QED
  BY <1>1, <1>2, <1>4, <1>5, ShelfStays, NewTab

LEMMA OpenedElsewhereStep ==
    ASSUME IInv, NEW k \in DOMAIN calls, OpenedElsewhere(k)
    PROVE  IInv'
<1> DEFINE c == calls[k]
<1>1. c.kind \in Kinds /\ c.view \in Views /\ c.target \in Workspaces /\ c.there \in Good
  BY CallTyped, CallShape DEF OpenedElsewhere
<1>2. Opens(c.kind) /\ nextPane' \in PaneNr /\ UNCHANGED <<wsOrder, refVars>>
  BY DEF OpenedElsewhere, IInv
<1>3. NewId \in Ids
  BY <1>1, <1>2, OpensStep
<1>4. PICK l \in AppendSession(c.there, NewId) :
        /\ snaps' = [x \in DOMAIN snaps \cup {c.target, c.view.ws} |->
                        IF x = c.target THEN l
                        ELSE IF x = c.view.ws THEN c.view.desk ELSE snaps[x]]
        /\ ws' = c.target /\ desk' = l
  BY DEF OpenedElsewhere, Show
<1>5. l \in Good
  BY <1>1, <1>3, AppendGood
<1>6. nss' \subseteq Workspaces
  BY <1>1 DEF OpenedElsewhere, IInv, ShelfInv
<1>7. ShelfInv' /\ desk' \in Good
  <2>1. c.view.desk \in Good /\ c.view.ws \in Workspaces
    BY <1>1 DEF Views
  <2> QED
    BY <1>1, <1>2, <1>4, <1>5, <1>6, <2>1 DEF IInv, ShelfInv
<1>8. calls' \in [1..MaxCalls -> CallsNow] /\ dirty' \subseteq Everything
  BY EndStep, TouchStep DEF OpenedElsewhere
<1> QED
  BY <1>1, <1>2, <1>7, <1>8, NewTab

-----------------------------------------------------------------------------
(* Presets and profiles                                                    *)

LEMMA ApplyPresetStep ==
    ASSUME IInv, NEW w \in Workspaces, NEW n \in Panes, ApplyPreset(w, n)
    PROVE  IInv'
<1>1. n \in PaneNr /\ Blank(n) \in Good /\ desk \in Good /\ nextPane \in PaneNr
  BY PanesAreNumbers, BlankGood DEF IInv
<1>2. UNCHANGED <<tabVars, nss, ws, wsOrder, refVars, calls>>
  BY DEF ApplyPreset
<1>3. CASE w = ws
  <2>1. desk' = Blank(n) /\ nextPane' = n + 1 /\ Touch({"slots", "panes"}) /\ UNCHANGED snaps
    BY <1>3 DEF ApplyPreset
  <2>2. dirty' \subseteq Everything /\ nextPane' \in PaneNr
    BY <1>1, <2>1, TouchStep DEF Everything, PaneNr
  <2>3. ShelfInv'
    BY <1>2, <2>1 DEF IInv, ShelfInv
  <2> QED
    BY <1>1, <1>2, <2>1, <2>2, <2>3, CallsStay, ArrangeStep
<1>4. CASE w # ws
  <2>1. snaps' = Save(w, Blank(n)) /\ Touch({"snaps"}) /\ UNCHANGED <<desk, nextPane>>
    BY <1>4 DEF ApplyPreset
  <2>2. dirty' \subseteq Everything
    BY <2>1, TouchStep DEF Everything
  <2>3. ShelfInv'
    BY <1>1, <1>2, <2>1, SaveTyped DEF IInv, ShelfInv
  <2> QED
    BY <1>1, <1>2, <2>1, <2>2, <2>3, CallsStay, ArrangeStep
<1> QED
  BY <1>3, <1>4

LEMMA ApplyPresetAndSwitchStep ==
    ASSUME IInv, NEW w \in Workspaces, NEW n \in Panes, ApplyPresetAndSwitch(w, n)
    PROVE  IInv'
<1>1. Blank(n) \in Good /\ desk \in Good /\ ws \in Workspaces /\ nextPane' \in PaneNr
  BY PanesAreNumbers, BlankGood DEF IInv, ShelfInv, ApplyPresetAndSwitch
<1> DEFINE saved == Save(ws, desk)
<1>2. DOMAIN saved \subseteq Workspaces /\ \A x \in DOMAIN saved : saved[x] \in Good
  BY <1>1, SaveTyped
<1>3. snaps' = [saved EXCEPT ![w] = Blank(n)]
  BY DEF ApplyPresetAndSwitch
<1>4. DOMAIN snaps' \subseteq Workspaces /\ \A x \in DOMAIN snaps' : snaps'[x] \in Good
  <2> HIDE DEF saved
  <2>1. DOMAIN snaps' = DOMAIN saved
        /\ \A x \in DOMAIN saved : snaps'[x] = IF x = w THEN Blank(n) ELSE saved[x]
    BY <1>3
  <2> QED
    BY <1>1, <1>2, <2>1
<1>5. ShelfInv' /\ desk' \in Good
  BY <1>4 DEF IInv, ShelfInv, ApplyPresetAndSwitch, Show
<1>6. dirty' \subseteq Everything
  BY TouchStep DEF ApplyPresetAndSwitch, Everything
<1> QED
  BY <1>1, <1>5, <1>6, CallsStay, ArrangeStep DEF ApplyPresetAndSwitch

LEMMA ProfileDomain ==
    ASSUME NEW f \in Profiles
    PROVE  /\ DOMAIN f \in SUBSET (1..MaxPanes) /\ DOMAIN f # {}
           /\ \A p \in DOMAIN f : f[p] # None => f[p] \in Kinds
BY ProfilesAssumption DEF Kinds

LEMMA ProfileLoadedStep ==
    ASSUME NEW f \in Profiles, NEW got \in [DOMAIN f -> SlotValues], ProfileLoaded(got)
    PROVE  desk' \in Good /\ nextPane' \in PaneNr /\ pending' \subseteq Ids
<1>1. DOMAIN f \in SUBSET (1..MaxPanes) /\ DOMAIN f # {} /\ DOMAIN got = DOMAIN f
  BY ProfileDomain
<1>2. desk' \in Good /\ nextPane' \in PaneNr
  BY <1>1, FilledGood DEF ProfileLoaded
<1>3. pending' \subseteq Ids
  BY DEF ProfileLoaded, SlotValues
<1> QED
  BY <1>2, <1>3

LEMMA LoadProfileStep ==
    ASSUME IInv, NEW f \in Profiles, LoadProfile(f)
    PROVE  IInv'
<1>1. PICK got \in Reusable(f) :
        LET todo == {p \in DOMAIN f : f[p] # None /\ got[p] = None}
        IN  IF todo = {}
            THEN /\ ProfileLoaded(got)
                 /\ Touch({"slots", "panes"})
                 /\ UNCHANGED calls
            ELSE /\ Begin([op |-> "profile", want |-> f, got |-> got, todo |-> todo])
                 /\ UNCHANGED <<desk, pending, nextPane, dirty>>
  BY DEF LoadProfile
<1> DEFINE todo == {p \in DOMAIN f : f[p] # None /\ got[p] = None}
<1>2. got \in [DOMAIN f -> SlotValues]
  BY TabHasKind DEF Reusable, SlotValues
<1>3. UNCHANGED <<tabVars, wsVars, seen, closing, boot, broken>>
  BY DEF LoadProfile
<1>4. CASE todo = {}
  <2>1. ProfileLoaded(got) /\ Touch({"slots", "panes"}) /\ UNCHANGED calls
    BY <1>1, <1>4
  <2>2. desk' \in Good /\ nextPane' \in PaneNr /\ pending' \subseteq Ids
    BY <1>2, <2>1, ProfileLoadedStep
  <2>3. TabsInv' /\ CallsNow' = CallsNow /\ ShelfInv'
    BY <1>3, TabsStay, ShelfStays
  <2>4. RefsInv'
    BY <1>3, <2>2 DEF IInv, RefsInv
  <2>5. dirty' \subseteq Everything
    BY <2>1, TouchStep DEF Everything
  <2> QED
    BY <2>1, <2>2, <2>3, <2>4, <2>5, CallsStay DEF IInv, CallsInv
<1>5. CASE todo # {}
  <2>1. Begin([op |-> "profile", want |-> f, got |-> got, todo |-> todo])
        /\ UNCHANGED <<desk, pending, nextPane, dirty>>
    BY <1>1, <1>5
  <2>2. [op |-> "profile", want |-> f, got |-> got, todo |-> todo] \in CallsNow
    BY <1>2, MakeProfileCall
  <2> QED
    BY <1>3, <2>1, <2>2, BeginStep, WaitStep DEF refVars
<1> QED
  BY <1>4, <1>5

(* The tabs after a start that may have failed. *)
LEMMA MaybeOpensStep ==
    ASSUME IInv, NEW kind \in Kinds, NEW ok \in BOOLEAN,
           IF ok THEN Opens(kind) ELSE UNCHANGED tabVars
    PROVE  TabsInv' /\ CallsNow \subseteq CallsNow' /\ (ok => NewId \in SlotValues)
<1>1. CASE ok
  BY <1>1, OpensStep
<1>2. CASE ~ok
  BY <1>2, TabsStay
<1> QED
  BY <1>1, <1>2

LEMMA ProfileStepStep ==
    ASSUME IInv, NEW k \in DOMAIN calls, ProfileStep(k)
    PROVE  IInv'
<1> DEFINE c == calls[k]
<1>1. /\ c.want \in Profiles /\ c.got \in [DOMAIN c.want -> SlotValues]
      /\ c.todo \subseteq {p \in DOMAIN c.want : c.want[p] # None}
      /\ c = [op |-> "profile", want |-> c.want, got |-> c.got, todo |-> c.todo]
  BY CallTyped, CallShape DEF ProfileStep
<1>2. PICK p \in c.todo, ok \in BOOLEAN :
        /\ IF ok THEN Opens(c.want[p]) ELSE UNCHANGED tabVars
        /\ LET got == IF ok THEN [c.got EXCEPT ![p] = NewId] ELSE c.got
           IN  IF c.todo = {p}
               THEN ProfileLoaded(got) /\ End(k) /\ Touch({"tabs", "slots", "panes"})
               ELSE /\ calls' = [calls EXCEPT ![k] =
                           [op |-> "profile", want |-> c.want, got |-> got, todo |-> c.todo \ {p}]]
                    /\ Touch(IF ok THEN {"tabs"} ELSE {})
                    /\ UNCHANGED <<desk, pending, nextPane>>
  BY DEF ProfileStep
<1> DEFINE got == IF ok THEN [c.got EXCEPT ![p] = NewId] ELSE c.got
<1>3. p \in DOMAIN c.want /\ c.want[p] \in Kinds
  BY <1>1, ProfileDomain
<1>4. TabsInv' /\ CallsNow \subseteq CallsNow' /\ (ok => NewId \in SlotValues)
  BY <1>2, <1>3, MaybeOpensStep
<1>5. got \in [DOMAIN c.want -> SlotValues]
  BY <1>1, <1>3, <1>4
<1>6. UNCHANGED <<wsVars, seen, closing, boot, broken>>
  BY DEF ProfileStep
<1>7. ShelfInv'
  BY <1>6, ShelfStays
<1>8. CASE c.todo = {p}
  <2>1. ProfileLoaded(got) /\ End(k) /\ Touch({"tabs", "slots", "panes"})
    BY <1>2, <1>8
  <2>2. desk' \in Good /\ nextPane' \in PaneNr /\ pending' \subseteq Ids
    <3> HIDE DEF got
    <3> QED
      BY <1>1, <1>5, <2>1, ProfileLoadedStep
  <2>3. RefsInv'
    BY <1>6, <2>2 DEF IInv, RefsInv
  <2>4. calls' \in [1..MaxCalls -> CallsNow'] /\ dirty' \subseteq Everything
    BY <1>4, <2>1, EndStep, TouchStep DEF Everything
  <2> QED
    BY <1>4, <1>7, <2>2, <2>3, <2>4 DEF IInv, CallsInv
<1>9. CASE c.todo # {p}
  <2> DEFINE next == [op |-> "profile", want |-> c.want, got |-> got, todo |-> c.todo \ {p}]
  <2>1. /\ calls' = [calls EXCEPT ![k] =
               [op |-> "profile", want |-> c.want, got |-> got, todo |-> c.todo \ {p}]]
        /\ Touch(IF ok THEN {"tabs"} ELSE {})
        /\ UNCHANGED <<desk, pending, nextPane>>
    BY <1>2, <1>9
  <2>2. next \in CallsNow'
    <3> HIDE DEF got
    <3>1. next \in CallsNow
      BY <1>1, <1>5, MakeProfileCall
    <3> QED
      BY <1>4, <3>1
  <2>3. calls \in [1..MaxCalls -> CallsNow'] /\ k \in 1..MaxCalls
    BY <1>4, CallTyped DEF IInv, CallsInv
  <2>4. calls' = [calls EXCEPT ![k] = next]
    <3> HIDE DEF got
    <3> QED
      BY <2>1
  <2>5. calls' \in [1..MaxCalls -> CallsNow']
    <3> HIDE DEF next
    <3> QED
      BY <2>2, <2>3, <2>4, CallWritten
  <2>6. dirty' \subseteq Everything
    BY <2>1, TouchStep DEF Everything
  <2>7. RefsInv' /\ desk' \in Good /\ nextPane' \in PaneNr
    BY <1>6, <2>1 DEF IInv, RefsInv
  <2> QED
    BY <1>4, <1>7, <2>5, <2>6, <2>7 DEF IInv, CallsInv
<1> QED
  BY <1>8, <1>9

-----------------------------------------------------------------------------
(* Effects                                                                 *)

LEMMA ReapStep ==
    ASSUME IInv, Reap
    PROVE  seen' \subseteq Ids /\ closing' \subseteq Ids
<1>1. Orphans \subseteq Ids
  BY TabHasKind DEF Orphans
<1> QED
  BY <1>1 DEF IInv, RefsInv, Reap

LEMMA RunEffectsStep ==
    ASSUME IInv, RunEffects
    PROVE  IInv'
<1>1. desk \in Good /\ nextPane \in PaneNr /\ ws \in Workspaces /\ Len(desk.slots) \in Nat
  BY GoodLayout DEF IInv, ShelfInv
<1>2. desk' \in Good
  BY <1>1, CompactGood, KeepGood DEF RunEffects
<1>3. nextPane' \in PaneNr
  BY <1>1 DEF RunEffects, NumberAfterSlots, PaneNr
<1>4. ShelfInv'
  <2>1. DOMAIN snaps' \subseteq Workspaces /\ \A x \in DOMAIN snaps' : snaps'[x] \in Good
    <3>1. CASE SyncsSnapshot
      BY <1>1, <3>1, SaveTyped DEF RunEffects
    <3>2. CASE ~SyncsSnapshot
      BY <3>2 DEF RunEffects, IInv, ShelfInv
    <3> QED
      BY <3>1, <3>2
  <2> QED
    BY <2>1 DEF IInv, ShelfInv, RunEffects
<1>5. RefsInv'
  BY ReapStep DEF IInv, RefsInv, RunEffects
<1>6. dirty' \subseteq Everything
  BY DEF RunEffects, Everything
<1>7. UNCHANGED tabVars /\ UNCHANGED calls
  BY DEF RunEffects
<1> QED
  BY <1>2, <1>3, <1>4, <1>5, <1>6, <1>7, TabsStay, CallsStay DEF IInv, CallsInv

LEMMA ReapedStep ==
    ASSUME IInv, NEW s \in Ids, Reaped(s)
    PROVE  IInv'
<1>1. desk' \in Good /\ nextPane' \in PaneNr
  BY RemoveGood DEF IInv, Reaped
<1>2. RefsInv'
  BY DEF IInv, RefsInv, Reaped
<1>3. dirty' \subseteq Everything
  BY TouchStep DEF Reaped, Everything
<1>4. running' \subseteq running /\ RemoveEverywhere(s) /\ UNCHANGED <<kinds, nss, ws, wsOrder, calls>>
  BY DEF Reaped
<1> QED
  BY <1>1, <1>2, <1>3, <1>4, RemoveEverywhereStep, CallsStay, SessionsGo

LEMMA RestartStep ==
    ASSUME IInv, Restart
    PROVE  IInv'
<1> DEFINE kept == wsOrder \cap DOMAIN snaps
<1>1. /\ wsOrder' = kept /\ nss' = nss \cap kept
      /\ snaps' = [w \in kept |-> snaps[w]]
      /\ \E w \in IF ws \in kept THEN {ws} ELSE kept : Show(w, Emptied(snaps[w]))
  BY DEF Restart
<1>2. ShelfInv' /\ desk' \in Good
  BY <1>1, KeepGood DEF IInv, ShelfInv, Show, Emptied
<1>3. TabsInv' /\ CallsNow' = CallsNow
  BY DEF IInv, TabsInv, Restart, CallsNow
<1>4. calls' \in [1..MaxCalls -> CallsNow]
  BY MakeOtherCall DEF IInv, CallsInv, Restart
<1>5. RefsInv'
  <2>1. Len(kinds) \in Nat /\ Len(kinds) <= MaxSessions
    BY DEF IInv, TabsInv
  <2> QED
    BY <2>1, BoundsAssumption DEF IInv, RefsInv, Restart
<1>6. nextPane' \in PaneNr /\ dirty' \subseteq Everything
  BY OneNumber DEF Restart, Everything
<1> QED
  BY <1>2, <1>3, <1>4, <1>5, <1>6 DEF IInv, CallsInv

-----------------------------------------------------------------------------
(* The specification                                                       *)

LEMMA InitStep == Init => IInv
<1> SUFFICES ASSUME Init
             PROVE  IInv
  OBVIOUS
<1>1. TabsInv
  BY BoundsAssumption DEF Init, TabsInv
<1>2. ShelfInv
  BY OneNumber, MainAssumption DEF Init, ShelfInv
<1>3. RefsInv
  BY BoundsAssumption DEF Init, RefsInv
<1>4. CallsInv
  BY MakeOtherCall DEF Init, CallsInv
<1>5. desk \in Good /\ nextPane \in PaneNr /\ dirty \subseteq Everything
  BY OneNumber DEF Init
<1> QED
  BY <1>1, <1>2, <1>3, <1>4, <1>5 DEF IInv

LEMMA OpeningStep ==
    ASSUME IInv, Opening
    PROVE  IInv'
BY OpenSessionStep, OpenSessionHereStep, OpenWebStep, SplitEmptyStep, SplitDuplicateStep DEF Opening

LEMMA DraggingStep ==
    ASSUME IInv, Dragging
    PROVE  IInv'
BY DragToPaneStep, DragToEdgeStep, DragToOwnEdgeStep, DropHostOverStep, DropHostBesideStep
   DEF Dragging

LEMMA ClosingStep ==
    ASSUME IInv, Closing
    PROVE  IInv'
BY CloseInPaneStep, ClosePaneStep, CloseAllStep DEF Closing

LEMMA ArrangingStep ==
    ASSUME IInv, Arranging
    PROVE  IInv'
BY SwitchWorkspaceStep, CreateWorkspaceStep, RemoveWorkspaceStep, CreateCommanderStep,
   SendSessionStep, OpenInWorkspaceStep, ApplyPresetStep, ApplyPresetAndSwitchStep,
   LoadProfileStep
   DEF Arranging

LEMMA AnswersStep ==
    ASSUME IInv, NEW k \in DOMAIN calls, Answers(k)
    PROVE  IInv'
BY OpenedNewStep, OpenedHereStep, OpenedInZoneStep, OpenedOverStep, OpenedDuplicateStep,
   DuplicateFailsStep, OpenedInActiveStep, OpenedElsewhereStep, LeftStartedStep,
   RightStartedStep, ProfileStepStep, ClosedStep, CloseFailsStep, AllClosedStep, StartFailsStep
   DEF Answers

LEMMA StutterStep ==
    ASSUME IInv, UNCHANGED vars
    PROVE  IInv'
<1>1. UNCHANGED <<tabVars, desk, wsVars, nextPane, refVars, dirty>> /\ UNCHANGED calls
  BY DEF vars
<1> QED
  BY <1>1, CallsStay, WaitStep

(* The inductive invariant: good layouts on the desk, in every snapshot    *)
(* and in the closure of every waiting handler.                            *)
THEOREM LayoutInvariant == Spec => []IInv
<1>1. ASSUME IInv, [Next]_vars
      PROVE  IInv'
  <2>1. CASE Next
    BY <1>1, <2>1, OpeningStep, DraggingStep, ClosingStep, ArrangingStep, AnswersStep,
       RunEffectsStep, ReapedStep, RestartStep DEF Next
  <2>2. CASE UNCHANGED vars
    BY <1>1, <2>2, StutterStep
  <2> QED
    BY <1>1, <2>1, <2>2
<1> QED
  BY <1>1, InitStep, PTL DEF Spec

(* Every pane of a split tree has its entry in the slot array, on screen   *)
(* and in the snapshots (ensurePaneIndex runs before every assignment).    *)
THEOREM PanesStayBacked == Spec => []PanesBacked
<1>1. IInv => PanesBacked
  BY DEF IInv, ShelfInv, Good, PanesBacked
<1> QED
  BY <1>1, LayoutInvariant, PTL

(* Every variable keeps values of its kind. *)
THEOREM TypeCorrect == Spec => []TypeOK
<1>1. Good \subseteq Layouts(Ids)
  BY DEF Good
<1>2. Calls(Good) \subseteq Calls(Layouts(Ids))
  <2> HIDE DEF Good
  <2> QED
    BY <1>1 DEF Calls
<1>3. IInv => TypeOK
  <2> SUFFICES ASSUME IInv
               PROVE  TypeOK
    OBVIOUS
  <2>1. calls \in [1..MaxCalls -> Calls(Layouts(Ids))]
    BY <1>2 DEF IInv, CallsInv, CallsNow
  <2>2. sessions \subseteq Ids
    BY TabHasKind
  <2> QED
    BY <1>1, <2>1, <2>2 DEF IInv, TabsInv, ShelfInv, RefsInv, TypeOK
<1> QED
  BY <1>3, LayoutInvariant, PTL

-----------------------------------------------------------------------------
(* One handler at a time                                                   *)

OneCall == \A j, k \in DOMAIN calls : Pending(j) /\ Pending(k) => j = k

NoCalls == \A k \in DOMAIN calls : ~Pending(k)

(* A patient user's gesture comes when everything has ended. *)
LEMMA PatientGesture ==
    ASSUME Patient, NEW op, May(op)
    PROVE  op \in Ops /\ dirty = {} /\ NoCalls
BY DEF May, Quiet, Settled, NoCalls

(* The call of a handler that waits is not Idle. *)
LEMMA WaitsNotIdle ==
    ASSUME NEW k, calls[k].op # "idle"
    PROVE  Pending(k)
BY DEF Pending, Idle

(* After a gesture only its call waits, ... *)
LEMMA BeginOne ==
    ASSUME IInv, NoCalls, NEW c, Begin(c)
    PROVE  /\ OneCall' /\ DOMAIN calls' = DOMAIN calls
           /\ \A j \in DOMAIN calls : calls'[j] \in {Idle, c}
           /\ \E j \in DOMAIN calls : calls'[j] = c
<1>1. PICK k \in DOMAIN calls : calls' = [calls EXCEPT ![k] = c]
  BY DEF Begin
<1>2. DOMAIN calls' = DOMAIN calls
      /\ \A j \in DOMAIN calls : calls'[j] = IF j = k THEN c ELSE calls[j]
  BY <1>1 DEF IInv, CallsInv
<1>3. \A j \in DOMAIN calls : calls[j] = Idle
  BY DEF NoCalls, Pending
<1>4. OneCall'
  BY <1>2, <1>3 DEF OneCall, Pending
<1> QED
  BY <1>1, <1>2, <1>3, <1>4

(* ... and after an answer only what its handler goes on to wait for. *)
LEMMA AnswerOne ==
    ASSUME IInv, OneCall, NEW k \in DOMAIN calls, Pending(k), NEW c,
           calls' = [calls EXCEPT ![k] = c]
    PROVE  /\ OneCall' /\ DOMAIN calls' = DOMAIN calls
           /\ \A j \in DOMAIN calls : calls'[j] \in {Idle, c}
           /\ c = Idle => NoCalls'
<1>1. DOMAIN calls' = DOMAIN calls
      /\ \A j \in DOMAIN calls : calls'[j] = IF j = k THEN c ELSE calls[j]
  BY DEF IInv, CallsInv
<1>2. \A j \in DOMAIN calls : j # k => calls[j] = Idle
  BY DEF OneCall, Pending
<1>3. OneCall'
  BY <1>1, <1>2 DEF OneCall, Pending
<1>4. c = Idle => NoCalls'
  BY <1>1, <1>2 DEF NoCalls, Pending
<1> QED
  BY <1>1, <1>2, <1>3, <1>4

LEMMA EndOne ==
    ASSUME IInv, OneCall, NEW k \in DOMAIN calls, Pending(k), End(k)
    PROVE  NoCalls' /\ OneCall' /\ DOMAIN calls' = DOMAIN calls
BY AnswerOne DEF End

LEMMA CallsSame ==
    ASSUME UNCHANGED calls
    PROVE  (OneCall => OneCall') /\ (NoCalls => NoCalls')
BY DEF OneCall, NoCalls, Pending

LEMMA NoneIsOne == NoCalls => OneCall
BY DEF OneCall, NoCalls

(* What a step of a patient user's program does to the handlers. *)
CallsMove ==
    \/ UNCHANGED calls
    \/ NoCalls /\ \E c : Begin(c)
    \/ \E k \in DOMAIN calls : Pending(k) /\ \E c : calls' = [calls EXCEPT ![k] = c]
    \/ calls' = [k \in DOMAIN calls |-> Idle]

LEMMA GesturesMove ==
    ASSUME Patient, Opening \/ Dragging \/ Closing \/ Arranging
    PROVE  CallsMove
<1>1. CASE Opening
  BY <1>1, PatientGesture
     DEF Opening, OpenSession, OpenSessionHere, OpenWeb, SplitEmpty, SplitDuplicate, CallsMove
<1>2. CASE Dragging
  <2>1. ASSUME NEW s \in Ids, NEW src \in Panes, NEW p \in Panes,
               DragToPane(s, src, p) \/ DragToEdge(s, src, p) \/ DragToOwnEdge(s, p)
        PROVE  CallsMove
    BY <2>1, PatientGesture DEF DragToPane, DragToEdge, DragToOwnEdge, CallsMove
  <2>2. ASSUME NEW h \in Hosts, NEW p \in Panes, NEW zone, DropHostOver(h, p, zone)
        PROVE  CallsMove
    <3>1. NoCalls
      BY <2>2, PatientGesture DEF DropHostOver
    <3>2. UNCHANGED calls \/ \E c : Begin(c)
      BY <2>2 DEF DropHostOver
    <3> QED
      BY <3>1, <3>2 DEF CallsMove
  <2>3. ASSUME NEW h \in Hosts, NEW p \in Panes, NEW zone, DropHostBeside(h, p, zone)
        PROVE  CallsMove
    <3>1. NoCalls
      BY <2>3, PatientGesture DEF DropHostBeside
    <3>2. UNCHANGED calls \/ \E c : Begin(c)
      BY <2>3 DEF DropHostBeside
    <3> QED
      BY <3>1, <3>2 DEF CallsMove
  <2> QED
    BY <1>2, <2>1, <2>2, <2>3 DEF Dragging
<1>3. CASE Closing
  <2>1. ASSUME NEW p \in Panes, CloseInPane(p) \/ ClosePane(p)
        PROVE  CallsMove
    BY <2>1, PatientGesture DEF CloseInPane, ClosePane, CallsMove
  <2>2. ASSUME NEW reset \in BOOLEAN, CloseAll(reset)
        PROVE  CallsMove
    BY <2>2, PatientGesture DEF CloseAll, CallsMove
  <2> QED
    BY <1>3, <2>1, <2>2 DEF Closing
<1>4. CASE Arranging
  <2>1. ASSUME NEW w \in Workspaces,
               SwitchWorkspace(w) \/ CreateWorkspace(w) \/ RemoveWorkspace(w) \/ CreateCommander(w)
        PROVE  CallsMove
    BY <2>1, PatientGesture
       DEF SwitchWorkspace, CreateWorkspace, RemoveWorkspace, CreateCommander, CallsMove
  <2>2. ASSUME NEW w \in Workspaces, NEW s \in Ids, SendSession(s, w)
        PROVE  CallsMove
    BY <2>2 DEF SendSession, CallsMove
  <2>3. ASSUME NEW w \in Workspaces, NEW h \in Hosts, NEW p \in Panes, OpenInWorkspace(h, w, p)
        PROVE  CallsMove
    BY <2>3, PatientGesture DEF OpenInWorkspace, CallsMove
  <2>4. ASSUME NEW w \in Workspaces, NEW n \in Panes,
               ApplyPreset(w, n) \/ ApplyPresetAndSwitch(w, n)
        PROVE  CallsMove
    BY <2>4 DEF ApplyPreset, ApplyPresetAndSwitch, CallsMove
  <2>5. ASSUME NEW f \in Profiles, LoadProfile(f)
        PROVE  CallsMove
    <3>1. NoCalls
      BY <2>5, PatientGesture DEF LoadProfile
    <3>2. UNCHANGED calls \/ \E c : Begin(c)
      BY <2>5 DEF LoadProfile
    <3> QED
      BY <3>1, <3>2 DEF CallsMove
  <2> QED
    BY <1>4, <2>1, <2>2, <2>3, <2>4, <2>5 DEF Arranging
<1> QED
  BY <1>1, <1>2, <1>3, <1>4

LEMMA AnswersMove ==
    ASSUME NEW k \in DOMAIN calls, Answers(k)
    PROVE  Pending(k) /\ \E c : calls' = [calls EXCEPT ![k] = c]
<1>1. CASE OpenedNew(k) \/ OpenedInActive(k)
  BY <1>1, WaitsNotIdle DEF OpenedNew, OpenedInActive, PlaceInNewOrFreePane
<1>2. CASE OpenedHere(k) \/ OpenedInZone(k) \/ OpenedOver(k) \/ OpenedDuplicate(k)
           \/ DuplicateFails(k)
  BY <1>2, WaitsNotIdle
     DEF OpenedHere, OpenedInZone, OpenedOver, OpenedDuplicate, DuplicateFails, End
<1>3. CASE OpenedElsewhere(k) \/ LeftStarted(k) \/ RightStarted(k)
  BY <1>3, WaitsNotIdle DEF OpenedElsewhere, LeftStarted, RightStarted, End
<1>4. CASE Closed(k) \/ CloseFails(k) \/ AllClosed(k)
  BY <1>4, WaitsNotIdle DEF Closed, CloseFails, AllClosed, End
<1>5. ASSUME NEW op \in {"new", "here", "zone", "replace", "elsewhere", "left", "right"},
             StartFails(k, op)
      PROVE  Pending(k) /\ \E c : calls' = [calls EXCEPT ![k] = c]
  BY <1>5, WaitsNotIdle DEF StartFails, End
<1>6. CASE ProfileStep(k)
  <2>1. Pending(k)
    BY <1>6, WaitsNotIdle DEF ProfileStep
  <2>2. \E c : calls' = [calls EXCEPT ![k] = c]
    BY <1>6 DEF ProfileStep, End
  <2> QED
    BY <2>1, <2>2
<1> QED
  BY <1>1, <1>2, <1>3, <1>4, <1>5, <1>6 DEF Answers

LEMMA NextMoves ==
    ASSUME Patient, Next
    PROVE  CallsMove
BY GesturesMove, AnswersMove DEF Next, RunEffects, Reaped, Restart, CallsMove

LEMMA OneCallStep ==
    ASSUME IInv, OneCall, CallsMove
    PROVE  OneCall'
<1>1. CASE UNCHANGED calls
  BY <1>1, CallsSame
<1>2. CASE NoCalls /\ \E c : Begin(c)
  BY <1>2, BeginOne
<1>3. CASE \E k \in DOMAIN calls : Pending(k) /\ \E c : calls' = [calls EXCEPT ![k] = c]
  BY <1>3, AnswerOne
<1>4. CASE calls' = [k \in DOMAIN calls |-> Idle]
  BY <1>4 DEF OneCall, Pending
<1> QED
  BY <1>1, <1>2, <1>3, <1>4 DEF CallsMove

(* A patient user has one handler that awaits. *)
LEMMA OneCallInvariant ==
    ASSUME Patient
    PROVE  Spec => []OneCall
<1>1. Init => OneCall
  BY DEF Init, OneCall, Pending
<1>2. ASSUME IInv, OneCall, [Next]_vars
      PROVE  OneCall'
  <2>1. CASE Next
    BY <1>2, <2>1, NextMoves, OneCallStep
  <2>2. CASE UNCHANGED vars
    BY <1>2, <2>2, CallsSame DEF vars
  <2> QED
    BY <1>2, <2>1, <2>2
<1> QED
  BY <1>1, <1>2, LayoutInvariant, PTL DEF Spec

-----------------------------------------------------------------------------
(* Tabs and children                                                       *)

TabsRun == running = {s \in sessions : kinds[s] # "web"} \ broken

(* Nobody makes an NSS-Commander, and "Close all" closes what has a tab.   *)
ClosesTabs(c) ==
    /\ c.op \notin {"left", "right"}
    /\ c.op = "all" => Patient /\ sessions \subseteq c.ids

BackInv == TabsRun /\ broken \subseteq DOMAIN kinds /\ \A k \in DOMAIN calls : ClosesTabs(calls[k])

(* A handler is written or forgotten, the others stay. *)
Writes(c) == /\ DOMAIN calls' = DOMAIN calls
             /\ \A j \in DOMAIN calls : calls'[j] \in {calls[j], c}

LEMMA WritesCall ==
    ASSUME IInv, NEW c, Begin(c) \/ \E k \in DOMAIN calls : calls' = [calls EXCEPT ![k] = c]
    PROVE  Writes(c)
BY DEF IInv, CallsInv, Begin, Writes

LEMMA OpensRuns ==
    ASSUME IInv, TabsRun, broken \subseteq DOMAIN kinds, NEW kind \in Kinds, Opens(kind),
           UNCHANGED broken
    PROVE  TabsRun' /\ (broken \subseteq DOMAIN kinds)'
<1>1. kinds' = Append(kinds, kind) /\ sessions' = sessions \cup {NewId}
      /\ running' = IF kind = "web" THEN running ELSE running \cup {NewId}
  BY DEF Opens, Starts
<1>2. kinds \in Seq(Kinds) /\ sessions \subseteq DOMAIN kinds /\ NewId = Len(kinds) + 1
  BY DEF IInv, TabsInv, NewId
<1>3. kinds'[NewId] = kind /\ NewId \notin sessions /\ \A s \in sessions : kinds'[s] = kinds[s]
  BY <1>1, <1>2
<1>4. NewId \notin broken /\ DOMAIN kinds \subseteq DOMAIN kinds'
  BY <1>1, <1>2
<1> QED
  BY <1>1, <1>3, <1>4 DEF TabsRun

(* A session opens, by the answer of a handler or at once. *)
LEMMA OpensBack ==
    ASSUME IInv, BackInv, NEW kind \in Kinds, Opens(kind), UNCHANGED broken, NEW c, Writes(c),
           c.op \notin {"left", "right", "all"},
           Patient => \A j \in DOMAIN calls : calls'[j] \in {Idle, c}
    PROVE  BackInv'
<1>1. TabsRun' /\ (broken \subseteq DOMAIN kinds)'
  BY OpensRuns DEF BackInv
<1>2. \A k \in DOMAIN calls' : calls'[k].op \notin {"left", "right", "all"}
  <2> SUFFICES ASSUME NEW k \in DOMAIN calls'
               PROVE  calls'[k].op \notin {"left", "right", "all"}
    OBVIOUS
  <2>1. CASE Patient
    BY <2>1 DEF Writes, Idle
  <2>2. CASE ~Patient
    BY <2>2 DEF Writes, BackInv, ClosesTabs
  <2> QED
    BY <2>1, <2>2
<1> QED
  BY <1>1, <1>2 DEF BackInv, ClosesTabs

LEMMA OpenedBack ==
    ASSUME IInv, BackInv, Patient => OneCall, NEW k \in DOMAIN calls, Pending(k),
           NEW kind \in Kinds, Opens(kind), UNCHANGED broken,
           NEW c, calls' = [calls EXCEPT ![k] = c], c.op \notin {"left", "right", "all"}
    PROVE  BackInv'
BY WritesCall, AnswerOne, OpensBack

LEMMA SameTabsBack ==
    ASSUME BackInv, UNCHANGED <<tabVars, broken>>, NEW c, ClosesTabs(c), Writes(c)
    PROVE  BackInv'
<1>1. TabsRun' /\ (broken \subseteq DOMAIN kinds)'
  BY DEF BackInv, TabsRun, tabVars
<1>2. sessions' = sessions
  BY DEF tabVars
<1>3. \A k \in DOMAIN calls' : ClosesTabs(calls'[k])
  BY DEF BackInv, Writes
<1>4. \A k \in DOMAIN calls' : ClosesTabs(calls[k])'
  BY <1>2, <1>3 DEF ClosesTabs
<1> QED
  BY <1>1, <1>4 DEF BackInv

LEMMA IdleCloses == ClosesTabs(Idle)
BY DEF ClosesTabs, Idle

LEMMA CallsSameBack ==
    ASSUME BackInv, UNCHANGED <<tabVars, broken, calls>>
    PROVE  BackInv'
BY IdleCloses, SameTabsBack DEF Writes

(* Tabs go together with their children. *)
LEMMA SessionsGoBack ==
    ASSUME BackInv, NEW S, sessions' = sessions \ S, running' = running \ S,
           UNCHANGED <<kinds, broken>>, Writes(Idle)
    PROVE  BackInv'
<1>1. TabsRun' /\ (broken \subseteq DOMAIN kinds)'
  BY DEF BackInv, TabsRun
<1>2. \A k \in DOMAIN calls' : ClosesTabs(calls'[k])
  BY IdleCloses DEF BackInv, Writes
<1>3. \A k \in DOMAIN calls' : ClosesTabs(calls[k])'
  BY <1>2 DEF ClosesTabs
<1> QED
  BY <1>1, <1>3 DEF BackInv

LEMMA OpeningBack ==
    ASSUME IInv, BackInv, Opening
    PROVE  BackInv'
<1>1. ASSUME NEW kind \in Kinds \ {"web"}, NEW p \in Panes, OpenSession(kind, p)
      PROVE  BackInv'
  <2> DEFINE c == [op |-> "new", kind |-> kind, p |-> p, view |-> View]
  <2>1. Begin(c) /\ UNCHANGED <<tabVars, broken>>
    BY <1>1 DEF OpenSession, refVars
  <2>2. ClosesTabs(c)
    BY DEF ClosesTabs
  <2> HIDE DEF c
  <2> QED
    BY <2>1, <2>2, WritesCall, SameTabsBack
<1>2. ASSUME NEW kind \in Kinds \ {"web"}, NEW p \in Panes, OpenSessionHere(kind, p)
      PROVE  BackInv'
  <2> DEFINE c == [op |-> "here", kind |-> kind, p |-> p]
  <2>1. Begin(c) /\ UNCHANGED <<tabVars, broken>>
    BY <1>2 DEF OpenSessionHere, refVars
  <2>2. ClosesTabs(c)
    BY DEF ClosesTabs
  <2> HIDE DEF c
  <2> QED
    BY <2>1, <2>2, WritesCall, SameTabsBack
<1>3. ASSUME NEW p \in Panes, OpenWeb(p)
      PROVE  BackInv'
  <2>1. Opens("web") /\ UNCHANGED <<broken, calls>> /\ May("web") /\ "web" \in Kinds
    BY <1>3 DEF OpenWeb, Kinds, refVars
  <2>2. Writes(Idle) /\ Idle.op = "idle"
    BY <2>1 DEF Writes, Idle
  <2>3. Patient => \A j \in DOMAIN calls : calls'[j] \in {Idle}
    BY <2>1, PatientGesture DEF NoCalls, Pending
  <2> QED
    BY <2>1, <2>2, <2>3, OpensBack
<1>4. ASSUME NEW p \in Panes, SplitEmpty(p)
      PROVE  BackInv'
  BY <1>4, CallsSameBack DEF SplitEmpty, refVars
<1>5. ASSUME NEW p \in Panes, SplitDuplicate(p)
      PROVE  BackInv'
  <2>1. PICK kind : Begin([op |-> "duplicate", kind |-> kind, p |-> nextPane]) /\ UNCHANGED <<tabVars, broken>>
    BY <1>5 DEF SplitDuplicate, refVars
  <2> DEFINE c == [op |-> "duplicate", kind |-> kind, p |-> nextPane]
  <2>2. ClosesTabs(c)
    BY DEF ClosesTabs
  <2>3. Begin(c)
    BY <2>1
  <2> HIDE DEF c
  <2> QED
    BY <2>1, <2>2, <2>3, WritesCall, SameTabsBack
<1> QED
  BY <1>1, <1>2, <1>3, <1>4, <1>5 DEF Opening

LEMMA DraggingBack ==
    ASSUME IInv, BackInv, Dragging
    PROVE  BackInv'
<1>1. ASSUME NEW s \in Ids, NEW src \in Panes, NEW p \in Panes,
             DragToPane(s, src, p) \/ DragToEdge(s, src, p)
      PROVE  BackInv'
  BY <1>1, CallsSameBack DEF DragToPane, DragToEdge, refVars
<1>2. ASSUME NEW kind, NEW p, Begin([op |-> "zone", kind |-> kind, p |-> p, view |-> View]),
             UNCHANGED <<tabVars, broken>>
      PROVE  BackInv'
  <2> DEFINE c == [op |-> "zone", kind |-> kind, p |-> p, view |-> View]
  <2>1. ClosesTabs(c) /\ Begin(c)
    BY <1>2 DEF ClosesTabs
  <2> HIDE DEF c
  <2> QED
    BY <1>2, <2>1, WritesCall, SameTabsBack
<1>3. ASSUME NEW s \in Ids, NEW p \in Panes, DragToOwnEdge(s, p)
      PROVE  BackInv'
  BY <1>2, <1>3 DEF DragToOwnEdge, refVars
<1>4. ASSUME NEW h \in Hosts, NEW p \in Panes, NEW zone, DropHostOver(h, p, zone)
      PROVE  BackInv'
  <2> DEFINE over == [op |-> "replace", kind |-> h, p |-> p, old |-> SlotOf(desk, p)]
             close == CloseCall(SlotOf(desk, p), None)
  <2>1. UNCHANGED <<tabVars, broken>> /\ (UNCHANGED calls \/ Begin(over) \/ Begin(close))
    BY <1>4 DEF DropHostOver, refVars
  <2>2. ClosesTabs(over) /\ ClosesTabs(close)
    BY DEF ClosesTabs, CloseCall
  <2> HIDE DEF over, close
  <2>3. CASE UNCHANGED calls
    BY <2>1, <2>3, CallsSameBack
  <2>4. CASE Begin(over)
    BY <2>1, <2>2, <2>4, WritesCall, SameTabsBack
  <2>5. CASE Begin(close)
    BY <2>1, <2>2, <2>5, WritesCall, SameTabsBack
  <2> QED
    BY <2>1, <2>3, <2>4, <2>5
<1>5. ASSUME NEW h \in Hosts, NEW p \in Panes, NEW zone, DropHostBeside(h, p, zone)
      PROVE  BackInv'
  <2>1. CASE SessionsOf(h) = {}
    BY <1>2, <1>5, <2>1 DEF DropHostBeside, refVars
  <2>2. CASE SessionsOf(h) # {}
    BY <1>5, <2>2, CallsSameBack DEF DropHostBeside, refVars
  <2> QED
    BY <2>1, <2>2
<1> QED
  BY <1>1, <1>3, <1>4, <1>5 DEF Dragging

LEMMA ClosingBack ==
    ASSUME IInv, BackInv, Patient \/ "all" \notin Ops, Closing
    PROVE  BackInv'
<1>1. ASSUME NEW s, NEW leaf, Begin(CloseCall(s, leaf)), UNCHANGED <<tabVars, broken>>
      PROVE  BackInv'
  <2>1. ClosesTabs(CloseCall(s, leaf))
    BY DEF ClosesTabs, CloseCall
  <2> QED
    BY <1>1, <2>1, WritesCall, SameTabsBack
<1>2. ASSUME NEW p \in Panes, CloseInPane(p)
      PROVE  BackInv'
  BY <1>1, <1>2 DEF CloseInPane, refVars
<1>3. ASSUME NEW p \in Panes, ClosePane(p)
      PROVE  BackInv'
  <2>1. CASE SlotOf(desk, p) = None
    BY <1>3, <2>1, CallsSameBack DEF ClosePane, refVars
  <2>2. CASE SlotOf(desk, p) # None
    BY <1>1, <1>3, <2>2 DEF ClosePane, refVars
  <2> QED
    BY <2>1, <2>2
<1>4. ASSUME NEW reset \in BOOLEAN, CloseAll(reset)
      PROVE  BackInv'
  <2>1. CASE sessions # {}
    <3> DEFINE c == [op |-> "all", ids |-> sessions, reset |-> reset]
    <3>1. Begin(c) /\ UNCHANGED <<tabVars, broken>> /\ "all" \in Ops
      BY <1>4, <2>1 DEF CloseAll, May, refVars
    <3>2. ClosesTabs(c)
      BY <3>1 DEF ClosesTabs
    <3> HIDE DEF c
    <3> QED
      BY <3>1, <3>2, WritesCall, SameTabsBack
  <2>2. CASE sessions = {}
    BY <1>4, <2>2, CallsSameBack DEF CloseAll, refVars
  <2> QED
    BY <2>1, <2>2
<1> QED
  BY <1>2, <1>3, <1>4 DEF Closing

LEMMA ArrangingBack ==
    ASSUME IInv, BackInv, "commander" \notin Ops, Arranging
    PROVE  BackInv'
<1>1. ASSUME NEW w \in Workspaces, SwitchWorkspace(w) \/ CreateWorkspace(w) \/ RemoveWorkspace(w)
      PROVE  BackInv'
  BY <1>1, CallsSameBack DEF SwitchWorkspace, CreateWorkspace, RemoveWorkspace, refVars
<1>2. ASSUME NEW w \in Workspaces, CreateCommander(w)
      PROVE  FALSE
  BY <1>2 DEF CreateCommander, May
<1>3. ASSUME NEW w \in Workspaces, NEW s \in Ids, SendSession(s, w)
      PROVE  BackInv'
  BY <1>3, CallsSameBack DEF SendSession, refVars
<1>4. ASSUME NEW w \in Workspaces, NEW h \in Hosts, NEW p \in Panes, OpenInWorkspace(h, w, p)
      PROVE  BackInv'
  <2> DEFINE c == [op |-> "elsewhere", kind |-> h, p |-> p, view |-> View,
                   target |-> w, there |-> snaps[w], commander |-> w \in nss]
  <2>1. Begin(c) /\ UNCHANGED <<tabVars, broken>>
    BY <1>4 DEF OpenInWorkspace, refVars
  <2>2. ClosesTabs(c)
    BY DEF ClosesTabs
  <2> HIDE DEF c
  <2> QED
    BY <2>1, <2>2, WritesCall, SameTabsBack
<1>5. ASSUME NEW w \in Workspaces, NEW n \in Panes, ApplyPreset(w, n) \/ ApplyPresetAndSwitch(w, n)
      PROVE  BackInv'
  BY <1>5, CallsSameBack DEF ApplyPreset, ApplyPresetAndSwitch, refVars
<1>6. ASSUME NEW f \in Profiles, LoadProfile(f)
      PROVE  BackInv'
  <2>1. UNCHANGED <<tabVars, broken>>
        /\ (UNCHANGED calls \/ \E got, todo :
                  Begin([op |-> "profile", want |-> f, got |-> got, todo |-> todo]))
    BY <1>6 DEF LoadProfile
  <2>2. ASSUME NEW got, NEW todo, Begin([op |-> "profile", want |-> f, got |-> got, todo |-> todo])
        PROVE  BackInv'
    <3> DEFINE c == [op |-> "profile", want |-> f, got |-> got, todo |-> todo]
    <3>1. ClosesTabs(c) /\ Begin(c)
      BY <2>2 DEF ClosesTabs
    <3> HIDE DEF c
    <3> QED
      BY <2>1, <3>1, WritesCall, SameTabsBack
  <2> QED
    BY <2>1, <2>2, CallsSameBack
<1> QED
  BY <1>1, <1>2, <1>3, <1>4, <1>5, <1>6 DEF Arranging

LEMMA AnswersBack ==
    ASSUME IInv, BackInv, Patient => OneCall, NEW k \in DOMAIN calls, Answers(k)
    PROVE  BackInv'
<1> DEFINE c == calls[k]
<1>1. Pending(k)
  BY AnswersMove
<1>2. End(k) => Writes(Idle)
  BY WritesCall DEF End
<1>3. ASSUME UNCHANGED <<tabVars, broken>>, End(k)
      PROVE  BackInv'
  BY <1>2, <1>3, IdleCloses, SameTabsBack
<1>4. ASSUME NEW kind \in Kinds, Opens(kind), UNCHANGED broken, End(k)
      PROVE  BackInv'
  <2>1. Idle.op = "idle"
    BY DEF Idle
  <2> QED
    BY <1>1, <1>4, <2>1, OpenedBack DEF End
<1>5. ASSUME NEW kind \in Kinds, Opens(kind), UNCHANGED broken, NEW s,
             calls' = [calls EXCEPT ![k] = CloseCall(s, None)]
      PROVE  BackInv'
  <2>1. CloseCall(s, None).op = "close"
    BY DEF CloseCall
  <2> QED
    BY <1>1, <1>5, <2>1, OpenedBack
<1>6. /\ c.op \in {"new", "here", "duplicate", "zone", "replace", "elsewhere"} => c.kind \in Kinds
      /\ c.op = "profile" => \A p \in c.todo : c.want[p] \in Kinds
  <2>1. CASE c.op = "profile"
    BY <2>1, CallTyped, CallShape, ProfileDomain
  <2>2. CASE c.op # "profile"
    BY <2>2, CallTyped, CallShape
  <2> QED
    BY <2>1, <2>2
<1>7. CASE OpenedNew(k) \/ OpenedInActive(k)
  <2>1. c.kind \in Kinds /\ Opens(c.kind) /\ UNCHANGED broken
    BY <1>6, <1>7 DEF OpenedNew, OpenedInActive, refVars
  <2>2. End(k) \/ \E s : calls' = [calls EXCEPT ![k] = CloseCall(s, None)]
    BY <1>7 DEF OpenedNew, OpenedInActive, PlaceInNewOrFreePane, End
  <2> QED
    BY <1>4, <1>5, <2>1, <2>2
<1>8. CASE OpenedHere(k) \/ OpenedInZone(k) \/ OpenedDuplicate(k) \/ OpenedElsewhere(k)
  <2>1. c.kind \in Kinds /\ Opens(c.kind) /\ UNCHANGED broken /\ End(k)
    BY <1>6, <1>8 DEF OpenedHere, OpenedInZone, OpenedDuplicate, OpenedElsewhere, refVars
  <2> QED
    BY <1>4, <2>1
<1>9. CASE OpenedOver(k)
  <2>1. c.kind \in Kinds /\ Opens(c.kind) /\ UNCHANGED broken
    BY <1>6, <1>9 DEF OpenedOver, refVars
  <2>2. End(k) \/ calls' = [calls EXCEPT ![k] = CloseCall(c.old, None)]
    BY <1>9 DEF OpenedOver, End
  <2> QED
    BY <1>4, <1>5, <2>1, <2>2
<1>10. CASE DuplicateFails(k)
             \/ \E op \in {"new", "here", "zone", "replace", "elsewhere", "left", "right"} :
                   StartFails(k, op)
  BY <1>3, <1>10 DEF DuplicateFails, StartFails, refVars
<1>11. CASE LeftStarted(k) \/ RightStarted(k)
  BY <1>11 DEF LeftStarted, RightStarted, BackInv, ClosesTabs
<1>12. CASE ProfileStep(k)
  <2>1. PICK p \in c.todo, ok \in BOOLEAN :
          /\ IF ok THEN Opens(c.want[p]) ELSE UNCHANGED tabVars
          /\ UNCHANGED broken
          /\ \/ End(k)
             \/ \E got : calls' = [calls EXCEPT ![k] =
                              [op |-> "profile", want |-> c.want, got |-> got,
                               todo |-> c.todo \ {p}]]
    BY <1>12 DEF ProfileStep
  <2>2. c.want[p] \in Kinds
    BY <1>6, <1>12 DEF ProfileStep
  <2>3. CASE End(k)
    BY <1>3, <1>4, <2>1, <2>2, <2>3
  <2>4. ASSUME NEW got, calls' = [calls EXCEPT ![k] =
                  [op |-> "profile", want |-> c.want, got |-> got, todo |-> c.todo \ {p}]]
        PROVE  BackInv'
    <3> DEFINE next == [op |-> "profile", want |-> c.want, got |-> got, todo |-> c.todo \ {p}]
    <3>1. next.op = "profile" /\ ClosesTabs(next) /\ calls' = [calls EXCEPT ![k] = next]
      BY <2>4 DEF ClosesTabs
    <3> HIDE DEF next
    <3>2. CASE ok
      BY <1>1, <2>1, <2>2, <3>1, <3>2, OpenedBack
    <3>3. CASE ~ok
      <4>1. Writes(next) /\ UNCHANGED <<tabVars, broken>>
        BY <2>1, <3>1, <3>3, WritesCall
      <4> QED
        BY <3>1, <4>1, SameTabsBack
    <3> QED
      BY <3>2, <3>3
  <2> QED
    BY <2>1, <2>3, <2>4
<1>13. CASE Closed(k)
  BY <1>2, <1>13, SessionsGoBack DEF Closed, RemoveEverywhere, refVars
<1>14. CASE AllClosed(k)
  <2>1. c.op = "all" /\ sessions \subseteq c.ids
    BY <1>14 DEF AllClosed, BackInv, ClosesTabs
  <2>2. sessions' = sessions \ c.ids /\ running' = running \ c.ids
        /\ UNCHANGED <<kinds, broken>> /\ End(k)
    BY <1>14, <2>1 DEF AllClosed, refVars
  <2> QED
    BY <1>2, <2>2, SessionsGoBack
<1>15. CASE CloseFails(k)
  <2>1. /\ running' = running \ {c.s} /\ broken' = broken \cup (running \cap {c.s})
        /\ UNCHANGED <<sessions, kinds>> /\ End(k)
    BY <1>15 DEF CloseFails
  <2>2. TabsRun' /\ (broken \subseteq DOMAIN kinds)'
    BY <2>1 DEF BackInv, TabsRun, IInv, TabsInv
  <2>3. \A j \in DOMAIN calls' : ClosesTabs(calls'[j])
    BY <1>2, <2>1, IdleCloses DEF BackInv, Writes
  <2>4. \A j \in DOMAIN calls' : ClosesTabs(calls[j])'
    BY <2>1, <2>3 DEF ClosesTabs
  <2> QED
    BY <2>2, <2>4 DEF BackInv
<1> QED
  BY <1>7, <1>8, <1>9, <1>10, <1>11, <1>12, <1>13, <1>14, <1>15 DEF Answers

(* A user who makes no NSS-Commander, and who waits for what he started or *)
(* never closes all sessions at once, has a tab for each child of the      *)
(* backend, and tabs without one only of web consoles and of sessions whose*)
(* close failed half-way, once everything has ended; handlers may overlap  *)
(* (closeSessionById, connectToHost and the other starts).                 *)
THEOREM TabsAreChildren ==
    ASSUME "commander" \notin Ops, Patient \/ "all" \notin Ops
    PROVE  Spec => []TabsMatchBackend
<1>1. Init => BackInv
  BY DEF Init, BackInv, TabsRun, ClosesTabs, Idle
<1>2. ASSUME IInv, BackInv, Patient => OneCall, [Next]_vars
      PROVE  BackInv'
  <2>1. ASSUME Opening \/ Dragging \/ Closing \/ Arranging
        PROVE  BackInv'
    BY <1>2, <2>1, OpeningBack, DraggingBack, ClosingBack, ArrangingBack
  <2>2. ASSUME NEW k \in DOMAIN calls, Answers(k)
        PROVE  BackInv'
    BY <1>2, <2>2, AnswersBack
  <2>3. CASE RunEffects
    BY <1>2, <2>3, CallsSameBack DEF RunEffects
  <2>4. ASSUME NEW s \in Ids, Reaped(s)
        PROVE  BackInv'
    BY <1>2, <2>4, SessionsGoBack DEF Reaped, RemoveEverywhere, Writes
  <2>5. CASE Restart
    <3>1. /\ sessions' = {} /\ running' = {} /\ calls' = [k \in DOMAIN calls |-> Idle]
          /\ UNCHANGED <<kinds, broken>>
      BY <2>5 DEF Restart
    <3> QED
      BY <1>2, <3>1 DEF BackInv, TabsRun, ClosesTabs, Idle
  <2>6. CASE UNCHANGED vars
    BY <1>2, <2>6, CallsSameBack DEF vars, refVars
  <2> QED
    BY <1>2, <2>1, <2>2, <2>3, <2>4, <2>5, <2>6 DEF Next
<1>3. BackInv => TabsMatchBackend
  BY DEF BackInv, TabsRun, TabsMatchBackend
<1>4. CASE Patient
  BY <1>1, <1>2, <1>3, <1>4, LayoutInvariant, OneCallInvariant, PTL DEF Spec
<1>5. CASE ~Patient
  BY <1>1, <1>2, <1>3, <1>5, LayoutInvariant, PTL DEF Spec
<1> QED
  BY <1>4, <1>5

-----------------------------------------------------------------------------
(* What the effects have left                                              *)

(* A change that the next pass still has to look at is marked; when none   *)
(* is, the orphan effect has seen every session without a slot and the     *)
(* next pane number is beyond the slot array.                              *)
Rest ==
    /\ dirty \cap {"tabs", "slots", "snaps"} = {} => Orphans \subseteq seen \cup closing
    /\ "slots" \in dirty \/ nextPane > Len(desk.slots)

LEMMA SlotsTouched ==
    ASSUME "slots" \in dirty'
    PROVE  Rest'
BY DEF Rest

LEMMA OthersTouched ==
    ASSUME Rest, dirty \subseteq dirty', dirty' \cap {"tabs", "snaps"} # {},
           UNCHANGED <<desk, nextPane>>
    PROVE  Rest'
BY DEF Rest

LEMMA RestStays ==
    ASSUME Rest, UNCHANGED <<sessions, desk, snaps, nextPane, seen, closing, dirty>>
    PROVE  Rest'
<1>1. Orphans' = Orphans
  BY DEF Orphans, Assigned
<1> QED
  BY <1>1 DEF Rest

LEMMA OpeningRest ==
    ASSUME Rest, Opening
    PROVE  Rest'
<1>1. ASSUME NEW kind \in Kinds \ {"web"}, NEW p \in Panes,
             OpenSession(kind, p) \/ OpenSessionHere(kind, p)
      PROVE  Rest'
  BY <1>1, RestStays DEF OpenSession, OpenSessionHere, tabVars, wsVars, refVars
<1>2. ASSUME NEW p \in Panes, OpenWeb(p) \/ SplitEmpty(p) \/ SplitDuplicate(p)
      PROVE  Rest'
  BY <1>2, SlotsTouched DEF OpenWeb, SplitEmpty, SplitDuplicate, Touch
<1> QED
  BY <1>1, <1>2 DEF Opening

LEMMA DraggingRest ==
    ASSUME Rest, Dragging
    PROVE  Rest'
<1>1. ASSUME NEW s \in Ids, NEW src \in Panes, NEW p \in Panes,
             DragToPane(s, src, p) \/ DragToEdge(s, src, p)
      PROVE  Rest'
  BY <1>1, SlotsTouched DEF DragToPane, DragToEdge, Touch
<1>2. ASSUME NEW s \in Ids, NEW p \in Panes, DragToOwnEdge(s, p)
      PROVE  Rest'
  BY <1>2, RestStays DEF DragToOwnEdge, tabVars, wsVars, refVars
<1>3. ASSUME NEW h \in Hosts, NEW p \in Panes, NEW zone,
             DropHostOver(h, p, zone) \/ DropHostBeside(h, p, zone)
      PROVE  Rest'
  <2>1. CASE SessionsOf(h) = {}
    BY <1>3, <2>1, RestStays DEF DropHostOver, DropHostBeside, tabVars, wsVars, refVars
  <2>2. CASE SessionsOf(h) # {}
    BY <1>3, <2>2, SlotsTouched DEF DropHostOver, DropHostBeside, Touch
  <2> QED
    BY <2>1, <2>2
<1> QED
  BY <1>1, <1>2, <1>3 DEF Dragging

LEMMA ClosingRest ==
    ASSUME Rest, Closing
    PROVE  Rest'
<1>1. ASSUME NEW p \in Panes, CloseInPane(p)
      PROVE  Rest'
  BY <1>1, RestStays DEF CloseInPane, tabVars, wsVars, refVars
<1>2. ASSUME NEW p \in Panes, ClosePane(p)
      PROVE  Rest'
  <2>1. CASE SlotOf(desk, p) = None
    BY <1>2, <2>1, SlotsTouched DEF ClosePane, Touch
  <2>2. CASE SlotOf(desk, p) # None
    BY <1>2, <2>2, RestStays DEF ClosePane, tabVars, wsVars, refVars
  <2> QED
    BY <2>1, <2>2
<1>3. ASSUME NEW reset \in BOOLEAN, CloseAll(reset)
      PROVE  Rest'
  <2>1. CASE sessions = {}
    BY <1>3, <2>1, SlotsTouched DEF CloseAll, Touch
  <2>2. CASE sessions # {}
    BY <1>3, <2>2, RestStays DEF CloseAll, tabVars, wsVars, refVars
  <2> QED
    BY <2>1, <2>2
<1> QED
  BY <1>1, <1>2, <1>3 DEF Closing

LEMMA ArrangingRest ==
    ASSUME Rest, Arranging
    PROVE  Rest'
<1>1. ASSUME NEW w \in Workspaces, SwitchWorkspace(w) \/ CreateWorkspace(w)
      PROVE  Rest'
  BY <1>1, SlotsTouched DEF SwitchWorkspace, CreateWorkspace, Touch
<1>2. ASSUME NEW w \in Workspaces, RemoveWorkspace(w)
      PROVE  Rest'
  <2>1. CASE w # ws
    BY <1>2, <2>1, OthersTouched DEF RemoveWorkspace, Touch
  <2>2. CASE w = ws
    BY <1>2, <2>2, SlotsTouched DEF RemoveWorkspace, Touch
  <2> QED
    BY <2>1, <2>2
<1>3. ASSUME NEW w \in Workspaces, CreateCommander(w)
      PROVE  Rest'
  BY <1>3, RestStays DEF CreateCommander, tabVars, wsVars, refVars
<1>4. ASSUME NEW w \in Workspaces, NEW s \in Ids, SendSession(s, w)
      PROVE  Rest'
  BY <1>4, SlotsTouched DEF SendSession, Touch
<1>5. ASSUME NEW w \in Workspaces, NEW h \in Hosts, NEW p \in Panes, OpenInWorkspace(h, w, p)
      PROVE  Rest'
  BY <1>5, RestStays DEF OpenInWorkspace, tabVars, wsVars, refVars
<1>6. ASSUME NEW w \in Workspaces, NEW n \in Panes, ApplyPreset(w, n)
      PROVE  Rest'
  <2>1. CASE w # ws
    BY <1>6, <2>1, OthersTouched DEF ApplyPreset, Touch
  <2>2. CASE w = ws
    BY <1>6, <2>2, SlotsTouched DEF ApplyPreset, Touch
  <2> QED
    BY <2>1, <2>2
<1>7. ASSUME NEW w \in Workspaces, NEW n \in Panes, ApplyPresetAndSwitch(w, n)
      PROVE  Rest'
  BY <1>7, SlotsTouched DEF ApplyPresetAndSwitch, Touch
<1>8. ASSUME NEW f \in Profiles, LoadProfile(f)
      PROVE  Rest'
  <2>1. /\ Touch({"slots", "panes"}) \/ UNCHANGED <<desk, nextPane, dirty>>
        /\ UNCHANGED <<sessions, snaps, seen, closing>>
    BY <1>8 DEF LoadProfile, tabVars, wsVars
  <2> QED
    BY <2>1, SlotsTouched, RestStays DEF Touch
<1> QED
  BY <1>1, <1>2, <1>3, <1>4, <1>5, <1>6, <1>7, <1>8 DEF Arranging

LEMMA AnswersRest ==
    ASSUME Rest, NEW k \in DOMAIN calls, Answers(k)
    PROVE  Rest'
<1>1. CASE OpenedNew(k) \/ OpenedHere(k) \/ OpenedInZone(k) \/ OpenedOver(k) \/ OpenedDuplicate(k)
           \/ DuplicateFails(k) \/ OpenedInActive(k)
  BY <1>1, SlotsTouched
     DEF OpenedNew, OpenedHere, OpenedInZone, OpenedOver, OpenedDuplicate, DuplicateFails,
         OpenedInActive, Touch
<1>2. CASE OpenedElsewhere(k) \/ RightStarted(k) \/ Closed(k) \/ AllClosed(k)
  BY <1>2, SlotsTouched DEF OpenedElsewhere, RightStarted, Closed, AllClosed, Touch, Everything
<1>3. CASE LeftStarted(k)
  BY <1>3, RestStays DEF LeftStarted, wsVars, refVars
<1>4. CASE CloseFails(k)
  BY <1>4, RestStays DEF CloseFails, wsVars
<1>5. ASSUME NEW op, StartFails(k, op)
      PROVE  Rest'
  BY <1>5, RestStays DEF StartFails, tabVars, wsVars, refVars
<1>6. CASE ProfileStep(k)
  <2>1. PICK p \in calls[k].todo, ok \in BOOLEAN :
          /\ IF ok THEN Opens(calls[k].want[p]) ELSE UNCHANGED tabVars
          /\ \/ Touch({"tabs", "slots", "panes"})
             \/ Touch(IF ok THEN {"tabs"} ELSE {}) /\ UNCHANGED <<desk, nextPane>>
          /\ UNCHANGED <<snaps, seen, closing>>
    BY <1>6 DEF ProfileStep, wsVars
  <2>2. CASE Touch({"tabs", "slots", "panes"})
    BY <2>2, SlotsTouched DEF Touch
  <2>3. CASE ok /\ Touch({"tabs"}) /\ UNCHANGED <<desk, nextPane>>
    BY <2>3, OthersTouched DEF Touch
  <2>4. CASE ~ok /\ Touch({}) /\ UNCHANGED <<desk, nextPane>>
    BY <2>1, <2>4, RestStays DEF Touch, tabVars
  <2> QED
    BY <2>1, <2>2, <2>3, <2>4
<1> QED
  BY <1>1, <1>2, <1>3, <1>4, <1>5, <1>6 DEF Answers

LEMMA RunEffectsRest ==
    ASSUME IInv, Rest, RunEffects
    PROVE  Rest'
<1>1. CASE CompactsNow \/ Cleans
  BY <1>1, SlotsTouched DEF RunEffects
<1>2. CASE ~CompactsNow /\ ~Cleans
  <2>1. desk' = desk /\ nextPane' = NumberAfterSlots /\ UNCHANGED sessions /\ Reap
    BY <1>2 DEF RunEffects, tabVars
  <2>2. nextPane' > Len(desk'.slots)
    <3>1. desk \in Good /\ nextPane \in Nat
      BY DEF IInv, PaneNr
    <3>2. Len(desk.slots) \in Nat
      BY <3>1, GoodLayout
    <3> QED
      BY <2>1, <3>1, <3>2 DEF NumberAfterSlots, Rest
  <2>3. CASE SyncsSnapshot
    BY <2>2, <2>3 DEF RunEffects, Rest
  <2>4. CASE ~SyncsSnapshot
    <3>1. Orphans' = Orphans
      BY <2>1, <2>4 DEF RunEffects, Orphans, Assigned
    <3>2. Orphans \subseteq seen' \cup closing'
      BY <2>1 DEF Reap, Rest
    <3> QED
      BY <2>2, <3>1, <3>2 DEF Rest
  <2> QED
    BY <2>3, <2>4
<1> QED
  BY <1>1, <1>2

LEMMA RestInvariant == Spec => []Rest
<1>1. Init => Rest
  BY DEF Init, Rest, Orphans, Blank
<1>2. ASSUME IInv, Rest, [Next]_vars
      PROVE  Rest'
  <2>1. CASE Opening \/ Dragging \/ Closing \/ Arranging
    BY <1>2, <2>1, OpeningRest, DraggingRest, ClosingRest, ArrangingRest
  <2>2. ASSUME NEW k \in DOMAIN calls, Answers(k)
        PROVE  Rest'
    BY <1>2, <2>2, AnswersRest
  <2>3. CASE RunEffects
    BY <1>2, <2>3, RunEffectsRest
  <2>4. ASSUME NEW s \in Ids, Reaped(s)
        PROVE  Rest'
    BY <2>4, SlotsTouched DEF Reaped, Touch
  <2>5. CASE Restart
    BY <2>5, SlotsTouched DEF Restart
  <2>6. CASE UNCHANGED vars
    BY <1>2, <2>6, RestStays DEF vars, tabVars, wsVars, refVars
  <2> QED
    BY <1>2, <2>1, <2>2, <2>3, <2>4, <2>5, <2>6 DEF Next
<1> QED
  BY <1>1, <1>2, LayoutInvariant, PTL DEF Spec

(* The number that nextPaneIndexRef gives to the next split is in use by   *)
(* no pane of the desk once the effects have run, after any switch, reset, *)
(* preset, profile or restart, also when handlers overlap: the effect on   *)
(* splitSlots has raised it beyond the slot array that all panes are in.   *)
THEOREM NumbersStayFresh == Spec => []FreshNumbers
<1>1. IInv /\ Rest => FreshNumbers
  <2> SUFFICES ASSUME IInv, Rest, Settled
               PROVE  nextPane \notin desk.panes \cup DOMAIN desk.slots
    BY DEF FreshNumbers
  <2>1. desk \in Good /\ nextPane > Len(desk.slots) /\ nextPane \in Nat
    BY DEF IInv, PaneNr, Rest, Settled
  <2>2. desk.panes \subseteq 1..Len(desk.slots) /\ DOMAIN desk.slots = 1..Len(desk.slots)
        /\ Len(desk.slots) \in Nat
    BY <2>1, GoodLayout
  <2> QED
    BY <2>1, <2>2
<1> QED
  BY <1>1, LayoutInvariant, RestInvariant, PTL

(* The orphan effect misses no session that has lost its last slot, by     *)
(* whatever gesture or late answer, in any workspace: when nothing moves   *)
(* any more, it has noted the session or its close is under way.           *)
THEOREM OrphansAreFound == Spec => []OrphansAreSeen
<1>1. Rest => OrphansAreSeen
  BY DEF Rest, OrphansAreSeen, Quiet, Settled
<1> QED
  BY <1>1, RestInvariant, PTL

-----------------------------------------------------------------------------
(* Tab bar and snapshots                                                   *)

Home == DOMAIN snaps = wsOrder /\ ws \in wsOrder

(* A handler that will save the desk, or show another workspace, names     *)
(* workspaces that are in the tab bar.                                     *)
NamesTabs(c) ==
    /\ c.op \in {"left", "right", "elsewhere"} => c.view.ws \in wsOrder
    /\ c.op = "elsewhere" => c.target \in wsOrder

HomeInv == Home /\ \A k \in DOMAIN calls : NamesTabs(calls[k])

LEMMA IdleNames == NamesTabs(Idle)
BY DEF NamesTabs, Idle

(* No workspace goes. *)
LEMMA HomeGrows ==
    ASSUME HomeInv, Home', wsOrder \subseteq wsOrder', NEW c, NamesTabs(c), Writes(c)
    PROVE  HomeInv'
<1>1. \A k \in DOMAIN calls' : NamesTabs(calls'[k])
  BY DEF HomeInv, Writes
<1>2. \A k \in DOMAIN calls' : NamesTabs(calls[k])'
  BY <1>1 DEF NamesTabs
<1> QED
  BY <1>2 DEF HomeInv

LEMMA HomeStays ==
    ASSUME HomeInv, UNCHANGED <<ws, wsOrder>>, DOMAIN snaps' = DOMAIN snaps,
           NEW c, NamesTabs(c), Writes(c)
    PROVE  HomeInv'
BY HomeGrows DEF HomeInv, Home

LEMMA HomeWaits ==
    ASSUME HomeInv, UNCHANGED wsVars, NEW c, NamesTabs(c), Writes(c)
    PROVE  HomeInv'
BY HomeStays DEF wsVars

LEMMA HomeSame ==
    ASSUME HomeInv, UNCHANGED wsVars, UNCHANGED calls
    PROVE  HomeInv'
BY IdleNames, HomeWaits DEF Writes

LEMMA OpeningHome ==
    ASSUME IInv, HomeInv, Opening
    PROVE  HomeInv'
<1>1. ASSUME NEW kind \in Kinds \ {"web"}, NEW p \in Panes, OpenSession(kind, p)
      PROVE  HomeInv'
  <2> DEFINE c == [op |-> "new", kind |-> kind, p |-> p, view |-> View]
  <2>1. Begin(c) /\ UNCHANGED wsVars
    BY <1>1 DEF OpenSession
  <2>2. NamesTabs(c)
    BY DEF NamesTabs
  <2> HIDE DEF c
  <2> QED
    BY <2>1, <2>2, WritesCall, HomeWaits
<1>2. ASSUME NEW kind \in Kinds \ {"web"}, NEW p \in Panes, OpenSessionHere(kind, p)
      PROVE  HomeInv'
  <2> DEFINE c == [op |-> "here", kind |-> kind, p |-> p]
  <2>1. Begin(c) /\ UNCHANGED wsVars
    BY <1>2 DEF OpenSessionHere
  <2>2. NamesTabs(c)
    BY DEF NamesTabs
  <2> HIDE DEF c
  <2> QED
    BY <2>1, <2>2, WritesCall, HomeWaits
<1>3. ASSUME NEW p \in Panes, OpenWeb(p) \/ SplitEmpty(p)
      PROVE  HomeInv'
  BY <1>3, HomeSame DEF OpenWeb, SplitEmpty
<1>4. ASSUME NEW p \in Panes, SplitDuplicate(p)
      PROVE  HomeInv'
  <2>1. PICK kind : Begin([op |-> "duplicate", kind |-> kind, p |-> nextPane]) /\ UNCHANGED wsVars
    BY <1>4 DEF SplitDuplicate
  <2> DEFINE c == [op |-> "duplicate", kind |-> kind, p |-> nextPane]
  <2>2. NamesTabs(c) /\ Begin(c)
    BY <2>1 DEF NamesTabs
  <2> HIDE DEF c
  <2> QED
    BY <2>1, <2>2, WritesCall, HomeWaits
<1> QED
  BY <1>1, <1>2, <1>3, <1>4 DEF Opening

LEMMA DraggingHome ==
    ASSUME IInv, HomeInv, Dragging
    PROVE  HomeInv'
<1>1. ASSUME NEW s \in Ids, NEW src \in Panes, NEW p \in Panes,
             DragToPane(s, src, p) \/ DragToEdge(s, src, p)
      PROVE  HomeInv'
  BY <1>1, HomeSame DEF DragToPane, DragToEdge
<1>2. ASSUME NEW kind, NEW p, Begin([op |-> "zone", kind |-> kind, p |-> p, view |-> View]),
             UNCHANGED wsVars
      PROVE  HomeInv'
  <2> DEFINE c == [op |-> "zone", kind |-> kind, p |-> p, view |-> View]
  <2>1. NamesTabs(c) /\ Begin(c)
    BY <1>2 DEF NamesTabs
  <2> HIDE DEF c
  <2> QED
    BY <1>2, <2>1, WritesCall, HomeWaits
<1>3. ASSUME NEW s \in Ids, NEW p \in Panes, DragToOwnEdge(s, p)
      PROVE  HomeInv'
  BY <1>2, <1>3 DEF DragToOwnEdge
<1>4. ASSUME NEW h \in Hosts, NEW p \in Panes, NEW zone, DropHostOver(h, p, zone)
      PROVE  HomeInv'
  <2> DEFINE over == [op |-> "replace", kind |-> h, p |-> p, old |-> SlotOf(desk, p)]
             close == CloseCall(SlotOf(desk, p), None)
  <2>1. UNCHANGED wsVars /\ (UNCHANGED calls \/ Begin(over) \/ Begin(close))
    BY <1>4 DEF DropHostOver
  <2>2. NamesTabs(over) /\ NamesTabs(close)
    BY DEF NamesTabs, CloseCall
  <2> HIDE DEF over, close
  <2>3. CASE UNCHANGED calls
    BY <2>1, <2>3, HomeSame
  <2>4. CASE Begin(over)
    BY <2>1, <2>2, <2>4, WritesCall, HomeWaits
  <2>5. CASE Begin(close)
    BY <2>1, <2>2, <2>5, WritesCall, HomeWaits
  <2> QED
    BY <2>1, <2>3, <2>4, <2>5
<1>5. ASSUME NEW h \in Hosts, NEW p \in Panes, NEW zone, DropHostBeside(h, p, zone)
      PROVE  HomeInv'
  <2>1. CASE SessionsOf(h) = {}
    BY <1>2, <1>5, <2>1 DEF DropHostBeside
  <2>2. CASE SessionsOf(h) # {}
    BY <1>5, <2>2, HomeSame DEF DropHostBeside
  <2> QED
    BY <2>1, <2>2
<1> QED
  BY <1>1, <1>3, <1>4, <1>5 DEF Dragging

LEMMA ClosingHome ==
    ASSUME IInv, HomeInv, Closing
    PROVE  HomeInv'
<1>1. ASSUME NEW s, NEW leaf, Begin(CloseCall(s, leaf)), UNCHANGED wsVars
      PROVE  HomeInv'
  <2>1. NamesTabs(CloseCall(s, leaf))
    BY DEF NamesTabs, CloseCall
  <2> QED
    BY <1>1, <2>1, WritesCall, HomeWaits
<1>2. ASSUME NEW p \in Panes, CloseInPane(p)
      PROVE  HomeInv'
  BY <1>1, <1>2 DEF CloseInPane
<1>3. ASSUME NEW p \in Panes, ClosePane(p)
      PROVE  HomeInv'
  <2>1. CASE SlotOf(desk, p) = None
    BY <1>3, <2>1, HomeSame DEF ClosePane
  <2>2. CASE SlotOf(desk, p) # None
    BY <1>1, <1>3, <2>2 DEF ClosePane
  <2> QED
    BY <2>1, <2>2
<1>4. ASSUME NEW reset \in BOOLEAN, CloseAll(reset)
      PROVE  HomeInv'
  <2>1. CASE sessions # {}
    <3> DEFINE c == [op |-> "all", ids |-> sessions, reset |-> reset]
    <3>1. Begin(c) /\ UNCHANGED wsVars
      BY <1>4, <2>1 DEF CloseAll
    <3>2. NamesTabs(c)
      BY DEF NamesTabs
    <3> HIDE DEF c
    <3> QED
      BY <3>1, <3>2, WritesCall, HomeWaits
  <2>2. CASE sessions = {}
    BY <1>4, <2>2, HomeSame DEF CloseAll
  <2> QED
    BY <2>1, <2>2
<1> QED
  BY <1>2, <1>3, <1>4 DEF Closing

(* A removed workspace is in no closure. *)
LEMMA RemovedHome ==
    ASSUME HomeInv, Patient, NEW w \in Workspaces, RemoveWorkspace(w)
    PROVE  HomeInv'
<1>1. NoCalls /\ UNCHANGED calls
  BY PatientGesture DEF RemoveWorkspace
<1>2. DOMAIN snaps' = DOMAIN snaps \ {w} /\ wsOrder' = wsOrder \ {w}
  BY DEF RemoveWorkspace, Forget
<1>3. ws' \in wsOrder'
  BY <1>2 DEF RemoveWorkspace, Show, HomeInv, Home
<1>4. \A k \in DOMAIN calls' : NamesTabs(calls[k])'
  BY <1>1 DEF NoCalls, Pending, NamesTabs, Idle
<1> QED
  BY <1>2, <1>3, <1>4 DEF HomeInv, Home

LEMMA ArrangingHome ==
    ASSUME IInv, HomeInv, Patient \/ "remove" \notin Ops, Arranging
    PROVE  HomeInv'
<1>1. ASSUME UNCHANGED calls, Home', wsOrder \subseteq wsOrder'
      PROVE  HomeInv'
  BY <1>1, IdleNames, HomeGrows DEF Writes
<1>2. ASSUME NEW w \in Workspaces, SwitchWorkspace(w)
      PROVE  HomeInv'
  BY <1>1, <1>2 DEF SwitchWorkspace, Save, Show, HomeInv, Home
<1>3. ASSUME NEW w \in Workspaces, CreateWorkspace(w)
      PROVE  HomeInv'
  BY <1>1, <1>3 DEF CreateWorkspace, Show, HomeInv, Home
<1>4. ASSUME NEW w \in Workspaces, RemoveWorkspace(w)
      PROVE  HomeInv'
  <2>1. Patient
    BY <1>4 DEF RemoveWorkspace, May
  <2> QED
    BY <1>4, <2>1, RemovedHome
<1>5. ASSUME NEW w \in Workspaces, CreateCommander(w)
      PROVE  HomeInv'
  <2> DEFINE c == [op |-> "left", target |-> w, view |-> View]
  <2>1. Begin(c) /\ UNCHANGED wsVars
    BY <1>5 DEF CreateCommander
  <2>2. NamesTabs(c)
    BY DEF NamesTabs, View, HomeInv, Home
  <2> HIDE DEF c
  <2> QED
    BY <2>1, <2>2, WritesCall, HomeWaits
<1>6. ASSUME NEW w \in Workspaces, NEW s \in Ids, SendSession(s, w)
      PROVE  HomeInv'
  BY <1>1, <1>6 DEF SendSession, Save, HomeInv, Home
<1>7. ASSUME NEW w \in Workspaces, NEW h \in Hosts, NEW p \in Panes, OpenInWorkspace(h, w, p)
      PROVE  HomeInv'
  <2> DEFINE c == [op |-> "elsewhere", kind |-> h, p |-> p, view |-> View,
                   target |-> w, there |-> snaps[w], commander |-> w \in nss]
  <2>1. Begin(c) /\ UNCHANGED wsVars /\ w \in wsOrder
    BY <1>7 DEF OpenInWorkspace
  <2>2. NamesTabs(c)
    BY <2>1 DEF NamesTabs, View, HomeInv, Home
  <2> HIDE DEF c
  <2> QED
    BY <2>1, <2>2, WritesCall, HomeWaits
<1>8. ASSUME NEW w \in Workspaces, NEW n \in Panes, ApplyPreset(w, n)
      PROVE  HomeInv'
  BY <1>1, <1>8 DEF ApplyPreset, Save, HomeInv, Home
<1>9. ASSUME NEW w \in Workspaces, NEW n \in Panes, ApplyPresetAndSwitch(w, n)
      PROVE  HomeInv'
  BY <1>1, <1>9 DEF ApplyPresetAndSwitch, Save, Show, HomeInv, Home
<1>10. ASSUME NEW f \in Profiles, LoadProfile(f)
       PROVE  HomeInv'
  <2>1. UNCHANGED wsVars
        /\ (UNCHANGED calls \/ \E got, todo :
                  Begin([op |-> "profile", want |-> f, got |-> got, todo |-> todo]))
    BY <1>10 DEF LoadProfile
  <2>2. ASSUME NEW got, NEW todo, Begin([op |-> "profile", want |-> f, got |-> got, todo |-> todo])
        PROVE  HomeInv'
    <3> DEFINE c == [op |-> "profile", want |-> f, got |-> got, todo |-> todo]
    <3>1. NamesTabs(c) /\ Begin(c)
      BY <2>2 DEF NamesTabs
    <3> HIDE DEF c
    <3> QED
      BY <2>1, <3>1, WritesCall, HomeWaits
  <2> QED
    BY <2>1, <2>2, HomeSame
<1> QED
  BY <1>2, <1>3, <1>4, <1>5, <1>6, <1>7, <1>8, <1>9, <1>10 DEF Arranging

LEMMA AnswersHome ==
    ASSUME IInv, HomeInv, NEW k \in DOMAIN calls, Answers(k)
    PROVE  HomeInv'
<1> DEFINE c == calls[k]
<1>1. End(k) => Writes(Idle)
  BY WritesCall DEF End
<1>2. ASSUME UNCHANGED wsVars, End(k)
      PROVE  HomeInv'
  BY <1>1, <1>2, IdleNames, HomeWaits
<1>3. ASSUME UNCHANGED wsVars, NEW s, calls' = [calls EXCEPT ![k] = CloseCall(s, None)]
      PROVE  HomeInv'
  <2>1. NamesTabs(CloseCall(s, None))
    BY DEF NamesTabs, CloseCall
  <2> QED
    BY <1>3, <2>1, WritesCall, HomeWaits
<1>4. CASE OpenedNew(k) \/ OpenedInActive(k)
  <2>1. UNCHANGED wsVars
        /\ (End(k) \/ \E s : calls' = [calls EXCEPT ![k] = CloseCall(s, None)])
    BY <1>4 DEF OpenedNew, OpenedInActive, PlaceInNewOrFreePane, End
  <2> QED
    BY <1>2, <1>3, <2>1
<1>5. CASE OpenedHere(k) \/ OpenedInZone(k) \/ OpenedDuplicate(k) \/ DuplicateFails(k)
             \/ CloseFails(k)
  BY <1>2, <1>5 DEF OpenedHere, OpenedInZone, OpenedDuplicate, DuplicateFails, CloseFails
<1>6. CASE \E op \in {"new", "here", "zone", "replace", "elsewhere", "left", "right"} :
              StartFails(k, op)
  BY <1>2, <1>6 DEF StartFails
<1>7. CASE OpenedOver(k)
  <2>1. UNCHANGED wsVars /\ (End(k) \/ calls' = [calls EXCEPT ![k] = CloseCall(c.old, None)])
    BY <1>7 DEF OpenedOver, End
  <2> QED
    BY <1>2, <1>3, <2>1
<1>8. CASE OpenedElsewhere(k)
  <2>1. c.target \in wsOrder /\ c.view.ws \in wsOrder
    BY <1>8 DEF OpenedElsewhere, HomeInv, NamesTabs
  <2>2. /\ DOMAIN snaps' = DOMAIN snaps \cup {c.target, c.view.ws}
        /\ ws' = c.target /\ wsOrder' = wsOrder /\ Writes(Idle)
    BY <1>1, <1>8 DEF OpenedElsewhere, Show
  <2> QED
    BY <2>1, <2>2, IdleNames, HomeGrows DEF HomeInv, Home
<1>9. CASE LeftStarted(k)
  <2> DEFINE next == [op |-> "right", left |-> NewId, target |-> c.target, view |-> c.view]
  <2>1. calls' = [calls EXCEPT ![k] = next] /\ UNCHANGED wsVars
    BY <1>9 DEF LeftStarted
  <2>2. NamesTabs(next)
    BY <1>9 DEF LeftStarted, HomeInv, NamesTabs
  <2> HIDE DEF next
  <2> QED
    BY <2>1, <2>2, WritesCall, HomeWaits
<1>10. CASE RightStarted(k)
  <2>1. c.view.ws \in wsOrder
    BY <1>10 DEF RightStarted, HomeInv, NamesTabs
  <2>2. /\ DOMAIN snaps' = DOMAIN snaps \cup {c.target, c.view.ws}
        /\ ws' = c.target /\ wsOrder' = wsOrder \cup {c.target} /\ Writes(Idle)
    BY <1>1, <1>10 DEF RightStarted, Show
  <2> QED
    BY <2>1, <2>2, IdleNames, HomeGrows DEF HomeInv, Home
<1>11. CASE ProfileStep(k)
  <2>1. PICK got, todo :
          \/ End(k)
          \/ calls' = [calls EXCEPT ![k] = [op |-> "profile", want |-> c.want, got |-> got,
                                            todo |-> todo]]
    BY <1>11 DEF ProfileStep
  <2> DEFINE next == [op |-> "profile", want |-> c.want, got |-> got, todo |-> todo]
  <2>2. UNCHANGED wsVars /\ NamesTabs(next)
    BY <1>11 DEF ProfileStep, NamesTabs
  <2>3. End(k) \/ calls' = [calls EXCEPT ![k] = next]
    BY <2>1
  <2> HIDE DEF next
  <2> QED
    BY <1>2, <2>2, <2>3, WritesCall, HomeWaits
<1>12. CASE Closed(k)
  BY <1>1, <1>12, IdleNames, HomeStays DEF Closed, RemoveEverywhere
<1>13. CASE AllClosed(k)
  BY <1>1, <1>13, IdleNames, HomeStays DEF AllClosed
<1> QED
  BY <1>4, <1>5, <1>6, <1>7, <1>8, <1>9, <1>10, <1>11, <1>12, <1>13 DEF Answers

LEMMA EffectsHome ==
    ASSUME HomeInv, RunEffects \/ \E s \in Ids : Reaped(s)
    PROVE  HomeInv'
<1>1. DOMAIN snaps' = DOMAIN snaps /\ UNCHANGED <<ws, wsOrder>> /\ UNCHANGED calls
  BY DEF RunEffects, Reaped, RemoveEverywhere, SyncsSnapshot, Save
<1> QED
  BY <1>1, IdleNames, HomeStays DEF Writes

LEMMA RestartHome ==
    ASSUME HomeInv, Restart
    PROVE  HomeInv'
<1>1. Home'
  BY DEF Restart, Show, HomeInv, Home
<1>2. \A k \in DOMAIN calls' : NamesTabs(calls[k])'
  BY DEF Restart, NamesTabs, Idle
<1> QED
  BY <1>1, <1>2 DEF HomeInv

LEMMA HomeInvariant ==
    ASSUME Patient \/ "remove" \notin Ops
    PROVE  Spec => []HomeInv
<1>1. Init => HomeInv
  BY DEF Init, HomeInv, Home, NamesTabs, Idle
<1>2. ASSUME IInv, HomeInv, [Next]_vars
      PROVE  HomeInv'
  BY <1>2, OpeningHome, DraggingHome, ClosingHome, ArrangingHome, AnswersHome, EffectsHome,
     RestartHome, HomeSame DEF Next, vars
<1> QED
  BY <1>1, <1>2, LayoutInvariant, PTL DEF Spec

(* The workspaces of the tab bar are those with a snapshot, if no          *)
(* workspace is removed while a handler waits.                             *)
THEOREM TabBarIsStored ==
    ASSUME Patient \/ "remove" \notin Ops
    PROVE  Spec => []TabsMatchSnapshots
<1>1. HomeInv => TabsMatchSnapshots
  BY DEF HomeInv, Home, TabsMatchSnapshots
<1> QED
  BY <1>1, HomeInvariant, PTL

-----------------------------------------------------------------------------
(* What is in a pane after a change of its layout                          *)

(* A layout by its slots. *)
LEMMA SlotsOfGood ==
    ASSUME NEW l \in Good
    PROVE  /\ \A p \in PaneNr : SlotOf(l, p) = IF p <= Len(l.slots) THEN l.slots[p] ELSE None
           /\ \A p \in DOMAIN l.slots : p \in PaneNr /\ l.slots[p] = SlotOf(l, p)
           /\ Len(l.slots) \in Nat
           /\ l.panes \subseteq PaneNr
<1>1. DOMAIN l.slots = 1..Len(l.slots) /\ Len(l.slots) \in Nat /\ l.panes \subseteq 1..Len(l.slots)
  BY GoodLayout
<1> QED
  BY <1>1 DEF SlotOf, PaneNr

LEMMA ShownIn ==
    ASSUME NEW l \in Good
    PROVE  \A s : s \in Shown(l) <=> s # None /\ \E p \in PaneNr : SlotOf(l, p) = s
<1>1. \A p \in DOMAIN l.slots : p \in PaneNr /\ l.slots[p] = SlotOf(l, p)
  BY SlotsOfGood
<1>2. \A p \in PaneNr : SlotOf(l, p) # None => p \in DOMAIN l.slots
  BY DEF SlotOf
<1> QED
  BY <1>1, <1>2 DEF Shown

LEMMA EnsureSlots ==
    ASSUME NEW l \in Good, NEW p \in PaneNr
    PROVE  /\ \A q \in PaneNr : SlotOf(EnsurePaneIndex(l, p), q) = SlotOf(l, q)
           /\ Len(EnsurePaneIndex(l, p).slots) = IF p > Len(l.slots) THEN p ELSE Len(l.slots)
<1> DEFINE n == IF p > Len(l.slots) THEN p ELSE Len(l.slots)
           wide == [i \in 1..n |-> SlotOf(l, i)]
<1>1. EnsurePaneIndex(l, p) = [slots |-> wide, panes |-> l.panes]
  BY ExceptLayout DEF EnsurePaneIndex
<1>2. n \in Nat /\ Len(l.slots) <= n
  BY SlotsOfGood DEF PaneNr
<1>3. DOMAIN wide = 1..n /\ wide \in [1..n -> SlotValues]
  BY SlotOfType
<1>4. Len(wide) = n
  <2> HIDE DEF n, wide
  <2> QED
    BY <1>2, <1>3
<1>5. ASSUME NEW q \in PaneNr
      PROVE  SlotOf(EnsurePaneIndex(l, p), q) = SlotOf(l, q)
  <2>1. CASE q \in 1..n
    BY <1>1, <1>3, <2>1 DEF SlotOf
  <2>2. CASE q \notin 1..n
    <3>1. q > Len(l.slots)
      BY <1>2, <2>2, SlotsOfGood DEF PaneNr
    <3>2. SlotOf(l, q) = None
      BY <3>1, SlotsOfGood DEF PaneNr
    <3>3. SlotOf([slots |-> wide, panes |-> l.panes], q) = None
      BY <1>3, <2>2 DEF SlotOf
    <3> QED
      BY <1>1, <3>2, <3>3
  <2> QED
    BY <2>1, <2>2
<1>6. Len(EnsurePaneIndex(l, p).slots) = n
  <2> HIDE DEF n, wide
  <2> QED
    BY <1>1, <1>4
<1> QED
  BY <1>5, <1>6

LEMMA AssignSlots ==
    ASSUME NEW l \in Good, NEW p \in PaneNr, NEW s \in SlotValues
    PROVE  /\ \A q \in PaneNr : SlotOf(AssignSessionToPane(l, p, s), q) =
                                    IF q = p THEN s ELSE SlotOf(l, q)
           /\ Len(AssignSessionToPane(l, p, s).slots) = IF p > Len(l.slots) THEN p ELSE Len(l.slots)
<1> DEFINE wide == EnsurePaneIndex(l, p)
<1>1. wide \in Good /\ wide.panes = l.panes /\ p \in DOMAIN wide.slots
  BY EnsureGood
<1>2. \A q \in PaneNr : SlotOf(wide, q) = SlotOf(l, q)
  BY EnsureSlots
<1>3. Len(wide.slots) = IF p > Len(l.slots) THEN p ELSE Len(l.slots)
  BY EnsureSlots
<1> DEFINE slots == [wide.slots EXCEPT ![p] = s]
<1>4. AssignSessionToPane(l, p, s) = [slots |-> slots, panes |-> l.panes]
  BY ExceptLayout DEF AssignSessionToPane
<1> HIDE DEF wide
<1>5. wide.slots \in [1..Len(wide.slots) -> SlotValues] /\ Len(wide.slots) \in Nat
  BY <1>1, GoodLayout
<1>6. slots \in [1..Len(wide.slots) -> SlotValues] /\ DOMAIN slots = DOMAIN wide.slots
      /\ slots[p] = s /\ \A q \in DOMAIN wide.slots : q # p => slots[q] = wide.slots[q]
  BY <1>1, <1>5
<1> HIDE DEF slots
<1>7. Len(slots) = Len(wide.slots)
  BY <1>5, <1>6
<1>8. ASSUME NEW q \in PaneNr
      PROVE  SlotOf([slots |-> slots, panes |-> l.panes], q) = IF q = p THEN s ELSE SlotOf(wide, q)
  BY <1>1, <1>6 DEF SlotOf
<1> QED
  BY <1>2, <1>3, <1>4, <1>7, <1>8

LEMMA ClearSlots ==
    ASSUME NEW l \in Good, NEW p
    PROVE  /\ \A q \in PaneNr : SlotOf(ClearPaneAtIndex(l, p), q) =
                                    IF q = p THEN None ELSE SlotOf(l, q)
           /\ Len(ClearPaneAtIndex(l, p).slots) = Len(l.slots)
<1> DEFINE slots == [i \in DOMAIN l.slots |-> IF i = p THEN None ELSE l.slots[i]]
<1>1. ClearPaneAtIndex(l, p) = [slots |-> slots, panes |-> l.panes]
  BY ExceptLayout DEF ClearPaneAtIndex
<1>2. DOMAIN l.slots = 1..Len(l.slots) /\ Len(l.slots) \in Nat
  BY GoodLayout
<1>3. Len(slots) = Len(l.slots)
  BY <1>2
<1>4. ASSUME NEW q \in PaneNr
      PROVE  SlotOf([slots |-> slots, panes |-> l.panes], q) = IF q = p THEN None ELSE SlotOf(l, q)
  BY DEF SlotOf
<1> HIDE DEF slots
<1> QED
  BY <1>1, <1>3, <1>4

LEMMA RemoveSlots ==
    ASSUME NEW l \in Good, NEW s
    PROVE  /\ \A q \in PaneNr : SlotOf(RemoveSessionFromSlots(l, s), q) =
                                    IF SlotOf(l, q) = s THEN None ELSE SlotOf(l, q)
           /\ Len(RemoveSessionFromSlots(l, s).slots) = Len(l.slots)
<1> DEFINE slots == [i \in DOMAIN l.slots |-> IF l.slots[i] = s THEN None ELSE l.slots[i]]
<1>1. RemoveSessionFromSlots(l, s) = [slots |-> slots, panes |-> l.panes]
  BY ExceptLayout DEF RemoveSessionFromSlots
<1>2. DOMAIN l.slots = 1..Len(l.slots) /\ Len(l.slots) \in Nat
  BY GoodLayout
<1>3. Len(slots) = Len(l.slots)
  BY <1>2
<1>4. ASSUME NEW q \in PaneNr
      PROVE  SlotOf([slots |-> slots, panes |-> l.panes], q) =
         IF SlotOf(l, q) = s THEN None ELSE SlotOf(l, q)
  BY DEF SlotOf
<1> HIDE DEF slots
<1> QED
  BY <1>1, <1>3, <1>4

LEMMA KeepSlots ==
    ASSUME NEW l \in Good, NEW ids
    PROVE  /\ \A q \in PaneNr : SlotOf(KeepSessionsOf(l, ids), q) =
                                    IF SlotOf(l, q) \in ids THEN SlotOf(l, q) ELSE None
           /\ Len(KeepSessionsOf(l, ids).slots) = Len(l.slots)
           /\ KeepSessionsOf(l, ids).panes = l.panes
<1> DEFINE slots == [i \in DOMAIN l.slots |-> IF l.slots[i] \in ids THEN l.slots[i] ELSE None]
<1>1. KeepSessionsOf(l, ids) = [slots |-> slots, panes |-> l.panes]
  BY ExceptLayout DEF KeepSessionsOf
<1>2. DOMAIN l.slots = 1..Len(l.slots) /\ Len(l.slots) \in Nat
  BY GoodLayout
<1>3. Len(slots) = Len(l.slots)
  BY <1>2
<1>4. ASSUME NEW q \in PaneNr
      PROVE  SlotOf([slots |-> slots, panes |-> l.panes], q) =
         IF SlotOf(l, q) \in ids THEN SlotOf(l, q) ELSE None
  BY DEF SlotOf
<1> HIDE DEF slots
<1> QED
  BY <1>1, <1>3, <1>4

LEMMA RemovePaneSlots ==
    ASSUME NEW l \in Good, NEW p
    PROVE  /\ \A q \in PaneNr : SlotOf(RemovePane(l, p), q) = SlotOf(l, q)
           /\ Len(RemovePane(l, p).slots) = Len(l.slots)
           /\ RemovePane(l, p).panes = IF l.panes \subseteq {p} THEN l.panes ELSE l.panes \ {p}
<1>1. RemovePane(l, p).slots = l.slots
      /\ RemovePane(l, p).panes = IF l.panes \subseteq {p} THEN l.panes ELSE l.panes \ {p}
  BY ExceptLayout DEF RemovePane
<1> QED
  BY <1>1 DEF SlotOf

LEMMA SplitSlots ==
    ASSUME NEW l \in Good, NEW t, NEW q \in PaneNr
    PROVE  /\ \A p \in PaneNr : SlotOf(SplitPane(l, t, q), p) = SlotOf(l, p)
           /\ Len(SplitPane(l, t, q).slots) = IF q > Len(l.slots) THEN q ELSE Len(l.slots)
           /\ SplitPane(l, t, q).panes = IF t \in l.panes THEN l.panes \cup {q} ELSE l.panes
<1> DEFINE wide == EnsurePaneIndex(l, q)
<1>1. wide \in Good /\ wide.panes = l.panes
  BY EnsureGood
<1>2. SplitPane(l, t, q).slots = wide.slots
      /\ SplitPane(l, t, q).panes = IF t \in l.panes THEN l.panes \cup {q} ELSE l.panes
  BY <1>1, ExceptLayout DEF SplitPane
<1>3. \A p \in PaneNr : SlotOf(SplitPane(l, t, q), p) = SlotOf(wide, p)
  BY <1>2 DEF SlotOf
<1> HIDE DEF wide
<1>4. \A p \in PaneNr : SlotOf(wide, p) = SlotOf(l, p)
  BY EnsureSlots DEF wide
<1>5. Len(wide.slots) = IF q > Len(l.slots) THEN q ELSE Len(l.slots)
  BY EnsureSlots DEF wide
<1> QED
  BY <1>2, <1>3, <1>4, <1>5

LEMMA BlankSlots ==
    ASSUME NEW n \in PaneNr
    PROVE  /\ \A p \in PaneNr : SlotOf(Blank(n), p) = None
           /\ Len(Blank(n).slots) = n /\ Blank(n).panes = 1..n
BY DEF Blank, SlotOf, PaneNr

LEMMA CompactSlots ==
    ASSUME NEW l \in Good
    PROVE  /\ \A p \in PaneNr : SlotOf(CompactSplitSlots(l), p) =
                                    IF p \in l.panes THEN SlotOf(l, p) ELSE None
           /\ Len(CompactSplitSlots(l).slots) <= Len(l.slots)
           /\ CompactSplitSlots(l).panes = l.panes
<1> DEFINE n == LastPane(l.panes)
           slots == [p \in 1..n |-> IF p \in l.panes THEN SlotOf(l, p) ELSE None]
<1>1. l.panes \in SUBSET (1..Len(l.slots)) /\ l.panes # {} /\ Len(l.slots) \in Nat
  BY GoodLayout
<1>2. n \in l.panes /\ \A q \in l.panes : q <= n
  BY <1>1, LastPaneIsLast
<1>3. CompactSplitSlots(l) = [slots |-> slots, panes |-> l.panes]
  BY ExceptLayout DEF CompactSplitSlots
<1> HIDE DEF n
<1>4. n \in Nat /\ n <= Len(l.slots) /\ l.panes \subseteq 1..n
  BY <1>1, <1>2
<1>5. Len(slots) = n /\ DOMAIN slots = 1..n
  BY <1>4
<1>6. \A p \in PaneNr : SlotOf([slots |-> slots, panes |-> l.panes], p) =
                            IF p \in l.panes THEN SlotOf(l, p) ELSE None
  BY <1>4, <1>5 DEF SlotOf
<1> HIDE DEF slots
<1> QED
  BY <1>3, <1>4, <1>5, <1>6

(* A pane is free when its slot is empty. *)
LEMMA FreeSlots ==
    ASSUME NEW l \in Good
    PROVE  \A p \in FreePanes(l) : p \in PaneNr /\ p \in l.panes /\ SlotOf(l, p) = None
BY SlotsOfGood DEF FreePanes, SlotOf

(* A session that is appended has one new place, in a pane, and it is the  *)
(* only slot that changes: a free one.                                     *)
LEMMA AppendSlots ==
    ASSUME NEW l \in Good, NEW s \in Ids, NEW m \in AppendSession(l, s)
    PROVE  \E p \in PaneNr : /\ \A q \in PaneNr : SlotOf(m, q) = IF q = p THEN s ELSE SlotOf(l, q)
                             /\ p \in m.panes /\ l.panes \subseteq m.panes
                             /\ p \in l.panes => SlotOf(l, p) = None
<1>1. s \in SlotValues
  BY DEF SlotValues
<1>2. CASE FreePanes(l) # {}
  <2>1. PICK p \in FreePanes(l) : m = AssignSessionToPane(l, p, s)
    BY <1>2 DEF AppendSession
  <2>2. p \in PaneNr /\ p \in l.panes /\ SlotOf(l, p) = None
    BY FreeSlots
  <2> QED
    BY <1>1, <2>1, <2>2, AssignSlots, AssignGood
<1>3. CASE FreePanes(l) = {}
  <2> DEFINE q == LastPane(l.panes) + 1
             wide == AssignSessionToPane(l, q, s)
  <2>1. q \in PaneNr /\ q \notin l.panes
    BY LastPaneOfGood DEF PaneNr
  <2>2. m = [wide EXCEPT !.panes = wide.panes \cup {q}]
    BY <1>3 DEF AppendSession
  <2>3. wide \in Good /\ wide.panes = l.panes
    BY <1>1, <2>1, AssignGood
  <2>4. \A i \in PaneNr : SlotOf(wide, i) = IF i = q THEN s ELSE SlotOf(l, i)
    BY <1>1, <2>1, AssignSlots
  <2> HIDE DEF wide, q
  <2>5. m.slots = wide.slots /\ m.panes = l.panes \cup {q}
    BY <2>2, <2>3, ExceptLayout
  <2>6. \A i \in PaneNr : SlotOf(m, i) = SlotOf(wide, i)
    BY <2>5 DEF SlotOf
  <2> QED
    BY <2>1, <2>4, <2>5, <2>6
<1> QED
  BY <1>2, <1>3

-----------------------------------------------------------------------------
(* Places                                                                  *)

At(w, p) == SlotOf(LayoutOf(w), p)

(* The pane of a duplicate that has not started shows the session of its   *)
(* source.                                                                 *)
Spare == {calls[k].p : k \in {j \in DOMAIN calls : calls[j].op = "duplicate"}}

Own(w, p) == At(w, p) \in sessions /\ (w = ws => p \notin Spare)

(* A session has at most one place, ... *)
Alone == \A v, w \in DOMAIN snaps, p, q \in PaneNr :
    Own(v, p) /\ Own(w, q) /\ At(v, p) = At(w, q) => v = w /\ p = q

(* ... in a pane of its workspace. *)
Sighted == \A w \in DOMAIN snaps, p \in PaneNr : At(w, p) \in sessions => p \in LayoutOf(w).panes

Known == sessions \cup 1..boot \cup {None}

(* Slots show sessions with a tab, or of an earlier run, ... *)
Safe == \A w \in DOMAIN snaps, p \in PaneNr : At(w, p) \in Known

(* ... and none that the effects are closing.                              *)
Apart == \A w \in DOMAIN snaps, p \in PaneNr : At(w, p) \in closing => w = ws /\ p \in Spare

Newer ==
    /\ \A s \in sessions \cup closing : s > boot
    /\ closing \subseteq DOMAIN kinds
    /\ boot <= Len(kinds)

(* Two layouts with the same panes and the same sessions in them. *)
Alike(l, m) ==
    /\ l.panes = m.panes
    /\ \A p \in PaneNr : SlotOf(l, p) \in sessions \/ SlotOf(m, p) \in sessions =>
          SlotOf(l, p) = SlotOf(m, p)

Fit(l) == \A p \in PaneNr : SlotOf(l, p) \in Known \ closing

(* What a handler holds still agrees with what is there. *)
Current(c) ==
    /\ c.op \notin {"replace", "profile"}
    /\ c.op \in {"new", "here", "duplicate", "elsewhere"} => c.p \in desk.panes
    /\ c.op \in {"new", "zone", "left", "right", "elsewhere"} =>
          c.view.ws = ws /\ Alike(c.view.desk, desk) /\ Fit(c.view.desk)
    /\ c.op = "elsewhere" =>
          /\ c.target \in DOMAIN snaps
          /\ c.target # ws => Alike(c.there, snaps[c.target]) /\ Fit(c.there)
    /\ c.op \in {"left", "right"} => c.target \notin DOMAIN snaps
    /\ c.op = "right" => c.left \notin sessions \cup closing /\ c.left > boot

Places ==
    /\ Alone /\ Sighted
    /\ Safe /\ Apart /\ Newer
    /\ \A k \in DOMAIN calls : Current(calls[k])

Base == IInv /\ HomeInv /\ OneCall

Typed ==
    /\ \A w \in DOMAIN snaps : LayoutOf(w) \in Good
    /\ desk \in Good /\ LayoutOf(ws) = desk /\ ws \in DOMAIN snaps
    /\ None \notin sessions /\ sessions \subseteq Ids /\ sessions \subseteq DOMAIN kinds
    /\ None \notin closing /\ closing \subseteq Ids
    /\ boot \in Nat /\ Len(kinds) \in Nat /\ DOMAIN kinds = 1..Len(kinds)
    /\ nextPane \in PaneNr

LEMMA Basics == Base => Typed
<1> SUFFICES ASSUME Base
             PROVE  Typed
  OBVIOUS
<1>1. sessions \subseteq Ids /\ closing \subseteq Ids
  BY TabHasKind DEF Base, IInv, RefsInv
<1>2. None \notin Ids
  BY IdsAssumption, BoundsAssumption DEF Ids
<1>3. kinds \in Seq(Kinds) /\ sessions \subseteq DOMAIN kinds /\ boot \in 0..MaxSessions
  BY DEF Base, IInv, TabsInv, RefsInv
<1>4. boot \in Nat /\ Len(kinds) \in Nat /\ DOMAIN kinds = 1..Len(kinds)
  BY <1>3, BoundsAssumption
<1>5. \A w \in DOMAIN snaps : LayoutOf(w) \in Good
  BY DEF Base, IInv, ShelfInv, LayoutOf
<1>6. desk \in Good /\ LayoutOf(ws) = desk /\ ws \in DOMAIN snaps /\ nextPane \in PaneNr
  BY DEF Base, IInv, LayoutOf, HomeInv, Home
<1> QED
  BY <1>1, <1>2, <1>3, <1>4, <1>5, <1>6 DEF Typed

LEMMA BasicsNext == Base' => Typed'
BY Basics, PTL

(* No other handler waits for a duplicate. *)
LEMMA NoSpare ==
    ASSUME Base
    PROVE  /\ NoCalls => Spare = {}
           /\ \A k \in DOMAIN calls : Pending(k) /\ calls[k].op # "duplicate" => Spare = {}
           /\ \A k \in DOMAIN calls : calls[k].op = "duplicate" => Spare = {calls[k].p}
<1>1. \A k \in DOMAIN calls : calls[k].op = "duplicate" => Pending(k)
  BY WaitsNotIdle
<1>2. \A j, k \in DOMAIN calls : Pending(j) /\ Pending(k) => j = k
  BY DEF Base, OneCall
<1>3. NoCalls => Spare = {}
  BY <1>1 DEF NoCalls, Spare
<1>4. ASSUME NEW k \in DOMAIN calls, Pending(k), calls[k].op # "duplicate"
      PROVE  Spare = {}
  BY <1>1, <1>2, <1>4 DEF Spare
<1>5. ASSUME NEW k \in DOMAIN calls, calls[k].op = "duplicate"
      PROVE  Spare = {calls[k].p}
  BY <1>1, <1>2, <1>5 DEF Spare
<1> QED
  BY <1>3, <1>4, <1>5

(* Sessions outside M stay where they are, and those of M have one place.  *)
LEMMA AloneStep ==
    ASSUME Alone, NEW M,
           \A w \in DOMAIN snaps', p \in PaneNr : Own(w, p)' /\ At(w, p)' \notin M =>
              w \in DOMAIN snaps /\ Own(w, p) /\ At(w, p)' = At(w, p),
           \A v, w \in DOMAIN snaps', p, q \in PaneNr :
              Own(v, p)' /\ Own(w, q)' /\ At(v, p)' = At(w, q)' /\ At(v, p)' \in M => v = w /\ p = q
    PROVE  Alone'
<1> SUFFICES ASSUME NEW v \in DOMAIN snaps', NEW w \in DOMAIN snaps',
                    NEW p \in PaneNr, NEW q \in PaneNr,
                    Own(v, p)', Own(w, q)', At(v, p)' = At(w, q)'
             PROVE  v = w /\ p = q
  BY DEF Alone
<1>1. CASE At(v, p)' \in M
  BY <1>1
<1>2. CASE At(v, p)' \notin M
  <2>1. v \in DOMAIN snaps /\ Own(v, p) /\ At(v, p)' = At(v, p)
    BY <1>2
  <2>2. w \in DOMAIN snaps /\ Own(w, q) /\ At(w, q)' = At(w, q)
    BY <1>2
  <2> QED
    BY <2>1, <2>2 DEF Alone
<1> QED
  BY <1>1, <1>2

(* A step in which slots are only emptied and workspaces come and go. *)
LEMMA ThinPlaces ==
    ASSUME Base, Base', Places, sessions' \subseteq sessions,
           \A w \in DOMAIN snaps', p \in PaneNr : At(w, p)' # None =>
              w \in DOMAIN snaps /\ At(w, p)' = At(w, p),
           \A w \in DOMAIN snaps', p \in PaneNr :
              At(w, p)' \in sessions' /\ p \in LayoutOf(w).panes => p \in LayoutOf(w)'.panes,
           \A w \in DOMAIN snaps', p \in PaneNr : At(w, p)' \in sessions => At(w, p)' \in Known',
           boot <= boot',
           \A w \in DOMAIN snaps', p \in PaneNr : At(w, p)' \in closing' => At(w, p)' \in closing,
           \A w \in DOMAIN snaps', p \in PaneNr : w = ws /\ p \in Spare =>
              At(w, p)' = None \/ (ws' = ws /\ p \in Spare')
    PROVE  Alone' /\ Sighted' /\ Safe' /\ Apart'
<1>1. None \notin sessions' /\ None \notin closing'
  BY BasicsNext DEF Typed
<1>2. boot \in Nat /\ boot' \in Nat
  BY Basics, BasicsNext DEF Typed
<1>3. Alone'
  <2>1. ASSUME NEW w \in DOMAIN snaps', NEW p \in PaneNr, Own(w, p)'
        PROVE  w \in DOMAIN snaps /\ Own(w, p) /\ At(w, p)' = At(w, p)
    <3>1. At(w, p)' \in sessions' /\ (w = ws' => p \notin Spare')
      BY <2>1 DEF Own
    <3>2. w \in DOMAIN snaps /\ At(w, p)' = At(w, p) /\ At(w, p)' # None
      BY <1>1, <3>1
    <3>3. w = ws => p \notin Spare
      BY <3>1, <3>2
    <3> QED
      BY <3>1, <3>2, <3>3 DEF Own
  <2>2. Alone
    BY DEF Places
  <2> DEFINE M == {}
  <2>3. \A w \in DOMAIN snaps', p \in PaneNr : Own(w, p)' /\ At(w, p)' \notin M =>
              w \in DOMAIN snaps /\ Own(w, p) /\ At(w, p)' = At(w, p)
    BY <2>1
  <2>4. \A v, w \in DOMAIN snaps', p, q \in PaneNr :
              Own(v, p)' /\ Own(w, q)' /\ At(v, p)' = At(w, q)' /\ At(v, p)' \in M => v = w /\ p = q
    OBVIOUS
  <2> HIDE DEF M
  <2> QED
    BY <2>2, <2>3, <2>4, AloneStep
<1>4. Sighted'
  <2> SUFFICES ASSUME NEW w \in DOMAIN snaps', NEW p \in PaneNr, At(w, p)' \in sessions'
               PROVE  p \in LayoutOf(w)'.panes
    BY DEF Sighted
  <2>1. w \in DOMAIN snaps /\ At(w, p) = At(w, p)'
    BY <1>1
  <2>2. p \in LayoutOf(w).panes
    BY <2>1 DEF Places, Sighted
  <2> QED
    BY <2>2
<1>5. Safe'
  <2> SUFFICES ASSUME NEW w \in DOMAIN snaps', NEW p \in PaneNr
               PROVE  At(w, p)' \in Known'
    BY DEF Safe
  <2>1. CASE At(w, p)' = None
    BY <2>1 DEF Known
  <2>2. CASE At(w, p)' # None
    <3>1. w \in DOMAIN snaps /\ At(w, p)' = At(w, p)
      BY <2>2
    <3>2. At(w, p)' \in sessions \cup 1..boot
      BY <2>2, <3>1 DEF Places, Safe, Known
    <3>3. 1..boot \subseteq 1..boot'
      BY <1>2
    <3> QED
      BY <3>2, <3>3 DEF Known
  <2> QED
    BY <2>1, <2>2
<1>6. Apart'
  <2> SUFFICES ASSUME NEW w \in DOMAIN snaps', NEW p \in PaneNr, At(w, p)' \in closing'
               PROVE  w = ws' /\ p \in Spare'
    BY DEF Apart
  <2>1. w \in DOMAIN snaps /\ At(w, p)' = At(w, p) /\ At(w, p)' # None /\ At(w, p)' \in closing
    BY <1>1
  <2>2. w = ws /\ p \in Spare
    BY <2>1 DEF Places, Apart
  <2> QED
    BY <2>1, <2>2
<1> QED
  BY <1>3, <1>4, <1>5, <1>6

LEMMA IdleCurrent == Current(Idle)
BY DEF Current, Idle

(* A call that is none, or closes sessions, holds nothing. *)
LEMMA HoldsNothing ==
    ASSUME NEW c, c.op \in {"idle", "close", "all"}
    PROVE  Current(c)
BY DEF Current

LEMMA GoneCurrent ==
    ASSUME NoCalls'
    PROVE  \A k \in DOMAIN calls' : Current(calls[k])'
BY DEF NoCalls, Pending, Current, Idle

(* The same, whatever the state. *)
LEMMA HoldsNothingNow ==
    ASSUME \A k \in DOMAIN calls' : calls'[k].op \in {"idle", "close", "all"}
    PROVE  \A k \in DOMAIN calls' : Current(calls[k])'
BY DEF Current

-----------------------------------------------------------------------------
(* Handlers begin to wait and stop                                         *)

LEMMA WaitPlaces ==
    ASSUME Base, Base', Places, UNCHANGED <<sessions, desk, wsVars, seen, closing, pending, boot>>,
           DOMAIN kinds \subseteq DOMAIN kinds', Spare = {},
           NEW c, Current(c), \A j \in DOMAIN calls' : calls'[j] \in {Idle, c}
    PROVE  Places'
<1>1. UNCHANGED sessions /\ UNCHANGED desk /\ UNCHANGED snaps /\ UNCHANGED ws /\ UNCHANGED closing
      /\ UNCHANGED boot
  BY DEF wsVars
<1>2. \A w, p : LayoutOf(w)' = LayoutOf(w) /\ At(w, p)' = At(w, p)
  BY <1>1 DEF At, LayoutOf
<1>3. Known' = Known
  BY <1>1 DEF Known
<1>4. \A w \in DOMAIN snaps, p \in PaneNr : At(w, p) \in Known
  BY DEF Places, Safe
<1>5. Alone' /\ Sighted' /\ Safe' /\ Apart'
  <2>1. boot <= boot'
    BY <1>1, Basics DEF Typed
  <2>2. \A w \in DOMAIN snaps', p \in PaneNr : At(w, p)' # None =>
              w \in DOMAIN snaps /\ At(w, p)' = At(w, p)
    BY <1>1, <1>2
  <2>3. \A w \in DOMAIN snaps', p \in PaneNr :
              At(w, p)' \in sessions' /\ p \in LayoutOf(w).panes => p \in LayoutOf(w)'.panes
    BY <1>2
  <2>4. \A w \in DOMAIN snaps', p \in PaneNr : At(w, p)' \in sessions => At(w, p)' \in Known'
    BY <1>1, <1>2, <1>3, <1>4
  <2>5. \A w \in DOMAIN snaps', p \in PaneNr : At(w, p)' \in closing' => At(w, p)' \in closing
    BY <1>1
  <2>6. \A w \in DOMAIN snaps', p \in PaneNr : w = ws /\ p \in Spare =>
              At(w, p)' = None \/ (ws' = ws /\ p \in Spare')
    OBVIOUS
  <2>7. sessions' \subseteq sessions
    BY <1>1
  <2> QED
    BY <2>1, <2>2, <2>3, <2>4, <2>5, <2>6, <2>7, ThinPlaces
<1>6. Newer'
  <2>1. Len(kinds) <= Len(kinds')
    BY Basics, BasicsNext DEF Typed
  <2> QED
    BY <1>1, <2>1, Basics, BasicsNext DEF Typed, Places, Newer
<1>7. \A k \in DOMAIN calls' : Current(calls'[k])
  BY IdleCurrent
<1>8. \A k \in DOMAIN calls' : Current(calls[k])'
  BY <1>1, <1>3, <1>7 DEF Current, Alike, Fit
<1> QED
  BY <1>5, <1>6, <1>8 DEF Places

(* A gesture begins to wait. *)
LEMMA BeginPlaces ==
    ASSUME Base, Base', Places, NoCalls, NEW c, Begin(c), Current(c),
           UNCHANGED <<tabVars, desk, wsVars, refVars>>
    PROVE  Places'
<1>1. Spare = {}
  BY NoSpare
<1>2. \A j \in DOMAIN calls' : calls'[j] \in {Idle, c}
  BY BeginOne DEF Base
<1>3. UNCHANGED <<sessions, desk, wsVars, seen, closing, pending, boot>>
      /\ DOMAIN kinds \subseteq DOMAIN kinds'
  BY DEF tabVars, refVars
<1> QED
  BY <1>1, <1>2, <1>3, WaitPlaces

(* A handler gives up. *)
LEMMA GivesUpPlaces ==
    ASSUME Base, Base', Places, NEW k \in DOMAIN calls, Pending(k), calls[k].op # "duplicate",
           End(k),
           UNCHANGED <<sessions, kinds, desk, wsVars, seen, closing, pending, boot>>
    PROVE  Places'
<1>1. Spare = {}
  BY NoSpare
<1>2. \A j \in DOMAIN calls' : calls'[j] \in {Idle, Idle}
  BY AnswerOne DEF Base, End
<1> QED
  BY <1>1, <1>2, IdleCurrent, WaitPlaces

(* The view of a gesture is the desk. *)
LEMMA ViewNow ==
    ASSUME Base, Places, NoCalls
    PROVE  /\ View.ws = ws /\ View.desk = desk /\ Alike(desk, desk) /\ Fit(desk)
           /\ \A w \in DOMAIN snaps : w # ws => Alike(snaps[w], snaps[w]) /\ Fit(snaps[w])
<1>1. Spare = {}
  BY NoSpare
<1>2. \A w \in DOMAIN snaps, p \in PaneNr : At(w, p) \in Known \ closing
  BY <1>1 DEF Places, Safe, Apart
<1>3. \A w \in DOMAIN snaps : Fit(LayoutOf(w))
  BY <1>2 DEF Fit, At
<1>4. Fit(desk)
  <2>1. ws \in DOMAIN snaps /\ LayoutOf(ws) = desk
    BY Basics DEF Typed
  <2>2. Fit(LayoutOf(ws))
    BY <1>3, <2>1
  <2> QED
    BY <2>1, <2>2
<1>5. \A w \in DOMAIN snaps : w # ws => Fit(snaps[w])
  BY <1>3 DEF LayoutOf
<1> QED
  BY <1>4, <1>5 DEF View, Alike

LEMMA OpenSessionPlaces ==
    ASSUME Base, Base', Places, Patient, NEW kind \in Kinds, NEW p \in Panes, OpenSession(kind, p)
    PROVE  Places'
<1> DEFINE c == [op |-> "new", kind |-> kind, p |-> p, view |-> View]
<1>1. NoCalls /\ Begin(c) /\ UNCHANGED <<tabVars, desk, wsVars, refVars>> /\ p \in desk.panes
  BY PatientGesture DEF OpenSession
<1>2. c.op = "new" /\ c.p = p /\ c.view = View
  OBVIOUS
<1> HIDE DEF c
<1>3. Current(c)
  BY <1>1, <1>2, ViewNow DEF Current
<1> QED
  BY <1>1, <1>3, BeginPlaces

LEMMA OpenSessionHerePlaces ==
    ASSUME Base, Base', Places, Patient, NEW kind \in Kinds, NEW p \in Panes,
           OpenSessionHere(kind, p)
    PROVE  Places'
<1> DEFINE c == [op |-> "here", kind |-> kind, p |-> p]
<1>1. NoCalls /\ Begin(c) /\ UNCHANGED <<tabVars, desk, wsVars, refVars>> /\ p \in desk.panes
  BY PatientGesture DEF OpenSessionHere
<1>2. c.op = "here" /\ c.p = p
  OBVIOUS
<1> HIDE DEF c
<1>3. Current(c)
  BY <1>1, <1>2 DEF Current
<1> QED
  BY <1>1, <1>3, BeginPlaces

LEMMA DragToOwnEdgePlaces ==
    ASSUME Base, Base', Places, Patient, NEW s \in Ids, NEW p \in Panes, DragToOwnEdge(s, p)
    PROVE  Places'
<1> DEFINE c == [op |-> "zone", kind |-> kinds[s], p |-> p, view |-> View]
<1>1. NoCalls /\ Begin(c) /\ UNCHANGED <<tabVars, desk, wsVars, refVars>>
  BY PatientGesture DEF DragToOwnEdge
<1>2. c.op = "zone" /\ c.view = View
  OBVIOUS
<1> HIDE DEF c
<1>3. Current(c)
  BY <1>1, <1>2, ViewNow DEF Current
<1> QED
  BY <1>1, <1>3, BeginPlaces

LEMMA CloseInPanePlaces ==
    ASSUME Base, Base', Places, Patient, NEW p \in Panes, CloseInPane(p)
    PROVE  Places'
<1> DEFINE c == CloseCall(SlotOf(desk, p), None)
<1>1. NoCalls /\ Begin(c) /\ UNCHANGED <<tabVars, desk, wsVars, refVars>>
  BY PatientGesture DEF CloseInPane
<1>2. Current(c)
  BY HoldsNothing DEF CloseCall
<1> HIDE DEF c
<1> QED
  BY <1>1, <1>2, BeginPlaces

LEMMA CreateCommanderPlaces ==
    ASSUME Base, Base', Places, Patient, NEW w \in Workspaces, CreateCommander(w)
    PROVE  Places'
<1> DEFINE c == [op |-> "left", target |-> w, view |-> View]
<1>1. NoCalls /\ Begin(c) /\ UNCHANGED <<tabVars, desk, wsVars, refVars>> /\ w \notin DOMAIN snaps
  BY PatientGesture DEF CreateCommander, Unused
<1>2. c.op = "left" /\ c.target = w /\ c.view = View
  OBVIOUS
<1> HIDE DEF c
<1>3. Current(c)
  BY <1>1, <1>2, ViewNow DEF Current
<1> QED
  BY <1>1, <1>3, BeginPlaces

LEMMA OpenInWorkspacePlaces ==
    ASSUME Base, Base', Places, Patient, NEW h \in Hosts, NEW w \in Workspaces, NEW p \in Panes,
           OpenInWorkspace(h, w, p)
    PROVE  Places'
<1> DEFINE c == [op |-> "elsewhere", kind |-> h, p |-> p, view |-> View,
                 target |-> w, there |-> snaps[w], commander |-> w \in nss]
<1>1. NoCalls /\ Begin(c) /\ UNCHANGED <<tabVars, desk, wsVars, refVars>>
      /\ w \in DOMAIN snaps /\ p \in desk.panes
  BY PatientGesture DEF OpenInWorkspace
<1>2. c.op = "elsewhere" /\ c.p = p /\ c.target = w /\ c.view = View /\ c.there = snaps[w]
  OBVIOUS
<1> HIDE DEF c
<1>3. Current(c)
  BY <1>1, <1>2, ViewNow DEF Current
<1> QED
  BY <1>1, <1>3, BeginPlaces

LEMMA StartFailsPlaces ==
    ASSUME Base, Base', Places, NEW k \in DOMAIN calls, NEW op, op \notin {"duplicate", "idle"},
           StartFails(k, op)
    PROVE  Places'
BY WaitsNotIdle, GivesUpPlaces DEF StartFails, tabVars, refVars

LEMMA CloseFailsPlaces ==
    ASSUME Base, Base', Places, NEW k \in DOMAIN calls, CloseFails(k)
    PROVE  Places'
BY WaitsNotIdle, GivesUpPlaces DEF CloseFails

LEMMA LeftStartedPlaces ==
    ASSUME Base, Base', Places, NEW k \in DOMAIN calls, LeftStarted(k)
    PROVE  Places'
<1> DEFINE b == calls[k]
           c == [op |-> "right", left |-> NewId, target |-> b.target, view |-> b.view]
<1>1. b.op = "left" /\ calls' = [calls EXCEPT ![k] = c] /\ Starts("local")
      /\ UNCHANGED <<sessions, desk, wsVars, refVars>>
  BY DEF LeftStarted
<1>2. c.op = "right" /\ c.left = NewId /\ c.target = b.target /\ c.view = b.view
  OBVIOUS
<1>3. Current(b)
  BY DEF Places
<1> HIDE DEF c
<1>4. NewId \notin sessions \cup closing /\ NewId > boot
  BY Basics DEF Typed, Places, Newer, NewId
<1>5. Current(c)
  BY <1>1, <1>2, <1>3, <1>4 DEF Current
<1>6. Pending(k) /\ Spare = {}
  BY <1>1, WaitsNotIdle, NoSpare
<1>7. \A j \in DOMAIN calls' : calls'[j] \in {Idle, c}
  BY <1>1, <1>6, AnswerOne DEF Base
<1>8. DOMAIN kinds \subseteq DOMAIN kinds'
  BY <1>1, StartsStep DEF Base, Kinds
<1> QED
  BY <1>1, <1>5, <1>6, <1>7, <1>8, WaitPlaces DEF refVars

-----------------------------------------------------------------------------
(* Slots are emptied                                                       *)

LEMMA LayoutNext ==
    /\ \A w : LayoutOf(w)' = IF w = ws' THEN desk' ELSE snaps'[w]
    /\ \A w, p : At(w, p)' = SlotOf(LayoutOf(w)', p)
BY DEF LayoutOf, At

(* A gesture that opens and closes nothing. *)
LEMMA ArrangePlaces ==
    ASSUME Base, Base', Places, Spare = {}, NoCalls', UNCHANGED <<tabVars, refVars>>,
           \A w \in DOMAIN snaps', p \in PaneNr : At(w, p)' # None =>
              w \in DOMAIN snaps /\ At(w, p)' = At(w, p),
           \A w \in DOMAIN snaps', p \in PaneNr :
              At(w, p)' \in sessions' /\ p \in LayoutOf(w).panes => p \in LayoutOf(w)'.panes
    PROVE  Places'
<1>1. UNCHANGED sessions /\ UNCHANGED kinds /\ UNCHANGED closing /\ UNCHANGED boot
  BY DEF tabVars, refVars
<1>2. Alone' /\ Sighted' /\ Safe' /\ Apart'
  <2>1. boot <= boot' /\ sessions' \subseteq sessions
    BY <1>1, Basics DEF Typed
  <2>2. \A w \in DOMAIN snaps', p \in PaneNr : At(w, p)' \in sessions => At(w, p)' \in Known'
    BY <1>1 DEF Known
  <2>3. \A w \in DOMAIN snaps', p \in PaneNr : At(w, p)' \in closing' => At(w, p)' \in closing
    BY <1>1
  <2>4. \A w \in DOMAIN snaps', p \in PaneNr : w = ws /\ p \in Spare =>
              At(w, p)' = None \/ (ws' = ws /\ p \in Spare')
    OBVIOUS
  <2> QED
    BY <2>1, <2>2, <2>3, <2>4, ThinPlaces
<1>3. Newer'
  BY <1>1 DEF Places, Newer
<1>4. \A k \in DOMAIN calls' : Current(calls[k])'
  BY GoneCurrent
<1> QED
  BY <1>2, <1>3, <1>4 DEF Places

(* Every workspace that is left shows what it showed, or nothing. *)
LEMMA ShowsPlaces ==
    ASSUME Base, Base', Places, NoCalls, UNCHANGED <<tabVars, refVars, calls>>,
           \A w \in DOMAIN snaps' : \/ w \in DOMAIN snaps /\ LayoutOf(w)' = LayoutOf(w)
                                    \/ \E n \in PaneNr : LayoutOf(w)' = Blank(n)
    PROVE  Places'
<1>1. Spare = {} /\ NoCalls'
  BY NoSpare, CallsSame
<1>2. \A w \in DOMAIN snaps', p \in PaneNr :
         \/ At(w, p)' = None
         \/ w \in DOMAIN snaps /\ At(w, p)' = At(w, p) /\ LayoutOf(w)' = LayoutOf(w)
  <2> SUFFICES ASSUME NEW w \in DOMAIN snaps', NEW p \in PaneNr
               PROVE  \/ At(w, p)' = None
                      \/ w \in DOMAIN snaps /\ At(w, p)' = At(w, p) /\ LayoutOf(w)' = LayoutOf(w)
    OBVIOUS
  <2>1. CASE w \in DOMAIN snaps /\ LayoutOf(w)' = LayoutOf(w)
    BY <2>1, LayoutNext DEF At
  <2>2. ASSUME NEW n \in PaneNr, LayoutOf(w)' = Blank(n)
        PROVE  At(w, p)' = None
    BY <2>2, LayoutNext, BlankSlots
  <2> QED
    BY <2>1, <2>2
<1>3. None \notin sessions'
  BY BasicsNext DEF Typed
<1> QED
  BY <1>1, <1>2, <1>3, ArrangePlaces

LEMMA SwitchWorkspacePlaces ==
    ASSUME Base, Base', Places, Patient, NEW w \in Workspaces, SwitchWorkspace(w)
    PROVE  Places'
<1>1. NoCalls /\ UNCHANGED <<tabVars, refVars, calls>>
  BY PatientGesture DEF SwitchWorkspace
<1>2. w \in DOMAIN snaps /\ w # ws /\ snaps' = Save(ws, desk) /\ ws' = w /\ desk' = snaps[w]
  BY DEF SwitchWorkspace, Show
<1>3. ws \in DOMAIN snaps
  BY Basics DEF Typed
<1>4. \A x \in DOMAIN snaps' : x \in DOMAIN snaps /\ LayoutOf(x)' = LayoutOf(x)
  BY <1>2, <1>3, LayoutNext DEF LayoutOf, Save
<1> QED
  BY <1>1, <1>4, ShowsPlaces

LEMMA CreateWorkspacePlaces ==
    ASSUME Base, Base', Places, Patient, NEW w \in Workspaces, CreateWorkspace(w)
    PROVE  Places'
<1>1. NoCalls /\ UNCHANGED <<tabVars, refVars, calls>>
  BY PatientGesture DEF CreateWorkspace
<1>2. /\ snaps' = [x \in DOMAIN snaps \cup {w, ws} |->
                      IF x = w THEN Blank(1) ELSE IF x = ws THEN desk ELSE snaps[x]]
      /\ ws' = w /\ desk' = Blank(1)
  BY DEF CreateWorkspace, Show
<1>3. ws \in DOMAIN snaps /\ 1 \in PaneNr
  BY Basics, OneNumber DEF Typed
<1>4. \A x \in DOMAIN snaps' : \/ x \in DOMAIN snaps /\ LayoutOf(x)' = LayoutOf(x)
                               \/ LayoutOf(x)' = Blank(1)
  BY <1>2, <1>3, LayoutNext DEF LayoutOf
<1> QED
  BY <1>1, <1>3, <1>4, ShowsPlaces

LEMMA RemoveWorkspacePlaces ==
    ASSUME Base, Base', Places, Patient, NEW w \in Workspaces, RemoveWorkspace(w)
    PROVE  Places'
<1>1. NoCalls /\ UNCHANGED <<tabVars, refVars, calls>>
  BY PatientGesture DEF RemoveWorkspace
<1>2. snaps' = [x \in DOMAIN snaps \ {w} |-> snaps[x]]
      /\ \/ w # ws /\ desk' = desk /\ ws' = ws
         \/ w = ws /\ \E next \in wsOrder' \cap DOMAIN snaps : ws' = next /\ desk' = snaps[next]
  BY DEF RemoveWorkspace, Forget, Show
<1>3. wsOrder' = wsOrder \ {w}
  BY DEF RemoveWorkspace
<1>4. \A x \in DOMAIN snaps' : x \in DOMAIN snaps /\ LayoutOf(x)' = LayoutOf(x)
  BY <1>2, <1>3, LayoutNext DEF LayoutOf
<1> QED
  BY <1>1, <1>4, ShowsPlaces

LEMMA ApplyPresetPlaces ==
    ASSUME Base, Base', Places, Patient, NEW w \in Workspaces, NEW n \in Panes, ApplyPreset(w, n)
    PROVE  Places'
<1>1. NoCalls /\ UNCHANGED <<tabVars, refVars, calls>> /\ ws' = ws /\ n \in PaneNr
  BY PatientGesture, PanesAreNumbers DEF ApplyPreset
<1>2. \/ w = ws /\ desk' = Blank(n) /\ snaps' = snaps
      \/ w # ws /\ w \in DOMAIN snaps /\ snaps' = Save(w, Blank(n)) /\ desk' = desk
  BY DEF ApplyPreset
<1>3. \A x \in DOMAIN snaps' : \/ x \in DOMAIN snaps /\ LayoutOf(x)' = LayoutOf(x)
                               \/ LayoutOf(x)' = Blank(n)
  BY <1>1, <1>2, LayoutNext DEF LayoutOf, Save
<1> QED
  BY <1>1, <1>3, ShowsPlaces

LEMMA ApplyPresetAndSwitchPlaces ==
    ASSUME Base, Base', Places, Patient, NEW w \in Workspaces, NEW n \in Panes,
           ApplyPresetAndSwitch(w, n)
    PROVE  Places'
<1>1. NoCalls /\ UNCHANGED <<tabVars, refVars, calls>>
  BY PatientGesture DEF ApplyPresetAndSwitch
<1>2. snaps' = [Save(ws, desk) EXCEPT ![w] = Blank(n)] /\ ws' = w /\ desk' = snaps[w] /\ w # ws
  BY DEF ApplyPresetAndSwitch, Show
<1>3. ws \in DOMAIN snaps
  BY Basics DEF Typed
<1>4. DOMAIN snaps' = DOMAIN snaps
      /\ \A x \in DOMAIN snaps : x # w => snaps'[x] = LayoutOf(x)
  BY <1>2, <1>3 DEF LayoutOf, Save
<1>5. \A x \in DOMAIN snaps' : x \in DOMAIN snaps /\ LayoutOf(x)' = LayoutOf(x)
  BY <1>2, <1>4, LayoutNext DEF LayoutOf
<1> QED
  BY <1>1, <1>5, ShowsPlaces

(* Only the desk changes. *)
LEMMA DeskNext ==
    ASSUME UNCHANGED wsVars
    PROVE  /\ DOMAIN snaps' = DOMAIN snaps
           /\ \A w : w # ws => LayoutOf(w)' = LayoutOf(w) /\ \A p : At(w, p)' = At(w, p)
           /\ \A w : w = ws => LayoutOf(w)' = desk' /\ LayoutOf(w) = desk
           /\ \A w, p : w = ws => At(w, p)' = SlotOf(desk', p) /\ At(w, p) = SlotOf(desk, p)
BY DEF wsVars, LayoutOf, At

(* Slots of the desk are emptied, or panes appear. *)
LEMMA DeskThins ==
    ASSUME Base, Base', Places, Spare = {}, NoCalls', UNCHANGED <<tabVars, wsVars, refVars>>,
           \A p \in PaneNr : SlotOf(desk', p) # None =>
              /\ SlotOf(desk', p) = SlotOf(desk, p)
              /\ p \in desk.panes => p \in desk'.panes
    PROVE  Places'
<1>1. \A w \in DOMAIN snaps', p \in PaneNr : At(w, p)' # None =>
              w \in DOMAIN snaps /\ At(w, p)' = At(w, p)
  BY DeskNext
<1>2. None \notin sessions'
  BY BasicsNext DEF Typed
<1>3. \A w \in DOMAIN snaps', p \in PaneNr :
              At(w, p)' \in sessions' /\ p \in LayoutOf(w).panes => p \in LayoutOf(w)'.panes
  BY <1>2, DeskNext
<1> QED
  BY <1>1, <1>3, ArrangePlaces

LEMMA ClosePanePlaces ==
    ASSUME Base, Base', Places, Patient, NEW p \in Panes, ClosePane(p)
    PROVE  Places'
<1>1. NoCalls /\ UNCHANGED <<tabVars, wsVars, refVars>>
  BY PatientGesture DEF ClosePane
<1>2. CASE SlotOf(desk, p) = None
  <2> DEFINE rest == RemovePane(desk, p)
  <2>1. desk' = ClearPaneAtIndex(rest, p) /\ UNCHANGED calls
    BY <1>2 DEF ClosePane
  <2>2. desk \in Good /\ rest \in Good
    BY Basics, RemovePaneGood DEF Typed
  <2>6. (\A q \in PaneNr : SlotOf(rest, q) = SlotOf(desk, q))
        /\ \A q \in desk.panes : q # p => q \in rest.panes
    BY <2>2, RemovePaneSlots
  <2> HIDE DEF rest
  <2>3. Spare = {} /\ NoCalls'
    BY <1>1, <2>1, NoSpare, CallsSame
  <2>4. \A q \in PaneNr : SlotOf(desk', q) # None => q # p /\ SlotOf(desk', q) = SlotOf(desk, q)
    BY <2>1, <2>2, <2>6, ClearSlots
  <2>5. \A q \in PaneNr : q # p /\ q \in desk.panes => q \in desk'.panes
    BY <2>1, <2>2, <2>6, ClearGood
  <2> QED
    BY <1>1, <2>3, <2>4, <2>5, DeskThins
<1>3. CASE SlotOf(desk, p) # None
  <2> DEFINE c == CloseCall(SlotOf(desk, p), p)
  <2>1. Begin(c) /\ UNCHANGED <<tabVars, desk, wsVars, refVars>>
    BY <1>1, <1>3 DEF ClosePane
  <2>2. Current(c)
    BY HoldsNothing DEF CloseCall
  <2> HIDE DEF c
  <2> QED
    BY <1>1, <2>1, <2>2, BeginPlaces
<1> QED
  BY <1>2, <1>3

LEMMA CloseAllPlaces ==
    ASSUME Base, Base', Places, Patient, NEW reset \in BOOLEAN, CloseAll(reset)
    PROVE  Places'
<1>1. NoCalls /\ UNCHANGED <<tabVars, wsVars, refVars>>
  BY PatientGesture DEF CloseAll
<1>2. CASE sessions = {}
  <2>1. desk' = Blank(1) /\ UNCHANGED calls
    BY <1>2 DEF CloseAll
  <2>2. Spare = {} /\ NoCalls'
    BY <1>1, <2>1, NoSpare, CallsSame
  <2>3. \A q \in PaneNr : SlotOf(desk', q) = None
    BY <2>1, OneNumber, BlankSlots
  <2> QED
    BY <1>1, <2>2, <2>3, DeskThins
<1>3. CASE sessions # {}
  <2> DEFINE c == [op |-> "all", ids |-> sessions, reset |-> reset]
  <2>1. Begin(c) /\ UNCHANGED <<tabVars, desk, wsVars, refVars>>
    BY <1>1, <1>3 DEF CloseAll
  <2>2. Current(c)
    BY HoldsNothing
  <2> HIDE DEF c
  <2> QED
    BY <1>1, <2>1, <2>2, BeginPlaces
<1> QED
  BY <1>2, <1>3

LEMMA SplitEmptyPlaces ==
    ASSUME Base, Base', Places, Patient, NEW p \in Panes, SplitEmpty(p)
    PROVE  Places'
<1>1. NoCalls /\ UNCHANGED <<tabVars, wsVars, refVars>> /\ UNCHANGED calls
      /\ desk' = SplitPane(desk, p, nextPane)
  BY PatientGesture DEF SplitEmpty
<1>2. Spare = {} /\ NoCalls'
  BY <1>1, NoSpare, CallsSame
<1>3. desk \in Good /\ nextPane \in PaneNr
  BY Basics DEF Typed
<1> DEFINE split == SplitPane(desk, p, nextPane)
<1>4. \A q \in PaneNr : SlotOf(split, q) = SlotOf(desk, q)
  BY <1>3, SplitSlots
<1>7. split.panes = IF p \in desk.panes THEN desk.panes \cup {nextPane} ELSE desk.panes
  BY <1>3, SplitSlots
<1>5. desk.panes \subseteq split.panes
  <2> HIDE DEF split
  <2> QED
    BY <1>7
<1>6. desk' = split
  BY <1>1
<1> HIDE DEF split
<1> QED
  BY <1>1, <1>2, <1>4, <1>5, <1>6, DeskThins

(* The panes of the source and the duplicate show one session no more. *)
LEMMA DuplicateFailsPlaces ==
    ASSUME Base, Base', Places, NEW k \in DOMAIN calls, DuplicateFails(k)
    PROVE  Places'
<1> DEFINE p == calls[k].p
<1>1. UNCHANGED <<tabVars, wsVars, refVars>> /\ desk' = ClearPaneAtIndex(desk, p)
      /\ calls[k].op = "duplicate" /\ End(k)
  BY DEF DuplicateFails
<1>2. Spare = {p} /\ NoCalls'
  BY <1>1, NoSpare, WaitsNotIdle, EndOne DEF Base
<1>3. desk \in Good
  BY Basics DEF Typed
<1>4. /\ \A q \in PaneNr : SlotOf(desk', q) = IF q = p THEN None ELSE SlotOf(desk, q)
      /\ desk'.panes = desk.panes
  BY <1>1, <1>3, ClearSlots, ClearGood
<1>5. UNCHANGED sessions /\ UNCHANGED kinds /\ UNCHANGED closing /\ UNCHANGED boot
  BY <1>1 DEF tabVars, refVars
<1> HIDE DEF p
<1>6. \A w \in DOMAIN snaps', q \in PaneNr : At(w, q)' # None =>
              w \in DOMAIN snaps /\ At(w, q)' = At(w, q)
  BY <1>1, <1>4, DeskNext
<1>7. \A w \in DOMAIN snaps', q \in PaneNr :
              At(w, q)' \in sessions' /\ q \in LayoutOf(w).panes => q \in LayoutOf(w)'.panes
  BY <1>1, <1>4, DeskNext
<1>8. \A w \in DOMAIN snaps', q \in PaneNr : w = ws /\ q \in Spare =>
              At(w, q)' = None \/ (ws' = ws /\ q \in Spare')
  <2>1. ASSUME NEW w \in DOMAIN snaps', NEW q \in PaneNr, w = ws, q \in Spare
        PROVE  At(w, q)' = None
    <3>1. At(w, q)' = SlotOf(desk', q)
      BY <1>1, <2>1, DeskNext
    <3>2. q = p
      BY <1>2, <2>1
    <3> QED
      BY <1>4, <3>1, <3>2
  <2> QED
    BY <2>1
<1>9. Alone' /\ Sighted' /\ Safe' /\ Apart'
  <2>1. boot <= boot' /\ sessions' \subseteq sessions
    BY <1>5, Basics DEF Typed
  <2>2. \A w \in DOMAIN snaps', q \in PaneNr : At(w, q)' \in sessions => At(w, q)' \in Known'
    BY <1>5 DEF Known
  <2>3. \A w \in DOMAIN snaps', q \in PaneNr : At(w, q)' \in closing' => At(w, q)' \in closing
    BY <1>5
  <2> QED
    BY <1>6, <1>7, <1>8, <2>1, <2>2, <2>3, ThinPlaces
<1>10. Newer'
  BY <1>5 DEF Places, Newer
<1> QED
  BY <1>2, <1>9, <1>10, GoneCurrent DEF Places

-----------------------------------------------------------------------------
(* Effects                                                                 *)

(* The reaper takes no session that is in a slot. *)
LEMMA ShownIsAssigned ==
    ASSUME Base
    PROVE  \A w \in DOMAIN snaps, p \in PaneNr : At(w, p) \notin Orphans
<1> SUFFICES ASSUME NEW w \in DOMAIN snaps, NEW p \in PaneNr, At(w, p) \in Orphans
             PROVE  FALSE
  OBVIOUS
<1>1. LayoutOf(w) \in Good /\ None \notin sessions
  BY Basics DEF Typed
<1>2. At(w, p) \in sessions /\ At(w, p) \notin Assigned
  BY DEF Orphans
<1>3. At(w, p) \in Shown(LayoutOf(w))
  BY <1>1, <1>2, ShownIn DEF At
<1>4. Shown(LayoutOf(w)) \subseteq Assigned
  BY DEF LayoutOf, Assigned
<1> QED
  BY <1>2, <1>3, <1>4

(* Slots are cleaned of sessions that are closing, and what the handlers   *)
(* hold agrees with what is left.                                          *)
LEMMA CleanedPlaces ==
    ASSUME Base, Base', Places,
           UNCHANGED kinds, UNCHANGED ws, UNCHANGED calls, UNCHANGED boot,
           DOMAIN snaps' = DOMAIN snaps,
           sessions' \subseteq sessions, sessions \ sessions' \subseteq closing,
           closing' \subseteq closing \cup Orphans,
           \A w \in DOMAIN snaps : LayoutOf(w)'.panes = LayoutOf(w).panes,
           \A w \in DOMAIN snaps, p \in PaneNr :
              /\ At(w, p)' \in {At(w, p), None}
              /\ At(w, p) \in sessions' => At(w, p)' = At(w, p)
              /\ At(w, p)' \in sessions => At(w, p)' \in sessions'
    PROVE  Places'
<1>1. \A w \in DOMAIN snaps, p \in PaneNr : At(w, p) \notin Orphans
  BY ShownIsAssigned
<1>2. /\ None \notin sessions /\ None \notin sessions' /\ None \notin closing'
      /\ boot \in Nat /\ sessions \subseteq DOMAIN kinds
  BY Basics, BasicsNext DEF Typed
<1>3. Newer /\ Orphans \subseteq sessions
  BY DEF Places, Orphans
<1>4. Newer'
  BY <1>2, <1>3 DEF Newer
<1>5. Alone' /\ Sighted' /\ Safe' /\ Apart'
  <2>1. \A w \in DOMAIN snaps', p \in PaneNr : At(w, p)' # None =>
              w \in DOMAIN snaps /\ At(w, p)' = At(w, p)
    OBVIOUS
  <2>2. \A w \in DOMAIN snaps', p \in PaneNr :
              At(w, p)' \in sessions' /\ p \in LayoutOf(w).panes => p \in LayoutOf(w)'.panes
    OBVIOUS
  <2>3. \A w \in DOMAIN snaps', p \in PaneNr : At(w, p)' \in sessions => At(w, p)' \in Known'
    BY DEF Known
  <2>4. \A w \in DOMAIN snaps', p \in PaneNr : At(w, p)' \in closing' => At(w, p)' \in closing
    BY <1>1, <1>2, <2>1
  <2>5. Spare' = Spare /\ boot <= boot'
    BY <1>2 DEF Spare
  <2>6. \A w \in DOMAIN snaps', p \in PaneNr : w = ws /\ p \in Spare =>
              At(w, p)' = None \/ (ws' = ws /\ p \in Spare')
    BY <2>5
  <2> QED
    BY <2>1, <2>2, <2>3, <2>4, <2>5, <2>6, ThinPlaces
<1>6. ASSUME NEW l, NEW w \in DOMAIN snaps, Alike(l, LayoutOf(w)), Fit(l), NEW p \in PaneNr
      PROVE  /\ SlotOf(l, p) \in sessions' \/ At(w, p)' \in sessions' => SlotOf(l, p) = At(w, p)'
             /\ SlotOf(l, p) \in Known' \ closing'
  <2>1. SlotOf(l, p) \in sessions \/ At(w, p) \in sessions => SlotOf(l, p) = At(w, p)
    BY <1>6 DEF Alike, At
  <2>2. SlotOf(l, p) \in sessions' \/ At(w, p)' \in sessions' => SlotOf(l, p) = At(w, p)'
    BY <1>2, <2>1
  <2>3. SlotOf(l, p) \in Known /\ SlotOf(l, p) \notin closing
    BY <1>6 DEF Fit
  <2>4. CASE SlotOf(l, p) \in sessions
    <3>1. SlotOf(l, p) \notin Orphans
      BY <1>1, <2>1, <2>4
    <3> QED
      BY <2>2, <2>3, <2>4, <3>1 DEF Known
  <2>5. CASE SlotOf(l, p) \in 1..boot
    <3>1. SlotOf(l, p) \notin closing'
      BY <1>2, <1>4, <2>5 DEF Newer
    <3> QED
      BY <2>2, <2>5, <3>1 DEF Known
  <2>6. CASE SlotOf(l, p) = None
    BY <1>2, <2>2, <2>6 DEF Known
  <2> QED
    BY <2>3, <2>4, <2>5, <2>6 DEF Known
<1>7. \A l : \A w \in DOMAIN snaps : Alike(l, LayoutOf(w)) /\ Fit(l) =>
         /\ l.panes = LayoutOf(w)'.panes
         /\ \A p \in PaneNr : SlotOf(l, p) \in sessions' \/ At(w, p)' \in sessions' =>
               SlotOf(l, p) = At(w, p)'
         /\ \A p \in PaneNr : SlotOf(l, p) \in Known' \ closing'
  <2> SUFFICES ASSUME NEW l, NEW w \in DOMAIN snaps, Alike(l, LayoutOf(w)), Fit(l)
               PROVE  /\ l.panes = LayoutOf(w)'.panes
                      /\ \A p \in PaneNr : SlotOf(l, p) \in sessions' \/ At(w, p)' \in sessions' =>
                            SlotOf(l, p) = At(w, p)'
                      /\ \A p \in PaneNr : SlotOf(l, p) \in Known' \ closing'
    OBVIOUS
  <2>1. l.panes = LayoutOf(w)'.panes
    BY DEF Alike
  <2> QED
    BY <1>6, <2>1
<1>8. \A l : Alike(l, desk) /\ Fit(l) =>
         /\ l.panes = desk'.panes
         /\ \A p \in PaneNr : SlotOf(l, p) \in sessions' \/ SlotOf(desk', p) \in sessions' =>
               SlotOf(l, p) = SlotOf(desk', p)
         /\ \A p \in PaneNr : SlotOf(l, p) \in Known' \ closing'
  <2>1. PICK w \in DOMAIN snaps : w = ws
    BY Basics DEF Typed
  <2>2. LayoutOf(w) = desk
    BY <2>1 DEF LayoutOf
  <2>3. LayoutOf(w)' = desk' /\ \A p : At(w, p)' = SlotOf(desk', p)
    BY <2>1, LayoutNext
  <2>4. \A l : Alike(l, LayoutOf(w)) /\ Fit(l) =>
         /\ l.panes = LayoutOf(w)'.panes
         /\ \A p \in PaneNr : SlotOf(l, p) \in sessions' \/ At(w, p)' \in sessions' =>
               SlotOf(l, p) = At(w, p)'
         /\ \A p \in PaneNr : SlotOf(l, p) \in Known' \ closing'
    BY <1>7
  <2> QED
    BY <2>2, <2>3, <2>4
<1>9. \A l : \A w \in DOMAIN snaps : w # ws /\ Alike(l, snaps[w]) /\ Fit(l) =>
         /\ l.panes = snaps'[w].panes
         /\ \A p \in PaneNr : SlotOf(l, p) \in sessions' \/ SlotOf(snaps'[w], p) \in sessions' =>
               SlotOf(l, p) = SlotOf(snaps'[w], p)
         /\ \A p \in PaneNr : SlotOf(l, p) \in Known' \ closing'
  <2>1. \A w \in DOMAIN snaps : w # ws => LayoutOf(w) = snaps[w]
    BY DEF LayoutOf
  <2>2. \A w \in DOMAIN snaps : w # ws =>
           LayoutOf(w)' = snaps'[w] /\ \A p : At(w, p)' = SlotOf(snaps'[w], p)
    BY LayoutNext
  <2> QED
    BY <1>7, <2>1, <2>2
<1>10. ASSUME NEW k \in DOMAIN calls'
       PROVE  Current(calls[k])'
  <2> DEFINE c == calls'[k]
  <2>1. Current(c)
    BY DEF Places
  <2>2. c.op \notin {"replace", "profile"}
    BY <2>1 DEF Current
  <2>3. c.op \in {"new", "here", "duplicate", "elsewhere"} => c.p \in desk'.panes
    <3>1. c.op \in {"new", "here", "duplicate", "elsewhere"} => c.p \in desk.panes
      BY <2>1 DEF Current
    <3>2. desk'.panes = desk.panes
      BY Basics, LayoutNext DEF Typed
    <3> QED
      BY <3>1, <3>2
  <2>4. c.op \in {"new", "zone", "left", "right", "elsewhere"} =>
           /\ c.view.ws = ws'
           /\ c.view.desk.panes = desk'.panes
           /\ \A p \in PaneNr :
                 SlotOf(c.view.desk, p) \in sessions' \/ SlotOf(desk', p) \in sessions' =>
                 SlotOf(c.view.desk, p) = SlotOf(desk', p)
           /\ \A p \in PaneNr : SlotOf(c.view.desk, p) \in Known' \ closing'
    <3>1. c.op \in {"new", "zone", "left", "right", "elsewhere"} =>
             c.view.ws = ws /\ Alike(c.view.desk, desk) /\ Fit(c.view.desk)
      BY <2>1 DEF Current
    <3> HIDE DEF c
    <3> QED
      BY <1>8, <3>1
  <2>5. c.op = "elsewhere" =>
           /\ c.target \in DOMAIN snaps'
           /\ c.target # ws' =>
                 /\ c.there.panes = snaps'[c.target].panes
                 /\ \A p \in PaneNr :
                       (SlotOf(c.there, p) \in sessions' \/
                           SlotOf(snaps'[c.target], p) \in sessions') =>
                          SlotOf(c.there, p) = SlotOf(snaps'[c.target], p)
                 /\ \A p \in PaneNr : SlotOf(c.there, p) \in Known' \ closing'
    <3>1. c.op = "elsewhere" => c.target \in DOMAIN snaps
              /\ (c.target # ws => Alike(c.there, snaps[c.target]) /\ Fit(c.there))
      BY <2>1 DEF Current
    <3> HIDE DEF c
    <3> QED
      BY <1>9, <3>1
  <2>6. c.op \in {"left", "right"} => c.target \notin DOMAIN snaps'
    BY <2>1 DEF Current
  <2>7. c.op = "right" => c.left \notin sessions' \cup closing' /\ c.left > boot'
    BY <1>3, <2>1 DEF Current
  <2> QED
    BY <2>2, <2>3, <2>4, <2>5, <2>6, <2>7 DEF Current, Alike, Fit
<1> QED
  BY <1>4, <1>5, <1>10 DEF Places

(* A pass keeps the sessions that have a tab in their panes. *)
LEMMA RunEffectsSlots ==
    ASSUME Base, Places, RunEffects
    PROVE  /\ \A w \in DOMAIN snaps : LayoutOf(w)'.panes = LayoutOf(w).panes
           /\ \A w \in DOMAIN snaps, p \in PaneNr :
                 /\ At(w, p)' \in {At(w, p), None}
                 /\ At(w, p) \in sessions => At(w, p)' = At(w, p)
           /\ \A p \in PaneNr : SlotOf(desk', p) \in {SlotOf(desk, p), None}
           /\ Len(desk'.slots) <= Len(desk.slots)
           /\ UNCHANGED sessions /\ UNCHANGED kinds /\ UNCHANGED ws /\ UNCHANGED calls
           /\ UNCHANGED boot /\ UNCHANGED nss /\ DOMAIN snaps' = DOMAIN snaps
           /\ closing' \subseteq closing \cup Orphans
<1>1. UNCHANGED <<tabVars, nss, ws, wsOrder, calls, boot>>
  BY DEF RunEffects
<1>2. UNCHANGED sessions /\ UNCHANGED kinds /\ UNCHANGED ws /\ UNCHANGED calls /\ UNCHANGED boot
      /\ UNCHANGED nss
  BY <1>1 DEF tabVars
<1>3. Typed
  BY Basics
<1>4. DOMAIN snaps' = DOMAIN snaps /\ \A w \in DOMAIN snaps : w # ws => snaps'[w] = snaps[w]
  BY DEF RunEffects, Save, SyncsSnapshot
<1>5. closing' \subseteq closing \cup Orphans
  BY DEF RunEffects, Reap
<1>6. \/ desk' = CompactSplitSlots(desk)
      \/ desk' = KeepSessionsOf(desk, sessions)
      \/ desk' = desk
  BY DEF RunEffects
<1>7. \A p \in PaneNr : SlotOf(desk, p) \in sessions => p \in desk.panes
  <2>1. PICK w \in DOMAIN snaps : w = ws
    BY <1>3 DEF Typed
  <2> QED
    BY <2>1 DEF Places, Sighted, At, LayoutOf
<1>8. desk'.panes = desk.panes /\ Len(desk'.slots) <= Len(desk.slots)
  <2>1. desk \in Good /\ Len(desk.slots) \in Nat
    BY <1>3, SlotsOfGood DEF Typed
  <2>2. CASE desk' = CompactSplitSlots(desk)
    BY <2>1, <2>2, CompactSlots
  <2>3. CASE desk' = KeepSessionsOf(desk, sessions)
    BY <2>1, <2>3, KeepSlots
  <2>4. CASE desk' = desk
    BY <2>1, <2>4
  <2> QED
    BY <1>6, <2>2, <2>3, <2>4
<1>9. \A p \in PaneNr : /\ SlotOf(desk', p) \in {SlotOf(desk, p), None}
                        /\ SlotOf(desk, p) \in sessions => SlotOf(desk', p) = SlotOf(desk, p)
  <2>1. desk \in Good
    BY <1>3 DEF Typed
  <2>2. CASE desk' = CompactSplitSlots(desk)
    BY <1>7, <2>1, <2>2, CompactSlots
  <2>3. CASE desk' = KeepSessionsOf(desk, sessions)
    BY <2>1, <2>3, KeepSlots
  <2>4. CASE desk' = desk
    BY <2>4
  <2> QED
    BY <1>6, <2>2, <2>3, <2>4
<1>10. \A w \in DOMAIN snaps : LayoutOf(w)' = IF w = ws THEN desk' ELSE LayoutOf(w)
  BY <1>2, <1>4, LayoutNext DEF LayoutOf
<1>11. \A w \in DOMAIN snaps : LayoutOf(w)'.panes = LayoutOf(w).panes
  BY <1>8, <1>10 DEF LayoutOf
<1>12. \A w \in DOMAIN snaps, p \in PaneNr :
              /\ At(w, p)' \in {At(w, p), None}
              /\ At(w, p) \in sessions => At(w, p)' = At(w, p)
  <2> SUFFICES ASSUME NEW w \in DOMAIN snaps, NEW p \in PaneNr
               PROVE  /\ At(w, p)' \in {At(w, p), None}
                      /\ At(w, p) \in sessions => At(w, p)' = At(w, p)
    OBVIOUS
  <2>1. CASE w = ws
    <3>1. At(w, p)' = SlotOf(desk', p) /\ At(w, p) = SlotOf(desk, p)
      BY <1>10, <2>1, LayoutNext DEF At, LayoutOf
    <3> QED
      BY <1>9, <3>1
  <2>2. CASE w # ws
    <3>1. At(w, p)' = At(w, p)
      BY <1>10, <2>2, LayoutNext DEF At
    <3> QED
      BY <3>1
  <2> QED
    BY <2>1, <2>2
<1>13. \A p \in PaneNr : SlotOf(desk', p) \in {SlotOf(desk, p), None}
  BY <1>9
<1> QED
  BY <1>2, <1>4, <1>5, <1>8, <1>11, <1>12, <1>13

LEMMA RunEffectsPlaces ==
    ASSUME Base, Base', Places, RunEffects
    PROVE  Places'
<1>1. /\ \A w \in DOMAIN snaps : LayoutOf(w)'.panes = LayoutOf(w).panes
      /\ \A w \in DOMAIN snaps, p \in PaneNr :
            /\ At(w, p)' \in {At(w, p), None}
            /\ At(w, p) \in sessions => At(w, p)' = At(w, p)
      /\ UNCHANGED sessions /\ UNCHANGED kinds /\ UNCHANGED ws /\ UNCHANGED calls
      /\ UNCHANGED boot /\ DOMAIN snaps' = DOMAIN snaps
      /\ closing' \subseteq closing \cup Orphans
  BY RunEffectsSlots
<1>2. \A w \in DOMAIN snaps, p \in PaneNr :
         /\ At(w, p)' \in {At(w, p), None}
         /\ At(w, p) \in sessions' => At(w, p)' = At(w, p)
         /\ At(w, p)' \in sessions => At(w, p)' \in sessions'
  BY <1>1
<1> QED
  BY <1>1, <1>2, CleanedPlaces

LEMMA ReapedPlaces ==
    ASSUME Base, Base', Places, NEW s \in Ids, Reaped(s)
    PROVE  Places'
<1>1. /\ s \in closing /\ closing' = closing \ {s} /\ sessions' = sessions \ {s}
      /\ snaps' = [w \in DOMAIN snaps |-> RemoveSessionFromSlots(snaps[w], s)]
      /\ desk' = RemoveSessionFromSlots(desk, s)
      /\ UNCHANGED kinds /\ UNCHANGED ws /\ UNCHANGED calls /\ UNCHANGED boot
  BY DEF Reaped, RemoveEverywhere
<1>2. Typed
  BY Basics
<1>3. \A w \in DOMAIN snaps : LayoutOf(w)' = RemoveSessionFromSlots(LayoutOf(w), s)
  BY <1>1, LayoutNext DEF LayoutOf
<1>4. \A w \in DOMAIN snaps : LayoutOf(w)'.panes = LayoutOf(w).panes
  <2>1. \A w \in DOMAIN snaps : RemoveSessionFromSlots(LayoutOf(w), s).panes = LayoutOf(w).panes
    BY <1>2, RemoveGood DEF Typed
  <2> QED
    BY <1>3, <2>1
<1>5. \A w \in DOMAIN snaps, p \in PaneNr : At(w, p)' = IF At(w, p) = s THEN None ELSE At(w, p)
  <2>1. \A w \in DOMAIN snaps, p \in PaneNr :
           SlotOf(RemoveSessionFromSlots(LayoutOf(w), s), p) =
              IF At(w, p) = s THEN None ELSE At(w, p)
    BY <1>2, RemoveSlots DEF Typed, At
  <2> QED
    BY <1>3, <2>1, LayoutNext
<1>6. DOMAIN snaps' = DOMAIN snaps /\ sessions' \subseteq sessions
      /\ sessions \ sessions' \subseteq closing
      /\ closing' \subseteq closing \cup Orphans
  BY <1>1
<1>7. None \notin sessions
  BY <1>2 DEF Typed
<1>8. \A w \in DOMAIN snaps, p \in PaneNr :
              /\ At(w, p)' \in {At(w, p), None}
              /\ At(w, p) \in sessions' => At(w, p)' = At(w, p)
              /\ At(w, p)' \in sessions => At(w, p)' \in sessions'
  BY <1>1, <1>5, <1>7
<1> QED
  BY <1>1, <1>4, <1>6, <1>8, CleanedPlaces

-----------------------------------------------------------------------------
(* Sessions are closed                                                     *)

LEMMA ClosedPlaces ==
    ASSUME Base, Base', Places, NEW k \in DOMAIN calls, Closed(k)
    PROVE  Places'
<1> DEFINE s == calls[k].s
           leaf == calls[k].leaf
           without == RemoveSessionFromSlots(desk, s)
<1>1. calls[k].op = "close" /\ End(k) /\ sessions' = sessions \ {s}
      /\ snaps' = [w \in DOMAIN snaps |-> RemoveSessionFromSlots(snaps[w], s)]
      /\ desk' = (IF leaf = None THEN without
                  ELSE ClearPaneAtIndex(RemovePane(without, leaf), leaf))
      /\ UNCHANGED kinds /\ UNCHANGED ws /\ UNCHANGED refVars
  BY DEF Closed, RemoveEverywhere
<1> HIDE DEF s, leaf
<1>2. UNCHANGED closing /\ UNCHANGED boot
  BY <1>1 DEF refVars
<1>3. Pending(k) /\ Spare = {} /\ NoCalls'
  BY <1>1, WaitsNotIdle, NoSpare, EndOne DEF Base
<1>4. desk \in Good /\ (\A w \in DOMAIN snaps : LayoutOf(w) \in Good)
      /\ None \notin sessions /\ None \notin sessions' /\ boot \in Nat
  BY Basics, BasicsNext DEF Typed
<1>5. /\ without \in Good /\ without.panes = desk.panes
      /\ \A p \in PaneNr : SlotOf(without, p) =
            IF SlotOf(desk, p) = s THEN None ELSE SlotOf(desk, p)
  BY <1>4, RemoveGood, RemoveSlots
<1>6. \A p \in PaneNr : SlotOf(desk', p) # None =>
         /\ SlotOf(desk', p) = SlotOf(desk, p) /\ SlotOf(desk', p) # s
         /\ p \in desk.panes => p \in desk'.panes
  <2> HIDE DEF without
  <2>1. CASE leaf = None
    BY <1>1, <1>5, <2>1
  <2>2. CASE leaf # None
    <3> DEFINE rest == RemovePane(without, leaf)
    <3>1. desk' = ClearPaneAtIndex(rest, leaf)
      BY <1>1, <2>2
    <3>2. rest \in Good
      BY <1>5, RemovePaneGood
    <3>3. (\A p \in PaneNr : SlotOf(rest, p) = SlotOf(without, p))
          /\ rest.panes =
                IF without.panes \subseteq {leaf} THEN without.panes ELSE without.panes \ {leaf}
      BY <1>5, RemovePaneSlots
    <3> HIDE DEF rest
    <3>4. (\A p \in PaneNr : SlotOf(desk', p) = IF p = leaf THEN None ELSE SlotOf(rest, p))
          /\ desk'.panes = rest.panes
      BY <3>1, <3>2, ClearSlots, ClearGood
    <3> QED
      BY <1>5, <3>3, <3>4
  <2> QED
    BY <2>1, <2>2
<1>7. \A w \in DOMAIN snaps : w # ws =>
         /\ LayoutOf(w)'.panes = LayoutOf(w).panes
         /\ \A p \in PaneNr : At(w, p)' = IF At(w, p) = s THEN None ELSE At(w, p)
  <2>1. \A w \in DOMAIN snaps : w # ws => LayoutOf(w)' = RemoveSessionFromSlots(LayoutOf(w), s)
    BY <1>1, LayoutNext DEF LayoutOf
  <2>2. \A w \in DOMAIN snaps :
           /\ RemoveSessionFromSlots(LayoutOf(w), s).panes = LayoutOf(w).panes
           /\ \A p \in PaneNr :
                 SlotOf(RemoveSessionFromSlots(LayoutOf(w), s), p) =
                    IF At(w, p) = s THEN None ELSE At(w, p)
    BY <1>4, RemoveGood, RemoveSlots DEF At
  <2> QED
    BY <2>1, <2>2, LayoutNext
<1>8. \A w, p : w = ws => At(w, p)' = SlotOf(desk', p) /\ At(w, p) = SlotOf(desk, p)
                          /\ LayoutOf(w)' = desk' /\ LayoutOf(w) = desk
  BY <1>1, LayoutNext DEF At, LayoutOf
<1>9. \A w \in DOMAIN snaps, p \in PaneNr : At(w, p)' # None =>
         /\ At(w, p)' = At(w, p) /\ At(w, p)' # s
         /\ p \in LayoutOf(w).panes => p \in LayoutOf(w)'.panes
  BY <1>6, <1>7, <1>8
<1>10. Alone' /\ Sighted' /\ Safe' /\ Apart'
  <2>1. DOMAIN snaps' = DOMAIN snaps /\ sessions' \subseteq sessions /\ boot <= boot'
    BY <1>1, <1>2, <1>4
  <2>2. \A w \in DOMAIN snaps', p \in PaneNr : At(w, p)' # None =>
              w \in DOMAIN snaps /\ At(w, p)' = At(w, p)
    BY <1>9, <2>1
  <2>3. \A w \in DOMAIN snaps', p \in PaneNr :
              At(w, p)' \in sessions' /\ p \in LayoutOf(w).panes => p \in LayoutOf(w)'.panes
    BY <1>4, <1>9, <2>1
  <2>4. \A w \in DOMAIN snaps', p \in PaneNr : At(w, p)' \in sessions => At(w, p)' \in Known'
    BY <1>1, <1>4, <1>9, <2>1 DEF Known
  <2>5. \A w \in DOMAIN snaps', p \in PaneNr : At(w, p)' \in closing' => At(w, p)' \in closing
    BY <1>2
  <2>6. \A w \in DOMAIN snaps', p \in PaneNr : w = ws /\ p \in Spare =>
              At(w, p)' = None \/ (ws' = ws /\ p \in Spare')
    BY <1>3
  <2> QED
    BY <2>1, <2>2, <2>3, <2>4, <2>5, <2>6, ThinPlaces
<1>11. Newer'
  BY <1>1, <1>2 DEF Places, Newer
<1> QED
  BY <1>3, <1>10, <1>11, GoneCurrent DEF Places

(* No tab is left, and slots show at most what they showed. *)
LEMMA EmptyPlaces ==
    ASSUME Base, Base', Places, NoCalls', sessions' = {}, closing' \subseteq closing,
           boot' = boot \/ (boot' = Len(kinds) /\ closing' = {}),
           DOMAIN kinds' = DOMAIN kinds,
           \A w \in DOMAIN snaps', p \in PaneNr : At(w, p)' # None =>
              /\ w \in DOMAIN snaps /\ At(w, p)' = At(w, p)
              /\ boot' = Len(kinds) /\ w # ws
    PROVE  Places'
<1>1. /\ None \notin sessions /\ boot \in Nat /\ Len(kinds) \in Nat /\ Len(kinds') \in Nat
      /\ DOMAIN kinds = 1..Len(kinds) /\ DOMAIN kinds' = 1..Len(kinds')
         /\ sessions \subseteq DOMAIN kinds
  BY Basics, BasicsNext DEF Typed
<1>2. Newer
  BY DEF Places
<1>3. Len(kinds') = Len(kinds)
  BY <1>1
<1>4. boot <= boot'
  BY <1>1, <1>2 DEF Newer
<1>5. Newer'
  BY <1>1, <1>2, <1>3 DEF Newer
<1>6. Alone' /\ Sighted' /\ Safe' /\ Apart'
  <2>1. \A w \in DOMAIN snaps', p \in PaneNr : At(w, p)' # None =>
              w \in DOMAIN snaps /\ At(w, p)' = At(w, p)
    OBVIOUS
  <2>2. \A w \in DOMAIN snaps', p \in PaneNr :
              At(w, p)' \in sessions' /\ p \in LayoutOf(w).panes => p \in LayoutOf(w)'.panes
    OBVIOUS
  <2>3. \A w \in DOMAIN snaps', p \in PaneNr : At(w, p)' \in sessions => At(w, p)' \in Known'
    BY <1>1 DEF Known
  <2>4. \A w \in DOMAIN snaps', p \in PaneNr : At(w, p)' \in closing' => At(w, p)' \in closing
    OBVIOUS
  <2>5. \A w \in DOMAIN snaps', p \in PaneNr : w = ws /\ p \in Spare =>
              At(w, p)' = None \/ (ws' = ws /\ p \in Spare')
    OBVIOUS
  <2> QED
    BY <1>4, <2>1, <2>2, <2>3, <2>4, <2>5, ThinPlaces
<1> QED
  BY <1>5, <1>6, GoneCurrent DEF Places

LEMMA AllClosedPlaces ==
    ASSUME Base, Base', Places, NEW k \in DOMAIN calls, AllClosed(k)
    PROVE  Places'
<1>1. calls[k].op = "all" /\ End(k) /\ sessions' = {}
      /\ (desk' = Blank(1) \/ desk' = Emptied(desk))
      /\ snaps' = [w \in DOMAIN snaps |-> Emptied(snaps[w])]
      /\ UNCHANGED kinds /\ UNCHANGED ws /\ UNCHANGED refVars
  BY DEF AllClosed
<1>2. UNCHANGED closing /\ UNCHANGED boot
  BY <1>1 DEF refVars
<1>3. NoCalls'
  BY <1>1, WaitsNotIdle, EndOne DEF Base
<1>4. desk \in Good /\ (\A w \in DOMAIN snaps : LayoutOf(w) \in Good)
  BY Basics DEF Typed
<1>5. \A p \in PaneNr : SlotOf(desk', p) = None
  <2>1. \A p \in PaneNr : SlotOf(Emptied(desk), p) = None
    BY <1>4, KeepSlots DEF Emptied
  <2>2. \A p \in PaneNr : SlotOf(Blank(1), p) = None
    BY OneNumber, BlankSlots
  <2> QED
    BY <1>1, <2>1, <2>2
<1>6. \A w \in DOMAIN snaps' : w # ws => \A p \in PaneNr : SlotOf(snaps'[w], p) = None
  <2>1. \A w \in DOMAIN snaps : w # ws => snaps[w] \in Good
    BY <1>4 DEF LayoutOf
  <2>2. \A w \in DOMAIN snaps : w # ws => \A p \in PaneNr : SlotOf(Emptied(snaps[w]), p) = None
    BY <2>1, KeepSlots DEF Emptied
  <2> QED
    BY <1>1, <2>2
<1>7. \A w \in DOMAIN snaps', p \in PaneNr : At(w, p)' = None
  BY <1>1, <1>5, <1>6, LayoutNext
<1> QED
  BY <1>1, <1>2, <1>3, <1>7, EmptyPlaces

LEMMA RestartPlaces ==
    ASSUME Base, Base', Places, Restart
    PROVE  Places'
<1> DEFINE kept == wsOrder \cap DOMAIN snaps
<1>1. sessions' = {} /\ closing' = {} /\ boot' = Len(kinds) /\ kinds' = kinds
      /\ snaps' = [w \in kept |-> snaps[w]]
      /\ calls' = [k \in DOMAIN calls |-> Idle]
  BY DEF Restart
<1>2. NoCalls'
  BY <1>1 DEF NoCalls, Pending
<1>3. PICK w0 \in IF ws \in kept THEN {ws} ELSE kept : ws' = w0 /\ desk' = Emptied(snaps[w0])
  BY DEF Restart, Show
<1>4. \A p \in PaneNr : SlotOf(desk', p) = None
  <2>1. snaps[w0] \in Good
    BY <1>3 DEF Base, IInv, ShelfInv
  <2> QED
    BY <1>3, <2>1, KeepSlots DEF Emptied
<1>5. \A w \in DOMAIN snaps', p \in PaneNr : At(w, p)' # None =>
              w \in DOMAIN snaps /\ At(w, p)' = At(w, p) /\ w # ws
  <2> SUFFICES ASSUME NEW w \in DOMAIN snaps', NEW p \in PaneNr, At(w, p)' # None
               PROVE  w \in DOMAIN snaps /\ At(w, p)' = At(w, p) /\ w # ws
    OBVIOUS
  <2>1. w # ws'
    BY <1>4, LayoutNext
  <2>2. w \in kept /\ snaps'[w] = snaps[w]
    BY <1>1
  <2>3. w # ws
    BY <1>3, <2>1, <2>2
  <2>4. At(w, p)' = At(w, p)
    BY <2>1, <2>2, <2>3, LayoutNext DEF At, LayoutOf
  <2> QED
    BY <2>2, <2>3, <2>4
<1> QED
  BY <1>1, <1>2, <1>5, EmptyPlaces

-----------------------------------------------------------------------------
(* A session comes to the desk                                             *)

(* The id of a new session is nowhere yet. *)
LEMMA OpensFacts ==
    ASSUME Base, Base', Places, NEW kind \in Kinds, Opens(kind), UNCHANGED refVars
    PROVE  /\ sessions' = sessions \cup {NewId} /\ NewId \in Ids /\ NewId \in SlotValues
           /\ NewId \notin Known /\ NewId \notin closing
           /\ Known' = Known \cup {NewId}
           /\ UNCHANGED closing /\ UNCHANGED boot /\ Newer'
<1>1. sessions' = sessions \cup {NewId} /\ NewId \in Ids /\ NewId \in SlotValues
  BY OpensStep DEF Opens, Base
<1>2. DOMAIN kinds \subseteq DOMAIN kinds'
  BY StartsStep DEF Opens, Base
<1>3. UNCHANGED closing /\ UNCHANGED boot
  BY DEF refVars
<1>4. Typed /\ Typed' /\ Newer
  BY Basics, BasicsNext DEF Places
<1>5. NewId \notin Known /\ NewId \notin closing /\ NewId > boot
  <2>1. None # NewId
    BY <1>1, IdsAssumption, BoundsAssumption DEF Ids
  <2> QED
    BY <1>4, <2>1 DEF Typed, Newer, Known, NewId
<1>6. Known' = Known \cup {NewId}
  BY <1>1, <1>3 DEF Known
<1>7. Newer'
  <2>1. Len(kinds) <= Len(kinds')
    BY <1>2, <1>4 DEF Typed
  <2> QED
    BY <1>1, <1>2, <1>3, <1>4, <1>5, <2>1 DEF Newer, Typed
<1> QED
  BY <1>1, <1>3, <1>5, <1>6, <1>7

(* A new session takes one slot of the desk, in a pane. *)
LEMMA AddPlaces ==
    ASSUME Base, Base', Places, NEW kind \in Kinds, Opens(kind), UNCHANGED wsVars,
           UNCHANGED refVars,
           NEW p0 \in PaneNr, Spare \subseteq {p0},
           \A p \in PaneNr : SlotOf(desk', p) = IF p = p0 THEN NewId ELSE SlotOf(desk, p),
           desk.panes \subseteq desk'.panes, p0 \in desk'.panes,
           \A k \in DOMAIN calls' : calls'[k].op \in {"idle", "close", "all"}
    PROVE  Places'
<1>1. /\ sessions' = sessions \cup {NewId} /\ NewId \notin Known /\ NewId \notin closing
      /\ Known' = Known \cup {NewId} /\ closing' = closing /\ Newer'
  BY OpensFacts
<1>2. Alone /\ Sighted /\ Safe /\ Apart
  BY DEF Places
<1>3. /\ DOMAIN snaps' = DOMAIN snaps /\ ws' = ws
      /\ \A w \in DOMAIN snaps, p \in PaneNr :
            At(w, p)' = IF w = ws /\ p = p0 THEN NewId ELSE At(w, p)
  <2>1. \A w, p \in PaneNr : w = ws => At(w, p)' = IF p = p0 THEN NewId ELSE At(w, p)
    BY DeskNext
  <2>2. \A w, p : w # ws => At(w, p)' = At(w, p)
    BY DeskNext
  <2> QED
    BY <2>1, <2>2, DeskNext DEF wsVars
<1>4. \A w \in DOMAIN snaps, p \in PaneNr : p \in LayoutOf(w).panes => p \in LayoutOf(w)'.panes
  BY DeskNext
<1>5. \A w \in DOMAIN snaps, p \in PaneNr : w = ws /\ p = p0 => p \in LayoutOf(w)'.panes
  BY DeskNext
<1>6. \A w \in DOMAIN snaps, p \in PaneNr : At(w, p) # NewId
  BY <1>1, <1>2 DEF Safe
<1>7. Alone'
  <2> DEFINE M == {NewId}
  <2>1. \A w \in DOMAIN snaps', p \in PaneNr : Own(w, p)' /\ At(w, p)' \notin M =>
              w \in DOMAIN snaps /\ Own(w, p) /\ At(w, p)' = At(w, p)
    BY <1>1, <1>3 DEF Own
  <2>2. \A v, w \in DOMAIN snaps', p, q \in PaneNr :
              Own(v, p)' /\ Own(w, q)' /\ At(v, p)' = At(w, q)' /\ At(v, p)' \in M => v = w /\ p = q
    BY <1>3, <1>6
  <2> HIDE DEF M
  <2> QED
    BY <1>2, <2>1, <2>2, AloneStep
<1>8. Sighted'
  <2> SUFFICES ASSUME NEW w \in DOMAIN snaps', NEW p \in PaneNr, At(w, p)' \in sessions'
               PROVE  p \in LayoutOf(w)'.panes
    BY DEF Sighted
  <2>1. CASE w = ws /\ p = p0
    BY <1>3, <1>5, <2>1
  <2>2. CASE ~(w = ws /\ p = p0)
    <3>1. At(w, p)' = At(w, p) /\ At(w, p) \in sessions
      BY <1>1, <1>3, <1>6, <2>2
    <3> QED
      BY <1>2, <1>3, <1>4, <3>1 DEF Sighted
  <2> QED
    BY <2>1, <2>2
<1>9. Safe'
  <2>1. \A w \in DOMAIN snaps', p \in PaneNr : At(w, p)' \in Known'
    BY <1>1, <1>2, <1>3 DEF Safe
  <2> QED
    BY <2>1 DEF Safe
<1>10. Apart'
  <2>1. \A w \in DOMAIN snaps', p \in PaneNr : At(w, p)' \notin closing'
    BY <1>1, <1>2, <1>3 DEF Apart
  <2> QED
    BY <2>1 DEF Apart
<1> QED
  BY <1>1, <1>7, <1>8, <1>9, <1>10, HoldsNothingNow DEF Places

(* The handler is done. *)
LEMMA DoneCall ==
    ASSUME Base, NEW k \in DOMAIN calls, Pending(k), End(k)
    PROVE  \A j \in DOMAIN calls' : calls'[j].op \in {"idle", "close", "all"}
BY EndOne DEF Base, NoCalls, Pending, Idle

(* A pane that a new one appears beside is on the desk. *)
LEMMA SplitForSlots ==
    ASSUME Typed, NEW view, view.desk.panes = desk.panes, NEW p, NEW s \in SlotValues,
           SplitFor(view, p, s)
    PROVE  /\ nextPane \in PaneNr
           /\ \A q \in PaneNr : SlotOf(desk', q) = IF q = nextPane THEN s ELSE SlotOf(desk, q)
           /\ desk'.panes = desk.panes \cup {nextPane}
<1>1. desk \in Good /\ nextPane \in PaneNr
  BY DEF Typed
<1>2. PICK t \in desk.panes : desk' = AssignSessionToPane(SplitPane(desk, t, nextPane), nextPane, s)
  BY DEF SplitFor
<1> DEFINE split == SplitPane(desk, t, nextPane)
<1>3. split \in Good
  BY <1>1, SplitGood
<1>4. (\A q \in PaneNr : SlotOf(split, q) = SlotOf(desk, q))
      /\ split.panes = desk.panes \cup {nextPane}
  BY <1>1, SplitSlots
<1>5. desk' = AssignSessionToPane(split, nextPane, s)
  BY <1>2
<1> HIDE DEF split
<1>6. (\A q \in PaneNr : SlotOf(desk', q) = IF q = nextPane THEN s ELSE SlotOf(split, q))
      /\ desk'.panes = split.panes
  BY <1>1, <1>3, <1>5, AssignSlots, AssignGood
<1> QED
  BY <1>1, <1>4, <1>6

LEMMA PlaceSlots ==
    ASSUME Typed, NEW k, NEW view, view.desk.panes = desk.panes, NEW p \in desk.panes,
           NEW s \in SlotValues, PlaceInNewOrFreePane(k, view, p, s)
    PROVE  \E p0 \in PaneNr :
              /\ \A q \in PaneNr : SlotOf(desk', q) = IF q = p0 THEN s ELSE SlotOf(desk, q)
              /\ desk.panes \subseteq desk'.panes /\ p0 \in desk'.panes
<1>1. desk \in Good /\ desk.panes \subseteq PaneNr
  BY SlotsOfGood DEF Typed
<1>2. \/ \E q \in desk.panes : desk' = AssignSessionToPane(desk, q, s)
      \/ SplitFor(view, p, s)
  BY DEF PlaceInNewOrFreePane, FreePanes
<1>3. ASSUME NEW q \in desk.panes, desk' = AssignSessionToPane(desk, q, s)
      PROVE  \E p0 \in PaneNr :
                /\ \A i \in PaneNr : SlotOf(desk', i) = IF i = p0 THEN s ELSE SlotOf(desk, i)
                /\ desk.panes \subseteq desk'.panes /\ p0 \in desk'.panes
  BY <1>1, <1>3, AssignSlots, AssignGood
<1>4. CASE SplitFor(view, p, s)
  BY <1>4, SplitForSlots
<1> QED
  BY <1>2, <1>3, <1>4

(* The handler places its session by what it holds. *)
LEMMA PlacedPlaces ==
    ASSUME Base, Base', Places, NEW k \in DOMAIN calls, calls[k].op \in {"new", "elsewhere"},
           Opens(calls[k].kind), UNCHANGED <<wsVars, refVars>>,
           PlaceInNewOrFreePane(k, calls[k].view, calls[k].p, NewId)
    PROVE  Places'
<1> DEFINE c == calls[k]
           next == IF c.view.nss /\ SlotOf(c.view.desk, c.p) # None
                   THEN CloseCall(SlotOf(c.view.desk, c.p), None) ELSE Idle
<1>1. c.kind \in Kinds
  BY CallTyped, CallShape DEF Base
<1>2. c.p \in desk.panes /\ c.view.desk.panes = desk.panes
  BY DEF Places, Current, Alike
<1>3. Pending(k) /\ Spare = {}
  BY WaitsNotIdle, NoSpare
<1>4. next.op \in {"idle", "close"}
  BY DEF CloseCall, Idle
<1>5. calls' = [calls EXCEPT ![k] = next]
  BY DEF PlaceInNewOrFreePane
<1> HIDE DEF next
<1>6. \A j \in DOMAIN calls' : calls'[j].op \in {"idle", "close", "all"}
  <2>1. DOMAIN calls' = DOMAIN calls /\ \A j \in DOMAIN calls : calls'[j] \in {Idle, next}
    BY <1>3, <1>5, AnswerOne DEF Base
  <2> QED
    BY <1>4, <2>1 DEF Idle
<1>7. Typed /\ NewId \in SlotValues
  BY <1>1, Basics, OpensFacts
<1>8. PICK p0 \in PaneNr :
              /\ \A q \in PaneNr : SlotOf(desk', q) = IF q = p0 THEN NewId ELSE SlotOf(desk, q)
              /\ desk.panes \subseteq desk'.panes /\ p0 \in desk'.panes
  BY <1>2, <1>7, PlaceSlots
<1> QED
  BY <1>1, <1>3, <1>6, <1>8, AddPlaces

-----------------------------------------------------------------------------
(* New sessions and duplicates                                             *)

LEMMA OpenedNewPlaces ==
    ASSUME Base, Base', Places, NEW k \in DOMAIN calls, OpenedNew(k)
    PROVE  Places'
BY PlacedPlaces DEF OpenedNew

LEMMA OpenedInActivePlaces ==
    ASSUME Base, Base', Places, NEW k \in DOMAIN calls, OpenedInActive(k)
    PROVE  Places'
BY PlacedPlaces DEF OpenedInActive

(* The slot of a pane gets the new session. *)
LEMMA OpenedAtPanePlaces ==
    ASSUME Base, Base', Places, NEW k \in DOMAIN calls, calls[k].op \in {"here", "duplicate"},
           Opens(calls[k].kind), UNCHANGED <<wsVars, refVars>>, End(k),
           desk' = AssignSessionToPane(desk, calls[k].p, NewId)
    PROVE  Places'
<1> DEFINE p0 == calls[k].p
<1>1. calls[k].kind \in Kinds
  BY CallTyped, CallShape DEF Base
<1>2. Typed /\ desk \in Good /\ NewId \in SlotValues
  BY <1>1, Basics, OpensFacts DEF Typed
<1>3. p0 \in desk.panes /\ p0 \in PaneNr
  BY <1>2, SlotsOfGood DEF Places, Current
<1>4. Pending(k) /\ Spare \subseteq {p0}
  BY WaitsNotIdle, NoSpare
<1>5. \A j \in DOMAIN calls' : calls'[j].op \in {"idle", "close", "all"}
  BY <1>4, DoneCall
<1>6. desk' = AssignSessionToPane(desk, p0, NewId)
  OBVIOUS
<1> HIDE DEF p0
<1>7. (\A q \in PaneNr : SlotOf(desk', q) = IF q = p0 THEN NewId ELSE SlotOf(desk, q))
      /\ desk'.panes = desk.panes
  BY <1>2, <1>3, <1>6, AssignSlots, AssignGood
<1> QED
  BY <1>1, <1>3, <1>4, <1>5, <1>7, AddPlaces

LEMMA OpenedHerePlaces ==
    ASSUME Base, Base', Places, NEW k \in DOMAIN calls, OpenedHere(k)
    PROVE  Places'
BY OpenedAtPanePlaces DEF OpenedHere

LEMMA OpenedDuplicatePlaces ==
    ASSUME Base, Base', Places, NEW k \in DOMAIN calls, OpenedDuplicate(k)
    PROVE  Places'
BY OpenedAtPanePlaces DEF OpenedDuplicate

LEMMA OpenedInZonePlaces ==
    ASSUME Base, Base', Places, NEW k \in DOMAIN calls, OpenedInZone(k)
    PROVE  Places'
<1> DEFINE c == calls[k]
<1>1. c.op = "zone" /\ Opens(c.kind) /\ UNCHANGED <<wsVars, refVars>> /\ End(k)
      /\ SplitFor(c.view, c.p, NewId)
  BY DEF OpenedInZone
<1>2. c.kind \in Kinds /\ c.view.desk.panes = desk.panes
  BY <1>1, CallTyped, CallShape DEF Base, Places, Current, Alike
<1>3. Typed /\ NewId \in SlotValues
  BY <1>1, <1>2, Basics, OpensFacts
<1>4. Pending(k) /\ Spare = {}
  BY <1>1, WaitsNotIdle, NoSpare
<1>5. \A j \in DOMAIN calls' : calls'[j].op \in {"idle", "close", "all"}
  BY <1>1, <1>4, DoneCall
<1>6. /\ nextPane \in PaneNr
      /\ \A q \in PaneNr : SlotOf(desk', q) = IF q = nextPane THEN NewId ELSE SlotOf(desk, q)
      /\ desk'.panes = desk.panes \cup {nextPane}
  BY <1>1, <1>2, <1>3, SplitForSlots
<1> QED
  BY <1>1, <1>2, <1>4, <1>5, <1>6, AddPlaces

LEMMA OpenWebPlaces ==
    ASSUME Base, Base', Places, Patient, NEW p \in Panes, OpenWeb(p)
    PROVE  Places'
<1>1. NoCalls /\ Opens("web") /\ UNCHANGED <<wsVars, refVars>> /\ UNCHANGED calls
  BY PatientGesture DEF OpenWeb
<1>2. "web" \in Kinds
  BY DEF Kinds
<1>3. Typed /\ desk \in Good /\ NewId \in SlotValues /\ Spare = {}
  BY <1>1, <1>2, Basics, OpensFacts, NoSpare DEF Typed
<1>4. \A j \in DOMAIN calls' : calls'[j].op \in {"idle", "close", "all"}
  BY <1>1 DEF NoCalls, Pending, Idle
<1>5. \/ \E q \in FreePanes(desk) : desk' = AssignSessionToPane(desk, q, NewId)
      \/ SplitFor(View, p, NewId)
  BY DEF OpenWeb
<1>6. ASSUME NEW q \in FreePanes(desk), desk' = AssignSessionToPane(desk, q, NewId)
      PROVE  Places'
  <2>1. q \in PaneNr /\ q \in desk.panes
    BY <1>3, FreeSlots
  <2>2. (\A i \in PaneNr : SlotOf(desk', i) = IF i = q THEN NewId ELSE SlotOf(desk, i))
        /\ desk'.panes = desk.panes
    BY <1>3, <1>6, <2>1, AssignSlots, AssignGood
  <2> QED
    BY <1>1, <1>2, <1>3, <1>4, <2>1, <2>2, AddPlaces
<1>7. CASE SplitFor(View, p, NewId)
  <2>1. View.desk.panes = desk.panes
    BY DEF View
  <2>2. /\ nextPane \in PaneNr
        /\ \A q \in PaneNr : SlotOf(desk', q) = IF q = nextPane THEN NewId ELSE SlotOf(desk, q)
        /\ desk'.panes = desk.panes \cup {nextPane}
    BY <1>3, <1>7, <2>1, SplitForSlots
  <2> QED
    BY <1>1, <1>2, <1>3, <1>4, <2>2, AddPlaces
<1> QED
  BY <1>5, <1>6, <1>7

(* Until the duplicate has started, its pane shows the source. *)
LEMMA SplitDuplicatePlaces ==
    ASSUME Base, Base', Places, Patient, NEW p \in Panes, SplitDuplicate(p)
    PROVE  Places'
<1>1. NoCalls /\ UNCHANGED tabVars /\ UNCHANGED wsVars /\ UNCHANGED refVars /\ p \in desk.panes
  BY PatientGesture DEF SplitDuplicate
<1>2. PICK s \in sessions :
          /\ desk' = AssignSessionToPane(SplitPane(desk, p, nextPane), nextPane, s)
          /\ Begin([op |-> "duplicate", kind |-> kinds[s], p |-> nextPane])
  BY DEF SplitDuplicate
<1> DEFINE c == [op |-> "duplicate", kind |-> kinds[s], p |-> nextPane]
           split == SplitPane(desk, p, nextPane)
<1>3. c.op = "duplicate" /\ c.p = nextPane /\ Begin(c)
  BY <1>2
<1> HIDE DEF c
<1>4. Typed /\ desk \in Good /\ nextPane \in PaneNr /\ s \in SlotValues
  BY Basics DEF Typed, SlotValues
<1>5. /\ split \in Good /\ split.panes = desk.panes \cup {nextPane}
      /\ \A q \in PaneNr : SlotOf(split, q) = SlotOf(desk, q)
  BY <1>1, <1>4, SplitGood, SplitSlots
<1>6. desk' = AssignSessionToPane(split, nextPane, s)
  BY <1>2
<1> HIDE DEF split
<1>7. (\A q \in PaneNr : SlotOf(desk', q) = IF q = nextPane THEN s ELSE SlotOf(desk, q))
      /\ desk'.panes = desk.panes \cup {nextPane}
  BY <1>4, <1>5, <1>6, AssignSlots, AssignGood
<1>8. DOMAIN calls' = DOMAIN calls /\ (\A j \in DOMAIN calls : calls'[j] \in {Idle, c})
      /\ \E j \in DOMAIN calls : calls'[j] = c
  BY <1>1, <1>3, BeginOne DEF Base
<1>9. Spare = {} /\ nextPane \in Spare'
  <2>1. nextPane \in Spare'
    BY <1>3, <1>8 DEF Spare
  <2> QED
    BY <1>1, <2>1, NoSpare
<1>10. /\ sessions' = sessions /\ closing' = closing /\ boot' = boot /\ kinds' = kinds
       /\ ws' = ws /\ DOMAIN snaps' = DOMAIN snaps /\ Known' = Known
  BY <1>1 DEF tabVars, wsVars, refVars, Known
<1>11. /\ \A w \in DOMAIN snaps, q \in PaneNr :
             At(w, q)' = IF w = ws /\ q = nextPane THEN s ELSE At(w, q)
       /\ \A w \in DOMAIN snaps, q \in PaneNr : q \in LayoutOf(w).panes => q \in LayoutOf(w)'.panes
       /\ \A w \in DOMAIN snaps, q \in PaneNr : w = ws /\ q = nextPane => q \in LayoutOf(w)'.panes
  <2>1. \A w, q \in PaneNr : w = ws => At(w, q)' = IF q = nextPane THEN s ELSE At(w, q)
    BY <1>1, <1>7, DeskNext
  <2>2. \A w, q : w # ws => At(w, q)' = At(w, q)
    BY <1>1, DeskNext
  <2> QED
    BY <1>1, <1>7, <2>1, <2>2, DeskNext
<1>12. Alone /\ Sighted /\ Safe /\ Apart
  BY DEF Places
<1>13. Alone'
  <2> DEFINE M == {}
  <2>1. \A w \in DOMAIN snaps', q \in PaneNr : Own(w, q)' /\ At(w, q)' \notin M =>
              w \in DOMAIN snaps /\ Own(w, q) /\ At(w, q)' = At(w, q)
    BY <1>9, <1>10, <1>11 DEF Own
  <2>2. \A v, w \in DOMAIN snaps', q, i \in PaneNr :
              Own(v, q)' /\ Own(w, i)' /\ At(v, q)' = At(w, i)' /\ At(v, q)' \in M => v = w /\ q = i
    OBVIOUS
  <2> HIDE DEF M
  <2> QED
    BY <1>12, <2>1, <2>2, AloneStep
<1>14. Sighted'
  <2>1. \A w \in DOMAIN snaps', q \in PaneNr : At(w, q)' \in sessions' => q \in LayoutOf(w)'.panes
    BY <1>10, <1>11, <1>12 DEF Sighted
  <2> QED
    BY <2>1 DEF Sighted
<1>15. Safe'
  <2>1. \A w \in DOMAIN snaps', q \in PaneNr : At(w, q)' \in Known'
    BY <1>10, <1>11, <1>12 DEF Safe, Known
  <2> QED
    BY <2>1 DEF Safe
<1>16. Apart'
  <2>1. \A w \in DOMAIN snaps', q \in PaneNr : At(w, q)' \in closing' => w = ws' /\ q \in Spare'
    BY <1>9, <1>10, <1>11, <1>12 DEF Apart
  <2> QED
    BY <2>1 DEF Apart
<1>17. Newer'
  BY <1>10 DEF Places, Newer
<1>18. ASSUME NEW j \in DOMAIN calls'
       PROVE  Current(calls[j])'
  <2>1. nextPane \in desk'.panes
    BY <1>7
  <2>2. calls'[j] = Idle \/ (calls'[j].op = "duplicate" /\ calls'[j].p \in desk'.panes)
    BY <1>3, <1>8, <2>1
  <2> QED
    BY <2>2 DEF Current, Idle
<1> QED
  BY <1>13, <1>14, <1>15, <1>16, <1>17, <1>18 DEF Places

-----------------------------------------------------------------------------
(* Sessions move                                                           *)

(* The session of pane src goes to pane p, and what p showed may go to src.*)
LEMMA DeskMoves ==
    ASSUME Base, Base', Places, NoCalls, UNCHANGED calls,
           UNCHANGED tabVars, UNCHANGED wsVars, UNCHANGED refVars,
           NEW s \in Ids, NEW src \in PaneNr, NEW p \in PaneNr,
           SlotOf(desk, src) = s, src \in desk.panes, p \in desk'.panes,
           \A q \in PaneNr : SlotOf(desk', q) # None =>
              \/ q = p /\ SlotOf(desk', q) = s
              \/ q = src /\ SlotOf(desk', q) = SlotOf(desk, p)
              \/ q \notin {p, src} /\ SlotOf(desk', q) = SlotOf(desk, q) /\ SlotOf(desk, q) # s,
           src # p,
           \A q \in PaneNr : SlotOf(desk', q) # None /\ q \in desk.panes => q \in desk'.panes
    PROVE  Places'
<1>1. Spare = {} /\ NoCalls'
  BY NoSpare, CallsSame
<1>2. /\ sessions' = sessions /\ closing' = closing /\ boot' = boot /\ kinds' = kinds
      /\ ws' = ws /\ DOMAIN snaps' = DOMAIN snaps /\ Known' = Known
  BY DEF tabVars, wsVars, refVars, Known
<1>3. Alone /\ Sighted /\ Safe /\ Apart /\ Newer
  BY DEF Places
<1>4. PICK d \in DOMAIN snaps : d = ws
  BY Basics DEF Typed
<1>5. /\ None \notin sessions /\ None \notin closing /\ s # None
      /\ \A w \in DOMAIN snaps, q \in PaneNr : At(w, q) \notin closing
  BY <1>1, <1>3, Basics, IdsAssumption, BoundsAssumption DEF Typed, Apart, Ids
<1>6. \A q \in PaneNr : At(d, q) = SlotOf(desk, q) /\ At(d, q)' = SlotOf(desk', q)
  BY <1>4, DeskNext
<1>7. \A w \in DOMAIN snaps, q \in PaneNr : w # d => At(w, q)' = At(w, q)
      /\ LayoutOf(w)' = LayoutOf(w)
  BY <1>4, DeskNext
<1>8. LayoutOf(d) = desk /\ LayoutOf(d)' = desk'
  BY <1>4, DeskNext
<1>9. Alone'
  <2> DEFINE M == {s, SlotOf(desk, p)}
  <2>1. \A w \in DOMAIN snaps', q \in PaneNr : Own(w, q)' /\ At(w, q)' \notin M =>
              w \in DOMAIN snaps /\ Own(w, q) /\ At(w, q)' = At(w, q)
    <3> SUFFICES ASSUME NEW w \in DOMAIN snaps', NEW q \in PaneNr, Own(w, q)', At(w, q)' \notin M
                 PROVE  w \in DOMAIN snaps /\ Own(w, q) /\ At(w, q)' = At(w, q)
      OBVIOUS
    <3>1. w \in DOMAIN snaps /\ At(w, q)' \in sessions
      BY <1>2 DEF Own
    <3>2. At(w, q)' = At(w, q)
      BY <1>5, <1>6, <1>7, <3>1
    <3> QED
      BY <1>1, <3>1, <3>2 DEF Own
  <2>2. \A w \in DOMAIN snaps, q \in PaneNr : At(w, q) \in sessions => Own(w, q)
    BY <1>1 DEF Own
  <2>3. \A v, w \in DOMAIN snaps, q, i \in PaneNr :
           At(v, q) \in sessions /\ At(v, q) = At(w, i) => v = w /\ q = i
    BY <1>3, <2>2 DEF Alone
  <2>4. \A w \in DOMAIN snaps, q \in PaneNr : At(w, q)' = s /\ s \in sessions => w = d /\ q = p
    <3> SUFFICES ASSUME NEW w \in DOMAIN snaps, NEW q \in PaneNr, At(w, q)' = s, s \in sessions
                 PROVE  w = d /\ q = p
      OBVIOUS
    <3>1. At(d, src) = s
      BY <1>6
    <3>2. w = d
      BY <1>7, <2>3, <3>1
    <3>3. SlotOf(desk', q) = s
      BY <1>6, <3>2
    <3>4. q = src => At(d, p) = s
      BY <1>5, <1>6, <3>3
    <3>5. q # src
      BY <2>3, <3>1, <3>4
    <3> QED
      BY <1>5, <3>2, <3>3, <3>5
  <2>5. \A w \in DOMAIN snaps, q \in PaneNr :
           At(w, q)' = SlotOf(desk, p) /\ SlotOf(desk, p) \in sessions /\ SlotOf(desk, p) # s =>
              w = d /\ q = src
    <3> SUFFICES ASSUME NEW w \in DOMAIN snaps, NEW q \in PaneNr, At(w, q)' = SlotOf(desk, p),
                        SlotOf(desk, p) \in sessions, SlotOf(desk, p) # s
                 PROVE  w = d /\ q = src
      OBVIOUS
    <3>1. At(d, p) = SlotOf(desk, p)
      BY <1>6
    <3>2. w = d
      BY <1>7, <2>3, <3>1
    <3>3. SlotOf(desk', q) = SlotOf(desk, p) /\ SlotOf(desk', q) # None
      BY <1>5, <1>6, <3>2
    <3>4. q # src => q # p /\ At(d, q) = At(d, p)
      BY <1>6, <3>3
    <3> QED
      BY <2>3, <3>1, <3>2, <3>4
  <2>6. \A v, w \in DOMAIN snaps', q, i \in PaneNr :
              Own(v, q)' /\ Own(w, i)' /\ At(v, q)' = At(w, i)' /\ At(v, q)' \in M => v = w /\ q = i
    BY <1>2, <2>4, <2>5 DEF Own
  <2> HIDE DEF M
  <2> QED
    BY <1>3, <2>1, <2>6, AloneStep
<1>10. Sighted'
  <2>1. \A w \in DOMAIN snaps', q \in PaneNr : At(w, q)' \in sessions' => q \in LayoutOf(w)'.panes
    <3> SUFFICES ASSUME NEW w \in DOMAIN snaps, NEW q \in PaneNr, At(w, q)' \in sessions
                 PROVE  q \in LayoutOf(w)'.panes
      BY <1>2
    <3>1. CASE w # d
      BY <1>3, <1>7, <3>1 DEF Sighted
    <3>2. CASE w = d
      <4>1. SlotOf(desk', q) \in sessions /\ SlotOf(desk', q) # None
        BY <1>5, <1>6, <3>2
      <4>2. q \in desk.panes \/ q = p
        BY <1>3, <1>6, <1>8, <4>1 DEF Sighted
      <4> QED
        BY <1>8, <3>2, <4>1, <4>2
    <3> QED
      BY <3>1, <3>2
  <2> QED
    BY <2>1 DEF Sighted
<1>11. \A w \in DOMAIN snaps, q \in PaneNr : At(w, q)' = None \/
          \E v \in DOMAIN snaps, i \in PaneNr : At(w, q)' = At(v, i)
  <2> SUFFICES ASSUME NEW w \in DOMAIN snaps, NEW q \in PaneNr, At(w, q)' # None
               PROVE  \E i \in PaneNr : At(w, q)' = At(w, i)
    OBVIOUS
  <2>1. CASE w # d
    BY <1>7, <2>1
  <2>2. CASE w = d
    BY <1>6, <2>2
  <2> QED
    BY <2>1, <2>2
<1>12. Safe'
  <2>1. \A w \in DOMAIN snaps', q \in PaneNr : At(w, q)' \in Known'
    BY <1>2, <1>3, <1>11 DEF Safe, Known
  <2> QED
    BY <2>1 DEF Safe
<1>13. Apart'
  <2>1. \A w \in DOMAIN snaps', q \in PaneNr : At(w, q)' \notin closing'
    BY <1>2, <1>5, <1>11
  <2> QED
    BY <2>1 DEF Apart
<1>14. Newer'
  BY <1>2, <1>3 DEF Newer
<1> QED
  BY <1>1, <1>9, <1>10, <1>12, <1>13, <1>14, GoneCurrent DEF Places

LEMMA FirstSlotShows ==
    ASSUME Base, NEW s, NEW src \in FirstSlotOf(s)
    PROVE  src \in PaneNr /\ SlotOf(desk, src) = s
<1>1. desk \in Good
  BY Basics DEF Typed
<1> QED
  BY <1>1, SlotsOfGood DEF FirstSlotOf

(* s leaves its slots and goes to pane p. *)
LEMMA TakenSlots ==
    ASSUME NEW l \in Good, NEW s \in SlotValues, NEW p \in PaneNr
    PROVE  LET moved == AssignSessionToPane(RemoveSessionFromSlots(l, s), p, s)
           IN  /\ moved \in Good /\ moved.panes = l.panes
               /\ \A q \in PaneNr : SlotOf(moved, q) = IF q = p THEN s
                                                       ELSE IF SlotOf(l, q) = s THEN None
                                                       ELSE SlotOf(l, q)
<1> DEFINE without == RemoveSessionFromSlots(l, s)
           moved == AssignSessionToPane(without, p, s)
<1>1. /\ without \in Good /\ without.panes = l.panes
      /\ \A q \in PaneNr : SlotOf(without, q) = IF SlotOf(l, q) = s THEN None ELSE SlotOf(l, q)
  BY RemoveGood, RemoveSlots
<1> HIDE DEF without
<1>2. /\ moved \in Good /\ moved.panes = without.panes
      /\ \A q \in PaneNr : SlotOf(moved, q) = IF q = p THEN s ELSE SlotOf(without, q)
  BY <1>1, AssignGood, AssignSlots
<1> HIDE DEF moved
<1>3. /\ moved \in Good /\ moved.panes = l.panes
      /\ \A q \in PaneNr : SlotOf(moved, q) = IF q = p THEN s
                                              ELSE IF SlotOf(l, q) = s THEN None ELSE SlotOf(l, q)
  BY <1>1, <1>2
<1> QED
  BY <1>3 DEF moved, without

(* A pane goes, with its slot. *)
LEMMA GoneSlots ==
    ASSUME NEW l \in Good, NEW src, l.panes # {src}
    PROVE  LET rest == ClearPaneAtIndex(RemovePane(l, src), src)
           IN  /\ \A q \in PaneNr : SlotOf(rest, q) = IF q = src THEN None ELSE SlotOf(l, q)
               /\ rest.panes = l.panes \ {src}
<1> DEFINE less == RemovePane(l, src)
           rest == ClearPaneAtIndex(less, src)
<1>1. ~(l.panes \subseteq {src})
  <2>1. l.panes # {}
    BY DEF Good, Backed
  <2> QED
    BY <2>1
<1>2. /\ less \in Good /\ less.panes = l.panes \ {src}
      /\ \A q \in PaneNr : SlotOf(less, q) = SlotOf(l, q)
  <2>1. less \in Good
    BY RemovePaneGood
  <2>2. less.panes = IF l.panes \subseteq {src} THEN l.panes ELSE l.panes \ {src}
    BY RemovePaneSlots
  <2>3. \A q \in PaneNr : SlotOf(less, q) = SlotOf(l, q)
    BY RemovePaneSlots
  <2> HIDE DEF less
  <2> QED
    BY <1>1, <2>1, <2>2, <2>3
<1> HIDE DEF less
<1>3. rest.panes = less.panes /\ \A q \in PaneNr : SlotOf(rest, q) =
         IF q = src THEN None ELSE SlotOf(less, q)
  BY <1>2, ClearGood, ClearSlots
<1> HIDE DEF rest
<1>4. rest.panes = l.panes \ {src} /\ \A q \in PaneNr : SlotOf(rest, q) =
         IF q = src THEN None ELSE SlotOf(l, q)
  BY <1>2, <1>3
<1> QED
  BY <1>4 DEF rest, less

LEMMA DragToPanePlaces ==
    ASSUME Base, Base', Places, Patient, NEW s \in Ids, NEW src \in Panes, NEW p \in Panes,
           DragToPane(s, src, p)
    PROVE  Places'
<1>1. /\ NoCalls /\ UNCHANGED calls /\ UNCHANGED tabVars /\ UNCHANGED wsVars /\ UNCHANGED refVars
      /\ src \in FirstSlotOf(s) /\ src \in desk.panes /\ p \in desk.panes /\ src # p
      /\ desk' = MoveToPane(desk, s, src, p)
  BY PatientGesture DEF DragToPane
<1>2. /\ desk \in Good /\ s \in SlotValues /\ src \in PaneNr /\ p \in PaneNr
      /\ SlotOf(desk, src) = s
  BY <1>1, Basics, FirstSlotShows, PanesAreNumbers DEF Typed, SlotValues
<1> DEFINE there == SlotOf(desk, p)
           moved == AssignSessionToPane(RemoveSessionFromSlots(desk, s), p, s)
<1>3. /\ moved \in Good /\ moved.panes = desk.panes /\ there \in SlotValues
      /\ \A q \in PaneNr : SlotOf(moved, q) = IF q = p THEN s
                                              ELSE IF SlotOf(desk, q) = s THEN None
                                              ELSE SlotOf(desk, q)
  BY <1>2, TakenSlots, SlotOfType
<1>4. desk' = IF there = None THEN ClearPaneAtIndex(RemovePane(moved, src), src)
              ELSE AssignSessionToPane(moved, src, there)
  BY <1>1 DEF MoveToPane
<1> HIDE DEF moved
<1>5. (\A q \in PaneNr : SlotOf(desk', q) = IF q = src THEN there ELSE SlotOf(moved, q))
      /\ desk'.panes = IF there = None THEN desk.panes \ {src} ELSE desk.panes
  <2>1. CASE there = None
    <3>1. moved.panes # {src}
      BY <1>1, <1>3
    <3> QED
      BY <1>3, <1>4, <2>1, <3>1, GoneSlots
  <2>2. CASE there # None
    <3>1. desk' = AssignSessionToPane(moved, src, there)
      BY <1>4, <2>2
    <3> HIDE DEF there
    <3>2. desk'.panes = moved.panes
      BY <1>2, <1>3, <3>1, AssignGood
    <3>3. \A q \in PaneNr : SlotOf(desk', q) = IF q = src THEN there ELSE SlotOf(moved, q)
      BY <1>2, <1>3, <3>1, AssignSlots
    <3> QED
      BY <1>3, <2>2, <3>2, <3>3
  <2> QED
    BY <2>1, <2>2
<1>6. \A q \in PaneNr : SlotOf(desk', q) # None =>
              \/ q = p /\ SlotOf(desk', q) = s
              \/ q = src /\ SlotOf(desk', q) = SlotOf(desk, p)
              \/ q \notin {p, src} /\ SlotOf(desk', q) = SlotOf(desk, q) /\ SlotOf(desk, q) # s
  BY <1>1, <1>3, <1>5
<1>7. /\ p \in desk'.panes
      /\ \A q \in PaneNr : SlotOf(desk', q) # None /\ q \in desk.panes => q \in desk'.panes
  BY <1>1, <1>5
<1> HIDE DEF there
<1> QED
  BY <1>1, <1>2, <1>6, <1>7, DeskMoves

LEMMA DragToEdgePlaces ==
    ASSUME Base, Base', Places, Patient, NEW s \in Ids, NEW src \in Panes, NEW p \in Panes,
           DragToEdge(s, src, p)
    PROVE  Places'
<1> DEFINE split == SplitPane(desk, p, nextPane)
           moved == AssignSessionToPane(RemoveSessionFromSlots(split, s), nextPane, s)
<1>1. /\ NoCalls /\ UNCHANGED calls /\ UNCHANGED tabVars /\ UNCHANGED wsVars /\ UNCHANGED refVars
      /\ src \in FirstSlotOf(s) /\ src \in desk.panes /\ p \in desk.panes /\ src # p
      /\ desk' = ClearPaneAtIndex(RemovePane(moved, src), src)
  BY PatientGesture DEF DragToEdge
<1>2. /\ desk \in Good /\ s \in SlotValues /\ src \in PaneNr /\ nextPane \in PaneNr
      /\ SlotOf(desk, src) = s /\ desk.panes \subseteq PaneNr
  BY <1>1, Basics, FirstSlotShows, SlotsOfGood DEF Typed, SlotValues
<1>3. /\ split \in Good /\ split.panes = desk.panes \cup {nextPane}
      /\ \A q \in PaneNr : SlotOf(split, q) = SlotOf(desk, q)
  BY <1>1, <1>2, SplitGood, SplitSlots
<1>4. /\ moved \in Good /\ moved.panes = split.panes
      /\ \A q \in PaneNr : SlotOf(moved, q) = IF q = nextPane THEN s
                                              ELSE IF SlotOf(split, q) = s THEN None
                                              ELSE SlotOf(split, q)
  <2> HIDE DEF split
  <2> QED
    BY <1>2, <1>3, TakenSlots DEF moved
<1> HIDE DEF moved, split
<1>5. (\A q \in PaneNr : SlotOf(desk', q) = IF q = src THEN None ELSE SlotOf(moved, q))
      /\ desk'.panes = moved.panes \ {src}
  <2>1. moved.panes # {src}
    BY <1>1, <1>3, <1>4
  <2> QED
    BY <1>1, <1>4, <2>1, GoneSlots
<1>6. \A q \in PaneNr : SlotOf(desk', q) # None =>
              \/ q = nextPane /\ SlotOf(desk', q) = s
              \/ q \notin {nextPane, src} /\ SlotOf(desk', q) = SlotOf(desk, q)
                 /\ SlotOf(desk, q) # s
  BY <1>3, <1>4, <1>5
<1>7. \A q \in PaneNr : SlotOf(desk', q) # None /\ q \in desk.panes => q \in desk'.panes
  BY <1>3, <1>4, <1>5
<1>8. CASE src # nextPane
  <2>1. nextPane \in desk'.panes
    BY <1>3, <1>4, <1>5, <1>8
  <2> QED
    BY <1>1, <1>2, <1>6, <1>7, <1>8, <2>1, DeskMoves
<1>9. CASE src = nextPane
  <2>1. Spare = {} /\ NoCalls'
    BY <1>1, NoSpare, CallsSame
  <2>2. \A q \in PaneNr : SlotOf(desk', q) # None =>
           SlotOf(desk', q) = SlotOf(desk, q) /\ (q \in desk.panes => q \in desk'.panes)
    BY <1>5, <1>6, <1>7, <1>9
  <2> QED
    BY <1>1, <2>1, <2>2, DeskThins
<1> QED
  BY <1>8, <1>9

(* A session goes to another workspace. *)
LEMMA SendSessionPlaces ==
    ASSUME Base, Base', Places, Patient, NEW s \in Ids, NEW t \in Workspaces, SendSession(s, t)
    PROVE  Places'
<1> DEFINE without == RemoveSessionFromSlots(desk, s)
<1>1. /\ NoCalls /\ UNCHANGED calls /\ UNCHANGED tabVars /\ UNCHANGED refVars /\ ws' = ws
      /\ s \in Shown(desk) /\ t \in DOMAIN snaps /\ t # ws
  BY PatientGesture DEF SendSession
<1>2. PICK l \in AppendSession(snaps[t], s) : snaps' = Save(t, l)
  BY DEF SendSession, AppendToSnapshot
<1>3. PICK src : desk' = IF src \in desk.panes /\ desk.panes # {src}
                         THEN ClearPaneAtIndex(RemovePane(without, src), src) ELSE without
  BY DEF SendSession
<1>4. Spare = {} /\ NoCalls'
  BY <1>1, NoSpare, CallsSame
<1>5. /\ sessions' = sessions /\ closing' = closing /\ boot' = boot /\ kinds' = kinds
      /\ DOMAIN snaps' = DOMAIN snaps /\ Known' = Known
  BY <1>1, <1>2 DEF tabVars, refVars, Known, Save
<1>6. Alone /\ Sighted /\ Safe /\ Apart /\ Newer
  BY DEF Places
<1>7. /\ desk \in Good /\ (\A w \in DOMAIN snaps : LayoutOf(w) \in Good)
      /\ None \notin sessions /\ None \notin closing
  BY Basics DEF Typed
<1>8. PICK d \in DOMAIN snaps : d = ws
  BY Basics DEF Typed
<1>9. /\ without \in Good /\ without.panes = desk.panes
      /\ \A q \in PaneNr : SlotOf(without, q) =
            IF SlotOf(desk, q) = s THEN None ELSE SlotOf(desk, q)
  BY <1>7, RemoveGood, RemoveSlots
<1> HIDE DEF without
<1>10. \A q \in PaneNr : SlotOf(desk', q) # None =>
          /\ SlotOf(desk', q) = SlotOf(desk, q) /\ SlotOf(desk', q) # s
          /\ q \in desk.panes => q \in desk'.panes
  <2>1. CASE src \in desk.panes /\ desk.panes # {src}
    <3>1. /\ desk'.panes = without.panes \ {src}
          /\ \A q \in PaneNr : SlotOf(desk', q) = IF q = src THEN None ELSE SlotOf(without, q)
      BY <1>3, <1>9, <2>1, GoneSlots
    <3> QED
      BY <1>9, <3>1
  <2>2. CASE ~(src \in desk.panes /\ desk.panes # {src})
    BY <1>3, <1>9, <2>2
  <2> QED
    BY <2>1, <2>2
<1>11. /\ LayoutOf(d) = desk /\ LayoutOf(d)' = desk'
       /\ \A q \in PaneNr : At(d, q) = SlotOf(desk, q) /\ At(d, q)' = SlotOf(desk', q)
  BY <1>1, <1>8, LayoutNext DEF At, LayoutOf
<1>12. /\ LayoutOf(t) = snaps[t] /\ LayoutOf(t)' = l
       /\ \A q \in PaneNr : At(t, q) = SlotOf(snaps[t], q) /\ At(t, q)' = SlotOf(l, q)
  BY <1>1, <1>2, LayoutNext DEF At, LayoutOf, Save
<1>13. \A w \in DOMAIN snaps, q \in PaneNr : w \notin {d, t} =>
          At(w, q)' = At(w, q) /\ LayoutOf(w)' = LayoutOf(w)
  BY <1>1, <1>2, <1>8, LayoutNext DEF At, LayoutOf, Save
<1>14. PICK p \in PaneNr : /\ \A q \in PaneNr : SlotOf(l, q) =
                                 IF q = p THEN s ELSE SlotOf(snaps[t], q)
                           /\ p \in l.panes /\ snaps[t].panes \subseteq l.panes
  <2>1. snaps[t] \in Good
    BY <1>1, <1>7, <1>12
  <2> QED
    BY <1>2, <2>1, AppendSlots
<1>15. \A w \in DOMAIN snaps, q \in PaneNr : ~(w = t /\ q = p) /\ At(w, q)' # None =>
          /\ At(w, q)' = At(w, q)
          /\ q \in LayoutOf(w).panes => q \in LayoutOf(w)'.panes
  <2> SUFFICES ASSUME NEW w \in DOMAIN snaps, NEW q \in PaneNr, ~(w = t /\ q = p), At(w, q)' # None
               PROVE  At(w, q)' = At(w, q) /\ (q \in LayoutOf(w).panes => q \in LayoutOf(w)'.panes)
    OBVIOUS
  <2>1. CASE w = d
    BY <1>10, <1>11, <2>1
  <2>2. CASE w = t
    BY <1>12, <1>14, <2>2
  <2>3. CASE w \notin {d, t}
    BY <1>13, <2>3
  <2> QED
    BY <2>1, <2>2, <2>3
<1>16. At(t, p)' = s /\ p \in LayoutOf(t)'.panes
  BY <1>12, <1>14
<1>17. PICK src0 \in PaneNr : At(d, src0) = s
  BY <1>1, <1>7, <1>11, ShownIn
<1>18. Alone'
  <2> DEFINE M == {s}
  <2>1. \A w \in DOMAIN snaps', q \in PaneNr : Own(w, q)' /\ At(w, q)' \notin M =>
              w \in DOMAIN snaps /\ Own(w, q) /\ At(w, q)' = At(w, q)
    BY <1>4, <1>5, <1>7, <1>15, <1>16 DEF Own
  <2>2. \A w \in DOMAIN snaps, q \in PaneNr : At(w, q)' = s /\ s \in sessions => w = t /\ q = p
    <3> SUFFICES ASSUME NEW w \in DOMAIN snaps, NEW q \in PaneNr, At(w, q)' = s, s \in sessions,
                        ~(w = t /\ q = p)
                 PROVE  FALSE
      OBVIOUS
    <3>1. At(w, q) = s
      BY <1>7, <1>15
    <3>2. w = d
      BY <1>4, <1>6, <1>17, <3>1 DEF Alone, Own
    <3> QED
      BY <1>7, <1>10, <1>11, <3>2
  <2>3. \A v, w \in DOMAIN snaps', q, i \in PaneNr :
              Own(v, q)' /\ Own(w, i)' /\ At(v, q)' = At(w, i)' /\ At(v, q)' \in M => v = w /\ q = i
    BY <1>5, <2>2 DEF Own
  <2> HIDE DEF M
  <2> QED
    BY <1>6, <2>1, <2>3, AloneStep
<1>19. Sighted'
  <2>1. \A w \in DOMAIN snaps', q \in PaneNr : At(w, q)' \in sessions' => q \in LayoutOf(w)'.panes
    BY <1>5, <1>6, <1>7, <1>15, <1>16 DEF Sighted
  <2> QED
    BY <2>1 DEF Sighted
<1>20. \A w \in DOMAIN snaps, q \in PaneNr : At(w, q)' = None \/
          \E v \in DOMAIN snaps, i \in PaneNr : At(w, q)' = At(v, i)
  BY <1>15, <1>16, <1>17
<1>21. Safe'
  <2>1. \A w \in DOMAIN snaps', q \in PaneNr : At(w, q)' \in Known'
    BY <1>5, <1>6, <1>20 DEF Safe, Known
  <2> QED
    BY <2>1 DEF Safe
<1>22. Apart'
  <2>1. \A w \in DOMAIN snaps', q \in PaneNr : At(w, q)' \notin closing'
    BY <1>4, <1>5, <1>6, <1>7, <1>20 DEF Apart
  <2> QED
    BY <2>1 DEF Apart
<1>23. Newer'
  BY <1>5, <1>6 DEF Newer
<1> QED
  BY <1>4, <1>18, <1>19, <1>21, <1>22, <1>23, GoneCurrent DEF Places

-----------------------------------------------------------------------------
(* A handler shows another workspace                                       *)

(* Sessions in M are new, each with one place; the others are where they   *)
(* were.                                                                   *)
LEMMA NewPlaces ==
    ASSUME Base, Base', Places, Spare = {}, NoCalls', Newer', NEW M,
           sessions' = sessions \cup M, UNCHANGED closing, UNCHANGED boot,
           \A w \in DOMAIN snaps', p \in PaneNr :
              \/ At(w, p)' \in M \ closing /\ p \in LayoutOf(w)'.panes
              \/ At(w, p)' \in Known \ closing,
           \A w \in DOMAIN snaps', p \in PaneNr : At(w, p)' \in sessions =>
              /\ w \in DOMAIN snaps /\ At(w, p)' = At(w, p)
              /\ p \in LayoutOf(w).panes => p \in LayoutOf(w)'.panes,
           M \cap Known = {},
           \A v, w \in DOMAIN snaps', p, q \in PaneNr :
              At(v, p)' = At(w, q)' /\ At(v, p)' \in M => v = w /\ p = q
    PROVE  Places'
<1>1. Known' = Known \cup M
  BY DEF Known
<1>2. Alone'
  <2>1. \A w \in DOMAIN snaps', p \in PaneNr : Own(w, p)' /\ At(w, p)' \notin M =>
              w \in DOMAIN snaps /\ Own(w, p) /\ At(w, p)' = At(w, p)
    BY DEF Own
  <2>2. \A v, w \in DOMAIN snaps', p, q \in PaneNr :
              Own(v, p)' /\ Own(w, q)' /\ At(v, p)' = At(w, q)' /\ At(v, p)' \in M => v = w /\ p = q
    OBVIOUS
  <2>3. Alone
    BY DEF Places
  <2> QED
    BY <2>1, <2>2, <2>3, AloneStep
<1>3. Sighted'
  <2>1. \A w \in DOMAIN snaps', p \in PaneNr : At(w, p)' \in sessions' => p \in LayoutOf(w)'.panes
    BY DEF Places, Sighted, Known
  <2> QED
    BY <2>1 DEF Sighted
<1>4. Safe'
  <2>1. \A w \in DOMAIN snaps', p \in PaneNr : At(w, p)' \in Known'
    BY <1>1
  <2> QED
    BY <2>1 DEF Safe
<1>5. Apart'
  <2>1. \A w \in DOMAIN snaps', p \in PaneNr : At(w, p)' \notin closing'
    OBVIOUS
  <2> QED
    BY <2>1 DEF Apart
<1> QED
  BY <1>2, <1>3, <1>4, <1>5, GoneCurrent DEF Places

(* The layout a handler holds goes back into its workspace: its sessions   *)
(* are where they were.                                                    *)
LEMMA HeldAgrees ==
    ASSUME Base, Places, NEW w \in DOMAIN snaps, NEW l, Alike(l, LayoutOf(w)), Fit(l),
           NEW p \in PaneNr
    PROVE  /\ SlotOf(l, p) \in Known \ closing
           /\ SlotOf(l, p) \in sessions => SlotOf(l, p) = At(w, p)
           /\ l.panes = LayoutOf(w).panes
BY DEF Alike, Fit, At

LEMMA RightStartedPlaces ==
    ASSUME Base, Base', Places, NEW k \in DOMAIN calls, RightStarted(k)
    PROVE  Places'
<1> DEFINE c == calls[k]
           panels == [slots |-> <<c.left, NewId>>, panes |-> {1, 2}]
           M == {c.left, NewId}
<1>1. /\ c.op = "right" /\ Starts("local") /\ End(k) /\ UNCHANGED refVars
      /\ sessions' = sessions \cup M
      /\ snaps' = [x \in DOMAIN snaps \cup {c.target, c.view.ws} |->
                      IF x = c.target THEN panels
                      ELSE IF x = c.view.ws THEN c.view.desk ELSE snaps[x]]
      /\ ws' = c.target /\ desk' = panels
  BY DEF RightStarted, Show
<1>2. Pending(k) /\ Spare = {} /\ NoCalls'
  BY <1>1, WaitsNotIdle, NoSpare, EndOne DEF Base
<1>3. /\ c.target \notin DOMAIN snaps /\ c.view.ws = ws
      /\ Alike(c.view.desk, desk) /\ Fit(c.view.desk)
      /\ c.left \notin sessions \cup closing /\ c.left > boot
  BY <1>1 DEF Places, Current
<1>4. c.left \in Ids /\ c.left \in DOMAIN kinds
  BY <1>1, CallTyped, CallShape DEF Base, CallsNow
<1>5. /\ NewId \in Ids /\ NewId \in DOMAIN kinds' /\ DOMAIN kinds \subseteq DOMAIN kinds'
  BY <1>1, StartsStep DEF Base, Kinds
<1>6. Typed /\ Typed' /\ Newer
  BY Basics, BasicsNext DEF Places
<1>7. closing' = closing /\ boot' = boot
  BY <1>1 DEF refVars
<1>8. None \notin Ids
  BY IdsAssumption, BoundsAssumption DEF Ids
<1>9. /\ M \cap Known = {} /\ M \cap closing = {} /\ c.left # NewId /\ NewId > boot
  BY <1>3, <1>4, <1>5, <1>6, <1>8 DEF Typed, Newer, Known, NewId
<1>10. Newer'
  <2>1. Len(kinds) <= Len(kinds')
    BY <1>5, <1>6 DEF Typed
  <2> QED
    BY <1>1, <1>3, <1>5, <1>6, <1>7, <1>9, <2>1 DEF Newer, Typed
<1>11. DOMAIN snaps' = DOMAIN snaps \cup {c.target} /\ c.target # ws /\ ws \in DOMAIN snaps
  BY <1>1, <1>3, <1>6 DEF Typed
<1>12. ASSUME NEW w \in DOMAIN snaps', w = c.target, NEW p \in PaneNr
       PROVE  /\ At(w, p)' = IF p = 1 THEN c.left ELSE IF p = 2 THEN NewId ELSE None
              /\ p \in {1, 2} => p \in LayoutOf(w)'.panes
  <2>1. LayoutOf(w)' = panels
    BY <1>1, <1>12, LayoutNext
  <2>2. At(w, p)' = SlotOf(panels, p)
    BY <2>1, LayoutNext
  <2>3. panels.slots = <<c.left, NewId>> /\ panels.panes = {1, 2}
    OBVIOUS
  <2> HIDE DEF panels
  <2>4. SlotOf(panels, p) = IF p = 1 THEN c.left ELSE IF p = 2 THEN NewId ELSE None
    <3> HIDE DEF c
    <3>1. DOMAIN panels.slots = 1..2 /\ panels.slots[1] = c.left /\ panels.slots[2] = NewId
      BY <2>3
    <3> QED
      BY <3>1 DEF SlotOf, PaneNr
  <2> QED
    BY <2>1, <2>2, <2>3, <2>4
<1>13. ASSUME NEW w \in DOMAIN snaps', w # c.target, NEW p \in PaneNr
       PROVE  /\ w \in DOMAIN snaps /\ At(w, p)' \in Known \ closing
              /\ At(w, p)' \in sessions => At(w, p)' = At(w, p)
              /\ LayoutOf(w)'.panes = LayoutOf(w).panes
  <2>1. w \in DOMAIN snaps /\ LayoutOf(w)' = IF w = ws THEN c.view.desk ELSE LayoutOf(w)
    BY <1>1, <1>3, <1>11, <1>13, LayoutNext DEF LayoutOf
  <2>2. CASE w = ws
    <3>1. LayoutOf(w) = desk
      BY <2>2 DEF LayoutOf
    <3> DEFINE l == c.view.desk
    <3>2. Alike(l, LayoutOf(w)) /\ Fit(l) /\ At(w, p)' = SlotOf(l, p) /\ LayoutOf(w)' = l
      BY <1>3, <2>1, <2>2, <3>1, LayoutNext
    <3> HIDE DEF l
    <3> QED
      BY <2>1, <3>2, HeldAgrees
  <2>3. CASE w # ws
    <3>1. At(w, p)' = At(w, p)
      BY <2>1, <2>3, LayoutNext DEF At
    <3>2. At(w, p) \in Known \ closing
      BY <1>2, <2>1 DEF Places, Safe, Apart
    <3> QED
      BY <2>1, <2>3, <3>1, <3>2
  <2> QED
    BY <2>2, <2>3
<1> HIDE DEF c, panels
<1>14. \A w \in DOMAIN snaps', p \in PaneNr :
              \/ At(w, p)' \in M \ closing /\ p \in LayoutOf(w)'.panes
              \/ At(w, p)' \in Known \ closing
  <2>1. None \in Known \ closing
    BY <1>6 DEF Known, Typed
  <2> QED
    BY <1>9, <1>12, <1>13, <2>1
<1>15. \A w \in DOMAIN snaps', p \in PaneNr : At(w, p)' \in sessions =>
              /\ w \in DOMAIN snaps /\ At(w, p)' = At(w, p)
              /\ p \in LayoutOf(w).panes => p \in LayoutOf(w)'.panes
  <2>1. \A w \in DOMAIN snaps', p \in PaneNr : w = c.target => At(w, p)' \notin sessions
    BY <1>6, <1>9, <1>12 DEF Known, Typed
  <2> QED
    BY <1>13, <2>1
<1>16. \A v, w \in DOMAIN snaps', p, q \in PaneNr :
              At(v, p)' = At(w, q)' /\ At(v, p)' \in M => v = w /\ p = q
  <2>1. \A w \in DOMAIN snaps', p \in PaneNr : At(w, p)' \in M => w = c.target
    BY <1>9, <1>13
  <2>2. None \notin M
    BY <1>4, <1>5, <1>8
  <2>3. \A w \in DOMAIN snaps', p \in PaneNr : At(w, p)' \in M => w = c.target /\ p \in {1, 2}
    BY <1>12, <2>1, <2>2
  <2>4. \A w \in DOMAIN snaps', p \in PaneNr : At(w, p)' \in M =>
           /\ w = c.target
           /\ (p = 1 /\ At(w, p)' = c.left) \/ (p = 2 /\ At(w, p)' = NewId)
    BY <1>12, <2>3
  <2> QED
    BY <1>9, <2>4
<1> HIDE DEF M
<1> QED
  BY <1>1, <1>2, <1>7, <1>9, <1>10, <1>14, <1>15, <1>16, NewPlaces

LEMMA OpenedElsewherePlaces ==
    ASSUME Base, Base', Places, NEW k \in DOMAIN calls, OpenedElsewhere(k)
    PROVE  Places'
<1> DEFINE c == calls[k]
           M == {NewId}
<1>1. /\ c.op = "elsewhere" /\ c.target # c.view.ws /\ Opens(c.kind) /\ End(k) /\ UNCHANGED refVars
  BY DEF OpenedElsewhere
<1>2. PICK l \in AppendSession(c.there, NewId) :
              /\ snaps' = [x \in DOMAIN snaps \cup {c.target, c.view.ws} |->
                              IF x = c.target THEN l
                              ELSE IF x = c.view.ws THEN c.view.desk ELSE snaps[x]]
              /\ ws' = c.target /\ desk' = l
  BY DEF OpenedElsewhere, Show
<1>3. Pending(k) /\ Spare = {} /\ NoCalls'
  BY <1>1, WaitsNotIdle, NoSpare, EndOne DEF Base
<1>4. /\ c.view.ws = ws /\ c.target # ws /\ c.target \in DOMAIN snaps
      /\ Alike(c.view.desk, desk) /\ Fit(c.view.desk)
      /\ Alike(c.there, snaps[c.target]) /\ Fit(c.there)
  BY <1>1 DEF Places, Current
<1>5. c.kind \in Kinds /\ c.there \in Good
  BY <1>1, CallTyped, CallShape DEF Base
<1>6. /\ sessions' = sessions \cup M /\ NewId \in Ids
      /\ NewId \notin Known /\ NewId \notin closing
      /\ closing' = closing /\ boot' = boot /\ Newer'
  BY <1>1, <1>5, OpensFacts
<1>7. ws \in DOMAIN snaps /\ DOMAIN snaps' = DOMAIN snaps
  BY <1>2, <1>4, Basics DEF Typed
<1>8. PICK p0 \in PaneNr : /\ \A q \in PaneNr : SlotOf(l, q) =
                                 IF q = p0 THEN NewId ELSE SlotOf(c.there, q)
                           /\ p0 \in l.panes /\ c.there.panes \subseteq l.panes
  BY <1>2, <1>5, <1>6, AppendSlots
<1>9. ASSUME NEW w \in DOMAIN snaps', w = c.target, NEW p \in PaneNr
      PROVE  /\ p = p0 => At(w, p)' = NewId /\ p \in LayoutOf(w)'.panes
             /\ p # p0 => /\ At(w, p)' \in Known \ closing
                          /\ At(w, p)' \in sessions => At(w, p)' = At(w, p)
             /\ p \in LayoutOf(w).panes => p \in LayoutOf(w)'.panes
  <2>1. LayoutOf(w)' = l /\ At(w, p)' = SlotOf(l, p) /\ LayoutOf(w) = snaps[w]
    BY <1>2, <1>4, <1>9, LayoutNext DEF LayoutOf
  <2> DEFINE there == c.there
  <2>2. Alike(there, LayoutOf(w)) /\ Fit(there)
    BY <1>4, <1>9, <2>1
  <2>3. (SlotOf(l, p) = IF p = p0 THEN NewId ELSE SlotOf(there, p))
        /\ p0 \in l.panes /\ there.panes \subseteq l.panes
    BY <1>8
  <2> HIDE DEF there
  <2>4. /\ SlotOf(there, p) \in Known \ closing
        /\ SlotOf(there, p) \in sessions => SlotOf(there, p) = At(w, p)
        /\ there.panes = LayoutOf(w).panes
    BY <1>7, <2>2, HeldAgrees
  <2> HIDE DEF c
  <2> QED
    BY <2>1, <2>3, <2>4
<1>10. ASSUME NEW w \in DOMAIN snaps', w # c.target, NEW p \in PaneNr
       PROVE  /\ At(w, p)' \in Known \ closing
              /\ At(w, p)' \in sessions => At(w, p)' = At(w, p)
              /\ LayoutOf(w)'.panes = LayoutOf(w).panes
  <2>1. LayoutOf(w)' = IF w = ws THEN c.view.desk ELSE LayoutOf(w)
    BY <1>2, <1>4, <1>7, <1>10, LayoutNext DEF LayoutOf
  <2>2. CASE w = ws
    <3>1. LayoutOf(w) = desk
      BY <2>2 DEF LayoutOf
    <3> DEFINE held == c.view.desk
    <3>2. Alike(held, LayoutOf(w)) /\ Fit(held) /\ At(w, p)' = SlotOf(held, p)
          /\ LayoutOf(w)' = held
      BY <1>4, <2>1, <2>2, <3>1, LayoutNext
    <3> HIDE DEF held
    <3> QED
      BY <1>7, <3>2, HeldAgrees
  <2>3. CASE w # ws
    <3>1. At(w, p)' = At(w, p)
      BY <2>1, <2>3, LayoutNext DEF At
    <3>2. At(w, p) \in Known \ closing
      BY <1>3, <1>7 DEF Places, Safe, Apart
    <3> QED
      BY <2>1, <2>3, <3>1, <3>2
  <2> QED
    BY <2>2, <2>3
<1> HIDE DEF c
<1>11. \A w \in DOMAIN snaps', p \in PaneNr :
              \/ At(w, p)' \in M \ closing /\ p \in LayoutOf(w)'.panes
              \/ At(w, p)' \in Known \ closing
  BY <1>6, <1>9, <1>10
<1>12. \A w \in DOMAIN snaps', p \in PaneNr : At(w, p)' \in sessions =>
              /\ w \in DOMAIN snaps /\ At(w, p)' = At(w, p)
              /\ p \in LayoutOf(w).panes => p \in LayoutOf(w)'.panes
  BY <1>6, <1>7, <1>9, <1>10 DEF Known
<1>13. \A w \in DOMAIN snaps', p \in PaneNr : At(w, p)' = NewId => w = c.target /\ p = p0
  BY <1>6, <1>9, <1>10
<1>14. \A v, w \in DOMAIN snaps', p, q \in PaneNr :
              At(v, p)' = At(w, q)' /\ At(v, p)' \in M => v = w /\ p = q
  BY <1>13
<1>15. M \cap Known = {}
  BY <1>6
<1> HIDE DEF M
<1> QED
  BY <1>3, <1>6, <1>11, <1>12, <1>14, <1>15, NewPlaces

-----------------------------------------------------------------------------
(* One place                                                               *)

(* The gestures that may take a session another workspace has: a host that *)
(* is dropped on a pane, and a profile that is loaded.                     *)
TakesNone == {"host", "profile"} \cap Ops = {}

LEMMA InitPlaces ==
    ASSUME Init, Base
    PROVE  Places
<1>1. /\ sessions = {} /\ kinds = <<>> /\ snaps = [w \in {Main} |-> Blank(1)] /\ desk = Blank(1)
      /\ closing = {} /\ boot = 0 /\ calls = [k \in 1..MaxCalls |-> Idle]
  BY DEF Init
<1>2. \A w \in DOMAIN snaps, p \in PaneNr : At(w, p) = None
  BY <1>1, OneNumber, BlankSlots DEF At, LayoutOf
<1>3. Alone /\ Sighted /\ Safe /\ Apart
  BY <1>1, <1>2 DEF Alone, Own, Sighted, Safe, Known, Apart
<1>4. Newer
  BY <1>1 DEF Newer
<1>5. \A k \in DOMAIN calls : Current(calls[k])
  BY <1>1, IdleCurrent
<1> QED
  BY <1>3, <1>4, <1>5 DEF Places

LEMMA StutterPlaces ==
    ASSUME Base, Base', Places, UNCHANGED vars
    PROVE  Places'
<1>1. /\ UNCHANGED kinds /\ UNCHANGED ws /\ UNCHANGED calls /\ UNCHANGED boot
      /\ UNCHANGED snaps /\ UNCHANGED sessions /\ UNCHANGED closing /\ UNCHANGED desk
  BY DEF vars, tabVars, wsVars, refVars
<1>2. \A w, p : LayoutOf(w)' = LayoutOf(w) /\ At(w, p)' = At(w, p)
  BY <1>1 DEF At, LayoutOf
<1> QED
  BY <1>1, <1>2, CleanedPlaces

LEMMA OpeningPlaces ==
    ASSUME Base, Base', Places, Patient, Opening
    PROVE  Places'
<1>1. ASSUME NEW kind \in Kinds, NEW p \in Panes, OpenSession(kind, p) \/ OpenSessionHere(kind, p)
      PROVE  Places'
  BY <1>1, OpenSessionPlaces, OpenSessionHerePlaces
<1>2. ASSUME NEW p \in Panes, OpenWeb(p) \/ SplitEmpty(p) \/ SplitDuplicate(p)
      PROVE  Places'
  BY <1>2, OpenWebPlaces, SplitEmptyPlaces, SplitDuplicatePlaces
<1> QED
  BY <1>1, <1>2 DEF Opening

LEMMA DraggingPlaces ==
    ASSUME Base, Base', Places, Patient, TakesNone, Dragging
    PROVE  Places'
<1>1. ASSUME NEW s \in Ids, NEW src \in Panes, NEW p \in Panes,
             DragToPane(s, src, p) \/ DragToEdge(s, src, p)
      PROVE  Places'
  BY <1>1, DragToPanePlaces, DragToEdgePlaces
<1>2. ASSUME NEW s \in Ids, NEW p \in Panes, DragToOwnEdge(s, p)
      PROVE  Places'
  BY <1>2, DragToOwnEdgePlaces
<1>3. ~May("host")
  BY DEF TakesNone, May
<1>4. \A h, p, zone : ~DropHostOver(h, p, zone) /\ ~DropHostBeside(h, p, zone)
  BY <1>3 DEF DropHostOver, DropHostBeside
<1> QED
  BY <1>1, <1>2, <1>4 DEF Dragging

LEMMA ClosingPlaces ==
    ASSUME Base, Base', Places, Patient, Closing
    PROVE  Places'
<1>1. ASSUME NEW p \in Panes, CloseInPane(p) \/ ClosePane(p)
      PROVE  Places'
  BY <1>1, CloseInPanePlaces, ClosePanePlaces
<1>2. ASSUME NEW reset \in BOOLEAN, CloseAll(reset)
      PROVE  Places'
  BY <1>2, CloseAllPlaces
<1> QED
  BY <1>1, <1>2 DEF Closing

LEMMA ArrangingPlaces ==
    ASSUME Base, Base', Places, Patient, TakesNone, Arranging
    PROVE  Places'
<1>1. ASSUME NEW w \in Workspaces,
             \/ SwitchWorkspace(w) \/ CreateWorkspace(w) \/ RemoveWorkspace(w)
             \/ CreateCommander(w)
      PROVE  Places'
  BY <1>1, SwitchWorkspacePlaces, CreateWorkspacePlaces, RemoveWorkspacePlaces,
     CreateCommanderPlaces
<1>2. ASSUME NEW w \in Workspaces, NEW s \in Ids, SendSession(s, w)
      PROVE  Places'
  BY <1>2, SendSessionPlaces
<1>3. ASSUME NEW w \in Workspaces, NEW h \in Hosts, NEW p \in Panes, OpenInWorkspace(h, w, p)
      PROVE  Places'
  BY <1>3, OpenInWorkspacePlaces
<1>4. ASSUME NEW w \in Workspaces, NEW n \in Panes, ApplyPreset(w, n) \/ ApplyPresetAndSwitch(w, n)
      PROVE  Places'
  BY <1>4, ApplyPresetPlaces, ApplyPresetAndSwitchPlaces
<1>5. ~May("profile")
  BY DEF TakesNone, May
<1>6. \A f : ~LoadProfile(f)
  BY <1>5 DEF LoadProfile
<1> QED
  BY <1>1, <1>2, <1>3, <1>4, <1>6 DEF Arranging

LEMMA AnswersPlaces ==
    ASSUME Base, Base', Places, NEW k \in DOMAIN calls, Answers(k)
    PROVE  Places'
<1>1. calls[k].op \notin {"replace", "profile"}
  BY DEF Places, Current
<1>2. ~OpenedOver(k) /\ ~ProfileStep(k)
  BY <1>1 DEF OpenedOver, ProfileStep
<1>3. ASSUME NEW op \in {"new", "here", "zone", "replace", "elsewhere", "left", "right"},
             StartFails(k, op)
      PROVE  Places'
  BY <1>3, StartFailsPlaces
<1>4. CASE OpenedNew(k) \/ OpenedHere(k) \/ OpenedInZone(k) \/ OpenedDuplicate(k)
           \/ DuplicateFails(k)
  BY <1>4, OpenedNewPlaces, OpenedHerePlaces, OpenedInZonePlaces, OpenedDuplicatePlaces,
     DuplicateFailsPlaces
<1>5. CASE OpenedInActive(k) \/ OpenedElsewhere(k) \/ LeftStarted(k) \/ RightStarted(k)
  BY <1>5, OpenedInActivePlaces, OpenedElsewherePlaces, LeftStartedPlaces, RightStartedPlaces
<1>6. CASE Closed(k) \/ CloseFails(k) \/ AllClosed(k)
  BY <1>6, ClosedPlaces, CloseFailsPlaces, AllClosedPlaces
<1> QED
  BY <1>2, <1>3, <1>4, <1>5, <1>6 DEF Answers

LEMMA PlacesStep ==
    ASSUME Base, Base', Places, Patient, TakesNone, [Next]_vars
    PROVE  Places'
<1>1. CASE Opening \/ Dragging \/ Closing \/ Arranging
  BY <1>1, OpeningPlaces, DraggingPlaces, ClosingPlaces, ArrangingPlaces
<1>2. ASSUME NEW k \in DOMAIN calls, Answers(k)
      PROVE  Places'
  BY <1>2, AnswersPlaces
<1>3. CASE RunEffects
  BY <1>3, RunEffectsPlaces
<1>4. ASSUME NEW s \in Ids, Reaped(s)
      PROVE  Places'
  BY <1>4, ReapedPlaces
<1>5. CASE Restart
  BY <1>5, RestartPlaces
<1>6. CASE UNCHANGED vars
  BY <1>6, StutterPlaces
<1> QED
  BY <1>1, <1>2, <1>3, <1>4, <1>5, <1>6 DEF Next

LEMMA PlacesInvariant ==
    ASSUME Patient, TakesNone
    PROVE  Spec => [](Base /\ Places)
<1>1. Spec => []Base
  BY LayoutInvariant, HomeInvariant, OneCallInvariant, PTL DEF Base
<1>2. Init /\ Base => Places
  BY InitPlaces
<1>3. Base /\ Base' /\ Places /\ [Next]_vars => Places'
  BY PlacesStep
<1> QED
  BY <1>1, <1>2, <1>3, PTL DEF Spec

(* A user who waits for what he started, drops no host on a pane and loads *)
(* no profile sees no session in two panes or two workspaces, and none in  *)
(* a slot that is no pane, whatever handlers and effects do in between.    *)
THEOREM NoSessionTwice ==
    ASSUME Patient, {"host", "profile"} \cap Ops = {}
    PROVE  Spec => []InOnePlace
<1>1. Base /\ Places => InOnePlace
  <2> SUFFICES ASSUME Base, Places, Quiet
               PROVE  InOnePlace
    BY DEF InOnePlace, SingleOwner, InSight
  <2>1. Spare = {}
    BY NoSpare DEF Quiet, NoCalls
  <2>2. Typed /\ Alone /\ Sighted
    BY Basics DEF Places
  <2>3. \A l \in Shelf : \E w \in DOMAIN snaps : l = LayoutOf(w)
    BY <2>2 DEF Shelf, Typed
  <2>4. \A w \in DOMAIN snaps : \A p \in DOMAIN LayoutOf(w).slots :
           p \in PaneNr /\ LayoutOf(w).slots[p] = At(w, p)
    BY <2>2, SlotsOfGood DEF Typed, At
  <2>5. \A w \in DOMAIN snaps : \A s \in Shown(LayoutOf(w)) : \E p \in PaneNr : At(w, p) = s
    BY <2>2, ShownIn DEF Typed, At
  <2>6. \A v, w \in DOMAIN snaps, p, q \in PaneNr :
           At(v, p) \in sessions /\ At(v, p) = At(w, q) => v = w /\ p = q
    BY <2>1, <2>2 DEF Alone, Own
  <2>7. SingleOwner
    <3> SUFFICES ASSUME NEW s \in sessions
                 PROVE  /\ \A l, m \in Shelf : s \in Shown(l) \cap Shown(m) => l = m
                        /\ \A l \in Shelf : \A p, q \in DOMAIN l.slots :
                              l.slots[p] = s /\ l.slots[q] = s => p = q
      BY DEF SingleOwner
    <3>1. ASSUME NEW l \in Shelf, NEW m \in Shelf, s \in Shown(l), s \in Shown(m)
          PROVE  l = m
      <4>1. PICK v \in DOMAIN snaps : l = LayoutOf(v)
        BY <2>3
      <4>2. PICK w \in DOMAIN snaps : m = LayoutOf(w)
        BY <2>3
      <4>3. v = w
        BY <2>5, <2>6, <3>1, <4>1, <4>2
      <4> QED
        BY <4>1, <4>2, <4>3
    <3>2. ASSUME NEW l \in Shelf, NEW p \in DOMAIN l.slots, NEW q \in DOMAIN l.slots,
                 l.slots[p] = s, l.slots[q] = s
          PROVE  p = q
      <4>1. PICK w \in DOMAIN snaps : l = LayoutOf(w)
        BY <2>3
      <4> QED
        BY <2>4, <2>6, <3>2, <4>1
    <3> QED
      BY <3>1, <3>2
  <2>8. InSight
    <3> SUFFICES ASSUME NEW l \in Shelf, NEW p \in DOMAIN l.slots, l.slots[p] \in sessions
                 PROVE  p \in l.panes
      BY DEF InSight
    <3>1. PICK w \in DOMAIN snaps : l = LayoutOf(w)
      BY <2>3
    <3> QED
      BY <2>2, <2>4, <3>1 DEF Sighted
  <2> QED
    BY <2>7, <2>8 DEF InOnePlace
<1>2. TakesNone
  BY DEF TakesNone
<1> QED
  BY <1>1, <1>2, PlacesInvariant, PTL

LEMMA NoGhosts == Base /\ Places => NoGhost
<1> SUFFICES ASSUME Base, Places, NEW l \in Shelf, NEW s \in Shown(l), s > boot
             PROVE  s \in sessions
  BY DEF NoGhost
<1>1. Typed
  BY Basics
<1>2. PICK w \in DOMAIN snaps : l = LayoutOf(w)
  BY <1>1 DEF Shelf, Typed
<1>3. PICK p \in PaneNr : At(w, p) = s /\ s # None
  BY <1>1, <1>2, ShownIn DEF Typed, At
<1>4. s \in sessions \cup 1..boot
  BY <1>3 DEF Places, Safe, Known
<1> QED
  BY <1>1, <1>4 DEF Typed

(* The same user's snapshots are those of the tab bar, and they show no    *)
(* session whose tab is gone, but for those of an earlier run.             *)
THEOREM SnapshotsStayTrue ==
    ASSUME Patient, {"host", "profile"} \cap Ops = {}
    PROVE  Spec => []SnapshotsAgree
<1>1. TakesNone
  BY DEF TakesNone
<1> QED
  BY <1>1, NoGhosts, PlacesInvariant, TabBarIsStored, PTL DEF SnapshotsAgree

-----------------------------------------------------------------------------
(* Every session has a place                                               *)

(* A user who waits for what he started, and makes no gesture that takes   *)
(* a slot from a session: no NSS-Commander, no preset, no profile, no host *)
(* on a pane, no quick connect from the menu of a pane, and no workspace   *)
(* is removed.                                                             *)
TidyOps == {"new", "here", "web", "split", "duplicate", "drag", "clear", "close", "all", "switch",
            "create", "send", "elsewhere", "restart"}

Tidy == Patient /\ Ops \subseteq TidyOps

Housed == \A s \in sessions : \E w \in DOMAIN snaps, p \in PaneNr : At(w, p) = s /\ Own(w, p)

(* The next pane is a new one when somebody may use its number. *)
Fresh == ("slots" \notin dirty \/ \E k \in DOMAIN calls : Pending(k)) => nextPane > Len(desk.slots)

Resting == nss = {} /\ pending = {} /\ seen = {} /\ closing = {}

(* What a handler will do takes no slot from a session. *)
Steady(c) ==
    /\ c.op \in {"new", "here", "zone", "duplicate", "elsewhere", "close", "all", "idle"}
    /\ c.op = "here" => SlotOf(desk, c.p) = None
    /\ c.op \in {"new", "elsewhere"} => ~c.view.nss
    /\ c.op = "elsewhere" => ~c.commander
    /\ c.op = "close" /\ c.leaf # None => SlotOf(desk, c.leaf) \notin sessions \ {c.s}

TidyInv == Housed /\ Fresh /\ Resting /\ \A k \in DOMAIN calls : Steady(calls[k])

LEMMA HousedStep ==
    ASSUME Housed, NEW N, sessions' \subseteq sessions \cup N,
           \A w \in DOMAIN snaps, p \in PaneNr : Own(w, p) /\ At(w, p) \in sessions' =>
              \E v \in DOMAIN snaps', q \in PaneNr : At(v, q)' = At(w, p) /\ Own(v, q)',
           \A s \in N : \E v \in DOMAIN snaps', q \in PaneNr : At(v, q)' = s /\ Own(v, q)'
    PROVE  Housed'
<1> SUFFICES ASSUME NEW s \in sessions'
             PROVE  \E v \in DOMAIN snaps', q \in PaneNr : At(v, q)' = s /\ Own(v, q)'
  BY DEF Housed
<1>1. CASE s \in sessions
  <2>1. PICK w \in DOMAIN snaps, p \in PaneNr : At(w, p) = s /\ Own(w, p)
    BY <1>1 DEF Housed
  <2> QED
    BY <2>1
<1>2. CASE s \in N
  BY <1>2
<1> QED
  BY <1>1, <1>2

LEMMA NoSpareNow == NoCalls => Spare = {}
BY WaitsNotIdle DEF NoCalls, Spare

LEMMA NoSpareNext == NoCalls' => Spare' = {}
BY DEF NoCalls, Pending, Spare, Idle

LEMMA OwnNext ==
    ASSUME NoCalls'
    PROVE  \A w, p : Own(w, p)' <=> At(w, p)' \in sessions'
BY NoSpareNext DEF Own

(* Nothing waits after the step. *)
LEMMA DoneTidy ==
    ASSUME NoCalls', Housed', Resting', "slots" \in dirty' \/ nextPane' > Len(desk'.slots)
    PROVE  TidyInv'
<1>1. Fresh'
  BY DEF Fresh, NoCalls
<1>2. \A k \in DOMAIN calls' : Steady(calls[k])'
  BY DEF NoCalls, Pending, Steady, Idle
<1> QED
  BY <1>1, <1>2 DEF TidyInv

LEMMA RestingSame ==
    ASSUME Resting, UNCHANGED <<seen, closing, pending>>, nss' = nss
    PROVE  Resting'
BY DEF Resting

LEMMA FreshGesture ==
    ASSUME TidyInv, Patient, NEW op, May(op)
    PROVE  nextPane > Len(desk.slots)
BY PatientGesture DEF TidyInv, Fresh

LEMMA FreshAnswer ==
    ASSUME TidyInv, NEW k \in DOMAIN calls, Pending(k)
    PROVE  nextPane > Len(desk.slots)
BY DEF TidyInv, Fresh

LEMMA FreshSlot ==
    ASSUME Typed, nextPane > Len(desk.slots)
    PROVE  SlotOf(desk, nextPane) = None /\ nextPane \in PaneNr
<1>1. desk \in Good /\ nextPane \in PaneNr
  BY DEF Typed
<1>2. SlotOf(desk, nextPane) = IF nextPane <= Len(desk.slots) THEN desk.slots[nextPane] ELSE None
  BY <1>1, SlotsOfGood
<1>3. Len(desk.slots) \in Nat /\ nextPane \in Nat
  BY <1>1, SlotsOfGood DEF PaneNr
<1> QED
  BY <1>1, <1>2, <1>3

(* A handler waits, or waits no longer, and nothing else changes. *)
LEMMA WaitTidy ==
    ASSUME Base, TidyInv, Spare = {}, nextPane > Len(desk.slots),
           UNCHANGED <<sessions, desk, wsVars, nextPane, seen, closing, pending, boot, dirty>>,
           NEW c, c.op # "duplicate", Steady(c), \A j \in DOMAIN calls' : calls'[j] \in {Idle, c}
    PROVE  TidyInv'
<1>1. /\ UNCHANGED sessions /\ UNCHANGED desk /\ UNCHANGED snaps /\ UNCHANGED ws
      /\ <<seen, closing, pending>>' = <<seen, closing, pending>> /\ UNCHANGED nss /\ UNCHANGED nextPane
  BY DEF wsVars
<1>2. Spare' = {}
  BY DEF Spare, Idle
<1>3. \A w, p : At(w, p)' = At(w, p) /\ (Own(w, p) => Own(w, p)')
  BY <1>1, <1>2 DEF At, LayoutOf, Own
<1>4. Housed'
  <2>1. \A w \in DOMAIN snaps, p \in PaneNr : Own(w, p) /\ At(w, p) \in sessions' =>
              \E v \in DOMAIN snaps', q \in PaneNr : At(v, q)' = At(w, p) /\ Own(v, q)'
    BY <1>1, <1>3
  <2> DEFINE N == {}
  <2>2. sessions' \subseteq sessions \cup N
    BY <1>1
  <2>3. \A s \in N : \E v \in DOMAIN snaps', q \in PaneNr : At(v, q)' = s /\ Own(v, q)'
    OBVIOUS
  <2> HIDE DEF N
  <2> QED
    BY <2>1, <2>2, <2>3, HousedStep DEF TidyInv
<1>5. Fresh'
  BY <1>1 DEF Fresh
<1>6. Resting'
  BY <1>1, RestingSame DEF TidyInv, refVars
<1>7. \A k \in DOMAIN calls' : Steady(calls'[k])
  BY DEF Steady, Idle
<1>8. \A k \in DOMAIN calls' : Steady(calls[k])'
  BY <1>1, <1>7 DEF Steady
<1> QED
  BY <1>4, <1>5, <1>6, <1>8 DEF TidyInv

LEMMA BeginTidy ==
    ASSUME Base, TidyInv, NoCalls, nextPane > Len(desk.slots), NEW c, Begin(c), c.op # "duplicate",
           Steady(c), UNCHANGED <<tabVars, desk, wsVars, nextPane, refVars, dirty>>
    PROVE  TidyInv'
<1>1. \A j \in DOMAIN calls' : calls'[j] \in {Idle, c}
  BY BeginOne DEF Base
<1> QED
  BY <1>1, NoSpareNow, WaitTidy DEF tabVars, refVars

LEMMA GivesUpTidy ==
    ASSUME Base, TidyInv, NEW k \in DOMAIN calls, Pending(k), calls[k].op # "duplicate", End(k),
           UNCHANGED <<sessions, desk, wsVars, nextPane, seen, closing, pending, boot, dirty>>
    PROVE  TidyInv'
<1>1. Spare = {} /\ nextPane > Len(desk.slots)
  BY NoSpare, FreshAnswer
<1>2. \A j \in DOMAIN calls' : calls'[j] \in {Idle, Idle}
  BY AnswerOne DEF Base, End
<1>3. Steady(Idle) /\ Idle.op # "duplicate"
  BY DEF Steady, Idle
<1> QED
  BY <1>1, <1>2, <1>3, WaitTidy

(* Every session keeps its place. *)
LEMMA StayTidy ==
    ASSUME TidyInv, NoCalls', "slots" \in dirty' \/ nextPane' > Len(desk'.slots),
           sessions' \subseteq sessions, UNCHANGED refVars, nss' = nss,
           \A w \in DOMAIN snaps, p \in PaneNr : Own(w, p) /\ At(w, p) \in sessions' =>
              \E v \in DOMAIN snaps', q \in PaneNr : At(v, q)' = At(w, p)
    PROVE  TidyInv'
<1>1. \A w \in DOMAIN snaps, p \in PaneNr : Own(w, p) /\ At(w, p) \in sessions' =>
              \E v \in DOMAIN snaps', q \in PaneNr : At(v, q)' = At(w, p) /\ Own(v, q)'
  BY OwnNext
<1> DEFINE N == {}
<1>2. sessions' \subseteq sessions \cup N
  OBVIOUS
<1>3. \A s \in N : \E v \in DOMAIN snaps', q \in PaneNr : At(v, q)' = s /\ Own(v, q)'
  OBVIOUS
<1> HIDE DEF N
<1>4. Housed'
  BY <1>1, <1>2, <1>3, HousedStep DEF TidyInv
<1>5. Resting'
  BY RestingSame DEF TidyInv, refVars
<1> QED
  BY <1>4, <1>5, DoneTidy

(* A new session takes a slot that no other has. *)
LEMMA AddTidy ==
    ASSUME Base, Places, TidyInv, NoCalls', "slots" \in dirty', UNCHANGED wsVars, UNCHANGED refVars,
           NEW p0 \in PaneNr, SlotOf(desk, p0) \notin sessions \/ p0 \in Spare,
           sessions' = sessions \cup {NewId},
           \A p \in PaneNr : SlotOf(desk', p) = IF p = p0 THEN NewId ELSE SlotOf(desk, p)
    PROVE  TidyInv'
<1>1. PICK d \in DOMAIN snaps : d = ws
  BY Basics DEF Typed
<1>2. \A p \in PaneNr : At(d, p) = SlotOf(desk, p) /\ At(d, p)' = SlotOf(desk', p)
  BY <1>1, DeskNext
<1>3. DOMAIN snaps' = DOMAIN snaps /\ nss' = nss
  BY DEF wsVars
<1>4. \A w \in DOMAIN snaps, p \in PaneNr : w # d => At(w, p)' = At(w, p)
  BY <1>1, DeskNext
<1>5. \A w \in DOMAIN snaps, p \in PaneNr : Own(w, p) => At(w, p)' = At(w, p)
  BY <1>1, <1>2, <1>4 DEF Own
<1>6. \A w \in DOMAIN snaps, p \in PaneNr : Own(w, p) /\ At(w, p) \in sessions' =>
              \E v \in DOMAIN snaps', q \in PaneNr : At(v, q)' = At(w, p) /\ Own(v, q)'
  BY <1>3, <1>5, OwnNext
<1> DEFINE N == {NewId}
<1>7. \A s \in N : \E v \in DOMAIN snaps', q \in PaneNr : At(v, q)' = s /\ Own(v, q)'
  BY <1>2, <1>3, OwnNext
<1>8. sessions' \subseteq sessions \cup N
  OBVIOUS
<1> HIDE DEF N
<1>9. Housed'
  BY <1>6, <1>7, <1>8, HousedStep DEF TidyInv
<1>10. Resting'
  BY <1>3, RestingSame DEF TidyInv, refVars
<1> QED
  BY <1>9, <1>10, DoneTidy

-----------------------------------------------------------------------------
(* Gestures of a tidy user                                                 *)

LEMMA TidyGesture ==
    ASSUME Base, TidyInv, Tidy, NEW op, May(op)
    PROVE  op \in TidyOps /\ NoCalls /\ Spare = {} /\ nextPane > Len(desk.slots) /\ nss = {}
<1>1. Patient /\ op \in Ops /\ op \in TidyOps
  BY DEF Tidy, May
<1>2. NoCalls /\ nextPane > Len(desk.slots)
  BY <1>1, PatientGesture, FreshGesture
<1> QED
  BY <1>1, <1>2, NoSpareNow DEF TidyInv, Resting

LEMMA ViewTidy == nss = {} => (View.nss <=> FALSE)
BY DEF View

LEMMA OpenSessionTidy ==
    ASSUME Base, TidyInv, Tidy, NEW kind \in Kinds, NEW p \in Panes, OpenSession(kind, p)
    PROVE  TidyInv'
<1> DEFINE c == [op |-> "new", kind |-> kind, p |-> p, view |-> View]
<1>1. /\ May("new") /\ Begin(c)
      /\ UNCHANGED <<tabVars, desk, wsVars, nextPane, refVars, dirty>>
  BY DEF OpenSession
<1>2. c.op = "new" /\ c.view = View
  OBVIOUS
<1> HIDE DEF c
<1>3. NoCalls /\ nextPane > Len(desk.slots) /\ nss = {}
  BY <1>1, TidyGesture
<1>4. ~c.view.nss
  BY <1>2, <1>3, ViewTidy
<1>5. Steady(c)
  BY <1>2, <1>4 DEF Steady
<1> QED
  BY <1>1, <1>2, <1>3, <1>5, BeginTidy

LEMMA OpenSessionHereTidy ==
    ASSUME Base, TidyInv, Tidy, NEW kind \in Kinds, NEW p \in Panes, OpenSessionHere(kind, p)
    PROVE  TidyInv'
<1> DEFINE c == [op |-> "here", kind |-> kind, p |-> p]
<1>1. /\ Begin(c) /\ ((May("here") /\ SlotOf(desk, p) = None) \/ May("quick"))
      /\ UNCHANGED <<tabVars, desk, wsVars, nextPane, refVars, dirty>>
  BY DEF OpenSessionHere
<1>2. c.op = "here" /\ c.p = p
  OBVIOUS
<1> HIDE DEF c
<1>3. May("here") /\ SlotOf(desk, p) = None
  BY <1>1, TidyGesture DEF TidyOps
<1>4. NoCalls /\ nextPane > Len(desk.slots)
  BY <1>3, TidyGesture
<1>5. Steady(c)
  BY <1>2, <1>3 DEF Steady
<1> QED
  BY <1>1, <1>2, <1>4, <1>5, BeginTidy

LEMMA DragToOwnEdgeTidy ==
    ASSUME Base, TidyInv, Tidy, NEW s \in Ids, NEW p \in Panes, DragToOwnEdge(s, p)
    PROVE  TidyInv'
<1> DEFINE c == [op |-> "zone", kind |-> kinds[s], p |-> p, view |-> View]
<1>1. /\ May("drag") /\ Begin(c)
      /\ UNCHANGED <<tabVars, desk, wsVars, nextPane, refVars, dirty>>
  BY DEF DragToOwnEdge
<1>2. c.op = "zone"
  OBVIOUS
<1> HIDE DEF c
<1>3. NoCalls /\ nextPane > Len(desk.slots)
  BY <1>1, TidyGesture
<1>4. Steady(c)
  BY <1>2 DEF Steady
<1> QED
  BY <1>1, <1>2, <1>3, <1>4, BeginTidy

LEMMA CloseInPaneTidy ==
    ASSUME Base, TidyInv, Tidy, NEW p \in Panes, CloseInPane(p)
    PROVE  TidyInv'
<1> DEFINE c == CloseCall(SlotOf(desk, p), None)
<1>1. /\ May("clear") /\ Begin(c)
      /\ UNCHANGED <<tabVars, desk, wsVars, nextPane, refVars, dirty>>
  BY DEF CloseInPane
<1>2. c.op = "close" /\ c.leaf = None
  BY DEF CloseCall
<1> HIDE DEF c
<1>3. NoCalls /\ nextPane > Len(desk.slots)
  BY <1>1, TidyGesture
<1>4. Steady(c)
  BY <1>2 DEF Steady
<1> QED
  BY <1>1, <1>2, <1>3, <1>4, BeginTidy

LEMMA OpenInWorkspaceTidy ==
    ASSUME Base, TidyInv, Tidy, NEW h \in Hosts, NEW w \in Workspaces, NEW p \in Panes,
           OpenInWorkspace(h, w, p)
    PROVE  TidyInv'
<1> DEFINE c == [op |-> "elsewhere", kind |-> h, p |-> p, view |-> View,
                 target |-> w, there |-> snaps[w], commander |-> w \in nss]
<1>1. /\ May("elsewhere") /\ Begin(c)
      /\ UNCHANGED <<tabVars, desk, wsVars, nextPane, refVars, dirty>>
  BY DEF OpenInWorkspace
<1>2. NoCalls /\ nextPane > Len(desk.slots) /\ nss = {}
  BY <1>1, TidyGesture
<1>3. c.op = "elsewhere" /\ c.view = View /\ ~c.commander
  BY <1>2
<1> HIDE DEF c
<1>4. ~c.view.nss
  BY <1>2, <1>3, ViewTidy
<1>5. Steady(c)
  BY <1>3, <1>4 DEF Steady
<1> QED
  BY <1>1, <1>2, <1>3, <1>5, BeginTidy

LEMMA StartFailsTidy ==
    ASSUME Base, TidyInv, NEW k \in DOMAIN calls, NEW op, op \notin {"duplicate", "idle"},
           StartFails(k, op)
    PROVE  TidyInv'
BY WaitsNotIdle, GivesUpTidy DEF StartFails, tabVars, refVars

LEMMA CloseFailsTidy ==
    ASSUME Base, TidyInv, NEW k \in DOMAIN calls, CloseFails(k)
    PROVE  TidyInv'
BY WaitsNotIdle, GivesUpTidy DEF CloseFails

-----------------------------------------------------------------------------
(* The desk changes and every session keeps a slot                         *)

LEMMA DeskKeeps ==
    ASSUME Base, Places, TidyInv, Spare = {}, NoCalls',
           "slots" \in dirty' \/ nextPane' > Len(desk'.slots),
           UNCHANGED tabVars, UNCHANGED wsVars, UNCHANGED refVars,
           \A p \in PaneNr : SlotOf(desk, p) \in sessions =>
              \E q \in PaneNr : SlotOf(desk', q) = SlotOf(desk, p)
    PROVE  TidyInv'
<1>1. sessions' = sessions /\ nss' = nss /\ DOMAIN snaps' = DOMAIN snaps
  BY DEF tabVars, wsVars
<1>2. ASSUME NEW w \in DOMAIN snaps, NEW p \in PaneNr, At(w, p) \in sessions'
      PROVE  \E v \in DOMAIN snaps', q \in PaneNr : At(v, q)' = At(w, p)
  <2>1. CASE w = ws
    <3>1. \A q : At(w, q)' = SlotOf(desk', q) /\ At(w, q) = SlotOf(desk, q)
      BY <2>1, DeskNext
    <3>2. PICK q \in PaneNr : SlotOf(desk', q) = SlotOf(desk, p)
      BY <1>1, <1>2, <3>1
    <3> QED
      BY <1>1, <3>1, <3>2
  <2>2. CASE w # ws
    BY <1>1, <2>2, DeskNext
  <2> QED
    BY <2>1, <2>2
<1>3. sessions' \subseteq sessions
  BY <1>1
<1> QED
  BY <1>1, <1>2, <1>3, StayTidy

LEMMA SplitEmptyTidy ==
    ASSUME Base, Places, TidyInv, Tidy, NEW p \in Panes, SplitEmpty(p)
    PROVE  TidyInv'
<1>1. /\ May("split") \/ May("duplicate")
      /\ UNCHANGED tabVars /\ UNCHANGED wsVars /\ UNCHANGED refVars /\ UNCHANGED calls
      /\ desk' = SplitPane(desk, p, nextPane) /\ "slots" \in dirty'
  BY DEF SplitEmpty, Touch
<1>2. Spare = {} /\ NoCalls'
  BY <1>1, TidyGesture, CallsSame
<1>3. desk \in Good /\ nextPane \in PaneNr
  BY Basics DEF Typed
<1> DEFINE split == SplitPane(desk, p, nextPane)
<1>4. \A q \in PaneNr : SlotOf(split, q) = SlotOf(desk, q)
  BY <1>3, SplitSlots
<1>5. desk' = split
  BY <1>1
<1> HIDE DEF split
<1> QED
  BY <1>1, <1>2, <1>4, <1>5, DeskKeeps

LEMMA ClosePaneTidy ==
    ASSUME Base, Places, TidyInv, Tidy, NEW p \in Panes, ClosePane(p)
    PROVE  TidyInv'
<1>1. /\ May("close") /\ UNCHANGED tabVars /\ UNCHANGED wsVars /\ UNCHANGED refVars
      /\ UNCHANGED nextPane
  BY DEF ClosePane
<1>2. NoCalls /\ Spare = {} /\ nextPane > Len(desk.slots)
  BY <1>1, TidyGesture
<1>3. CASE SlotOf(desk, p) = None
  <2> DEFINE rest == RemovePane(desk, p)
  <2>1. desk' = ClearPaneAtIndex(rest, p) /\ UNCHANGED calls /\ "slots" \in dirty'
    BY <1>3 DEF ClosePane, Touch
  <2>2. desk \in Good /\ rest \in Good /\ None \notin sessions
    BY Basics, RemovePaneGood DEF Typed
  <2>3. \A q \in PaneNr : SlotOf(rest, q) = SlotOf(desk, q)
    BY <2>2, RemovePaneSlots
  <2> HIDE DEF rest
  <2>4. NoCalls'
    BY <1>2, <2>1, CallsSame
  <2>5. \A q \in PaneNr : SlotOf(desk', q) = IF q = p THEN None ELSE SlotOf(desk, q)
    BY <2>1, <2>2, <2>3, ClearSlots
  <2>6. \A q \in PaneNr : SlotOf(desk, q) \in sessions => SlotOf(desk', q) = SlotOf(desk, q)
    BY <1>3, <2>2, <2>5
  <2> QED
    BY <1>1, <1>2, <2>1, <2>4, <2>6, DeskKeeps
<1>4. CASE SlotOf(desk, p) # None
  <2> DEFINE c == CloseCall(SlotOf(desk, p), p)
  <2>1. Begin(c) /\ UNCHANGED <<tabVars, desk, wsVars, nextPane, refVars, dirty>>
    BY <1>1, <1>4 DEF ClosePane
  <2>2. c.op = "close" /\ c.leaf = p /\ c.s = SlotOf(desk, p)
    BY DEF CloseCall
  <2> HIDE DEF c
  <2>3. Steady(c)
    BY <2>2 DEF Steady
  <2> QED
    BY <1>2, <2>1, <2>2, <2>3, BeginTidy
<1> QED
  BY <1>3, <1>4

LEMMA CloseAllTidy ==
    ASSUME Base, Places, TidyInv, Tidy, NEW reset \in BOOLEAN, CloseAll(reset)
    PROVE  TidyInv'
<1>1. May("all") /\ UNCHANGED tabVars /\ UNCHANGED wsVars /\ UNCHANGED refVars
  BY DEF CloseAll
<1>2. NoCalls /\ Spare = {} /\ nextPane > Len(desk.slots)
  BY <1>1, TidyGesture
<1>3. CASE sessions = {}
  <2>1. UNCHANGED calls /\ "slots" \in dirty'
    BY <1>3 DEF CloseAll, Touch
  <2>2. NoCalls'
    BY <1>2, <2>1, CallsSame
  <2>3. \A q \in PaneNr : SlotOf(desk, q) \notin sessions
    BY <1>3
  <2> QED
    BY <1>1, <1>2, <2>1, <2>2, <2>3, DeskKeeps
<1>4. CASE sessions # {}
  <2> DEFINE c == [op |-> "all", ids |-> sessions, reset |-> reset]
  <2>1. Begin(c) /\ UNCHANGED <<tabVars, desk, wsVars, nextPane, refVars, dirty>>
    BY <1>1, <1>4 DEF CloseAll
  <2>2. c.op = "all"
    OBVIOUS
  <2> HIDE DEF c
  <2>3. Steady(c)
    BY <2>2 DEF Steady
  <2> QED
    BY <1>2, <2>1, <2>2, <2>3, BeginTidy
<1> QED
  BY <1>3, <1>4

LEMMA DragToPaneTidy ==
    ASSUME Base, Places, TidyInv, Tidy, NEW s \in Ids, NEW src \in Panes, NEW p \in Panes,
           DragToPane(s, src, p)
    PROVE  TidyInv'
<1>1. /\ May("drag") /\ UNCHANGED calls
      /\ UNCHANGED tabVars /\ UNCHANGED wsVars /\ UNCHANGED refVars
      /\ src \in FirstSlotOf(s) /\ src \in desk.panes /\ p \in desk.panes /\ src # p
      /\ desk' = MoveToPane(desk, s, src, p) /\ "slots" \in dirty'
  BY DEF DragToPane, Touch
<1>2. Spare = {} /\ NoCalls'
  BY <1>1, TidyGesture, CallsSame
<1>3. /\ desk \in Good /\ s \in SlotValues /\ src \in PaneNr /\ p \in PaneNr
      /\ SlotOf(desk, src) = s /\ None \notin sessions
  BY <1>1, Basics, FirstSlotShows, PanesAreNumbers DEF Typed, SlotValues
<1> DEFINE there == SlotOf(desk, p)
           moved == AssignSessionToPane(RemoveSessionFromSlots(desk, s), p, s)
<1>4. /\ moved \in Good /\ moved.panes = desk.panes /\ there \in SlotValues
      /\ \A q \in PaneNr : SlotOf(moved, q) = IF q = p THEN s
                                              ELSE IF SlotOf(desk, q) = s THEN None
                                              ELSE SlotOf(desk, q)
  BY <1>3, TakenSlots, SlotOfType
<1>5. desk' = IF there = None THEN ClearPaneAtIndex(RemovePane(moved, src), src)
              ELSE AssignSessionToPane(moved, src, there)
  BY <1>1 DEF MoveToPane
<1> HIDE DEF moved
<1>6. \A q \in PaneNr : SlotOf(desk', q) = IF q = src THEN there ELSE SlotOf(moved, q)
  <2>1. CASE there = None
    <3>1. moved.panes # {src}
      BY <1>1, <1>4
    <3> QED
      BY <1>4, <1>5, <2>1, <3>1, GoneSlots
  <2>2. CASE there # None
    BY <1>3, <1>4, <1>5, <2>2, AssignSlots
  <2> QED
    BY <2>1, <2>2
<1>7. SlotOf(desk', p) = s /\ SlotOf(desk', src) = SlotOf(desk, p)
  BY <1>1, <1>3, <1>4, <1>6
<1>8. ASSUME NEW q \in PaneNr, SlotOf(desk, q) \in sessions
      PROVE  \E i \in PaneNr : SlotOf(desk', i) = SlotOf(desk, q)
  <2>1. CASE SlotOf(desk, q) = s
    BY <1>3, <1>7, <2>1
  <2>2. CASE q = p
    BY <1>3, <1>7, <2>2
  <2>3. CASE SlotOf(desk, q) # s /\ q # p
    <3>1. q # src
      BY <1>3, <2>3
    <3>2. SlotOf(desk', q) = SlotOf(moved, q) /\ SlotOf(moved, q) = SlotOf(desk, q)
      BY <1>4, <1>6, <2>3, <3>1
    <3> QED
      BY <3>2
  <2> QED
    BY <2>1, <2>2, <2>3
<1> QED
  BY <1>1, <1>2, <1>8, DeskKeeps

LEMMA DragToEdgeTidy ==
    ASSUME Base, Places, TidyInv, Tidy, NEW s \in Ids, NEW src \in Panes, NEW p \in Panes,
           DragToEdge(s, src, p)
    PROVE  TidyInv'
<1> DEFINE split == SplitPane(desk, p, nextPane)
           moved == AssignSessionToPane(RemoveSessionFromSlots(split, s), nextPane, s)
<1>1. /\ May("drag") /\ UNCHANGED calls
      /\ UNCHANGED tabVars /\ UNCHANGED wsVars /\ UNCHANGED refVars
      /\ src \in FirstSlotOf(s) /\ src \in desk.panes /\ p \in desk.panes /\ src # p
      /\ desk' = ClearPaneAtIndex(RemovePane(moved, src), src) /\ "slots" \in dirty'
  BY DEF DragToEdge, Touch
<1>2. Spare = {} /\ NoCalls' /\ nextPane > Len(desk.slots)
  BY <1>1, TidyGesture, CallsSame
<1>3. /\ desk \in Good /\ s \in SlotValues /\ src \in PaneNr /\ nextPane \in PaneNr
      /\ SlotOf(desk, src) = s /\ None \notin sessions /\ s # None
      /\ SlotOf(desk, nextPane) = None
  <2>1. Typed /\ s # None
    BY Basics, IdsAssumption, BoundsAssumption DEF Ids
  <2> QED
    BY <1>1, <1>2, <2>1, FirstSlotShows, FreshSlot DEF Typed, SlotValues
<1>4. /\ split \in Good /\ split.panes = desk.panes \cup {nextPane}
      /\ \A q \in PaneNr : SlotOf(split, q) = SlotOf(desk, q)
  BY <1>1, <1>3, SplitGood, SplitSlots
<1>5. /\ moved \in Good /\ moved.panes = split.panes
      /\ \A q \in PaneNr : SlotOf(moved, q) = IF q = nextPane THEN s
                                              ELSE IF SlotOf(split, q) = s THEN None
                                              ELSE SlotOf(split, q)
  <2> HIDE DEF split
  <2> QED
    BY <1>3, <1>4, TakenSlots DEF moved
<1> HIDE DEF moved, split
<1>6. \A q \in PaneNr : SlotOf(desk', q) = IF q = src THEN None ELSE SlotOf(moved, q)
  <2>1. moved.panes # {src}
    BY <1>1, <1>4, <1>5
  <2> QED
    BY <1>1, <1>5, <2>1, GoneSlots
<1>7. SlotOf(desk', nextPane) = s
  BY <1>3, <1>5, <1>6
<1>8. ASSUME NEW q \in PaneNr, SlotOf(desk, q) \in sessions
      PROVE  \E i \in PaneNr : SlotOf(desk', i) = SlotOf(desk, q)
  <2>1. CASE SlotOf(desk, q) = s
    BY <1>3, <1>7, <2>1
  <2>2. CASE SlotOf(desk, q) # s
    <3>1. q # src /\ q # nextPane
      BY <1>3, <1>8, <2>2
    <3>2. SlotOf(desk', q) = SlotOf(moved, q) /\ SlotOf(moved, q) = SlotOf(desk, q)
      BY <1>4, <1>5, <1>6, <2>2, <3>1
    <3> QED
      BY <3>2
  <2> QED
    BY <2>1, <2>2
<1> QED
  BY <1>1, <1>2, <1>8, DeskKeeps

-----------------------------------------------------------------------------
(* Workspaces change and every session keeps a slot                        *)

LEMMA SwitchWorkspaceTidy ==
    ASSUME Base, Places, TidyInv, Tidy, NEW w \in Workspaces, SwitchWorkspace(w)
    PROVE  TidyInv'
<1>1. May("switch") /\ UNCHANGED tabVars /\ UNCHANGED refVars /\ UNCHANGED calls /\ nss' = nss
      /\ "slots" \in dirty'
  BY DEF SwitchWorkspace, Touch
<1>2. w \in DOMAIN snaps /\ w # ws /\ snaps' = Save(ws, desk) /\ ws' = w /\ desk' = snaps[w]
  BY DEF SwitchWorkspace, Show
<1>3. ws \in DOMAIN snaps
  BY Basics DEF Typed
<1>4. DOMAIN snaps' = DOMAIN snaps /\ \A x \in DOMAIN snaps : LayoutOf(x)' = LayoutOf(x)
  BY <1>2, <1>3, LayoutNext DEF LayoutOf, Save
<1>5. \A x \in DOMAIN snaps, p \in PaneNr : At(x, p)' = At(x, p)
  BY <1>4, LayoutNext DEF At
<1>6. NoCalls' /\ sessions' \subseteq sessions
  BY <1>1, TidyGesture, CallsSame DEF tabVars
<1> QED
  BY <1>1, <1>4, <1>5, <1>6, StayTidy

LEMMA CreateWorkspaceTidy ==
    ASSUME Base, Places, TidyInv, Tidy, NEW w \in Workspaces, CreateWorkspace(w)
    PROVE  TidyInv'
<1>1. May("create") /\ UNCHANGED tabVars /\ UNCHANGED refVars /\ UNCHANGED calls /\ nss' = nss
      /\ "slots" \in dirty'
  BY DEF CreateWorkspace, Touch
<1>2. /\ w \notin DOMAIN snaps
      /\ snaps' = [x \in DOMAIN snaps \cup {w, ws} |->
                      IF x = w THEN Blank(1) ELSE IF x = ws THEN desk ELSE snaps[x]]
      /\ ws' = w /\ desk' = Blank(1)
  BY DEF CreateWorkspace, Show, Unused
<1>3. ws \in DOMAIN snaps
  BY Basics DEF Typed
<1>4. DOMAIN snaps \subseteq DOMAIN snaps' /\ \A x \in DOMAIN snaps : LayoutOf(x)' = LayoutOf(x)
  BY <1>2, <1>3, LayoutNext DEF LayoutOf
<1>5. \A x \in DOMAIN snaps, p \in PaneNr : At(x, p)' = At(x, p)
  BY <1>4, LayoutNext DEF At
<1>6. NoCalls' /\ sessions' \subseteq sessions
  BY <1>1, TidyGesture, CallsSame DEF tabVars
<1> QED
  BY <1>1, <1>4, <1>5, <1>6, StayTidy

LEMMA SendSessionTidy ==
    ASSUME Base, Places, TidyInv, Tidy, NEW s \in Ids, NEW t \in Workspaces, SendSession(s, t)
    PROVE  TidyInv'
<1> DEFINE without == RemoveSessionFromSlots(desk, s)
<1>1. /\ May("send") /\ UNCHANGED calls /\ UNCHANGED tabVars /\ UNCHANGED refVars /\ ws' = ws
      /\ nss' = nss /\ t \in DOMAIN snaps /\ t # ws /\ "slots" \in dirty'
  BY DEF SendSession, Touch
<1>2. PICK l \in AppendSession(snaps[t], s) : snaps' = Save(t, l)
  BY DEF SendSession, AppendToSnapshot
<1>3. PICK src \in FirstSlotOf(s) : desk' = IF src \in desk.panes /\ desk.panes # {src}
                         THEN ClearPaneAtIndex(RemovePane(without, src), src) ELSE without
  BY DEF SendSession
<1>4. NoCalls' /\ sessions' = sessions /\ DOMAIN snaps' = DOMAIN snaps
  BY <1>1, <1>2, TidyGesture, CallsSame DEF tabVars, Save
<1>5. /\ desk \in Good /\ (\A w \in DOMAIN snaps : LayoutOf(w) \in Good)
      /\ None \notin sessions /\ ws \in DOMAIN snaps /\ Sighted
      /\ src \in PaneNr /\ SlotOf(desk, src) = s
  BY <1>3, Basics, FirstSlotShows DEF Typed, Places
<1>6. /\ without \in Good
      /\ \A q \in PaneNr : SlotOf(without, q) =
            IF SlotOf(desk, q) = s THEN None ELSE SlotOf(desk, q)
  BY <1>5, RemoveGood, RemoveSlots
<1> HIDE DEF without
<1>7. \A q \in PaneNr : SlotOf(desk, q) # s => SlotOf(desk', q) = SlotOf(desk, q)
  <2>1. CASE src \in desk.panes /\ desk.panes # {src}
    <3>1. without.panes = desk.panes
      BY <1>5, RemoveGood DEF without
    <3>2. \A q \in PaneNr : SlotOf(desk', q) = IF q = src THEN None ELSE SlotOf(without, q)
      BY <1>3, <1>6, <2>1, <3>1, GoneSlots
    <3> QED
      BY <1>5, <1>6, <3>2
  <2>2. CASE ~(src \in desk.panes /\ desk.panes # {src})
    BY <1>3, <1>6, <2>2
  <2> QED
    BY <2>1, <2>2
<1>8. /\ LayoutOf(t) = snaps[t]
      /\ \A q \in PaneNr : At(t, q) = SlotOf(snaps[t], q) /\ At(t, q)' = SlotOf(l, q)
  BY <1>1, <1>2, LayoutNext DEF At, LayoutOf, Save
<1>9. PICK p \in PaneNr : /\ \A q \in PaneNr : SlotOf(l, q) =
                                IF q = p THEN s ELSE SlotOf(snaps[t], q)
                          /\ p \in snaps[t].panes => SlotOf(snaps[t], p) = None
  <2>1. snaps[t] \in Good
    BY <1>1, <1>5, <1>8
  <2> QED
    BY <1>2, <2>1, AppendSlots
<1>10. At(t, p) \notin sessions
  BY <1>1, <1>5, <1>8, <1>9 DEF Sighted
<1>11. ASSUME NEW w \in DOMAIN snaps, NEW q \in PaneNr, At(w, q) \in sessions
       PROVE  \E v \in DOMAIN snaps', i \in PaneNr : At(v, i)' = At(w, q)
  <2>1. CASE w = t
    <3>1. q # p
      BY <1>10, <1>11, <2>1
    <3>2. At(t, q)' = At(t, q)
      BY <1>8, <1>9, <3>1
    <3> QED
      BY <1>4, <2>1, <3>2
  <2>2. CASE w = ws
    <3>1. \A i \in PaneNr : At(w, i) = SlotOf(desk, i) /\ At(w, i)' = SlotOf(desk', i)
      BY <1>1, <2>2, LayoutNext DEF At, LayoutOf
    <3>2. CASE At(w, q) = s
      <4>1. At(t, p)' = s
        BY <1>8, <1>9
      <4> QED
        BY <1>1, <1>4, <3>2, <4>1
    <3>3. CASE At(w, q) # s
      BY <1>4, <1>7, <3>1, <3>3
    <3> QED
      BY <3>2, <3>3
  <2>3. CASE w \notin {ws, t}
    <3>1. At(w, q)' = At(w, q)
      BY <1>1, <1>2, <2>3, LayoutNext DEF At, LayoutOf, Save
    <3> QED
      BY <1>4, <3>1
  <2> QED
    BY <2>1, <2>2, <2>3
<1>12. sessions' \subseteq sessions
  BY <1>4
<1> QED
  BY <1>1, <1>4, <1>11, <1>12, StayTidy

-----------------------------------------------------------------------------
(* Sessions are closed, and those that stay keep their slots               *)

LEMMA ClosedTidy ==
    ASSUME Base, Places, TidyInv, NEW k \in DOMAIN calls, Closed(k)
    PROVE  TidyInv'
<1> DEFINE c == calls[k]
           s == calls[k].s
           leaf == calls[k].leaf
           without == RemoveSessionFromSlots(desk, s)
<1>1. c.op = "close" /\ End(k) /\ sessions' = sessions \ {s}
      /\ snaps' = [w \in DOMAIN snaps |-> RemoveSessionFromSlots(snaps[w], s)]
      /\ desk' = (IF leaf = None THEN without
                  ELSE ClearPaneAtIndex(RemovePane(without, leaf), leaf))
      /\ UNCHANGED nss /\ UNCHANGED ws /\ UNCHANGED refVars /\ "slots" \in dirty'
  BY DEF Closed, RemoveEverywhere, Touch, Everything
<1>2. leaf # None => SlotOf(desk, leaf) \notin sessions \ {s}
  <2>1. Steady(c)
    BY DEF TidyInv
  <2>2. c.leaf = leaf /\ c.s = s
    OBVIOUS
  <2> HIDE DEF c, s, leaf
  <2> QED
    BY <1>1, <2>1, <2>2 DEF Steady
<1>3. NoCalls'
  BY <1>1, WaitsNotIdle, EndOne DEF Base
<1> HIDE DEF c, s, leaf
<1>4. desk \in Good /\ (\A w \in DOMAIN snaps : LayoutOf(w) \in Good) /\ None \notin sessions
  BY Basics DEF Typed
<1>5. /\ without \in Good
      /\ \A p \in PaneNr : SlotOf(without, p) =
            IF SlotOf(desk, p) = s THEN None ELSE SlotOf(desk, p)
  BY <1>4, RemoveGood, RemoveSlots
<1> HIDE DEF without
<1>6. \A p \in PaneNr : SlotOf(desk, p) \in sessions' => SlotOf(desk', p) = SlotOf(desk, p)
  <2>1. CASE leaf = None
    BY <1>1, <1>5, <2>1
  <2>2. CASE leaf # None
    <3> DEFINE rest == RemovePane(without, leaf)
    <3>1. desk' = ClearPaneAtIndex(rest, leaf)
      BY <1>1, <2>2
    <3>2. rest \in Good
      BY <1>5, RemovePaneGood
    <3>3. \A p \in PaneNr : SlotOf(rest, p) = SlotOf(without, p)
      BY <1>5, RemovePaneSlots
    <3> HIDE DEF rest
    <3>4. \A p \in PaneNr : SlotOf(desk', p) = IF p = leaf THEN None ELSE SlotOf(rest, p)
      BY <3>1, <3>2, ClearSlots
    <3> QED
      BY <1>1, <1>2, <1>5, <2>2, <3>3, <3>4
  <2> QED
    BY <2>1, <2>2
<1>7. \A w \in DOMAIN snaps, p \in PaneNr : w # ws =>
         At(w, p)' = IF At(w, p) = s THEN None ELSE At(w, p)
  <2>1. \A w \in DOMAIN snaps : w # ws => LayoutOf(w)' = RemoveSessionFromSlots(LayoutOf(w), s)
    BY <1>1, LayoutNext DEF LayoutOf
  <2>2. \A w \in DOMAIN snaps, p \in PaneNr :
           SlotOf(RemoveSessionFromSlots(LayoutOf(w), s), p) =
              IF At(w, p) = s THEN None ELSE At(w, p)
    BY <1>4, RemoveSlots DEF At
  <2> QED
    BY <2>1, <2>2, LayoutNext
<1>8. \A w, p : w = ws => At(w, p)' = SlotOf(desk', p) /\ At(w, p) = SlotOf(desk, p)
  BY <1>1, LayoutNext DEF At, LayoutOf
<1>9. \A w \in DOMAIN snaps, p \in PaneNr : At(w, p) \in sessions' => At(w, p)' = At(w, p)
  BY <1>1, <1>6, <1>7, <1>8
<1>10. DOMAIN snaps' = DOMAIN snaps /\ sessions' \subseteq sessions
  BY <1>1
<1> QED
  BY <1>1, <1>3, <1>9, <1>10, StayTidy

(* No session is left. *)
LEMMA EmptyTidy ==
    ASSUME NoCalls', sessions' = {}, Resting', "slots" \in dirty'
    PROVE  TidyInv'
BY DoneTidy DEF Housed

LEMMA AllClosedTidy ==
    ASSUME Base, TidyInv, NEW k \in DOMAIN calls, AllClosed(k)
    PROVE  TidyInv'
<1>1. calls[k].op = "all" /\ End(k) /\ sessions' = {} /\ UNCHANGED nss /\ UNCHANGED refVars
      /\ "slots" \in dirty'
  BY DEF AllClosed, Touch, Everything
<1>2. NoCalls' /\ Resting'
  BY <1>1, WaitsNotIdle, EndOne, RestingSame DEF Base, TidyInv, refVars
<1> QED
  BY <1>1, <1>2, EmptyTidy

LEMMA RestartTidy ==
    ASSUME TidyInv, Restart
    PROVE  TidyInv'
<1>1. /\ sessions' = {} /\ nss' \subseteq nss /\ seen' = {} /\ closing' = {} /\ pending' = {}
      /\ "slots" \in dirty' /\ calls' = [k \in DOMAIN calls |-> Idle]
  BY DEF Restart
<1>2. NoCalls' /\ Resting'
  BY <1>1 DEF NoCalls, Pending, Resting, TidyInv
<1> QED
  BY <1>1, <1>2, EmptyTidy

(* The pane of the duplicate shows the session of its source no more. *)
LEMMA DuplicateFailsTidy ==
    ASSUME Base, TidyInv, NEW k \in DOMAIN calls, DuplicateFails(k)
    PROVE  TidyInv'
<1> DEFINE p == calls[k].p
<1>1. /\ UNCHANGED tabVars /\ UNCHANGED wsVars /\ UNCHANGED refVars
      /\ desk' = ClearPaneAtIndex(desk, p) /\ calls[k].op = "duplicate" /\ End(k)
      /\ "slots" \in dirty'
  BY DEF DuplicateFails, Touch
<1>2. Spare = {p} /\ NoCalls'
  BY <1>1, NoSpare, WaitsNotIdle, EndOne DEF Base
<1>3. desk \in Good
  BY Basics DEF Typed
<1>4. \A q \in PaneNr : SlotOf(desk', q) = IF q = p THEN None ELSE SlotOf(desk, q)
  BY <1>1, <1>3, ClearSlots
<1> HIDE DEF p
<1>5. \A w \in DOMAIN snaps, q \in PaneNr : Own(w, q) => At(w, q)' = At(w, q)
  <2> SUFFICES ASSUME NEW w \in DOMAIN snaps, NEW q \in PaneNr, Own(w, q)
               PROVE  At(w, q)' = At(w, q)
    OBVIOUS
  <2>1. CASE w = ws
    <3>1. q # p
      BY <1>2, <2>1 DEF Own
    <3> QED
      BY <1>1, <1>4, <2>1, <3>1, DeskNext
  <2>2. CASE w # ws
    BY <1>1, <2>2, DeskNext
  <2> QED
    BY <2>1, <2>2
<1>6. sessions' \subseteq sessions /\ nss' = nss /\ DOMAIN snaps' = DOMAIN snaps
  BY <1>1 DEF tabVars, wsVars
<1> QED
  BY <1>1, <1>2, <1>5, <1>6, StayTidy

-----------------------------------------------------------------------------
(* New sessions take free slots                                            *)

LEMMA FreeAlike ==
    ASSUME Typed, NEW l, Alike(l, desk), NEW q \in FreePanes(l)
    PROVE  q \in PaneNr /\ SlotOf(desk, q) \notin sessions
<1>1. desk \in Good /\ None \notin sessions
  BY DEF Typed
<1>2. q \in PaneNr
  BY <1>1, SlotsOfGood DEF Alike, FreePanes
<1>3. SlotOf(l, q) = None
  BY DEF FreePanes, SlotOf
<1> QED
  BY <1>1, <1>2, <1>3 DEF Alike

(* The slot of a new session, by what its handler holds. *)
LEMMA FreshPlace ==
    ASSUME Base, NEW view, Alike(view.desk, desk), nextPane > Len(desk.slots),
           NEW p, NEW s \in SlotValues,
           \/ \E q \in FreePanes(view.desk) : desk' = AssignSessionToPane(desk, q, s)
           \/ SplitFor(view, p, s)
    PROVE  \E p0 \in PaneNr : /\ SlotOf(desk, p0) \notin sessions
                              /\ \A q \in PaneNr : SlotOf(desk', q) =
                                    IF q = p0 THEN s ELSE SlotOf(desk, q)
<1> DEFINE l == view.desk
<1>1. Typed /\ desk \in Good /\ None \notin sessions
  BY Basics DEF Typed
<1>2. ASSUME NEW i \in FreePanes(l), desk' = AssignSessionToPane(desk, i, s)
      PROVE  \E p0 \in PaneNr : /\ SlotOf(desk, p0) \notin sessions
                                /\ \A q \in PaneNr : SlotOf(desk', q) =
                                      IF q = p0 THEN s ELSE SlotOf(desk, q)
  <2>1. i \in PaneNr /\ SlotOf(desk, i) \notin sessions
    <3>1. Alike(l, desk)
      OBVIOUS
    <3> HIDE DEF l
    <3> QED
      BY <1>1, <3>1, FreeAlike
  <2>2. \A q \in PaneNr : SlotOf(desk', q) = IF q = i THEN s ELSE SlotOf(desk, q)
    BY <1>1, <1>2, <2>1, AssignSlots
  <2> QED
    BY <2>1, <2>2
<1>3. CASE SplitFor(view, p, s)
  <2>1. view.desk.panes = desk.panes
    BY DEF Alike
  <2>2. SlotOf(desk, nextPane) \notin sessions /\ nextPane \in PaneNr
    BY <1>1, FreshSlot
  <2>3. \A q \in PaneNr : SlotOf(desk', q) = IF q = nextPane THEN s ELSE SlotOf(desk, q)
    BY <1>1, <1>3, <2>1, SplitForSlots
  <2> QED
    BY <2>2, <2>3
<1> QED
  BY <1>2, <1>3

LEMMA PlacedTidy ==
    ASSUME Base, Base', Places, TidyInv, NEW k \in DOMAIN calls,
           calls[k].op \in {"new", "elsewhere"},
           Opens(calls[k].kind), UNCHANGED wsVars, UNCHANGED refVars, "slots" \in dirty',
           PlaceInNewOrFreePane(k, calls[k].view, calls[k].p, NewId)
    PROVE  TidyInv'
<1> DEFINE c == calls[k]
           view == c.view
<1>1. c.kind \in Kinds
  BY CallTyped, CallShape DEF Base
<1>2. Alike(view.desk, desk)
  BY DEF Places, Current
<1>3. ~view.nss
  BY DEF TidyInv, Steady
<1>4. Pending(k) /\ nextPane > Len(desk.slots)
  BY WaitsNotIdle, FreshAnswer
<1>5. NewId \in SlotValues /\ sessions' = sessions \cup {NewId}
  BY <1>1, OpensFacts
<1>6. \/ \E q \in FreePanes(view.desk) : desk' = AssignSessionToPane(desk, q, NewId)
      \/ SplitFor(view, c.p, NewId)
  BY <1>3 DEF PlaceInNewOrFreePane
<1>7. End(k)
  BY <1>3 DEF PlaceInNewOrFreePane, End
<1>8. NoCalls'
  BY <1>4, <1>7, EndOne DEF Base
<1> DEFINE p == c.p
<1>9. SplitFor(view, c.p, NewId) => SplitFor(view, p, NewId)
  OBVIOUS
<1> HIDE DEF p, view, c
<1>10. PICK p0 \in PaneNr : /\ SlotOf(desk, p0) \notin sessions
                            /\ \A q \in PaneNr : SlotOf(desk', q) =
                                  IF q = p0 THEN NewId ELSE SlotOf(desk, q)
  BY <1>2, <1>4, <1>5, <1>6, <1>9, FreshPlace
<1> QED
  BY <1>5, <1>8, <1>10, AddTidy

LEMMA OpenedNewTidy ==
    ASSUME Base, Base', Places, TidyInv, NEW k \in DOMAIN calls, OpenedNew(k)
    PROVE  TidyInv'
BY PlacedTidy DEF OpenedNew, Touch

LEMMA OpenedInActiveTidy ==
    ASSUME Base, Base', Places, TidyInv, NEW k \in DOMAIN calls, OpenedInActive(k)
    PROVE  TidyInv'
BY PlacedTidy DEF OpenedInActive, Touch

LEMMA OpenedAtPaneTidy ==
    ASSUME Base, Base', Places, TidyInv, NEW k \in DOMAIN calls,
           calls[k].op \in {"here", "duplicate"},
           Opens(calls[k].kind), UNCHANGED wsVars, UNCHANGED refVars, "slots" \in dirty', End(k),
           desk' = AssignSessionToPane(desk, calls[k].p, NewId)
    PROVE  TidyInv'
<1> DEFINE c == calls[k]
           p0 == calls[k].p
<1>1. c.kind \in Kinds
  BY CallTyped, CallShape DEF Base
<1>2. Typed /\ desk \in Good /\ None \notin sessions /\ NewId \in SlotValues
      /\ sessions' = sessions \cup {NewId}
  BY <1>1, Basics, OpensFacts DEF Typed
<1>3. p0 \in PaneNr
  BY <1>2, SlotsOfGood DEF Places, Current
<1>4. SlotOf(desk, p0) \notin sessions \/ p0 \in Spare
  <2>1. CASE c.op = "here"
    <3>1. Steady(c) /\ c.p = p0
      BY DEF TidyInv
    <3> HIDE DEF c, p0
    <3>2. SlotOf(desk, p0) = None
      BY <2>1, <3>1 DEF Steady
    <3> QED
      BY <1>2, <3>2
  <2>2. CASE c.op = "duplicate"
    BY <2>2, NoSpare
  <2> QED
    BY <2>1, <2>2
<1>5. NoCalls'
  BY WaitsNotIdle, EndOne DEF Base
<1>6. desk' = AssignSessionToPane(desk, p0, NewId)
  OBVIOUS
<1> HIDE DEF c, p0
<1>7. \A q \in PaneNr : SlotOf(desk', q) = IF q = p0 THEN NewId ELSE SlotOf(desk, q)
  BY <1>2, <1>3, <1>6, AssignSlots
<1> QED
  BY <1>2, <1>3, <1>4, <1>5, <1>7, AddTidy

LEMMA OpenedHereTidy ==
    ASSUME Base, Base', Places, TidyInv, NEW k \in DOMAIN calls, OpenedHere(k)
    PROVE  TidyInv'
BY OpenedAtPaneTidy DEF OpenedHere, Touch

LEMMA OpenedDuplicateTidy ==
    ASSUME Base, Base', Places, TidyInv, NEW k \in DOMAIN calls, OpenedDuplicate(k)
    PROVE  TidyInv'
BY OpenedAtPaneTidy DEF OpenedDuplicate, Touch

LEMMA OpenedInZoneTidy ==
    ASSUME Base, Base', Places, TidyInv, NEW k \in DOMAIN calls, OpenedInZone(k)
    PROVE  TidyInv'
<1> DEFINE c == calls[k]
           view == c.view
           p == c.p
<1>1. /\ c.op = "zone" /\ Opens(c.kind) /\ UNCHANGED wsVars /\ UNCHANGED refVars /\ End(k)
      /\ SplitFor(view, p, NewId) /\ "slots" \in dirty'
  BY DEF OpenedInZone, Touch
<1>2. c.kind \in Kinds
  BY <1>1, CallTyped, CallShape DEF Base
<1>3. Alike(view.desk, desk)
  BY <1>1 DEF Places, Current
<1>4. Pending(k) /\ nextPane > Len(desk.slots) /\ NoCalls'
  BY <1>1, WaitsNotIdle, FreshAnswer, EndOne DEF Base
<1>5. NewId \in SlotValues /\ sessions' = sessions \cup {NewId}
  BY <1>1, <1>2, OpensFacts
<1> HIDE DEF p, view, c
<1>6. PICK p0 \in PaneNr : /\ SlotOf(desk, p0) \notin sessions
                           /\ \A q \in PaneNr : SlotOf(desk', q) =
                                 IF q = p0 THEN NewId ELSE SlotOf(desk, q)
  BY <1>1, <1>3, <1>4, <1>5, FreshPlace
<1> QED
  BY <1>1, <1>4, <1>5, <1>6, AddTidy

LEMMA OpenWebTidy ==
    ASSUME Base, Base', Places, TidyInv, Tidy, NEW p \in Panes, OpenWeb(p)
    PROVE  TidyInv'
<1>1. /\ May("web") /\ Opens("web") /\ UNCHANGED wsVars /\ UNCHANGED refVars /\ UNCHANGED calls
      /\ "slots" \in dirty'
  BY DEF OpenWeb, Touch
<1>2. NoCalls' /\ nextPane > Len(desk.slots)
  BY <1>1, TidyGesture, CallsSame
<1>3. NewId \in SlotValues /\ sessions' = sessions \cup {NewId}
  <2>1. "web" \in Kinds
    BY DEF Kinds
  <2> QED
    BY <1>1, <2>1, OpensFacts
<1> DEFINE view == View
<1>4. view.desk = desk
  BY DEF View
<1>5. \/ \E q \in FreePanes(view.desk) : desk' = AssignSessionToPane(desk, q, NewId)
      \/ SplitFor(view, p, NewId)
  BY <1>4 DEF OpenWeb
<1> HIDE DEF view
<1>6. Alike(view.desk, desk)
  BY <1>4 DEF Alike
<1>7. PICK p0 \in PaneNr : /\ SlotOf(desk, p0) \notin sessions
                           /\ \A q \in PaneNr : SlotOf(desk', q) =
                                 IF q = p0 THEN NewId ELSE SlotOf(desk, q)
  BY <1>2, <1>3, <1>5, <1>6, FreshPlace
<1> QED
  BY <1>1, <1>2, <1>3, <1>7, AddTidy

(* Until the duplicate has started, its pane is no session's place. *)
LEMMA SplitDuplicateTidy ==
    ASSUME Base, Places, TidyInv, Tidy, NEW p \in Panes, SplitDuplicate(p)
    PROVE  TidyInv'
<1>1. /\ May("duplicate") /\ UNCHANGED tabVars /\ UNCHANGED wsVars /\ UNCHANGED refVars
      /\ p \in desk.panes /\ nextPane' = nextPane + 1
  BY DEF SplitDuplicate
<1>2. PICK s \in sessions :
          /\ desk' = AssignSessionToPane(SplitPane(desk, p, nextPane), nextPane, s)
          /\ Begin([op |-> "duplicate", kind |-> kinds[s], p |-> nextPane])
  BY DEF SplitDuplicate
<1> DEFINE c == [op |-> "duplicate", kind |-> kinds[s], p |-> nextPane]
           split == SplitPane(desk, p, nextPane)
<1>3. c.op = "duplicate" /\ c.p = nextPane /\ Begin(c)
  BY <1>2
<1> HIDE DEF c
<1>4. NoCalls /\ Spare = {} /\ nextPane > Len(desk.slots)
  BY <1>1, TidyGesture
<1>5. Typed /\ desk \in Good /\ nextPane \in PaneNr /\ s \in SlotValues /\ None \notin sessions
      /\ SlotOf(desk, nextPane) = None /\ Len(desk.slots) \in Nat
  BY <1>4, Basics, FreshSlot, SlotsOfGood DEF Typed, SlotValues
<1>6. /\ split \in Good /\ Len(split.slots) = nextPane
      /\ \A q \in PaneNr : SlotOf(split, q) = SlotOf(desk, q)
  BY <1>4, <1>5, SplitGood, SplitSlots
<1>7. desk' = AssignSessionToPane(split, nextPane, s)
  BY <1>2
<1> HIDE DEF split
<1>8. (\A q \in PaneNr : SlotOf(desk', q) = IF q = nextPane THEN s ELSE SlotOf(desk, q))
      /\ Len(desk'.slots) = nextPane
  <2>1. Len(desk'.slots) = IF nextPane > Len(split.slots) THEN nextPane ELSE Len(split.slots)
    BY <1>5, <1>6, <1>7, AssignSlots
  <2>2. ~(nextPane > nextPane)
    BY <1>5 DEF PaneNr
  <2> QED
    BY <1>5, <1>6, <1>7, <2>1, <2>2, AssignSlots
<1>9. DOMAIN calls' = DOMAIN calls /\ (\A j \in DOMAIN calls : calls'[j] \in {Idle, c})
  BY <1>3, <1>4, BeginOne DEF Base
<1>10. Spare' \subseteq {nextPane}
  BY <1>3, <1>9 DEF Spare, Idle
<1>11. sessions' = sessions /\ DOMAIN snaps' = DOMAIN snaps /\ ws' = ws /\ nss' = nss
  BY <1>1 DEF tabVars, wsVars
<1>12. Housed'
  <2>1. ASSUME NEW w \in DOMAIN snaps, NEW q \in PaneNr, Own(w, q)
        PROVE  \E v \in DOMAIN snaps', i \in PaneNr : At(v, i)' = At(w, q) /\ Own(v, i)'
    <3>1. At(w, q) \in sessions
      BY <2>1 DEF Own
    <3>2. CASE w = ws
      <4>1. At(w, q) = SlotOf(desk, q) /\ At(w, q)' = SlotOf(desk', q)
        BY <1>1, <3>2, DeskNext
      <4>2. q # nextPane
        BY <1>5, <3>1, <4>1
      <4>3. At(w, q)' = At(w, q)
        BY <1>8, <4>1, <4>2
      <4> QED
        BY <1>10, <1>11, <3>1, <4>2, <4>3 DEF Own
    <3>3. CASE w # ws
      <4>1. At(w, q)' = At(w, q)
        BY <1>1, <3>3, DeskNext
      <4> QED
        BY <1>11, <3>1, <3>3, <4>1 DEF Own
    <3> QED
      BY <3>2, <3>3
  <2> DEFINE N == {}
  <2>2. sessions' \subseteq sessions \cup N
    BY <1>11
  <2>3. \A i \in N : \E v \in DOMAIN snaps', q \in PaneNr : At(v, q)' = i /\ Own(v, q)'
    OBVIOUS
  <2> HIDE DEF N
  <2> QED
    BY <2>1, <2>2, <2>3, HousedStep DEF TidyInv
<1>13. Fresh'
  BY <1>1, <1>5, <1>8 DEF Fresh, PaneNr
<1>14. Resting'
  BY <1>1, <1>11, RestingSame DEF TidyInv, refVars
<1>15. \A j \in DOMAIN calls' : Steady(calls[j])'
  BY <1>3, <1>9 DEF Steady, Idle
<1> QED
  BY <1>12, <1>13, <1>14, <1>15 DEF TidyInv

-----------------------------------------------------------------------------
(* A new session in another workspace                                      *)

LEMMA OpenedElsewhereTidy ==
    ASSUME Base, Base', Places, TidyInv, NEW k \in DOMAIN calls, OpenedElsewhere(k)
    PROVE  TidyInv'
<1> DEFINE c == calls[k]
<1>1. /\ c.op = "elsewhere" /\ c.target # c.view.ws /\ Opens(c.kind) /\ End(k) /\ UNCHANGED refVars
      /\ "slots" \in dirty'
      /\ nss' = (nss \ {c.target, c.view.ws}) \cup (IF c.commander THEN {c.target} ELSE {})
  BY DEF OpenedElsewhere, Touch, Everything
<1>2. PICK l \in AppendSession(c.there, NewId) :
              /\ snaps' = [x \in DOMAIN snaps \cup {c.target, c.view.ws} |->
                              IF x = c.target THEN l
                              ELSE IF x = c.view.ws THEN c.view.desk ELSE snaps[x]]
              /\ ws' = c.target /\ desk' = l
  BY DEF OpenedElsewhere, Show
<1>3. Pending(k) /\ NoCalls'
  BY <1>1, WaitsNotIdle, EndOne DEF Base
<1>4. /\ c.view.ws = ws /\ c.target # ws /\ c.target \in DOMAIN snaps
      /\ Alike(c.view.desk, desk) /\ Alike(c.there, snaps[c.target])
  BY <1>1 DEF Places, Current
<1>5. c.kind \in Kinds /\ c.there \in Good
  BY <1>1, CallTyped, CallShape DEF Base
<1>6. sessions' = sessions \cup {NewId} /\ NewId \in Ids
  BY <1>1, <1>5, OpensFacts
<1>7. ws \in DOMAIN snaps /\ DOMAIN snaps' = DOMAIN snaps /\ None \notin sessions /\ Sighted
  BY <1>2, <1>4, Basics DEF Typed, Places
<1>8. PICK p0 \in PaneNr : /\ \A q \in PaneNr : SlotOf(l, q) =
                                 IF q = p0 THEN NewId ELSE SlotOf(c.there, q)
                           /\ p0 \in c.there.panes => SlotOf(c.there, p0) = None
  BY <1>2, <1>5, <1>6, AppendSlots
<1>9. Steady(c)
  BY DEF TidyInv
<1>18. PICK t \in DOMAIN snaps : t = c.target
  BY <1>4
<1>19. PICK d \in DOMAIN snaps : d = ws
  BY <1>7
<1> DEFINE held == c.view.desk
           there == c.there
<1>10. /\ LayoutOf(t) = snaps[t] /\ LayoutOf(d) = desk /\ t # d
       /\ Alike(there, LayoutOf(t)) /\ Alike(held, LayoutOf(d))
  BY <1>4, <1>18, <1>19 DEF LayoutOf
<1>11. /\ \A q \in PaneNr : SlotOf(l, q) = IF q = p0 THEN NewId ELSE SlotOf(there, q)
       /\ p0 \in there.panes => SlotOf(there, p0) = None
  BY <1>8
<1>12. /\ LayoutOf(t)' = l /\ LayoutOf(d)' = held
       /\ \A w \in DOMAIN snaps : w \notin {t, d} => LayoutOf(w)' = LayoutOf(w)
  BY <1>2, <1>4, <1>18, <1>19, LayoutNext DEF LayoutOf
<1>13. c.op = "elsewhere" => ~c.commander
  <2> HIDE DEF c
  <2> QED
    BY <1>9 DEF Steady
<1>14. Resting'
  <2>1. nss' = {}
    BY <1>1, <1>13 DEF TidyInv, Resting
  <2> QED
    BY <1>1, <2>1, RestingSame DEF TidyInv, refVars, Resting
<1> HIDE DEF c, held, there
<1>15. ASSUME NEW w \in DOMAIN snaps, NEW q \in PaneNr, At(w, q) \in sessions
       PROVE  At(w, q)' = At(w, q)
  <2>1. CASE w = t
    <3>1. At(w, q)' = SlotOf(l, q) /\ At(w, q) = SlotOf(LayoutOf(t), q)
      BY <1>12, <2>1, LayoutNext DEF At
    <3>2. SlotOf(there, q) = At(w, q) /\ there.panes = LayoutOf(t).panes
      BY <1>10, <1>15, <3>1 DEF Alike
    <3>3. q \in LayoutOf(t).panes
      BY <1>7, <1>15, <2>1 DEF Sighted
    <3>4. q # p0
      BY <1>7, <1>11, <1>15, <3>2, <3>3
    <3> QED
      BY <1>11, <3>1, <3>2, <3>4
  <2>2. CASE w = d
    <3>1. At(w, q) = SlotOf(LayoutOf(d), q)
      BY <2>2 DEF At
    <3>2. At(w, q)' = SlotOf(held, q)
      BY <1>12, <2>2, LayoutNext
    <3> QED
      BY <1>10, <1>15, <3>1, <3>2 DEF Alike
  <2>3. CASE w \notin {t, d}
    BY <1>12, <2>3, LayoutNext DEF At
  <2> QED
    BY <2>1, <2>2, <2>3
<1>16. At(t, p0)' = NewId
  BY <1>11, <1>12, LayoutNext
<1>17. Housed'
  <2> DEFINE N == {NewId}
  <2>1. \A w \in DOMAIN snaps, q \in PaneNr : Own(w, q) /\ At(w, q) \in sessions' =>
              \E v \in DOMAIN snaps', i \in PaneNr : At(v, i)' = At(w, q) /\ Own(v, i)'
    <3> SUFFICES ASSUME NEW w \in DOMAIN snaps, NEW q \in PaneNr, Own(w, q)
                 PROVE  \E v \in DOMAIN snaps', i \in PaneNr : At(v, i)' = At(w, q) /\ Own(v, i)'
      OBVIOUS
    <3>1. At(w, q) \in sessions /\ At(w, q)' = At(w, q)
      BY <1>15 DEF Own
    <3>2. Own(w, q)'
      BY <1>3, <1>6, <3>1, OwnNext
    <3> QED
      BY <1>7, <3>1, <3>2
  <2>2. \A s \in N : \E v \in DOMAIN snaps', q \in PaneNr : At(v, q)' = s /\ Own(v, q)'
    <3>1. Own(t, p0)'
      BY <1>3, <1>6, <1>16, OwnNext
    <3> QED
      BY <1>7, <1>16, <3>1
  <2>3. sessions' \subseteq sessions \cup N
    BY <1>6
  <2> HIDE DEF N
  <2> QED
    BY <2>1, <2>2, <2>3, HousedStep DEF TidyInv
<1> QED
  BY <1>1, <1>3, <1>14, <1>17, DoneTidy

-----------------------------------------------------------------------------
(* Effects                                                                 *)

(* A session with a place is no orphan. *)
LEMMA NoOrphan == Base /\ TidyInv => Orphans = {}
<1> SUFFICES ASSUME Base, TidyInv, NEW s \in Orphans
             PROVE  FALSE
  OBVIOUS
<1>1. s \in sessions
  BY DEF Orphans
<1>2. PICK w \in DOMAIN snaps, p \in PaneNr : At(w, p) = s
  BY <1>1 DEF TidyInv, Housed
<1> QED
  BY <1>2, ShownIsAssigned

LEMMA RunEffectsTidy ==
    ASSUME Base, Base', Places, TidyInv, RunEffects
    PROVE  TidyInv'
<1>1. /\ \A w \in DOMAIN snaps, p \in PaneNr : At(w, p) \in sessions => At(w, p)' = At(w, p)
      /\ \A p \in PaneNr : SlotOf(desk', p) \in {SlotOf(desk, p), None}
      /\ Len(desk'.slots) <= Len(desk.slots)
      /\ UNCHANGED sessions /\ UNCHANGED ws /\ UNCHANGED calls /\ UNCHANGED nss
      /\ DOMAIN snaps' = DOMAIN snaps
  BY RunEffectsSlots
<1>2. Spare' = Spare
  BY <1>1 DEF Spare
<1>3. Housed'
  <2>1. \A w \in DOMAIN snaps, p \in PaneNr : Own(w, p) /\ At(w, p) \in sessions' =>
              \E v \in DOMAIN snaps', q \in PaneNr : At(v, q)' = At(w, p) /\ Own(v, q)'
    BY <1>1, <1>2 DEF Own
  <2> DEFINE N == {}
  <2>2. sessions' \subseteq sessions \cup N
    BY <1>1
  <2>3. \A i \in N : \E v \in DOMAIN snaps', q \in PaneNr : At(v, q)' = i /\ Own(v, q)'
    OBVIOUS
  <2> HIDE DEF N
  <2> QED
    BY <2>1, <2>2, <2>3, HousedStep DEF TidyInv
<1>4. nextPane' = IF "slots" \in dirty /\ nextPane <= Len(desk.slots)
                  THEN Len(desk.slots) + 1 ELSE nextPane
  BY DEF RunEffects, NumberAfterSlots
<1>5. Fresh'
  <2>1. desk \in Good /\ desk' \in Good /\ nextPane \in Nat
    BY Basics, BasicsNext DEF Typed, PaneNr
  <2>6. Len(desk.slots) \in Nat /\ Len(desk'.slots) \in Nat
    BY <2>1, SlotsOfGood
  <2>2. "slots" \notin dirty => nextPane > Len(desk.slots)
    BY DEF TidyInv, Fresh
  <2>3. nextPane' > Len(desk.slots)
    BY <1>4, <2>1, <2>2, <2>6
  <2>4. nextPane' \in Nat
    BY <1>4, <2>1, <2>6
  <2>5. nextPane' > Len(desk'.slots)
    BY <1>1, <2>3, <2>4, <2>6
  <2> QED
    BY <2>5 DEF Fresh
<1>6. Resting'
  <2>1. pending' = {}
    BY DEF RunEffects, TidyInv, Resting
  <2>2. seen' = {} /\ closing' = {}
    BY NoOrphan DEF RunEffects, Reap, TidyInv, Resting
  <2> QED
    BY <1>1, <2>1, <2>2 DEF TidyInv, Resting
<1>7. ASSUME NEW k \in DOMAIN calls'
      PROVE  Steady(calls[k])'
  <2> DEFINE c == calls[k]
  <2>1. calls' = calls /\ Steady(c)
    BY <1>1 DEF TidyInv
  <2>2. None \notin sessions /\ desk \in Good
    BY Basics DEF Typed
  <2>3. \A p : SlotOf(desk', p) \in {SlotOf(desk, p), None}
    <3>1. desk' \in Good
      BY BasicsNext DEF Typed
    <3>2. \A p : p \notin PaneNr => SlotOf(desk', p) = None
      BY <3>1, SlotsOfGood DEF SlotOf
    <3> QED
      BY <1>1, <3>2
  <2> HIDE DEF c
  <2>4. /\ c.op \in {"new", "here", "zone", "duplicate", "elsewhere", "close", "all", "idle"}
        /\ c.op \in {"new", "elsewhere"} => ~c.view.nss
        /\ c.op = "elsewhere" => ~c.commander
    BY <2>1 DEF Steady
  <2>5. c.op = "here" => SlotOf(desk', c.p) = None
    BY <2>1, <2>3 DEF Steady
  <2>6. c.op = "close" /\ c.leaf # None => SlotOf(desk', c.leaf) \notin sessions' \ {c.s}
    BY <1>1, <2>1, <2>2, <2>3 DEF Steady
  <2>7. calls'[k] = c
    BY <2>1 DEF c
  <2> QED
    BY <2>4, <2>5, <2>6, <2>7 DEF Steady
<1> QED
  BY <1>3, <1>5, <1>6, <1>7 DEF TidyInv

-----------------------------------------------------------------------------
(* A tidy user's sessions agree                                            *)

LEMMA InitTidy == Init => TidyInv
<1> SUFFICES ASSUME Init
             PROVE  TidyInv
  OBVIOUS
<1>1. Housed /\ Resting
  BY DEF Init, Housed, Resting
<1>2. calls = [k \in 1..MaxCalls |-> Idle] /\ dirty = {}
  BY DEF Init
<1>3. Fresh
  <2>1. nextPane = 2 /\ desk = Blank(1)
    BY DEF Init
  <2> QED
    BY <2>1, OneNumber, BlankSlots DEF Fresh
<1>4. \A k \in DOMAIN calls : Steady(calls[k])
  BY <1>2 DEF Steady, Idle
<1> QED
  BY <1>1, <1>3, <1>4 DEF TidyInv

LEMMA StutterTidy ==
    ASSUME TidyInv, UNCHANGED vars
    PROVE  TidyInv'
<1>1. /\ UNCHANGED sessions /\ UNCHANGED desk /\ UNCHANGED snaps /\ UNCHANGED ws
      /\ UNCHANGED calls /\ UNCHANGED dirty /\ UNCHANGED nextPane /\ UNCHANGED nss
      /\ UNCHANGED refVars
  BY DEF vars, tabVars, wsVars
<1>2. \A w, p : At(w, p)' = At(w, p) /\ (Own(w, p)' <=> Own(w, p))
  BY <1>1 DEF At, LayoutOf, Own, Spare
<1>3. Housed'
  BY <1>1, <1>2 DEF TidyInv, Housed
<1>4. Fresh'
  BY <1>1 DEF TidyInv, Fresh, Pending
<1>5. Resting'
  BY <1>1, RestingSame DEF TidyInv, refVars
<1>6. ASSUME NEW k \in DOMAIN calls'
      PROVE  Steady(calls[k])'
  BY <1>1 DEF TidyInv, Steady
<1> QED
  BY <1>3, <1>4, <1>5, <1>6 DEF TidyInv

LEMMA OpeningTidy ==
    ASSUME Base, Base', Places, TidyInv, Tidy, Opening
    PROVE  TidyInv'
<1>1. ASSUME NEW kind \in Kinds, NEW p \in Panes, OpenSession(kind, p) \/ OpenSessionHere(kind, p)
      PROVE  TidyInv'
  BY <1>1, OpenSessionTidy, OpenSessionHereTidy
<1>2. ASSUME NEW p \in Panes, OpenWeb(p) \/ SplitEmpty(p) \/ SplitDuplicate(p)
      PROVE  TidyInv'
  BY <1>2, OpenWebTidy, SplitEmptyTidy, SplitDuplicateTidy
<1> QED
  BY <1>1, <1>2 DEF Opening

LEMMA DraggingTidy ==
    ASSUME Base, Places, TidyInv, Tidy, Dragging
    PROVE  TidyInv'
<1>1. ASSUME NEW s \in Ids, NEW src \in Panes, NEW p \in Panes,
             DragToPane(s, src, p) \/ DragToEdge(s, src, p)
      PROVE  TidyInv'
  BY <1>1, DragToPaneTidy, DragToEdgeTidy
<1>2. ASSUME NEW s \in Ids, NEW p \in Panes, DragToOwnEdge(s, p)
      PROVE  TidyInv'
  BY <1>2, DragToOwnEdgeTidy
<1>3. ~May("host")
  BY DEF Tidy, TidyOps, May
<1>4. \A h, p, zone : ~DropHostOver(h, p, zone) /\ ~DropHostBeside(h, p, zone)
  BY <1>3 DEF DropHostOver, DropHostBeside
<1> QED
  BY <1>1, <1>2, <1>4 DEF Dragging

LEMMA ClosingTidy ==
    ASSUME Base, Places, TidyInv, Tidy, Closing
    PROVE  TidyInv'
<1>1. ASSUME NEW p \in Panes, CloseInPane(p) \/ ClosePane(p)
      PROVE  TidyInv'
  BY <1>1, CloseInPaneTidy, ClosePaneTidy
<1>2. ASSUME NEW reset \in BOOLEAN, CloseAll(reset)
      PROVE  TidyInv'
  BY <1>2, CloseAllTidy
<1> QED
  BY <1>1, <1>2 DEF Closing

LEMMA ArrangingTidy ==
    ASSUME Base, Places, TidyInv, Tidy, Arranging
    PROVE  TidyInv'
<1>1. ASSUME NEW w \in Workspaces, SwitchWorkspace(w) \/ CreateWorkspace(w)
      PROVE  TidyInv'
  BY <1>1, SwitchWorkspaceTidy, CreateWorkspaceTidy
<1>2. ASSUME NEW w \in Workspaces, NEW s \in Ids, SendSession(s, w)
      PROVE  TidyInv'
  BY <1>2, SendSessionTidy
<1>3. ASSUME NEW w \in Workspaces, NEW h \in Hosts, NEW p \in Panes, OpenInWorkspace(h, w, p)
      PROVE  TidyInv'
  BY <1>3, OpenInWorkspaceTidy
<1>4. ~May("remove") /\ ~May("commander") /\ ~May("preset") /\ ~May("preset_switch")
      /\ ~May("profile")
  BY DEF Tidy, TidyOps, May
<1>5. \A w : ~RemoveWorkspace(w) /\ ~CreateCommander(w)
  BY <1>4 DEF RemoveWorkspace, CreateCommander
<1>6. \A w, n : ~ApplyPreset(w, n) /\ ~ApplyPresetAndSwitch(w, n)
  BY <1>4 DEF ApplyPreset, ApplyPresetAndSwitch
<1>7. \A f : ~LoadProfile(f)
  BY <1>4 DEF LoadProfile
<1> QED
  BY <1>1, <1>2, <1>3, <1>5, <1>6, <1>7 DEF Arranging

LEMMA AnswersTidy ==
    ASSUME Base, Base', Places, TidyInv, NEW k \in DOMAIN calls, Answers(k)
    PROVE  TidyInv'
<1>1. calls[k].op \notin {"replace", "profile", "left", "right"}
  BY DEF TidyInv, Steady
<1>2. ~OpenedOver(k) /\ ~ProfileStep(k) /\ ~LeftStarted(k) /\ ~RightStarted(k)
  BY <1>1 DEF OpenedOver, ProfileStep, LeftStarted, RightStarted
<1>3. ASSUME NEW op \in {"new", "here", "zone", "replace", "elsewhere", "left", "right"},
             StartFails(k, op)
      PROVE  TidyInv'
  BY <1>3, StartFailsTidy
<1>4. CASE OpenedNew(k) \/ OpenedHere(k) \/ OpenedInZone(k) \/ OpenedDuplicate(k)
           \/ DuplicateFails(k)
  BY <1>4, OpenedNewTidy, OpenedHereTidy, OpenedInZoneTidy, OpenedDuplicateTidy,
     DuplicateFailsTidy
<1>5. CASE OpenedInActive(k) \/ OpenedElsewhere(k)
  BY <1>5, OpenedInActiveTidy, OpenedElsewhereTidy
<1>6. CASE Closed(k) \/ CloseFails(k) \/ AllClosed(k)
  BY <1>6, ClosedTidy, CloseFailsTidy, AllClosedTidy
<1> QED
  BY <1>2, <1>3, <1>4, <1>5, <1>6 DEF Answers

LEMMA TidyStep ==
    ASSUME Base, Base', Places, TidyInv, Tidy, [Next]_vars
    PROVE  TidyInv'
<1>1. CASE Opening \/ Dragging \/ Closing \/ Arranging
  BY <1>1, OpeningTidy, DraggingTidy, ClosingTidy, ArrangingTidy
<1>2. ASSUME NEW k \in DOMAIN calls, Answers(k)
      PROVE  TidyInv'
  BY <1>2, AnswersTidy
<1>3. CASE RunEffects
  BY <1>3, RunEffectsTidy
<1>4. \A s : ~Reaped(s)
  BY DEF Reaped, TidyInv, Resting
<1>5. CASE Restart
  BY <1>5, RestartTidy
<1>6. CASE UNCHANGED vars
  BY <1>6, StutterTidy
<1> QED
  BY <1>1, <1>2, <1>3, <1>4, <1>5, <1>6 DEF Next

LEMMA TidyInvariant ==
    ASSUME Tidy
    PROVE  Spec => [](Base /\ Places /\ TidyInv)
<1>1. Patient /\ TakesNone
  BY DEF Tidy, TidyOps, TakesNone
<1>2. Spec => [](Base /\ Places)
  BY <1>1, PlacesInvariant
<1>3. Base /\ Base' /\ Places /\ TidyInv /\ [Next]_vars => TidyInv'
  BY TidyStep
<1> QED
  BY <1>2, <1>3, InitTidy, PTL DEF Spec

(* The effects close no session of a tidy user: between two macrotasks of  *)
(* a handler, and while a pass has copied only half of the change, every   *)
(* session with a tab has a slot in some workspace.                        *)
THEOREM EffectsCloseNothing ==
    ASSUME Patient, Ops \subseteq TidyOps
    PROVE  Spec => []NoneReaped
<1>1. Tidy
  BY DEF Tidy
<1>2. TidyInv => NoneReaped
  BY DEF TidyInv, Resting, NoneReaped
<1> QED
  BY <1>1, <1>2, TidyInvariant, PTL

(* When everything has ended, the tabs, the children of the backend and    *)
(* the slots of a tidy user are about the same sessions, but for sessions  *)
(* that the backend took from its map and could not kill (close_session):  *)
(* these keep their tab and slot.                                          *)
THEOREM TabsChildrenAndSlotsAgree ==
    ASSUME Patient, Ops \subseteq TidyOps
    PROVE  Spec => []SessionsAgree
<1>1. Tidy /\ "commander" \notin Ops
  BY DEF Tidy, TidyOps
<1>2. Base /\ TidyInv => TabsHaveSlots
  BY NoOrphan DEF TabsHaveSlots
<1>3. Spec => []TabsMatchBackend
  BY <1>1, TabsAreChildren
<1> QED
  BY <1>1, <1>2, <1>3, NoGhosts, TidyInvariant, PTL DEF SessionsAgree
=============================================================================
