------------------------------ MODULE MCDesktop ------------------------------
(***************************************************************************)
(* The parts of the desktop that share no state with each other, checked   *)
(* in one run: part says which of them moves.  No step of one is a step of *)
(* another, so a state of several parts that moved is for each of them a   *)
(* state in which it moved alone, and nothing is lost by that choice.      *)
(***************************************************************************)
EXTENDS SessionOutput, FilePane, NssTransfer, ProxmuxPanel, ProxmuxSettings,
        ProxmuxConsole, IdentityStore, HetznerPlugin, StoredSettings, PaneViews, CommanderOps

CONSTANTS s1, s2, h

VARIABLE part

DesktopParts ==
    {"output", "files", "transfer", "panel", "settings", "console", "identity", "hetzner",
     "stored", "views", "commander"}

\* Output: a session of a saved host, shown by two terminals, and a quick one.
MCHostOf == s1 :> h
MCSessionOf == [t \in {"a", "b"} |-> s1]

\* Files: a link in the root; a read-only directory with a file and a link to it.
MCEntry == {<<"l">>, <<"d">>, <<"d", "a">>, <<"d", "l">>}
MCLinkTo == [n \in {"l"} |-> "a"]
MCReadOnly == {<<"d">>}

\* Transfer: a file and a directory, in both panes; the file also in the other folder
\* of the source pane.
MCInside == [d \in {"t"} |-> {"x"}]
MCOriginal == {<<"f", "a">>, <<"f", "t">>, <<"g", "a">>, <<"g", "t">>, <<"h", "a">>}

\* Panel: a node and a guest that comes and goes; only c1 has SPICE for it.
MCInventories == {[rows |-> {"q", "n"}, up |-> {"q"}], [rows |-> {"n"}, up |-> {}]}
MCCapable == {<<"c1", "q">>}

\* Settings: drafts with a right and a wrong password, and a cluster whose first
\* URL has no account.
MCEntries == {[urls |-> <<"u">>, password |-> p, proxy |-> ""] : p \in {"good", "bad"}}
MCAccounts == {<<"u", "good">>}
MCInitialClusters == [p \in {"p"} |-> [urls |-> <<"v", "u">>, password |-> "good", proxy |-> "x"]]

\* Identity: a host whose user holds a file key and which has an encrypted key of
\* its own.
MCFirstStore ==
    [users |-> {"u"}, groups |-> {"g"}, keys |-> {"p", "e"},
     held |-> [u \in User |-> IF u = "u" THEN <<Ref("p", TRUE)>> ELSE <<>>],
     members |-> [g \in Group |-> IF g = "g" THEN {"u"} ELSE {}],
     bindings |-> [a \in {"h"} |-> [user |-> "u", refs |-> <<Ref("e", TRUE)>>, groups |-> {}]]]
MCFirstHosts == [a \in {"h"} |-> NoKey]

\* Hetzner: a server in each of two projects; the second is added in the settings.
MCOwnerOf == [s \in {"s", "t"} |-> IF s = "s" THEN "a" ELSE "b"]

\* Stored settings: two views, and a comment before the keys of known_hosts.
MCDefaultUser == {NoUserName, "u"}
MCFirstViews == <<"v1", "v2">>
MCFirstLines == <<Comment, "k1", "k2">>

\* Views: an SSH session, a local shell and a console; one of the workspaces is an
\* NSS-Commander.
MCTabKind == "s" :> "saved" @@ "l" :> "local" @@ "w" :> "web"

MCInit ==
    /\ part \in DesktopParts
    /\ OutputInit /\ FilePaneInit /\ TransferInit /\ PanelInit /\ SettingsInit
    /\ ConsoleInit /\ IdentityStoreInit /\ HetznerInit /\ StoredInit /\ PaneViewsInit
    /\ CommanderInit
    /\ dir = "d"
    /\ part # "files" => hostKey = "known"
    /\ part # "views" => onDesk = "m"
    /\ part # "commander" => activePane = 0
    /\ part # "transfer" => kind = "local" /\ folderOf["from"] = "f"

Rest(p) ==
    /\ part = p /\ UNCHANGED part
    /\ p # "output" => UNCHANGED outputVars
    /\ p # "files" => UNCHANGED filePaneVars
    /\ p # "transfer" => UNCHANGED transferVars
    /\ p # "panel" => UNCHANGED panelVars
    /\ p # "settings" => UNCHANGED settingsVars
    /\ p # "console" => UNCHANGED consoleVars
    /\ p # "identity" => UNCHANGED identityStoreVars
    /\ p # "hetzner" => UNCHANGED hetznerVars
    /\ p # "stored" => UNCHANGED storedSettingsVars
    /\ p # "views" => UNCHANGED paneViewsVars
    /\ p # "commander" => UNCHANGED commanderVars

\* While one session has two terminals no other one runs: sessions share no stream.
OneDoubled == doubled' = {} \/ \A s \in Sessions \ doubled' : reader'[s] = "none"

\* One pane runs: two share no proxy.
OnePane == Cardinality({p \in Panes : runs'[p][1].pc # "none"}) <= 1

MCNext ==
    \/ Rest("output") /\ OutputNext /\ OneDoubled
    \/ Rest("files") /\ FilePaneNext
    \/ Rest("transfer") /\ TransferNext
    \/ Rest("panel") /\ PanelNext
    \/ Rest("settings") /\ SettingsNext
    \/ Rest("console") /\ ConsoleNext /\ OnePane
    \/ Rest("identity") /\ IdentityStoreNext
    \/ Rest("hetzner") /\ HetznerNext
    \/ Rest("stored") /\ StoredNext
    \/ Rest("views") /\ PaneViewsNext
    \/ Rest("commander") /\ CommanderNext

desktopVars == <<part, outputVars, filePaneVars, transferVars, panelVars, settingsVars,
                 consoleVars, identityStoreVars, hetznerVars, storedSettingsVars,
                 paneViewsVars, commanderVars>>

MCSpec == MCInit /\ [][MCNext]_desktopVars /\ TransferFair

\* Every variable of the part that moves keeps values of its kind.
TypeOK ==
    CASE part = "output" -> OutputTypeOK
      [] part = "files" -> FilePaneTypeOK
      [] part = "transfer" -> TransferTypeOK
      [] part = "panel" -> PanelTypeOK
      [] part = "settings" -> SettingsTypeOK
      [] part = "console" -> ConsoleTypeOK
      [] part = "identity" -> IdentityStoreTypeOK
      [] part = "hetzner" -> HetznerTypeOK
      [] part = "stored" -> StoredTypeOK
      [] part = "views" -> PaneViewsTypeOK
      [] part = "commander" -> CommanderTypeOK

=============================================================================
