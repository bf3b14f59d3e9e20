------------------------------ MODULE FilePane ------------------------------
(***************************************************************************)
(* A file pane (RemoteFilePane.tsx, LocalFilePane.tsx) and the backend     *)
(* commands it calls (sftp.rs).  The pane keeps a folder, the rows of the  *)
(* last listing, a selection and its dialogs; its handlers are callbacks   *)
(* that go on after an await with the folder they began in.  Requests for  *)
(* a listing carry no token: each answer is shown.                         *)
(*                                                                         *)
(* An entry is the sequence of names that leads to it.  Its last name says *)
(* whether it is a file, a directory (DirNames) or a link (LinkTo) to a    *)
(* file beside it.                                                         *)
(***************************************************************************)
EXTENDS Naturals, Sequences, SequencesExt, FiniteSets

CONSTANTS
    Entry,       \* the entries that can exist
    DirNames,
    LinkTo,      \* LinkTo[name]: the name of the file it points to
    Hidden,      \* names that begin with a dot
    InitialDisk,
    InitialReadOnly,
    Remote,      \* RemoteFilePane, or LocalFilePane
    Patient,     \* the user does one thing at a time
    MaxLoads,    \* bounds on requests under way
    MaxJobs

ASSUME FilePaneAssumption ==
    /\ \A e \in Entry : Len(e) > 0
    /\ InitialDisk \subseteq Entry /\ InitialReadOnly \subseteq Entry \cup {<<>>}
    /\ Remote \in BOOLEAN /\ Patient \in BOOLEAN
    /\ MaxLoads \in Nat \ {0} /\ MaxJobs \in Nat \ {0}

VARIABLES
    disk,       \* entries that exist
    readOnly,   \* directories whose entries cannot be removed
    hostKey,    \* the server's key: "known", "unknown" or "changed"
    path,
    rows,       \* entries (state): the names of the last answer
    fresh,      \* history: nothing failed half-way since that answer
    loads,      \* listings under way
    loading,
    error,
    keyDialog,  \* hostKeyMismatch and hostKeyUnknown
    selected,   \* selectedNames
    active,     \* activeName
    anchored,   \* lastRangeIndex is set
    showHidden,
    dialog,     \* prompts, double delete, bulk delete
    recovery,   \* deleteRecovery
    editor,     \* textEditorSession
    jobs,       \* handlers that wait for a command
    strays      \* history: entries deleted or written over that nobody had chosen

remoteVars == <<disk, readOnly, hostKey>>
listVars == <<rows, fresh, loads, loading, error, keyDialog>>
selectionVars == <<selected, active, anchored>>
dialogVars == <<dialog, recovery, editor>>
filePaneVars == <<remoteVars, path, listVars, selectionVars, showHidden, dialogVars, jobs, strays>>

Name == {Last(e) : e \in Entry}
Folder == {<<>>} \cup {e \in Entry : Last(e) \in DirNames}
NoName == "-"
Idle == [is |-> "idle"]
Closed == [is |-> "closed"]
NoRecovery == [names |-> {}, of |-> <<>>]
Unlisted == {"?"}

IsDir(n) == n \in DirNames
Under(e) == {d \in Entry : IsPrefix(e, d)}
Listing(f) == {n \in Name : Append(f, n) \in disk}
Exists(f) == f = <<>> \/ f \in disk
Shown == IF showHidden THEN rows ELSE rows \ Hidden

Quiet == (\A i \in 1..MaxLoads : loads[i] = Idle) /\ (\A i \in 1..MaxJobs : jobs[i] = Idle)
Modal == dialog # Closed \/ recovery # NoRecovery \/ keyDialog # "none"
MayAct == Patient => Quiet /\ ~Modal /\ editor = Closed
\* A dialog covers the window, the editor its pane.
MayClick == MayAct /\ ~Modal /\ editor = Closed
MayAnswer == Patient => Quiet

-----------------------------------------------------------------------------
(* Listing                                                                 *)

Load(at, after) ==
    /\ loading' = TRUE /\ error' = FALSE /\ keyDialog' = "none"
    /\ \E i \in 1..MaxLoads :
        /\ loads[i] = Idle /\ \A j \in 1..i-1 : loads[j] # Idle
        /\ loads' = [loads EXCEPT ![i] =
                        [is |-> "load", at |-> at, listed |-> Unlisted, after |-> after]]
    /\ UNCHANGED <<rows, fresh>>

\* The command reads the directory; its answer is on the way.
ListDir(i) ==
    /\ loads[i] # Idle /\ loads[i].listed = Unlisted
    /\ hostKey = "known" /\ Exists(loads[i].at)
    /\ loads' = [loads EXCEPT ![i].listed = Listing(loads[i].at)]
    /\ UNCHANGED <<remoteVars, path, rows, fresh, loading, error, keyDialog, selectionVars,
                   showHidden, dialogVars, jobs, strays>>

ListAnswer(i) ==
    /\ loads[i] # Idle /\ loads[i].listed # Unlisted
    /\ rows' = loads[i].listed
    /\ fresh' = TRUE
    /\ loading' = FALSE
    /\ error' = (error \/ loads[i].after = "error")
    /\ loads' = [loads EXCEPT ![i] = Idle]
    /\ UNCHANGED <<remoteVars, path, keyDialog, selectionVars, showHidden, dialogVars, jobs, strays>>

\* verify_known_host and the two dialogs, or any other error.
ListFails(i) ==
    /\ loads[i] # Idle /\ loads[i].listed = Unlisted
    /\ \/ error' = TRUE /\ UNCHANGED keyDialog
       \/ /\ hostKey # "known"
          /\ keyDialog' = hostKey
          /\ error' = (error \/ loads[i].after = "error")
    /\ loading' = FALSE
    /\ fresh' = FALSE
    /\ loads' = [loads EXCEPT ![i] = Idle]
    /\ UNCHANGED <<remoteVars, path, rows, selectionVars, showHidden, dialogVars, jobs, strays>>

-----------------------------------------------------------------------------
(* The folder                                                              *)

\* The effects of a new path: selection and pending deletions go, a listing is
\* asked for.  The prompts, the double delete and the editor stay.
SetPath(f) ==
    /\ path' = f
    /\ IF f = path
       THEN UNCHANGED <<listVars, selectionVars, dialog, recovery>>
       ELSE /\ selected' = {} /\ active' = NoName /\ anchored' = FALSE
            /\ recovery' = NoRecovery
            /\ dialog' = IF dialog.is = "bulk" THEN Closed ELSE dialog
            /\ Load(f, "nothing")
    /\ UNCHANGED <<remoteVars, showHidden, editor, jobs, strays>>

\* First click selects, second click enters.
OpenDir(n) ==
    /\ MayClick /\ ~loading /\ n \in Shown /\ IsDir(n) /\ Append(path, n) \in Folder
    /\ active = n /\ selected = {n}
    /\ SetPath(Append(path, n))

\* Up, the root, the home folder or a breadcrumb.  In an NSS-Commander the toolbar
\* is outside the pane: the editor does not cover it.
GoTo(f) == MayAct /\ ~Modal /\ f # path /\ SetPath(f)

\* A confirmed destination of a copy or move.
SyncPath(f) == MayAct /\ Exists(f) /\ SetPath(f)

Refresh ==
    /\ MayAct /\ ~Modal
    /\ Load(path, "nothing")
    /\ UNCHANGED <<remoteVars, path, selectionVars, showHidden, dialogVars, jobs, strays>>

\* The batch of an NSS-Commander has ended (nssCommanderReloadAllKey).
ReloadAll == MayAct /\ Load(path, "nothing")
    /\ UNCHANGED <<remoteVars, path, selectionVars, showHidden, dialogVars, jobs, strays>>

-----------------------------------------------------------------------------
(* Selection                                                               *)

\* A click, with Control, or with Shift over the rows between.
RowClick(n) ==
    /\ MayClick /\ ~loading /\ n \in Shown
    /\ selected' \in {{n}, IF n \in selected THEN selected \ {n} ELSE selected \cup {n}}
                  \cup (IF anchored THEN {selected \cup {n} \cup r : r \in SUBSET Shown} ELSE {})
    /\ active' = n /\ anchored' = TRUE
    /\ UNCHANGED <<remoteVars, path, listVars, showHidden, dialogVars, jobs, strays>>

ToggleHidden ==
    /\ MayClick
    /\ showHidden' = ~showHidden
    /\ IF showHidden
       THEN /\ selected' = selected \ Hidden
            /\ active' = IF active \in Hidden THEN NoName ELSE active
            /\ anchored' = FALSE
       ELSE UNCHANGED selectionVars
    /\ UNCHANGED <<remoteVars, path, listVars, dialogVars, jobs, strays>>

-----------------------------------------------------------------------------
(* Commands                                                                *)

Start(job) == \E i \in 1..MaxJobs :
    /\ jobs[i] = Idle /\ \A j \in 1..i-1 : jobs[j] # Idle
    /\ jobs' = [jobs EXCEPT ![i] = job]

Reachable == Remote => hostKey = "known"

\* LocalFilePane's commands follow a link before they delete, rename or write;
\* the server's unlink, rename and lstat do not.
\* FollowsLinks, faulty: the server's commands follow it too.
FollowsLinks(f, n) == IF n \in DOMAIN LinkTo THEN Append(f, LinkTo[n]) ELSE Append(f, n)
Resolve(f, n) == IF ~Remote /\ n \in DOMAIN LinkTo THEN Append(f, LinkTo[n]) ELSE Append(f, n)
Written(f, n) == IF n \in DOMAIN LinkTo THEN Append(f, LinkTo[n]) ELSE Append(f, n)

Denied(e) == Front(e) \in readOnly
Blocked(e) == {d \in Under(e) \cap disk : \E c \in Under(d) \cap disk : Denied(c)}

\* What a strict delete of e leaves behind when it meets one it may not remove.
StrictLeaves(e) == {left \in SUBSET (Under(e) \cap disk) :
    /\ Blocked(e) \subseteq left
    /\ \A d \in left : \A u \in Under(e) \cap disk : IsPrefix(u, d) => u \in left}

RemoveEntries(gone, chosen) ==
    /\ disk' = disk \ gone
    /\ strays' = strays \cup (gone \ chosen)

\* Strict: all or, at the first that is denied, an error.
DeleteStrict(e, chosen, ok) ==
    IF Blocked(e) = {} THEN ok /\ RemoveEntries(Under(e) \cap disk, chosen)
    ELSE ~ok /\ \E left \in StrictLeaves(e) : RemoveEntries((Under(e) \cap disk) \ left, chosen)

\* "Delete all I can": everything below that is not denied.
DeleteBestEffort(e, chosen, ok) ==
    /\ ok = (Blocked(e) = {})
    /\ RemoveEntries((Under(e) \cap disk) \ Blocked(e), chosen)

\* The owner's write bits first, then strict; the parent keeps its bits.
DeleteChmod(e, chosen, ok) ==
    /\ readOnly' = readOnly \ Under(e)
    /\ ok = (Front(e) \notin readOnly')
    /\ IF ok THEN RemoveEntries(Under(e) \cap disk, chosen)
       ELSE \E left \in SUBSET (Under(e) \cap disk) :
            /\ e \in left
            /\ \A d \in left, u \in Under(e) \cap disk : IsPrefix(u, d) => u \in left
            /\ RemoveEntries((Under(e) \cap disk) \ left, chosen)

-----------------------------------------------------------------------------
(* Dialogs                                                                 *)

\* New folder, new file, rename (of activeName); from the toolbar, the menu or
\* the request of an NSS-Commander.
OpenPrompt(kind) ==
    /\ MayClick
    /\ kind = "rename" => active # NoName
    /\ dialog' = [is |-> kind]
    /\ UNCHANGED <<remoteVars, path, listVars, selectionVars, showHidden, recovery, editor, jobs, strays>>

StartDelete ==
    /\ MayClick /\ active \in rows
    /\ dialog' = [is |-> "delete", name |-> active, step |-> 1, of |-> path]
    /\ UNCHANGED <<remoteVars, path, listVars, selectionVars, showHidden, recovery, editor, jobs, strays>>

\* F8: one name goes through the double delete, several through the bulk dialog.
NssDelete ==
    /\ MayAct /\ selected # {}
    /\ IF Cardinality(selected) > 1 THEN dialog' = [is |-> "bulk", names |-> selected, of |-> path]
       ELSE /\ selected \subseteq rows
            /\ dialog' = [is |-> "delete", name |-> CHOOSE n \in selected : TRUE, step |-> 1,
                          of |-> path]
    /\ UNCHANGED <<remoteVars, path, listVars, selectionVars, showHidden, recovery, editor, jobs, strays>>

AdvanceDelete ==
    /\ MayAnswer /\ dialog.is = "delete" /\ dialog.step = 1
    /\ dialog' = [dialog EXCEPT !.step = 2]
    /\ UNCHANGED <<remoteVars, path, listVars, selectionVars, showHidden, recovery, editor, jobs, strays>>

CancelDialog ==
    /\ MayAnswer /\ dialog # Closed
    /\ dialog' = Closed
    /\ UNCHANGED <<remoteVars, path, listVars, selectionVars, showHidden, recovery, editor, jobs, strays>>

\* The confirm handlers: the dialog closes and a command runs in the folder of the
\* render that closed it.
Confirmed(job) ==
    /\ MayAnswer
    /\ dialog' = Closed
    /\ error' = FALSE
    /\ Start(job)
    /\ UNCHANGED <<remoteVars, path, rows, fresh, loads, loading, keyDialog, selectionVars,
                   showHidden, recovery, editor, strays>>

ConfirmMkdir(n) ==
    /\ dialog.is = "mkdir" /\ IsDir(n)
    /\ Confirmed([is |-> "mkdir", at |-> path, name |-> n])

ConfirmRename(n) ==
    /\ dialog.is = "rename" /\ active # NoName /\ n # active /\ IsDir(n) = IsDir(active)
    /\ Confirmed([is |-> "rename", at |-> path, name |-> active, to |-> n])

ConfirmDelete ==
    /\ dialog.is = "delete" /\ dialog.step = 2
    /\ Confirmed([is |-> "delete", at |-> path, names |-> {dialog.name}, of |-> dialog.of])

ConfirmBulk ==
    /\ dialog.is = "bulk"
    /\ Confirmed([is |-> "bulk", at |-> path, names |-> dialog.names, of |-> dialog.of])

\* "Delete all I can" or "Make writable + retry", in the folder shown now.
ConfirmRecovery(mode) ==
    /\ MayAnswer /\ recovery # NoRecovery
    /\ recovery' = NoRecovery
    /\ error' = FALSE
    /\ Start([is |-> "recover", at |-> path, names |-> recovery.names, of |-> recovery.of,
              mode |-> mode, ok |-> TRUE])
    /\ UNCHANGED <<remoteVars, path, rows, fresh, loads, loading, keyDialog, selectionVars,
                   showHidden, dialog, editor, strays>>

CancelRecovery ==
    /\ MayAnswer /\ recovery # NoRecovery
    /\ recovery' = NoRecovery
    /\ UNCHANGED <<remoteVars, path, listVars, selectionVars, showHidden, dialog, editor, jobs, strays>>

\* "Remove and reconnect" (ssh-keygen -R) or "Accept and save"; known_hosts may not
\* be written.
ConfirmKey ==
    /\ MayAnswer /\ keyDialog # "none"
    /\ \/ /\ hostKey' = IF keyDialog = "changed" THEN "unknown" ELSE "known"
          /\ Load(path, "nothing")
       \/ keyDialog' = "none" /\ error' = TRUE /\ UNCHANGED <<hostKey, rows, fresh, loads, loading>>
    /\ UNCHANGED <<disk, readOnly, path, selectionVars, showHidden, dialogVars, jobs, strays>>

CancelKey ==
    /\ MayAnswer /\ keyDialog # "none"
    /\ keyDialog' = "none" /\ error' = TRUE
    /\ UNCHANGED <<remoteVars, path, rows, fresh, loads, loading, selectionVars, showHidden,
                   dialogVars, jobs, strays>>

-----------------------------------------------------------------------------
(* The text editor                                                         *)

OpenEditor(n) ==
    /\ MayClick /\ n \in rows
    /\ IF IsDir(n) THEN error' = TRUE /\ UNCHANGED jobs
       ELSE error' = FALSE /\ Start([is |-> "read", at |-> path, name |-> n])
    /\ UNCHANGED <<remoteVars, path, rows, fresh, loads, loading, keyDialog, selectionVars,
                   showHidden, dialogVars, strays>>

ReadDone(i) ==
    /\ jobs[i].is = "read"
    /\ \/ /\ Reachable /\ Written(jobs[i].at, jobs[i].name) \in disk
          /\ editor' = [is |-> "open", name |-> jobs[i].name, new |-> FALSE, of |-> jobs[i].at]
          /\ UNCHANGED error
       \/ error' = TRUE /\ UNCHANGED editor
    /\ jobs' = [jobs EXCEPT ![i] = Idle]
    /\ UNCHANGED <<remoteVars, path, rows, fresh, loads, loading, keyDialog, selectionVars,
                   showHidden, dialog, recovery, strays>>

ConfirmNewFile(n) ==
    /\ MayAnswer /\ dialog.is = "newFile" /\ ~IsDir(n) /\ n \notin DOMAIN LinkTo
    /\ dialog' = Closed
    /\ editor' = [is |-> "open", name |-> n, new |-> TRUE, of |-> path]
    /\ UNCHANGED <<remoteVars, path, listVars, selectionVars, showHidden, recovery, jobs, strays>>

CloseEditor ==
    /\ editor # Closed /\ MayAnswer
    /\ editor' = Closed
    /\ UNCHANGED <<remoteVars, path, listVars, selectionVars, showHidden, dialog, recovery, jobs, strays>>

\* The folder is that of the render, not the one the file was read from.
SaveEditor ==
    /\ editor # Closed /\ \A i \in 1..MaxJobs : jobs[i] = Idle \/ jobs[i].is # "save"
    /\ MayAnswer
    /\ Start([is |-> "save", at |-> path, name |-> editor.name, new |-> editor.new,
              of |-> editor.of])
    /\ UNCHANGED <<remoteVars, path, listVars, selectionVars, showHidden, dialogVars, strays>>

\* A new file must not exist, an old one is written over.
Save(f, n, new, of) ==
    IF new THEN /\ Append(f, n) \notin disk
                /\ disk' = disk \cup ({Append(f, n)} \cap Entry)
                /\ UNCHANGED strays
    ELSE /\ Written(f, n) \in disk
         /\ strays' = strays \cup ({Written(f, n)} \ {Written(of, n)})
         /\ UNCHANGED disk

SaveDone(i) ==
    /\ jobs[i].is = "save"
    /\ \/ /\ Reachable /\ Exists(jobs[i].at)
          /\ Save(jobs[i].at, jobs[i].name, jobs[i].new, jobs[i].of)
          /\ Load(jobs[i].at, "nothing")
          /\ editor' = Closed
       \/ UNCHANGED <<disk, strays, listVars, editor>>
    /\ jobs' = [jobs EXCEPT ![i] = Idle]
    /\ UNCHANGED <<readOnly, hostKey, path, selectionVars, showHidden, dialog, recovery>>

-----------------------------------------------------------------------------
(* Handlers go on                                                          *)

EndJob(i) == jobs' = [jobs EXCEPT ![i] = Idle]

\* Another error than a denied permission: no listing follows.  Where part of the
\* work was done the rows are old.
JobFails(i) ==
    /\ jobs[i].is \in {"mkdir", "rename", "delete", "bulk", "transfer", "export"}
    /\ error' = TRUE
    /\ fresh' = (fresh /\ jobs[i].is \notin {"bulk", "transfer"})
    /\ disk' \in {disk} \cup {disk \cup ({Append(jobs[i].at, jobs[i].name)} \cap Entry) :
                                j \in {i} \cap {k \in 1..MaxJobs : jobs[k].is = "transfer"}}
    /\ EndJob(i)
    /\ UNCHANGED <<readOnly, hostKey, path, rows, loads, loading, keyDialog, selectionVars, showHidden,
                   dialogVars, strays>>

\* Faulty: the new folder is not listed.
ForgetsToList(i) ==
    /\ jobs[i].is = "mkdir" /\ Reachable /\ Exists(jobs[i].at)
    /\ disk' = disk \cup ({Append(jobs[i].at, jobs[i].name)} \cap Entry)
    /\ EndJob(i)
    /\ UNCHANGED <<readOnly, hostKey, path, listVars, selectionVars, showHidden, dialogVars, strays>>

MkdirDone(i) ==
    /\ jobs[i].is = "mkdir" /\ Reachable /\ Exists(jobs[i].at)
    /\ disk' = disk \cup ({Append(jobs[i].at, jobs[i].name)} \cap Entry)
    /\ Load(jobs[i].at, "nothing")
    /\ EndJob(i)
    /\ UNCHANGED <<readOnly, hostKey, path, selectionVars, showHidden, dialogVars, strays>>

RenameDone(i) ==
    /\ jobs[i].is = "rename" /\ Reachable
    /\ LET from == Resolve(jobs[i].at, jobs[i].name)
           to == Append(jobs[i].at, jobs[i].to)
       IN /\ from \in disk /\ to \notin disk /\ to \in Entry
          /\ disk' = {e \in Entry : \/ e \in disk /\ ~IsPrefix(from, e)
                                    \/ /\ IsPrefix(to, e)
                                       /\ from \o SubSeq(e, Len(to) + 1, Len(e)) \in disk}
    /\ selected' = (selected \ {jobs[i].name}) \cup {jobs[i].to}
    /\ active' = jobs[i].to
    /\ Load(jobs[i].at, "nothing")
    /\ EndJob(i)
    /\ UNCHANGED <<readOnly, hostKey, path, anchored, showHidden, dialogVars, strays>>

\* One name of a delete or a bulk delete.
DeleteDone(i) ==
    /\ jobs[i].is \in {"delete", "bulk"} /\ Reachable
    /\ \E n \in jobs[i].names :
        LET e == Resolve(jobs[i].at, n)
            chosen == Under(Append(jobs[i].of, n))
            rest == jobs[i].names \ {n}
        IN /\ e \in disk
           /\ \/ /\ DeleteStrict(e, chosen, TRUE)
                 /\ IF rest # {}
                    THEN /\ jobs' = [jobs EXCEPT ![i].names = rest]
                         /\ UNCHANGED <<listVars, selected, active>>
                    ELSE /\ selected' = IF jobs[i].is = "bulk" THEN {} ELSE selected \ {n}
                         /\ active' = IF jobs[i].is = "bulk" \/ active = n THEN NoName ELSE active
                         /\ Load(jobs[i].at, "nothing")
                         /\ EndJob(i)
                 /\ UNCHANGED recovery
              \/ /\ DeleteStrict(e, chosen, FALSE)
                 /\ recovery' = [names |-> jobs[i].names, of |-> jobs[i].of]
                 /\ Load(jobs[i].at, "nothing")
                 /\ EndJob(i)
                 /\ UNCHANGED <<selected, active>>
    /\ UNCHANGED <<readOnly, hostKey, path, anchored, showHidden, dialog, editor>>

\* runDeleteModeAcrossNames: best effort goes through all names, the strict retry
\* and any other error end it; then the listing, and after it the message.
RecoverDone(i) ==
    /\ jobs[i].is = "recover"
    /\ \E n \in jobs[i].names :
        LET e == Resolve(jobs[i].at, n)
            chosen == Under(Append(jobs[i].of, n))
            rest == jobs[i].names \ {n}
            Ends(ok) ==
                /\ selected' = {} /\ active' = NoName
                /\ Load(jobs[i].at, IF ok THEN "nothing" ELSE "error")
                /\ EndJob(i)
        IN \/ \E ok \in BOOLEAN :
                /\ Reachable /\ e \in disk
                /\ IF jobs[i].mode = "bestEffort" THEN DeleteBestEffort(e, chosen, ok) /\ UNCHANGED readOnly
                   ELSE DeleteChmod(e, chosen, ok)
                /\ IF rest # {} /\ (ok \/ jobs[i].mode = "bestEffort")
                   THEN /\ jobs' = [jobs EXCEPT ![i].names = rest, ![i].ok = @ /\ ok]
                        /\ UNCHANGED <<listVars, selected, active>>
                   ELSE Ends(ok /\ jobs[i].ok)
           \/ /\ Ends(FALSE)
              /\ readOnly' = readOnly \/ (jobs[i].mode = "chmod" /\ readOnly' = readOnly \ (Under(e) \ {e}))
              /\ UNCHANGED <<disk, strays>>
    /\ UNCHANGED <<hostKey, path, anchored, showHidden, dialogVars>>

\* A drop, a paste or an upload into the folder.  A paste reaches the pane from
\* its dialogs too: their key events pass through it.
StartTransfer(n) ==
    /\ MayAct /\ ~IsDir(n) /\ n \notin DOMAIN LinkTo
    /\ error' = FALSE
    /\ Start([is |-> "transfer", at |-> path, name |-> n])
    /\ UNCHANGED <<remoteVars, path, rows, fresh, loads, loading, keyDialog, selectionVars,
                   showHidden, dialogVars, strays>>

TransferDone(i) ==
    /\ jobs[i].is = "transfer" /\ Reachable /\ Exists(jobs[i].at)
    /\ \/ /\ disk' = disk \cup ({Append(jobs[i].at, jobs[i].name)} \cap Entry)
          /\ Load(jobs[i].at, "nothing")
       \/ UNCHANGED <<disk, listVars>> \* nothing was chosen in the dialog
    /\ EndJob(i)
    /\ UNCHANGED <<readOnly, hostKey, path, selectionVars, showHidden, dialogVars, strays>>

\* Export of rows to a local folder: nothing changes here.
StartExport ==
    /\ MayAct /\ selected # {} /\ \A i \in 1..MaxJobs : jobs[i] = Idle \/ jobs[i].is # "export"
    /\ error' = FALSE
    /\ Start([is |-> "export", at |-> path])
    /\ UNCHANGED <<remoteVars, path, rows, fresh, loads, loading, keyDialog, selectionVars,
                   showHidden, dialogVars, strays>>

ExportDone(i) ==
    /\ jobs[i].is = "export" /\ Reachable
    /\ EndJob(i)
    /\ UNCHANGED <<remoteVars, path, listVars, selectionVars, showHidden, dialogVars, strays>>

-----------------------------------------------------------------------------
FilePaneInit ==
    /\ disk = InitialDisk /\ readOnly = InitialReadOnly
    /\ hostKey \in IF Remote THEN {"known", "unknown", "changed"} ELSE {"known"}
    /\ path = <<>> /\ rows = {} /\ fresh = FALSE
    /\ loads = [i \in 1..MaxLoads |->
        IF i = 1 THEN [is |-> "load", at |-> <<>>, listed |-> Unlisted, after |-> "nothing"] ELSE Idle]
    /\ loading = TRUE /\ error = FALSE /\ keyDialog = "none"
    /\ selected = {} /\ active = NoName /\ anchored = FALSE /\ showHidden = FALSE
    /\ dialog = Closed /\ recovery = NoRecovery /\ editor = Closed
    /\ jobs = [i \in 1..MaxJobs |-> Idle]
    /\ strays = {}

PaneClick ==
    \/ Refresh
    \/ ReloadAll
    \/ ToggleHidden
    \/ StartDelete
    \/ NssDelete
    \/ StartExport
    \/ SaveEditor
    \/ CloseEditor
    \/ \E f \in Folder : GoTo(f) \/ SyncPath(f)
    \/ \E n \in Name : OpenDir(n) \/ RowClick(n) \/ OpenEditor(n) \/ StartTransfer(n)
    \/ \E k \in {"mkdir", "newFile", "rename"} : OpenPrompt(k)

PaneDialog ==
    \/ AdvanceDelete
    \/ CancelDialog
    \/ ConfirmDelete
    \/ ConfirmBulk
    \/ CancelRecovery
    \/ ConfirmKey
    \/ CancelKey
    \/ \E n \in Name : ConfirmMkdir(n) \/ ConfirmRename(n) \/ ConfirmNewFile(n)
    \/ \E m \in {"bestEffort", "chmod"} : ConfirmRecovery(m)

PaneAnswer ==
    \/ \E i \in 1..MaxLoads : ListDir(i) \/ ListAnswer(i) \/ ListFails(i)
    \/ \E i \in 1..MaxJobs :
        \/ ReadDone(i)
        \/ SaveDone(i)
        \/ JobFails(i)
        \/ MkdirDone(i)
        \/ RenameDone(i)
        \/ DeleteDone(i)
        \/ RecoverDone(i)
        \/ TransferDone(i)
        \/ ExportDone(i)

FilePaneNext == PaneClick \/ PaneDialog \/ PaneAnswer

FilePaneSpec == FilePaneInit /\ [][FilePaneNext]_filePaneVars

-----------------------------------------------------------------------------
(* Properties                                                              *)

\* Every variable keeps values of its kind.
FilePaneTypeOK ==
    /\ disk \subseteq Entry /\ strays \subseteq Entry
    /\ readOnly \subseteq Entry \cup {<<>>}
    /\ hostKey \in {"known", "unknown", "changed"}
    /\ keyDialog \in {"none", "unknown", "changed"}
    /\ path \in Folder
    /\ rows \subseteq Name /\ selected \subseteq Name /\ recovery.names \subseteq Name
    /\ active \in Name \cup {NoName}
    /\ {fresh, loading, error, anchored, showHidden} \subseteq BOOLEAN
    /\ DOMAIN loads = 1..MaxLoads /\ DOMAIN jobs = 1..MaxJobs

\* What a pane deletes or writes over is what its user chose: the entries selected
\* when the deletion was asked for, with what is in them, and the files opened in
\* the editor.
ActsOnTheChosen == strays = {}

\* When nothing is under way and no error is shown, the rows are the entries of
\* the folder, unless something failed half-way since they were listed.
ShowsItsFolder == Quiet /\ ~error /\ keyDialog = "none" /\ fresh => rows = Listing(path)

=============================================================================
