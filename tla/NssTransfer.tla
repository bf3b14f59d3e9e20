----------------------------- MODULE NssTransfer -----------------------------
(***************************************************************************)
(* The copy and move of an NSS-Commander (runCommanderPaneFileTransfer in  *)
(* App.tsx, file-pane-transfer.ts) between its two panes, the dialogs that *)
(* ask, pause and cancel, and the backend's monitored transfers (sftp.rs,  *)
(* sftp_transfer_ops.rs).  The handler goes on after each await; it reads  *)
(* the folders of the panes anew every time.                               *)
(*                                                                         *)
(* An entry has parts: a file is its own only part ".", a directory is "." *)
(* and the files in it.  A part on the disk is worth the folder its bytes  *)
(* come from, or "half".                                                   *)
(***************************************************************************)
EXTENDS Naturals, Sequences, FiniteSets

CONSTANTS
    Item,        \* names of entries
    Inside,      \* Inside[d]: the files in directory d
    FromFolders, \* folders the source pane can show
    ToFolders,   \* folders the destination pane can show
    Original,    \* the entries on the disk at first, as <<folder, name>>
    Kinds,       \* "local", "upload" or "download"
    Batches,
    Attentive,   \* while a batch runs the user only answers it, no question twice, and the
                 \* list of hosts stays
    MaxCalls     \* bound on commands under way

NoBatch == 0

ASSUME NssTransferAssumption ==
    /\ DOMAIN Inside \subseteq Item
    /\ \A d \in DOMAIN Inside : "." \notin Inside[d]
    /\ Original \subseteq (FromFolders \cup ToFolders) \X Item
    /\ {"none", "half"} \cap (FromFolders \cup ToFolders) = {} /\ NoBatch \notin Batches
    /\ Kinds \subseteq {"local", "upload", "download"}
    /\ Attentive \in BOOLEAN /\ MaxCalls \in Nat \ {0}

VARIABLES
    kind,          \* views of the two panes
    content,       \* content[f][n][p]: what folder f has of part p of entry n
    folderOf,      \* localFilePanePathsRef, remoteFilePanePathsRef
    asking,        \* nssXferDialog: "none", "pre" or "overwrite"
    resolver,      \* preXferResolveRef and owXferResolveRef: a batch or NoBatch
    opening,       \* destinations confirmed and being listed
    overlay,       \* nssCommanderXferUi
    userCancelled, \* nssXferUserCancelledRef
    handles,       \* ACTIVE: flags by transfer id
    calls,         \* cancel and pause commands under way
    handler,       \* the handler of each batch
    givenUp        \* history: parts the user agreed to replace

transferVars == <<kind, content, folderOf, asking, resolver, opening, overlay, userCancelled,
                  handles, calls, handler, givenUp>>
windowVars == <<folderOf, asking, resolver, opening, overlay>>

Folders == FromFolders \cup ToFolders
IsTree(n) == n \in DOMAIN Inside
Parts(n) == IF IsTree(n) THEN {"."} \cup Inside[n] ELSE {"."}
NoOverlay == [id |-> <<>>, paused |-> FALSE]
Here(f, n) == content[f][n]["."] # "none"
Nothing(n) == [p \in Parts(n) |-> "none"]

Ended(b) == handler[b].pc \in {"idle", "ended"}
Id(b) == <<b, handler[b].item>>
Registered(id) == id \in DOMAIN handles
MayStart == Attentive => \A b \in Batches : Ended(b)
Uncovered == asking = "none" /\ overlay = NoOverlay

At(b, pc) == handler[b].pc = pc
Go(b, pc) == handler' = [handler EXCEPT ![b].pc = pc]

-----------------------------------------------------------------------------
(* The question before                                                     *)

Navigate(side, f) ==
    /\ MayStart /\ Uncovered
    /\ f \in (IF side = "from" THEN FromFolders ELSE ToFolders) \ {folderOf[side]}
    /\ folderOf' = [folderOf EXCEPT ![side] = f]
    /\ UNCHANGED <<kind, content, asking, resolver, opening, overlay, userCancelled, handles,
                   calls, handler, givenUp>>

\* remoteSshSpecForPane as of the render: nothing when the host of the destination's
\* session is not listed.
Specs == IF kind = "upload" THEN BOOLEAN ELSE {TRUE}

\* F5 or F6 in the source pane.  The promise of a batch that still waits for its
\* answer is lost with its resolver.
StartBatch(b, names, move) ==
    /\ MayStart /\ Uncovered
    /\ At(b, "idle") /\ names # {} /\ \A n \in names : Here(folderOf["from"], n)
    /\ \E spec \in Specs :
        /\ Attentive /\ opening # <<>> => spec
        /\ handler' = [handler EXCEPT ![b].pc = "confirm", ![b].rest = names, ![b].move = move,
                                  ![b].spec = spec]
    /\ asking' = "pre"
    /\ resolver' = [resolver EXCEPT !["pre"] = b]
    /\ UNCHANGED <<kind, content, folderOf, opening, overlay, userCancelled, handles, calls, givenUp>>

\* The dialog offers the folder of the destination pane and takes another, when the
\* host of that pane is listed by now.
ConfirmPre(f) ==
    /\ asking = "pre" /\ f \in ToFolders
    /\ Attentive => \A b \in Batches : Ended(b) \/ handler[b].spec
    /\ Len(opening) < MaxCalls /\ (Attentive => opening = <<>>)
    /\ opening' = Append(opening, f)
    /\ UNCHANGED <<kind, content, folderOf, asking, resolver, overlay, userCancelled, handles,
                   calls, handler, givenUp>>

\* It could be listed: the pane goes there, and whoever waits by now goes on.
DestinationOpens ==
    /\ opening # <<>>
    /\ opening' = Tail(opening)
    /\ folderOf' = [folderOf EXCEPT !["to"] = Head(opening)]
    /\ asking' = "none"
    /\ resolver' = [resolver EXCEPT !["pre"] = NoBatch]
    /\ IF resolver["pre"] # NoBatch THEN Go(resolver["pre"], "listing") ELSE UNCHANGED handler
    /\ UNCHANGED <<kind, content, overlay, userCancelled, handles, calls, givenUp>>

\* "Could not open that destination folder."
DestinationFails ==
    /\ opening # <<>>
    /\ opening' = Tail(opening)
    /\ UNCHANGED <<kind, content, folderOf, asking, resolver, overlay, userCancelled, handles,
                   calls, handler, givenUp>>

CancelPre ==
    /\ asking = "pre"
    /\ asking' = "none"
    /\ resolver' = [resolver EXCEPT !["pre"] = NoBatch]
    /\ IF resolver["pre"] # NoBatch THEN Go(resolver["pre"], "ended") ELSE UNCHANGED handler
    /\ UNCHANGED <<kind, content, folderOf, opening, overlay, userCancelled, handles, calls, givenUp>>

-----------------------------------------------------------------------------
(* The loop over the names                                                 *)

\* loadDestExistingNames, and the early return when it fails; no names without a spec.
ListDestination(b) ==
    /\ At(b, "listing")
    /\ \/ handler' = [handler EXCEPT ![b].pc = "prefetch", ![b].existing =
                         {n \in Item : handler[b].spec /\ Here(folderOf["to"], n)}]
       \/ handler[b].spec /\ Go(b, "ended")
    /\ UNCHANGED <<kind, content, windowVars, userCancelled, handles, calls, givenUp>>

\* prefetchListing has returned: a new batch is not cancelled.
Prefetched(b) ==
    /\ At(b, "prefetch")
    /\ userCancelled' = FALSE
    /\ Go(b, "loop")
    /\ UNCHANGED <<kind, content, windowVars, handles, calls, givenUp>>

NextItem(b) ==
    /\ At(b, "loop")
    /\ IF handler[b].rest = {} \/ userCancelled
       THEN Go(b, "moved")
       ELSE \E n \in handler[b].rest :
            handler' = [handler EXCEPT ![b].pc = "begin", ![b].item = n, ![b].rest = @ \ {n}]
    /\ UNCHANGED <<kind, content, windowVars, userCancelled, handles, calls, givenUp>>

Register(id) ==
    handles' = [j \in DOMAIN handles \cup {id} |->
                    IF j \in DOMAIN handles THEN handles[j] ELSE [cancel |-> FALSE, pause |-> FALSE]]

\* nssXferBeginTransfer has returned: the overlay shows the item, and if the
\* destination had one of its name when it was listed, the user is asked.
BeginItem(b) ==
    /\ At(b, "begin")
    /\ Register(Id(b))
    /\ overlay' = [id |-> Id(b), paused |-> FALSE]
    /\ IF handler[b].item \in handler[b].existing /\ ~handler[b].all
       THEN /\ asking' = "overwrite"
            /\ resolver' = [resolver EXCEPT !["overwrite"] = b]
            /\ Go(b, "ask")
       ELSE Go(b, "start") /\ UNCHANGED <<asking, resolver>>
    /\ UNCHANGED <<kind, content, folderOf, opening, userCancelled, calls, givenUp>>

\* History: nobody agrees to replace an entry by itself.
Agreed(names) ==
    IF folderOf["from"] = folderOf["to"] /\ kind = "local" THEN {}
    ELSE UNION {{<<content[folderOf["to"]][n][p], n, p>> : p \in Parts(n)} : n \in names}

AfterChoice(choice) ==
    CASE choice = "cancel" -> [pc |-> "release", next |-> "ended"]
      [] choice = "skip" -> [pc |-> "release", next |-> "loop"]
      [] OTHER -> [pc |-> "start", next |-> "loop"]

AnswerConflict(choice) ==
    LET b == resolver["overwrite"] IN
    /\ asking = "overwrite" /\ b # NoBatch
    /\ asking' = "none"
    /\ resolver' = [resolver EXCEPT !["overwrite"] = NoBatch]
    /\ handler' = [handler EXCEPT ![b].pc = AfterChoice(choice).pc,
                              ![b].next = AfterChoice(choice).next,
                              ![b].all = @ \/ choice = "all"]
    /\ givenUp' = givenUp \cup
         CASE choice = "replace" -> Agreed({handler[b].item})
           [] choice = "all" -> Agreed(handler[b].existing)
           [] OTHER -> {}
    /\ UNCHANGED <<kind, content, folderOf, opening, overlay, userCancelled, handles, calls>>

Fail(b) == handler' = [handler EXCEPT ![b].pc = "release", ![b].next = "moved"]

CountsAsDone(b) == handler' = [handler EXCEPT ![b].pc = "release", ![b].next = "loop",
                                  ![b].done = @ \cup {handler[b].item}]

\* transferOne reads both folders, runFilePaneTransfer looks at the cancel flag.  Without
\* a spec nothing is copied, and the item counts as transferred.
StartItem(b) ==
    /\ At(b, "start")
    /\ CASE ~handler[b].spec -> CountsAsDone(b)
         [] handler[b].spec /\ userCancelled -> Fail(b)
         [] OTHER -> handler' = [handler EXCEPT ![b].pc = "look", ![b].from = folderOf["from"],
                                            ![b].to = folderOf["to"]]
    /\ UNCHANGED <<kind, content, windowVars, userCancelled, handles, calls, givenUp>>

\* localEntryIsDir or remoteEntryIsDir has answered.
LookAtSource(b) ==
    /\ At(b, "look")
    /\ LET n == handler[b].item IN
       CASE userCancelled -> Fail(b)
         [] ~userCancelled /\ IsTree(n) /\ Here(handler[b].from, n) ->
              Go(b, IF n \in handler[b].existing THEN "remove" ELSE "mkdir")
         [] OTHER -> handler' = [handler EXCEPT ![b].pc = "copy", ![b].todo = {"."}]
    /\ UNCHANGED <<kind, content, windowVars, userCancelled, handles, calls, givenUp>>

\* removeTransferDestinationEntry; the delete is strict and may stop half-way.
RemoveDestination(b) ==
    LET n == handler[b].item
        f == handler[b].to
    IN /\ At(b, "remove")
       /\ \/ Here(f, n) /\ content' = [content EXCEPT ![f][n] = Nothing(n)] /\ Go(b, "mkdir")
          \/ /\ Fail(b)
             /\ \E gone \in SUBSET (Parts(n) \ {"."}) :
                content' = [content EXCEPT ![f][n] = [p \in Parts(n) |-> IF p \in gone THEN "none" ELSE @[p]]]
       /\ UNCHANGED <<kind, windowVars, userCancelled, handles, calls, givenUp>>

\* createLocalDir or sftpCreateDir: a directory that is there already will do.
MakeDirectory(b) ==
    LET n == handler[b].item
        f == handler[b].to
    IN /\ At(b, "mkdir")
       /\ \/ /\ ~userCancelled
             /\ content' = IF Here(f, n) THEN content
                           ELSE [content EXCEPT ![f][n]["."] = handler[b].from]
             /\ Go(b, "list")
          \/ Fail(b) /\ UNCHANGED content
       /\ UNCHANGED <<kind, windowVars, userCancelled, handles, calls, givenUp>>

ListSource(b) ==
    LET n == handler[b].item IN
    /\ At(b, "list")
    /\ \/ /\ ~userCancelled
          /\ handler' = [handler EXCEPT ![b].pc = "copy",
               ![b].todo = {p \in Parts(n) \ {"."} : content[handler[b].from][n][p] # "none"}]
       \/ Fail(b)
    /\ UNCHANGED <<kind, content, windowVars, userCancelled, handles, calls, givenUp>>

\* copy_local_file removes the destination whenever it fails, also before it has written
\* to it; only what it refuses at once (a missing source, the same file) stays.
Unopened(b) ==
    {p \in handler[b].todo : /\ kind = "local" /\ handler[b].from # handler[b].to
                             /\ content[handler[b].from][handler[b].item][p] # "none"}

NotOpened(b) ==
    /\ Fail(b)
    /\ \/ UNCHANGED content
       \/ \E p \in Unopened(b) :
            content' = [content EXCEPT ![handler[b].to][handler[b].item][p] = "none"]
    /\ UNCHANGED handles

\* The next file: the backend opens the source and creates the destination, over
\* one that is there.  A local copy of a file onto itself is refused.
OpenFile(b) ==
    LET n == handler[b].item
        f == handler[b].to
    IN /\ At(b, "copy") /\ handler[b].todo # {}
       /\ \/ \E p \in handler[b].todo :
             /\ ~userCancelled
             /\ content[handler[b].from][n][p] # "none"
             /\ ~(kind = "local" /\ handler[b].from = f)
             /\ content' = [content EXCEPT ![f][n][p] = "half"]
             /\ Register(Id(b))
             /\ handler' = [handler EXCEPT ![b].pc = "bytes", ![b].part = p]
          \/ NotOpened(b)
       /\ UNCHANGED <<kind, windowVars, userCancelled, calls, givenUp>>

\* Faulty: the loop that waits for the end of a pause does not look at the cancel flag.
WaitsForResume(id) == Registered(id) /\ handles[id].pause

\* xfer_wait_unpause_or_cancel goes on waiting.
Paused(id) == Registered(id) /\ handles[id].pause /\ ~handles[id].cancel
Stopped(id) == ~Registered(id) \/ handles[id].cancel

\* The bytes have been copied.
CopyBytes(b) ==
    LET n == handler[b].item
        p == handler[b].part
    IN /\ At(b, "bytes") /\ ~Paused(Id(b)) /\ ~Stopped(Id(b))
       /\ content' = [content EXCEPT ![handler[b].to][n][p] = content[handler[b].from][n][p]]
       /\ handler' = [handler EXCEPT ![b].pc = "copy", ![b].todo = @ \ {p}]
       /\ UNCHANGED <<kind, windowVars, userCancelled, handles, calls, givenUp>>

\* Cancelled, or an error: what was written is removed, except on a server.
CopyStops(b) ==
    /\ At(b, "bytes") /\ ~Paused(Id(b))
    /\ content' = IF kind = "upload" THEN content
                  ELSE [content EXCEPT ![handler[b].to][handler[b].item][handler[b].part] = "none"]
    /\ Fail(b)
    /\ UNCHANGED <<kind, windowVars, userCancelled, handles, calls, givenUp>>

\* Faulty: an item counts as transferred whatever became of it.
FailedCounts(b) ==
    /\ At(b, "copy")
    /\ CountsAsDone(b)
    /\ UNCHANGED <<kind, content, windowVars, userCancelled, handles, calls, givenUp>>

ItemDone(b) ==
    /\ At(b, "copy") /\ handler[b].todo = {}
    /\ CountsAsDone(b)
    /\ UNCHANGED <<kind, content, windowVars, userCancelled, handles, calls, givenUp>>

\* The finally of an item: nssXferReleaseTransfer.
ReleaseItem(b) ==
    /\ At(b, "release")
    /\ handles' = [j \in DOMAIN handles \ {Id(b)} |-> handles[j]]
    /\ overlay' = IF handler[b].next = "ended" THEN NoOverlay ELSE overlay
    /\ Go(b, handler[b].next)
    /\ UNCHANGED <<kind, content, folderOf, asking, resolver, opening, userCancelled, calls, givenUp>>

\* After the last item, or the one that failed: a move deletes what has arrived,
\* in the folder the source pane shows now.
StartDeleting(b) ==
    /\ At(b, "moved")
    /\ IF handler[b].move
       THEN handler' = [handler EXCEPT ![b].pc = "delete", ![b].from = folderOf["from"]]
            /\ UNCHANGED overlay
       ELSE Go(b, "ended") /\ overlay' = NoOverlay
    /\ UNCHANGED <<kind, content, folderOf, asking, resolver, opening, userCancelled, handles,
                   calls, givenUp>>

DeleteMoved(b) ==
    /\ At(b, "delete") /\ handler[b].done # {}
    /\ \E n \in handler[b].done :
        \/ /\ Here(handler[b].from, n)
           /\ content' = [content EXCEPT ![handler[b].from][n] = Nothing(n)]
           /\ handler' = [handler EXCEPT ![b].done = @ \ {n}]
           /\ UNCHANGED overlay
        \/ /\ Go(b, "ended") /\ overlay' = NoOverlay
           /\ \E gone \in SUBSET (Parts(n) \ {"."}) : content' =
                [content EXCEPT ![handler[b].from][n] = [p \in Parts(n) |-> IF p \in gone THEN "none" ELSE @[p]]]
    /\ UNCHANGED <<kind, folderOf, asking, resolver, opening, userCancelled, handles, calls, givenUp>>

EndMove(b) ==
    /\ At(b, "delete") /\ handler[b].done = {}
    /\ Go(b, "ended") /\ overlay' = NoOverlay
    /\ UNCHANGED <<kind, content, folderOf, asking, resolver, opening, userCancelled, handles,
                   calls, givenUp>>

-----------------------------------------------------------------------------
(* Pause and cancel                                                        *)

Call(order) == Len(calls) < MaxCalls /\ calls' = Append(calls, order)

TogglePause ==
    /\ overlay # NoOverlay
    /\ Call([is |-> "pause", id |-> overlay.id, on |-> ~overlay.paused])
    /\ overlay' = [overlay EXCEPT !.paused = ~@]
    /\ UNCHANGED <<kind, content, folderOf, asking, resolver, opening, userCancelled, handles,
                   handler, givenUp>>

\* F4 or the button; with Escape the listener of the window may come first and
\* closes the overlay as well (dismissPrimaryOverlay).
CancelBatch(closes) ==
    /\ overlay # NoOverlay
    /\ userCancelled' = TRUE
    /\ Call([is |-> "cancel", id |-> overlay.id, on |-> TRUE])
    /\ overlay' = IF closes THEN NoOverlay ELSE overlay
    /\ UNCHANGED <<kind, content, folderOf, asking, resolver, opening, handles, handler, givenUp>>

\* nss_xfer_cancel and nss_xfer_set_paused: without effect on a released id.
DeliverCall ==
    /\ calls # <<>>
    /\ LET c == Head(calls) IN
       handles' = IF ~Registered(c.id) THEN handles
                  ELSE IF c.is = "cancel" THEN [handles EXCEPT ![c.id].cancel = TRUE]
                  ELSE [handles EXCEPT ![c.id].pause = c.on]
    /\ calls' = Tail(calls)
    /\ UNCHANGED <<kind, content, windowVars, userCancelled, handler, givenUp>>

-----------------------------------------------------------------------------
NewHandler ==
    [pc |-> "idle", next |-> "loop", move |-> FALSE, rest |-> {}, item |-> "", existing |-> {},
     all |-> FALSE, spec |-> TRUE, from |-> "", to |-> "", todo |-> {}, part |-> ".", done |-> {}]

TransferInit ==
    /\ kind \in Kinds
    /\ content = [f \in Folders |-> [n \in Item |->
                    IF <<f, n>> \in Original THEN [p \in Parts(n) |-> f] ELSE Nothing(n)]]
    /\ folderOf \in {[s \in {"from", "to"} |-> IF s = "from" THEN f ELSE g] :
                        f \in FromFolders, g \in ToFolders}
    /\ asking = "none"
    /\ resolver = [d \in {"pre", "overwrite"} |-> NoBatch]
    /\ opening = <<>> /\ overlay = NoOverlay /\ userCancelled = FALSE
    /\ handles = <<>> /\ calls = <<>>
    /\ handler = [b \in Batches |-> NewHandler]
    /\ givenUp = {}

WindowStep ==
    \/ DestinationOpens
    \/ DestinationFails
    \/ CancelPre
    \/ TogglePause
    \/ DeliverCall
    \/ \E f \in Folders : Navigate("from", f) \/ Navigate("to", f) \/ ConfirmPre(f)
    \/ \E b \in Batches, names \in SUBSET Item, move \in BOOLEAN : StartBatch(b, names, move)
    \/ \E c \in {"replace", "skip", "all", "cancel"} : AnswerConflict(c)
    \/ \E closes \in BOOLEAN : CancelBatch(closes)

BatchStep(b) ==
    \/ ListDestination(b)
    \/ Prefetched(b)
    \/ NextItem(b)
    \/ BeginItem(b)
    \/ StartItem(b)
    \/ LookAtSource(b)
    \/ RemoveDestination(b)
    \/ MakeDirectory(b)
    \/ ListSource(b)
    \/ OpenFile(b)
    \/ CopyBytes(b)
    \/ CopyStops(b)
    \/ ItemDone(b)
    \/ ReleaseItem(b)
    \/ StartDeleting(b)
    \/ DeleteMoved(b)
    \/ EndMove(b)

TransferNext == WindowStep \/ \E b \in Batches : BatchStep(b)

\* The promises of the handlers and the commands of the backend are served; nobody
\* has to answer a question or to end a pause.
TransferFair == WF_transferVars(DeliverCall) /\ \A b \in Batches : WF_transferVars(BatchStep(b))

TransferSpec == TransferInit /\ [][TransferNext]_transferVars /\ TransferFair

-----------------------------------------------------------------------------
(* Properties                                                              *)

\* Every variable keeps values of its kind; an id is registered only while its
\* item is under way.
TransferTypeOK ==
    /\ kind \in Kinds
    /\ \A f \in Folders, n \in Item :
        /\ DOMAIN content[f][n] = Parts(n)
        /\ \A p \in Parts(n) : content[f][n][p] \in Folders \cup {"none", "half"}
    /\ folderOf["from"] \in FromFolders /\ folderOf["to"] \in ToFolders
    /\ asking \in {"none", "pre", "overwrite"}
    /\ DOMAIN handles \subseteq
        {Id(b) : b \in {c \in Batches : handler[c].pc \in
            {"ask", "start", "look", "remove", "mkdir", "list", "copy", "bytes", "release"}}}
    /\ \A b \in Batches : handler[b].rest \subseteq Item /\ handler[b].done \subseteq Item

\* What the disk had at first is still somewhere, whole, unless the user agreed to
\* replace it: a cancelled, failed or repeated copy or move deletes no source whose
\* copy has not arrived and writes over nothing unasked.
NothingLost == \A o \in Original : \A p \in Parts(o[2]) :
    \/ \E f \in Folders : content[f][o[2]][p] = o[1]
    \/ <<o[1], o[2], p>> \in givenUp

\* A batch cancelled after it began ends, paused or not, unless it waits for an
\* answer: a new batch takes back the cancelling of the last one only.
CancelEnds == \A b \in Batches :
    userCancelled /\ ~Ended(b) /\ handler[b].pc \notin {"confirm", "listing", "prefetch"}
        ~> Ended(b) \/ handler[b].pc = "ask"

=============================================================================
