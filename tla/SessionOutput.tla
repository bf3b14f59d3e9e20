---------------------------- MODULE SessionOutput ----------------------------
(***************************************************************************)
(* The output of sessions: the reader thread of a PTY (session.rs), the    *)
(* events of the backend and their dispatch (session-output-bridge.ts),    *)
(* the per-frame batch of a terminal and the scrollback that outlives it   *)
(* (terminal-output-batch.ts, terminal-scrollback-buffer.ts,               *)
(* TerminalPane.tsx), and the questions about unknown host keys            *)
(* (useSessionOutputTrustListener.ts, App.tsx).                            *)
(*                                                                         *)
(* What a child prints is numbered.  A number in Asks is the second half   *)
(* of a host-key question, the number before it the first half.            *)
(***************************************************************************)
EXTENDS Naturals, Sequences, FiniteSets

CONSTANTS
    Sessions,
    Saved,         \* sessions of a saved host (sshSaved)
    Quick,         \* sessions of a quick connect (sshQuick)
    HostOf,        \* HostOf[s]: the alias of a saved session's host
    Terminal,      \* terminals; a duplicated pane shows its source in a second one
    SessionOf,         \* SessionOf[t]: the session that terminal t shows
    Asks,
    AutoTrust,     \* the setting quickConnectAutoTrust
    MaxRead,       \* the buffer of a read, in numbers
    MaxScrollback, \* MAX_TERMINAL_SCROLLBACK_CHARS
    MaxConfirms,   \* bound on confirmations of a session under way; with 1 the user waits
    MaxPrinted     \* bound on what a child prints

ASSUME OutputAssumption ==
    /\ Saved \subseteq Sessions /\ Quick \subseteq Sessions
    /\ DOMAIN HostOf = Saved /\ SessionOf \in [Terminal -> Sessions]
    /\ MaxRead \in Nat \ {0} /\ MaxScrollback \in Nat /\ MaxPrinted \in Nat
    /\ AutoTrust \in BOOLEAN /\ MaxConfirms \in Nat

VARIABLES
    printed,    \* how much each child has printed
    taken,      \* how much of it was read
    reader,     \* the reader thread: "none", "reads" or "ended"
    events,     \* events on their way to the webview, per session
    tabs,       \* the sessions of the window (state)
    tabsRef,    \* sessionsRef, in step with tabs once the effects have run
    mounted,    \* terminals on the screen
    batch,      \* per terminal, numbers that wait for the next frame
    screen,     \* per terminal, what was written to it since it was mounted
    scrollback, \* what the module keeps of a session
    queue,      \* trustPromptQueue: the sessions that ask, each with those ahead of it
    accepting,  \* calls of acceptTrustPrompt under way, by session: how many save or send
    trusted,    \* hosts with trustHostDefault
    trustedRef, \* the same in metadataStoreRef
    asked,      \* history: questions that reached the listener
    answers,    \* history: times that "yes" was sent
    arrived,    \* history: per terminal, numbers that reached it since it was mounted
    seen,       \* history: numbers that reached a mounted terminal of the session
    doubled     \* history: sessions that two terminals have shown at once

outputVars == <<printed, taken, reader, events, tabs, tabsRef, mounted, batch, screen,
                scrollback, queue, accepting, trusted, trustedRef, asked, answers, arrived, seen,
                doubled>>
backend == <<printed, taken, reader>>
terminals == <<mounted, batch, screen, scrollback, arrived, seen, doubled>>
trust == <<queue, accepting, trusted, trustedRef, asked, answers>>

Hosts == {HostOf[s] : s \in Saved}
Event == [first : 1..MaxPrinted, last : 1..MaxPrinted, ask : BOOLEAN]

Numbers(a, b) == [i \in 1..(b + 1 - a) |-> a + i - 1]
LastOf(seq, n) == IF Len(seq) <= n THEN seq ELSE SubSeq(seq, Len(seq) - n + 1, Len(seq))

Listed(s) == s \in DOMAIN queue
Queued(s) == [t \in DOMAIN queue \cup {s} |-> IF t = s THEN DOMAIN queue ELSE queue[t]]
OpenOnly(open) == [t \in DOMAIN queue \cap open |-> queue[t] \cap open]
Dismissed(s) == OpenOnly(Sessions \ {s})

-----------------------------------------------------------------------------
(* Backend                                                                 *)

SpawnReader(s) ==
    /\ reader[s] = "none"
    /\ reader' = [reader EXCEPT ![s] = "reads"]
    /\ UNCHANGED <<printed, taken, events, tabs, tabsRef, terminals, trust>>

ChildPrints(s) ==
    /\ reader[s] = "reads" /\ printed[s] < MaxPrinted
    /\ printed' = [printed EXCEPT ![s] = @ + 1]
    /\ UNCHANGED <<taken, reader, events, tabs, tabsRef, terminals, trust>>

\* The question is looked for in one chunk at a time.
Chunk(a, b) == [first |-> a, last |-> b, ask |-> \E n \in Asks : a < n /\ n <= b]

\* One read, converted and sent at once, so that nothing is pending when the
\* thread reads again.  Bytes that are no text grow when they are converted: the
\* chunk may then exceed COALESCE_MAX_BYTES and goes in two, or the cut is inside
\* a character and the thread panics.
ReadAndEmit(s) ==
    /\ reader[s] = "reads"
    /\ \E b \in taken[s] + 1 .. printed[s] :
        /\ b <= taken[s] + MaxRead
        /\ taken' = [taken EXCEPT ![s] = b]
        /\ \/ /\ events' = [events EXCEPT ![s] = Append(@, Chunk(taken[s] + 1, b))]
              /\ UNCHANGED reader
           \/ /\ \E cut \in taken[s] + 1 .. b - 1 :
                   events' = [events EXCEPT ![s] =
                                @ \o <<Chunk(taken[s] + 1, cut), Chunk(cut + 1, b)>>]
              /\ UNCHANGED reader
           \/ /\ b > taken[s] + 1
              /\ reader' = [reader EXCEPT ![s] = "ended"]
              /\ UNCHANGED events
    /\ UNCHANGED <<printed, tabs, tabsRef, terminals, trust>>

\* End of file or an error, once the child has exited or was killed.
ReaderEnds(s) ==
    /\ reader[s] = "reads"
    /\ reader' = [reader EXCEPT ![s] = "ended"]
    /\ UNCHANGED <<printed, taken, events, tabs, tabsRef, terminals, trust>>

-----------------------------------------------------------------------------
(* Dispatch                                                                *)

\* "yes" without asking.  A session that has ended refuses it.
AnswersItself(s) ==
    /\ answers' = [answers EXCEPT ![s] = @ + 1]
    /\ UNCHANGED queue

TrustsWithoutAsking(s) ==
    /\ s \in tabsRef
    /\ \/ s \in Quick /\ AutoTrust
       \/ s \in Saved /\ HostOf[s] \in trustedRef

HandleHostKeyPrompt(s) ==
    /\ asked' = [asked EXCEPT ![s] = @ + 1]
    /\ IF TrustsWithoutAsking(s)
       THEN AnswersItself(s)
       ELSE /\ queue' = IF Listed(s) THEN queue ELSE Queued(s)
            /\ UNCHANGED answers

\* The mounted terminals that show a session: its subscribers.
Showing(s) == {t \in mounted : SessionOf[t] = s}

\* Every subscriber takes the chunk; without one it is dropped.
Enqueue(s, e) ==
    LET numbers == Numbers(e.first, e.last)
        Taken(q) == [t \in Terminal |-> IF t \in Showing(s) THEN q[t] \o numbers ELSE q[t]]
    IN /\ batch' = Taken(batch)
       /\ arrived' = Taken(arrived)
       /\ seen' = IF Showing(s) = {} THEN seen ELSE [seen EXCEPT ![s] = @ \o numbers]

DispatchOutput(s) ==
    /\ events[s] # <<>>
    /\ LET e == Head(events[s]) IN
        /\ IF e.ask THEN HandleHostKeyPrompt(s) ELSE UNCHANGED <<queue, asked, answers>>
        /\ Enqueue(s, e)
    /\ events' = [events EXCEPT ![s] = Tail(@)]
    /\ UNCHANGED <<backend, tabs, tabsRef, mounted, screen, scrollback, doubled, accepting,
                   trusted, trustedRef>>

-----------------------------------------------------------------------------
(* Terminals                                                               *)

Flushed(t) == scrollback[SessionOf[t]] \o batch[t]

\* What the terminals of a session write goes into one scrollback.
Flush(t) ==
    /\ batch' = [batch EXCEPT ![t] = <<>>]
    /\ scrollback' = [scrollback EXCEPT ![SessionOf[t]] = LastOf(Flushed(t), MaxScrollback)]

Frame(t) ==
    /\ t \in mounted /\ batch[t] # <<>>
    /\ screen' = [screen EXCEPT ![t] = @ \o batch[t]]
    /\ Flush(t)
    /\ UNCHANGED <<backend, events, tabs, tabsRef, mounted, arrived, seen, doubled, trust>>

\* A terminal begins with what the scrollback holds.
MountTerminal(t) ==
    /\ t \notin mounted /\ SessionOf[t] \in tabs
    /\ mounted' = mounted \cup {t}
    /\ screen' = [screen EXCEPT ![t] = scrollback[SessionOf[t]]]
    /\ arrived' = [arrived EXCEPT ![t] = <<>>]
    /\ doubled' = IF Showing(SessionOf[t]) = {} THEN doubled ELSE doubled \cup {SessionOf[t]}
    /\ UNCHANGED <<backend, events, tabs, tabsRef, batch, scrollback, seen, trust>>

\* Faulty: the batch of a terminal that goes is thrown away.
DisposeDropsBatch(t) ==
    /\ batch' = [batch EXCEPT ![t] = <<>>]
    /\ UNCHANGED scrollback

DisposeTerminal(t) == Flush(t)

\* The pane shows something else, the workspace another one, or the tab is gone.
UnmountTerminal(t) ==
    /\ t \in mounted
    /\ mounted' = mounted \ {t}
    /\ DisposeTerminal(t)
    /\ screen' = [screen EXCEPT ![t] = <<>>]
    /\ UNCHANGED <<backend, events, tabs, tabsRef, arrived, seen, doubled, trust>>

\* Another font, or the session moves to another pane: cleanup and set-up are in
\* one pass over the effects.  (When two terminals show the session both clean up
\* before either is set up: UnmountTerminal and MountTerminal of each.)
RemountTerminal(t) ==
    /\ Showing(SessionOf[t]) = {t} /\ SessionOf[t] \in tabs
    /\ DisposeTerminal(t)
    /\ screen' = [screen EXCEPT ![t] = scrollback'[SessionOf[t]]]
    /\ arrived' = [arrived EXCEPT ![t] = <<>>]
    /\ UNCHANGED <<backend, events, tabs, tabsRef, mounted, seen, doubled, trust>>

-----------------------------------------------------------------------------
(* Tabs                                                                    *)

\* start_session has returned.
TabOpens(s) ==
    /\ s \notin tabs /\ reader[s] = "reads"
    /\ tabs' = tabs \cup {s}
    /\ UNCHANGED <<backend, events, tabsRef, terminals, trust>>

\* closeSessionById once close_session has returned: the child is killed, what
\* the thread has sent is still on its way, and the terminals go with the next
\* rendering.
TabCloses(s) ==
    /\ s \in tabs
    /\ tabs' = tabs \ {s}
    /\ reader' = [reader EXCEPT ![s] = "ended"]
    /\ queue' = Dismissed(s)
    /\ UNCHANGED <<printed, taken, events, tabsRef, terminals, accepting, trusted, trustedRef,
                   asked, answers>>

SyncRefs ==
    /\ tabsRef # tabs \/ trustedRef # trusted
    /\ tabsRef' = tabs
    /\ trustedRef' = trusted
    /\ queue' = IF tabsRef # tabs THEN OpenOnly(tabs) ELSE queue
    /\ UNCHANGED <<backend, events, tabs, terminals, accepting, trusted, asked, answers>>

-----------------------------------------------------------------------------
(* The question in the window                                              *)

Asking(s) == Listed(s) /\ queue[s] = {}

\* How many answers to s are on their way.
Accepting(s) == accepting[s].save + accepting[s].send
MayConfirm == \A s \in Sessions : Accepting(s) < MaxConfirms

\* acceptTrustPrompt, with the box "Save as default for this host" ticked or not.
AcceptTrustPrompt(s) ==
    /\ Asking(s) /\ MayConfirm
    /\ \/ /\ s \in tabsRef \cap Saved
          /\ accepting' = [accepting EXCEPT ![s].save = @ + 1]
          /\ trusted' = trusted \cup {HostOf[s]}
       \/ /\ accepting' = [accepting EXCEPT ![s].send = @ + 1]
          /\ UNCHANGED trusted
    /\ UNCHANGED <<backend, events, tabs, tabsRef, terminals, queue, trustedRef, asked, answers>>

\* The metadata file was written, or could not be: then the question stays.
MetadataSaved(s) ==
    /\ accepting[s].save > 0
    /\ accepting' = [accepting EXCEPT ![s] = [save |-> @.save - 1, send |-> @.send + 1]]
    /\ UNCHANGED <<backend, events, tabs, tabsRef, terminals, queue, trusted, trustedRef,
                   asked, answers>>

\* Faulty: the question stays when it has been answered.
SentKeepsPrompt(s) ==
    /\ accepting[s].send > 0
    /\ accepting' = [accepting EXCEPT ![s].send = @ - 1]
    /\ answers' = [answers EXCEPT ![s] = @ + 1]
    /\ UNCHANGED <<backend, events, tabs, tabsRef, terminals, queue, trusted, trustedRef, asked>>

AnswerSent(s) ==
    /\ accepting[s].send > 0
    /\ accepting' = [accepting EXCEPT ![s].send = @ - 1]
    /\ answers' = [answers EXCEPT ![s] = @ + 1]
    /\ queue' = Dismissed(s)
    /\ UNCHANGED <<backend, events, tabs, tabsRef, terminals, trusted, trustedRef, asked>>

\* The file could not be written, or the session has ended.
AcceptFails(s) ==
    /\ \/ accepting[s].save > 0 /\ accepting' = [accepting EXCEPT ![s].save = @ - 1]
       \/ /\ accepting[s].send > 0 /\ reader[s] = "ended"
          /\ accepting' = [accepting EXCEPT ![s].send = @ - 1]
    /\ UNCHANGED <<backend, events, tabs, tabsRef, terminals, queue, trusted, trustedRef,
                   asked, answers>>

DismissTrustPrompt(s) ==
    /\ Asking(s) /\ MayConfirm
    /\ queue' = Dismissed(s)
    /\ UNCHANGED <<backend, events, tabs, tabsRef, terminals, accepting, trusted, trustedRef,
                   asked, answers>>

-----------------------------------------------------------------------------
OutputInit ==
    /\ printed = [s \in Sessions |-> 0]
    /\ taken = printed
    /\ reader = [s \in Sessions |-> "none"]
    /\ events = [s \in Sessions |-> <<>>]
    /\ tabs = {} /\ tabsRef = {} /\ mounted = {}
    /\ batch = [t \in Terminal |-> <<>>] /\ screen = batch /\ arrived = batch
    /\ scrollback = events /\ seen = events /\ doubled = {}
    /\ queue = [s \in {} |-> {}]
    /\ accepting = [s \in Sessions |-> [save |-> 0, send |-> 0]]
    /\ trusted = {} /\ trustedRef = {}
    /\ asked = printed /\ answers = printed

ReaderStep(s) ==
    \/ SpawnReader(s)
    \/ ChildPrints(s)
    \/ ReadAndEmit(s)
    \/ ReaderEnds(s)
    \/ DispatchOutput(s)

OutputTabStep(s) == TabOpens(s) \/ TabCloses(s)

TerminalStep(t) ==
    \/ Frame(t)
    \/ MountTerminal(t)
    \/ UnmountTerminal(t)
    \/ RemountTerminal(t)

TrustStep(s) ==
    \/ AcceptTrustPrompt(s)
    \/ MetadataSaved(s)
    \/ AnswerSent(s)
    \/ AcceptFails(s)
    \/ DismissTrustPrompt(s)

OutputNext ==
    \/ SyncRefs
    \/ \E s \in Sessions : ReaderStep(s) \/ OutputTabStep(s) \/ TrustStep(s)
    \/ \E t \in Terminal : TerminalStep(t)

OutputSpec == OutputInit /\ [][OutputNext]_outputVars

-----------------------------------------------------------------------------
(* Properties                                                              *)

EndsWith(short, long) == short = LastOf(long, Len(short))

\* Every variable keeps values of its kind.
OutputTypeOK ==
    /\ printed \in [Sessions -> 0..MaxPrinted] /\ taken \in [Sessions -> 0..MaxPrinted]
    /\ \A s \in Sessions : taken[s] <= printed[s]
    /\ reader \in [Sessions -> {"none", "reads", "ended"}]
    /\ events \in [Sessions -> Seq(Event)]
    /\ tabs \subseteq Sessions /\ tabsRef \subseteq Sessions
    /\ mounted \subseteq Terminal /\ doubled \subseteq Sessions
    /\ \A f \in {batch, screen, arrived} : f \in [Terminal -> Seq(1..MaxPrinted)]
    /\ \A f \in {scrollback, seen} : f \in [Sessions -> Seq(1..MaxPrinted)]
    /\ DOMAIN queue \subseteq Sessions
    /\ \A s \in DOMAIN queue : queue[s] \subseteq DOMAIN queue
    /\ accepting \in [Sessions -> [save : Nat, send : Nat]]
    /\ trusted \subseteq Hosts /\ trustedRef \subseteq Hosts
    /\ asked \in [Sessions -> Nat] /\ answers \in [Sessions -> Nat]

\* q is the last of what the terminals of s were given, and all of it while there
\* is room in the scrollback.
Keeps(q, s) ==
    /\ EndsWith(q, seen[s])
    /\ Len(scrollback[s]) < MaxScrollback => q = seen[s]

\* Whatever is mounted, moved, hidden and shown again between, a terminal with its
\* waiting batch has all that reached it; and of a session that no two terminals
\* have shown at once, it shows the last of what the session's terminals were given,
\* in order, nothing twice and nothing left out, and so does the scrollback, which
\* holds as much as it may.  (Two terminals each write what they are given to the
\* scrollback: it then holds it twice, and later terminals show it so.)
ScreenShowsStream ==
    /\ \A t \in mounted : EndsWith(arrived[t], screen[t] \o batch[t])
    /\ \A s \in Sessions :
         /\ \A i, j \in DOMAIN seen[s] : i < j => seen[s][i] < seen[s][j]
         /\ s \notin doubled =>
              /\ \A t \in Showing(s) :
                   EndsWith(screen[t] \o batch[t], seen[s]) /\ Keeps(Flushed(t), s)
              /\ Showing(s) = {} => Keeps(scrollback[s], s)

\* "yes" is sent no more often than a question of the session arrived, whoever
\* answers: the saved policy, the setting or the user.  (Otherwise a child that
\* has gone on reads it: a login name, a password, a command.)
AnswersAreAsked == \A s \in Sessions :
    answers[s] + Accepting(s) <= asked[s]

=============================================================================
