---------------------------- MODULE ProxmuxConsole ----------------------------
(***************************************************************************)
(* Console panes (ProxmoxLxcTermPane.tsx, ProxmoxNodeTermPane.tsx,         *)
(* ProxmoxQemuVncPane.tsx, HetznerVncPane.tsx) and the local WebSocket     *)
(* proxy they start and stop (proxmux_ws_proxy.rs).  A reconnect cancels   *)
(* the run of the effect that is under way and begins another; the runs    *)
(* of a pane share the refs to its socket and its proxy, and a cancelled   *)
(* run goes on to its next check.                                          *)
(***************************************************************************)
EXTENDS Naturals, FiniteSets

CONSTANTS
    Panes,
    Screen,     \* panes with a screen (noVNC, imported when first needed)
    Bridged,    \* panes that need the proxy (insecure TLS or a stored certificate)
    MaxRuns     \* bound on runs of a pane's effect

ASSUME ProxmuxConsoleAssumption ==
    Screen \subseteq Panes /\ Bridged \subseteq Panes /\ MaxRuns \in Nat \ {0}

VARIABLES
    open,         \* panes that are mounted
    runs,         \* runs[p][n]: where the n-th run of the effect is
    proxyIdRef,   \* the run whose proxy the pane holds, or 0
    socketRef,    \* wsRef, rfbRef: the run whose socket it holds, or 0
    sockets,      \* <<pane, run>> of sockets that are not closed
    phase,        \* what the pane shows
    stops,        \* proxmux_ws_proxy_stop calls under way
    registered,   \* proxy_tasks
    connections   \* tasks of accepted connections, those in conn_handles listed

consoleVars == <<open, runs, proxyIdRef, socketRef, sockets, phase, stops, registered, connections>>
proxyVars == <<registered, connections>>

Runs == 1..MaxRuns
None == 0
NoRun == [pc |-> "none", cancelled |-> FALSE]
Over(p, n) == runs[p][n].pc \in {"none", "ended"}

At_(p, n, pc) == runs[p][n].pc = pc
Step(p, n, pc) == runs' = [runs EXCEPT ![p][n].pc = pc]
Cancelled(p, n) == runs[p][n].cancelled

-----------------------------------------------------------------------------
(* The effect                                                              *)

\* The synchronous part of teardown(): the socket is closed, the proxy is given up
\* and its stop is called.
Teardown(p) ==
    /\ sockets' = sockets \ {<<p, socketRef[p]>>}
    /\ socketRef' = [socketRef EXCEPT ![p] = None]
    /\ proxyIdRef' = [proxyIdRef EXCEPT ![p] = None]
    /\ stops' = IF proxyIdRef[p] = None THEN stops ELSE stops \cup {<<p, proxyIdRef[p]>>}

\* A run asks for its ticket: the teardown() it begins with finds nothing, since
\* the cleanup of the run before it has given up what the pane had.
Begin(p, n) ==
    runs' = [runs EXCEPT ![p] = [m \in Runs |->
                IF m = n THEN [pc |-> "ticket", cancelled |-> FALSE]
                ELSE [runs[p][m] EXCEPT !.cancelled = TRUE]]]

MountConsole(p) ==
    /\ p \notin open /\ \A n \in Runs : At_(p, n, "none")
    /\ open' = open \cup {p}
    /\ Begin(p, 1)
    /\ phase' = [phase EXCEPT ![p] = "connecting"]
    /\ UNCHANGED <<proxyIdRef, socketRef, sockets, stops, proxyVars>>

\* The button in the toolbar, or other properties: the cleanup gives up what the
\* pane has, the new run finds nothing to give up.
Reconnect(p) ==
    /\ p \in open
    /\ \E n \in Runs :
        /\ At_(p, n, "none") /\ \A m \in 1..n-1 : ~At_(p, m, "none")
        /\ Begin(p, n)
    /\ Teardown(p)
    /\ phase' = [phase EXCEPT ![p] = "connecting"]
    /\ UNCHANGED <<open, proxyVars>>

UnmountConsole(p) ==
    /\ p \in open
    /\ open' = open \ {p}
    /\ runs' = [runs EXCEPT ![p] = [n \in Runs |-> [runs[p][n] EXCEPT !.cancelled = TRUE]]]
    /\ Teardown(p)
    /\ UNCHANGED <<phase, proxyVars>>

\* The socket is created at once, a screen first loads its library.
Connect(p, n) ==
    IF p \in Screen THEN Step(p, n, "import") /\ UNCHANGED <<socketRef, sockets>>
    ELSE /\ Step(p, n, "opening")
         /\ socketRef' = [socketRef EXCEPT ![p] = n]
         /\ sockets' = sockets \cup {<<p, n>>}

TicketAnswers(p, n) ==
    /\ At_(p, n, "ticket")
    /\ IF Cancelled(p, n) THEN Step(p, n, "ended") /\ UNCHANGED <<socketRef, sockets>>
       ELSE IF p \in Bridged THEN Step(p, n, "start") /\ UNCHANGED <<socketRef, sockets>>
       ELSE Connect(p, n)
    /\ UNCHANGED <<open, proxyIdRef, phase, stops, proxyVars>>

\* No ticket, no proxy, no socket: shown unless another run has taken over.
RunFails(p, n) ==
    /\ \/ runs[p][n].pc \in {"ticket", "start", "import"}
       \/ At_(p, n, "opening") /\ p \notin Screen
    /\ Step(p, n, "ended")
    /\ phase' = IF Cancelled(p, n) THEN phase ELSE [phase EXCEPT ![p] = "error"]
    /\ UNCHANGED <<open, proxyIdRef, socketRef, sockets, stops, proxyVars>>

\* Faulty: a run that was cancelled meanwhile forgets the proxy it has started.
ForgetsItsProxy(p, n) ==
    /\ At_(p, n, "started")
    /\ IF Cancelled(p, n)
       THEN Step(p, n, "ended") /\ UNCHANGED <<proxyIdRef, socketRef, sockets, stops>>
       ELSE /\ proxyIdRef' = [proxyIdRef EXCEPT ![p] = n]
            /\ Connect(p, n)
            /\ UNCHANGED stops
    /\ UNCHANGED <<open, phase, proxyVars>>

\* proxmuxWsProxyStart has returned.
ProxyStarted(p, n) ==
    /\ At_(p, n, "started")
    /\ IF Cancelled(p, n)
       THEN /\ stops' = stops \cup {<<p, n>>}
            /\ Step(p, n, "ended")
            /\ UNCHANGED <<proxyIdRef, socketRef, sockets>>
       ELSE /\ proxyIdRef' = [proxyIdRef EXCEPT ![p] = n]
            /\ Connect(p, n)
            /\ UNCHANGED stops
    /\ UNCHANGED <<open, phase, proxyVars>>

\* The library is there.  A cancelled run tears down whatever the pane holds by
\* now, the socket and the proxy of its successor included.
Imported(p, n) ==
    /\ At_(p, n, "import")
    /\ IF Cancelled(p, n)
       THEN /\ Teardown(p) /\ Step(p, n, "ended")
            /\ phase' = IF \E m \in Runs : m = socketRef[p] /\ ~Cancelled(p, m)
                        THEN [phase EXCEPT ![p] = "disconnected"] ELSE phase
       ELSE /\ Step(p, n, "opening")
            /\ socketRef' = [socketRef EXCEPT ![p] = n]
            /\ sockets' = sockets \cup {<<p, n>>}
            /\ UNCHANGED <<proxyIdRef, phase, stops>>
    /\ UNCHANGED <<open, proxyVars>>

SocketOpens(p, n) ==
    /\ At_(p, n, "opening") /\ <<p, n>> \in sockets
    /\ p \in Bridged => \E c \in connections : c.of = <<p, n>>
    /\ Step(p, n, "ended")
    /\ phase' = [phase EXCEPT ![p] = "ready"]
    /\ UNCHANGED <<open, proxyIdRef, socketRef, sockets, stops, proxyVars>>

\* connectTimeoutMs: a screen disconnects, a terminal leaves its socket.  A screen
\* that was disconnected before keeps its watchdog.
ConnectTimesOut(p, n) ==
    /\ At_(p, n, "opening")
    /\ Step(p, n, "ended")
    /\ IF Cancelled(p, n) THEN UNCHANGED <<phase, sockets>>
       ELSE /\ phase' = [phase EXCEPT ![p] = "error"]
            /\ sockets' = IF p \in Screen THEN sockets \ {<<p, n>>} ELSE sockets
    /\ UNCHANGED <<open, proxyIdRef, socketRef, stops, proxyVars>>

\* The other side ends the session, or does not begin it; only a screen says so.
SocketEnds(p, n) ==
    /\ <<p, n>> \in sockets
    /\ Over(p, n) \/ p \in Screen
    /\ sockets' = sockets \ {<<p, n>>}
    /\ phase' = IF p \in Screen /\ ~Cancelled(p, n) THEN [phase EXCEPT ![p] = "disconnected"] ELSE phase
    /\ UNCHANGED <<open, runs, proxyIdRef, socketRef, stops, proxyVars>>

-----------------------------------------------------------------------------
(* The proxy                                                               *)

\* Bound to a port, accepting, and registered under a new id.
StartProxy(p, n) ==
    /\ At_(p, n, "start")
    /\ registered' = registered \cup {<<p, n>>}
    /\ Step(p, n, "started")
    /\ UNCHANGED <<open, proxyIdRef, socketRef, sockets, phase, stops, connections>>

\* The accept loop spawns a task and lists it in a second step.
Accept(p, n) ==
    /\ <<p, n>> \in registered /\ <<p, n>> \in sockets /\ At_(p, n, "opening")
    /\ ~\E c \in connections : c.of = <<p, n>>
    /\ connections' = connections \cup {[of |-> <<p, n>>, listed |-> FALSE]}
    /\ UNCHANGED <<open, runs, proxyIdRef, socketRef, sockets, phase, stops, registered>>

ListConnection(c) ==
    /\ ~c.listed
    /\ connections' = (connections \ {c}) \cup {[c EXCEPT !.listed = TRUE]}
    /\ UNCHANGED <<open, runs, proxyIdRef, socketRef, sockets, phase, stops, registered>>

\* Either side has closed.
ConnectionEnds(c) ==
    /\ c.of \notin sockets
    /\ connections' = connections \ {c}
    /\ UNCHANGED <<open, runs, proxyIdRef, socketRef, sockets, phase, stops, registered>>

\* Aborts the accept loop and the connections that are listed by now.
StopProxy(id) ==
    /\ id \in stops
    /\ stops' = stops \ {id}
    /\ registered' = registered \ {id}
    /\ connections' = {c \in connections : c.of # id \/ ~c.listed}
    /\ UNCHANGED <<open, runs, proxyIdRef, socketRef, sockets, phase>>

-----------------------------------------------------------------------------
ConsoleInit ==
    /\ open = {}
    /\ runs = [p \in Panes |-> [n \in Runs |-> NoRun]]
    /\ proxyIdRef = [p \in Panes |-> None] /\ socketRef = proxyIdRef
    /\ sockets = {} /\ stops = {} /\ registered = {} /\ connections = {}
    /\ phase = [p \in Panes |-> "connecting"]

PaneStep(p) ==
    \/ MountConsole(p)
    \/ Reconnect(p)
    \/ UnmountConsole(p)
    \/ \E n \in Runs :
        \/ TicketAnswers(p, n)
        \/ RunFails(p, n)
        \/ ProxyStarted(p, n)
        \/ Imported(p, n)
        \/ SocketOpens(p, n)
        \/ ConnectTimesOut(p, n)
        \/ SocketEnds(p, n)
        \/ StartProxy(p, n)
        \/ Accept(p, n)

ConsoleNext ==
    \/ \E p \in Panes : PaneStep(p)
    \/ \E c \in connections : ListConnection(c) \/ ConnectionEnds(c)
    \/ \E id \in stops : StopProxy(id)

ConsoleSpec == ConsoleInit /\ [][ConsoleNext]_consoleVars

-----------------------------------------------------------------------------
(* Properties                                                              *)

\* Every variable keeps values of its kind.
ConsoleTypeOK ==
    /\ open \subseteq Panes
    /\ \A p \in Panes : proxyIdRef[p] \in Runs \cup {None} /\ socketRef[p] \in Runs \cup {None}
    /\ UNION {sockets, stops, registered} \subseteq Panes \X Runs
    /\ \A p \in Panes, n \in Runs : runs[p][n].pc \in {"none", "ticket", "start",
            "started", "import", "opening", "ended"}
    /\ \A c \in connections : c.of \in Panes \X Runs /\ c.listed \in BOOLEAN

\* However reconnects, closed panes, failures and late answers interleave: once the
\* runs of a pane are over and nothing is being stopped, a proxy listens only for a
\* pane that is open and holds it, one per pane; and a terminal that is opening its
\* socket has its proxy.
NoProxyOutlivesItsPane ==
    /\ \A id \in registered : Over(id[1], id[2]) /\ id \notin stops =>
            id[1] \in open /\ proxyIdRef[id[1]] = id[2]
    /\ \A p \in Bridged \ Screen, n \in Runs :
        At_(p, n, "opening") /\ ~Cancelled(p, n) => <<p, n>> \in registered

=============================================================================
