------------------------ MODULE ProxmuxConsole_proofs ------------------------
(***************************************************************************)
(* Theorems about the console panes and their proxy, for any panes and any *)
(* number of reconnects.                                                   *)
(***************************************************************************)
EXTENDS ProxmuxConsole, TLAPS

Place == {"none", "ticket", "start", "started", "import", "opening", "ended"}
Run == [pc : Place, cancelled : BOOLEAN]

ConsoleTypes ==
    /\ open \subseteq Panes
    /\ runs \in [Panes -> [Runs -> Run]]
    /\ proxyIdRef \in [Panes -> Runs \cup {None}]
    /\ socketRef \in [Panes -> Runs \cup {None}]
    /\ sockets \subseteq Panes \X Runs
    /\ stops \subseteq Panes \X Runs
    /\ registered \subseteq Panes \X Runs
    /\ connections \subseteq [of : Panes \X Runs, listed : BOOLEAN]

\* A run that was begun and not cancelled.
Live(p, n) == ~At_(p, n, "none") /\ ~Cancelled(p, n)

\* Past the start of its proxy, which is in the pane's hands or given up.
Past(p, n) == runs[p][n].pc \in {"import", "opening", "ended"}

LiveInOpen == \A p \in Panes, n \in Runs : Live(p, n) => p \in open
OneLive == \A p \in Panes, m, n \in Runs : Live(p, m) /\ Live(p, n) => m = n

\* What the ref of a pane points to belongs to its live run.
HeldByLive ==
    \A p \in Panes : proxyIdRef[p] # None => Live(p, proxyIdRef[p]) /\ Past(p, proxyIdRef[p])

StopsArePast == \A p \in Panes, n \in Runs : <<p, n>> \in stops => Past(p, n)

\* A proxy that listens is about to be handed over, being stopped or held.
ProxiesAccounted ==
    \A p \in Panes, n \in Runs :
        <<p, n>> \in registered =>
            At_(p, n, "started") \/ (Past(p, n) /\ (<<p, n>> \in stops \/ proxyIdRef[p] = n))

StartedListens == \A p \in Panes, n \in Runs : At_(p, n, "started") => <<p, n>> \in registered

\* Only a screen has an import at which a cancelled run can stop another's proxy.
ImportsAreScreens == \A p \in Panes, n \in Runs : At_(p, n, "import") => p \in Screen

TerminalsBridged ==
    \A p \in Panes, n \in Runs :
        p \in Bridged \ Screen /\ At_(p, n, "opening") /\ ~Cancelled(p, n) =>
            <<p, n>> \in registered /\ <<p, n>> \notin stops

ProxyInv ==
    /\ LiveInOpen /\ OneLive /\ HeldByLive /\ StopsArePast
    /\ ProxiesAccounted /\ StartedListens
    /\ ImportsAreScreens /\ TerminalsBridged
ConsoleInv == ConsoleTypes /\ ProxyInv

-----------------------------------------------------------------------------
(* What becomes of the runs                                                *)

LEMMA StepRuns ==
    ASSUME runs \in [Panes -> [Runs -> Run]],
           NEW p \in Panes, NEW n \in Runs, NEW to \in Place, Step(p, n, to)
    PROVE  /\ runs' \in [Panes -> [Runs -> Run]]
           /\ \A q \in Panes, m \in Runs :
                /\ runs'[q][m].pc = IF q = p /\ m = n THEN to ELSE runs[q][m].pc
                /\ runs'[q][m].cancelled = runs[q][m].cancelled
  BY DEF Step, Run

LEMMA BeginRuns ==
    ASSUME runs \in [Panes -> [Runs -> Run]],
           NEW p \in Panes, NEW n \in Runs, Begin(p, n)
    PROVE  /\ runs' \in [Panes -> [Runs -> Run]]
           /\ \A q \in Panes, m \in Runs :
                /\ runs'[q][m].pc = IF q = p /\ m = n THEN "ticket" ELSE runs[q][m].pc
                /\ runs'[q][m].cancelled = IF q = p THEN m # n ELSE runs[q][m].cancelled
<1> DEFINE f == [m \in Runs |-> IF m = n THEN [pc |-> "ticket", cancelled |-> FALSE]
                                ELSE [runs[p][m] EXCEPT !.cancelled = TRUE]]
<1>1. runs' = [runs EXCEPT ![p] = f]
  BY DEF Begin
<1>2. ASSUME NEW m \in Runs
      PROVE  /\ f[m] \in Run
             /\ f[m].pc = IF m = n THEN "ticket" ELSE runs[p][m].pc
             /\ f[m].cancelled = (m # n)
  <2>1. runs[p][m] \in Run /\ "ticket" \in Place
    BY DEF Place
  <2> QED
    BY <2>1 DEF Run
<1>3. f \in [Runs -> Run]
  BY <1>2
<1> HIDE DEF f
<1> QED
  BY <1>1, <1>2, <1>3

LEMMA CancelRuns ==
    ASSUME runs \in [Panes -> [Runs -> Run]], NEW p \in Panes,
           runs' = [runs EXCEPT ![p] = [n \in Runs |-> [runs[p][n] EXCEPT !.cancelled = TRUE]]]
    PROVE  /\ runs' \in [Panes -> [Runs -> Run]]
           /\ \A q \in Panes, m \in Runs :
                /\ runs'[q][m].pc = runs[q][m].pc
                /\ runs'[q][m].cancelled = IF q = p THEN TRUE ELSE runs[q][m].cancelled
<1> DEFINE f == [n \in Runs |-> [runs[p][n] EXCEPT !.cancelled = TRUE]]
<1>1. ASSUME NEW m \in Runs
      PROVE  f[m] \in Run /\ f[m].pc = runs[p][m].pc /\ f[m].cancelled = TRUE
  <2>1. runs[p][m] \in Run
    OBVIOUS
  <2> QED
    BY <2>1 DEF Run
<1>2. f \in [Runs -> Run]
  BY <1>1
<1>3. runs' = [runs EXCEPT ![p] = f]
  OBVIOUS
<1> HIDE DEF f
<1> QED
  BY <1>1, <1>2, <1>3

LEMMA TeardownTypes ==
    ASSUME ConsoleTypes, NEW p \in Panes, Teardown(p)
    PROVE  /\ proxyIdRef' \in [Panes -> Runs \cup {None}] /\ proxyIdRef'[p] = None
           /\ \A q \in Panes : q # p => proxyIdRef'[q] = proxyIdRef[q]
           /\ socketRef' \in [Panes -> Runs \cup {None}]
           /\ sockets' \subseteq Panes \X Runs /\ stops' \subseteq Panes \X Runs
           /\ \A q \in Panes, m \in Runs :
                <<q, m>> \in stops' <=> <<q, m>> \in stops \/ (q = p /\ m = proxyIdRef[p])
<1>1. None \notin Runs
  BY DEF None, Runs
<1> QED
  BY <1>1 DEF Teardown, ConsoleTypes

-----------------------------------------------------------------------------
(* The steps                                                               *)

LEMMA MountKeeps ==
    ASSUME ConsoleInv, NEW p \in Panes, MountConsole(p)
    PROVE  ConsoleInv'
<1>1. 1 \in Runs /\ Begin(p, 1) /\ p \notin open /\ (\A n \in Runs : At_(p, n, "none"))
  BY ProxmuxConsoleAssumption DEF Runs, MountConsole
<1>2. /\ runs' \in [Panes -> [Runs -> Run]]
      /\ \A q \in Panes, m \in Runs :
           /\ runs'[q][m].pc = IF q = p /\ m = 1 THEN "ticket" ELSE runs[q][m].pc
           /\ runs'[q][m].cancelled = IF q = p THEN m # 1 ELSE runs[q][m].cancelled
  BY <1>1, BeginRuns DEF ConsoleInv, ConsoleTypes
<1>3. /\ open' = open \cup {p} /\ proxyIdRef' = proxyIdRef
      /\ stops' = stops /\ registered' = registered
  BY DEF MountConsole, proxyVars
<1>4. ConsoleTypes'
  BY <1>2 DEF MountConsole, ConsoleInv, ConsoleTypes, proxyVars
<1>5. (\A n \in Runs : runs[p][n].pc = "none") /\ proxyIdRef[p] = None
  BY <1>1 DEF At_, ConsoleInv, ConsoleTypes, ProxyInv, HeldByLive, Live
<1>6. ProxyInv'
  <2>0. /\ ConsoleTypes /\ LiveInOpen /\ OneLive /\ HeldByLive /\ StopsArePast
        /\ ProxiesAccounted /\ StartedListens /\ ImportsAreScreens /\ TerminalsBridged
    BY DEF ConsoleInv, ProxyInv
  <2>1. \A q \in Panes, m \in Runs : Live(q, m)' <=> (IF q = p THEN m = 1 ELSE Live(q, m))
    BY <1>1, <1>2, <1>3, <1>5 DEF Live, At_, Cancelled
  <2>2. \A q \in Panes, m \in Runs : Past(q, m) => Past(q, m)'
    BY <1>1, <1>2, <1>3, <1>5 DEF Past
  <2>3. \A q \in Panes, m \in Runs : At_(q, m, "started") => At_(q, m, "started")'
    BY <1>1, <1>2, <1>3, <1>5 DEF At_
  <2>4. \A q \in Panes, m \in Runs :
          At_(q, m, "opening")' /\ ~Cancelled(q, m)' =>
             q # p /\ At_(q, m, "opening") /\ ~Cancelled(q, m)
    BY <1>1, <1>2, <1>3, <1>5 DEF At_, Cancelled
  <2>5. LiveInOpen'
    BY <2>0, <2>1, <1>1, <1>3, <1>5 DEF LiveInOpen
  <2>6. OneLive'
    BY <2>0, <2>1, <1>1, <1>3, <1>5 DEF OneLive
  <2>7. HeldByLive'
    BY <2>0, <2>1, <2>2, <1>1, <1>3, <1>5 DEF HeldByLive, ConsoleTypes
  <2>8. StopsArePast'
    BY <2>0, <2>2, <1>1, <1>3, <1>5 DEF StopsArePast, HeldByLive
  <2>9. ProxiesAccounted'
    BY <2>0, <2>2, <2>3, <1>1, <1>3, <1>5 DEF ProxiesAccounted
  <2>10. StartedListens'
    BY <2>0, <1>1, <1>2, <1>3, <1>5 DEF StartedListens, At_
  <2>11. ImportsAreScreens'
    BY <2>0, <1>1, <1>2, <1>3, <1>5 DEF ImportsAreScreens, At_
  <2>12. TerminalsBridged'
    BY <2>0, <2>4, <1>1, <1>3, <1>5 DEF TerminalsBridged
  <2> QED
    BY <2>5, <2>6, <2>7, <2>8, <2>9, <2>10, <2>11, <2>12 DEF ProxyInv
<1> QED
  BY <1>4, <1>6 DEF ConsoleInv

LEMMA ReconnectKeeps ==
    ASSUME ConsoleInv, NEW p \in Panes, Reconnect(p)
    PROVE  ConsoleInv'
<1> PICK n \in Runs : At_(p, n, "none") /\ Begin(p, n)
  BY DEF Reconnect
<1>1. /\ Teardown(p) /\ p \in open /\ open' = open /\ registered' = registered
      /\ runs[p][n].pc = "none"
  BY DEF Reconnect, proxyVars, At_
<1>2. /\ runs' \in [Panes -> [Runs -> Run]]
      /\ \A q \in Panes, m \in Runs :
           /\ runs'[q][m].pc = IF q = p /\ m = n THEN "ticket" ELSE runs[q][m].pc
           /\ runs'[q][m].cancelled = IF q = p THEN m # n ELSE runs[q][m].cancelled
  BY BeginRuns DEF ConsoleInv, ConsoleTypes
<1>3. /\ proxyIdRef' \in [Panes -> Runs \cup {None}] /\ proxyIdRef'[p] = None
      /\ \A q \in Panes : q # p => proxyIdRef'[q] = proxyIdRef[q]
      /\ \A q \in Panes, m \in Runs :
           <<q, m>> \in stops' <=> <<q, m>> \in stops \/ (q = p /\ m = proxyIdRef[p])
      /\ None \notin Runs
  BY <1>1, TeardownTypes DEF ConsoleInv, None, Runs
<1>4. ConsoleTypes'
  BY <1>1, <1>2, TeardownTypes DEF Reconnect, ConsoleInv, ConsoleTypes, proxyVars
<1>5. ProxyInv'
  <2>0. /\ ConsoleTypes /\ LiveInOpen /\ OneLive /\ HeldByLive /\ StopsArePast
        /\ ProxiesAccounted /\ StartedListens /\ ImportsAreScreens /\ TerminalsBridged
    BY DEF ConsoleInv, ProxyInv
  <2>1. \A q \in Panes, m \in Runs : Live(q, m)' <=> (IF q = p THEN m = n ELSE Live(q, m))
    BY <1>1, <1>2, <1>3 DEF Live, At_, Cancelled
  <2>2. \A q \in Panes, m \in Runs : Past(q, m) => Past(q, m)'
    BY <1>1, <1>2, <1>3 DEF Past
  <2>3. \A q \in Panes, m \in Runs : At_(q, m, "started") => At_(q, m, "started")'
    BY <1>1, <1>2, <1>3 DEF At_
  <2>4. \A q \in Panes, m \in Runs :
          At_(q, m, "opening")' /\ ~Cancelled(q, m)' =>
             q # p /\ At_(q, m, "opening") /\ ~Cancelled(q, m)
    BY <1>1, <1>2, <1>3 DEF At_, Cancelled
  <2>5. LiveInOpen'
    BY <2>0, <2>1, <1>1, <1>3 DEF LiveInOpen
  <2>6. OneLive'
    BY <2>0, <2>1, <1>1, <1>3 DEF OneLive
  <2>7. HeldByLive'
    BY <2>0, <2>1, <2>2, <1>1, <1>3 DEF HeldByLive, ConsoleTypes
  <2>8. StopsArePast'
    BY <2>0, <2>2, <1>1, <1>3 DEF StopsArePast, HeldByLive
  <2>9. ProxiesAccounted'
    BY <2>0, <2>2, <2>3, <1>1, <1>3 DEF ProxiesAccounted
  <2>10. StartedListens'
    BY <2>0, <1>1, <1>2, <1>3 DEF StartedListens, At_
  <2>11. ImportsAreScreens'
    BY <2>0, <1>1, <1>2, <1>3 DEF ImportsAreScreens, At_
  <2>12. TerminalsBridged'
    BY <2>0, <2>4, <1>1, <1>3 DEF TerminalsBridged
  <2> QED
    BY <2>5, <2>6, <2>7, <2>8, <2>9, <2>10, <2>11, <2>12 DEF ProxyInv
<1> QED
  BY <1>4, <1>5 DEF ConsoleInv

LEMMA UnmountKeeps ==
    ASSUME ConsoleInv, NEW p \in Panes, UnmountConsole(p)
    PROVE  ConsoleInv'
<1>1. Teardown(p) /\ open' = open \ {p} /\ registered' = registered
  BY DEF UnmountConsole, proxyVars
<1>2. /\ runs' \in [Panes -> [Runs -> Run]]
      /\ \A q \in Panes, m \in Runs :
           /\ runs'[q][m].pc = runs[q][m].pc
           /\ runs'[q][m].cancelled = IF q = p THEN TRUE ELSE runs[q][m].cancelled
  BY CancelRuns DEF UnmountConsole, ConsoleInv, ConsoleTypes
<1>3. /\ proxyIdRef' \in [Panes -> Runs \cup {None}] /\ proxyIdRef'[p] = None
      /\ \A q \in Panes : q # p => proxyIdRef'[q] = proxyIdRef[q]
      /\ \A q \in Panes, m \in Runs :
           <<q, m>> \in stops' <=> <<q, m>> \in stops \/ (q = p /\ m = proxyIdRef[p])
      /\ None \notin Runs
  BY <1>1, TeardownTypes DEF ConsoleInv, None, Runs
<1>4. ConsoleTypes'
  BY <1>1, <1>2, TeardownTypes DEF UnmountConsole, ConsoleInv, ConsoleTypes, proxyVars
<1>5. ProxyInv'
  <2>0. /\ ConsoleTypes /\ LiveInOpen /\ OneLive /\ HeldByLive /\ StopsArePast
        /\ ProxiesAccounted /\ StartedListens /\ ImportsAreScreens /\ TerminalsBridged
    BY DEF ConsoleInv, ProxyInv
  <2>1. \A q \in Panes, m \in Runs : Live(q, m)' <=> (q # p /\ Live(q, m))
    BY <1>1, <1>2, <1>3 DEF Live, At_, Cancelled
  <2>2. \A q \in Panes, m \in Runs : Past(q, m) => Past(q, m)'
    BY <1>1, <1>2, <1>3 DEF Past
  <2>3. \A q \in Panes, m \in Runs : At_(q, m, "started") => At_(q, m, "started")'
    BY <1>1, <1>2, <1>3 DEF At_
  <2>4. \A q \in Panes, m \in Runs :
          At_(q, m, "opening")' /\ ~Cancelled(q, m)' =>
             q # p /\ At_(q, m, "opening") /\ ~Cancelled(q, m)
    BY <1>1, <1>2, <1>3 DEF At_, Cancelled
  <2>5. LiveInOpen'
    BY <2>0, <2>1, <1>1, <1>3 DEF LiveInOpen
  <2>6. OneLive'
    BY <2>0, <2>1, <1>1, <1>3 DEF OneLive
  <2>7. HeldByLive'
    BY <2>0, <2>1, <2>2, <1>1, <1>3 DEF HeldByLive, ConsoleTypes
  <2>8. StopsArePast'
    BY <2>0, <2>2, <1>1, <1>3 DEF StopsArePast, HeldByLive
  <2>9. ProxiesAccounted'
    BY <2>0, <2>2, <2>3, <1>1, <1>3 DEF ProxiesAccounted
  <2>10. StartedListens'
    BY <2>0, <1>1, <1>2, <1>3 DEF StartedListens, At_
  <2>11. ImportsAreScreens'
    BY <2>0, <1>1, <1>2, <1>3 DEF ImportsAreScreens, At_
  <2>12. TerminalsBridged'
    BY <2>0, <2>4, <1>1, <1>3 DEF TerminalsBridged
  <2> QED
    BY <2>5, <2>6, <2>7, <2>8, <2>9, <2>10, <2>11, <2>12 DEF ProxyInv
<1> QED
  BY <1>4, <1>5 DEF ConsoleInv

\* A socket is created or a library asked for.
LEMMA ConnectTypes ==
    ASSUME ConsoleTypes, NEW p \in Panes, NEW n \in Runs, Connect(p, n)
    PROVE  /\ Step(p, n, IF p \in Screen THEN "import" ELSE "opening")
           /\ socketRef' \in [Panes -> Runs \cup {None}] /\ sockets' \subseteq Panes \X Runs
  BY DEF Connect, ConsoleTypes

LEMMA TicketKeeps ==
    ASSUME ConsoleInv, NEW p \in Panes, NEW n \in Runs, TicketAnswers(p, n)
    PROVE  ConsoleInv'
<1> DEFINE to == IF Cancelled(p, n) THEN "ended" ELSE IF p \in Bridged THEN "start"
                 ELSE IF p \in Screen THEN "import" ELSE "opening"
<1>1. Step(p, n, to) /\ to \in Place
  BY ConnectTypes DEF TicketAnswers, ConsoleInv, Place
<1>2. /\ runs[p][n].pc = "ticket"
      /\ to \in {"ended", "start", "import", "opening"}
      /\ to = "import" => p \in Screen
      /\ to = "opening" /\ ~runs[p][n].cancelled => p \notin Bridged
  BY DEF TicketAnswers, At_, Cancelled
<1> HIDE DEF to
<1>3. /\ runs' \in [Panes -> [Runs -> Run]]
      /\ \A q \in Panes, m \in Runs :
           /\ runs'[q][m].pc = IF q = p /\ m = n THEN to ELSE runs[q][m].pc
           /\ runs'[q][m].cancelled = runs[q][m].cancelled
  BY <1>1, StepRuns DEF ConsoleInv, ConsoleTypes
<1>4. open' = open /\ proxyIdRef' = proxyIdRef /\ stops' = stops /\ registered' = registered
  BY DEF TicketAnswers, proxyVars
<1>5. ConsoleTypes'
  <2>1. socketRef' \in [Panes -> Runs \cup {None}] /\ sockets' \subseteq Panes \X Runs
    BY ConnectTypes DEF TicketAnswers, ConsoleInv, ConsoleTypes
  <2> QED
    BY <1>3, <1>4, <2>1 DEF TicketAnswers, ConsoleInv, ConsoleTypes, proxyVars
<1>6. ProxyInv'
  <2>0. /\ ConsoleTypes /\ LiveInOpen /\ OneLive /\ HeldByLive /\ StopsArePast
        /\ ProxiesAccounted /\ StartedListens /\ ImportsAreScreens /\ TerminalsBridged
    BY DEF ConsoleInv, ProxyInv
  <2>1. \A q \in Panes, m \in Runs : Live(q, m)' <=> Live(q, m)
    BY <1>2, <1>3, <1>4 DEF Live, At_, Cancelled
  <2>2. \A q \in Panes, m \in Runs : Past(q, m) => Past(q, m)'
    BY <1>2, <1>3, <1>4 DEF Past
  <2>3. \A q \in Panes, m \in Runs : At_(q, m, "started") => At_(q, m, "started")'
    BY <1>2, <1>3, <1>4 DEF At_
  <2>4. \A q \in Panes, m \in Runs :
          At_(q, m, "opening")' /\ ~Cancelled(q, m)' =>
             \/ p \notin Bridged /\ q = p
             \/ At_(q, m, "opening") /\ ~Cancelled(q, m)
    BY <1>2, <1>3, <1>4 DEF At_, Cancelled
  <2>5. LiveInOpen'
    BY <2>0, <2>1, <1>4 DEF LiveInOpen
  <2>6. OneLive'
    BY <2>0, <2>1, <1>4 DEF OneLive
  <2>7. HeldByLive'
    BY <2>0, <2>1, <2>2, <1>4 DEF HeldByLive, ConsoleTypes
  <2>8. StopsArePast'
    BY <2>0, <2>2, <1>4 DEF StopsArePast, HeldByLive
  <2>9. ProxiesAccounted'
    BY <2>0, <2>2, <2>3, <1>4 DEF ProxiesAccounted
  <2>10. StartedListens'
    BY <2>0, <1>2, <1>3, <1>4 DEF StartedListens, At_
  <2>11. ImportsAreScreens'
    BY <2>0, <1>2, <1>3, <1>4 DEF ImportsAreScreens, At_
  <2>12. TerminalsBridged'
    BY <2>0, <2>4, <1>4 DEF TerminalsBridged
  <2> QED
    BY <2>5, <2>6, <2>7, <2>8, <2>9, <2>10, <2>11, <2>12 DEF ProxyInv
<1> QED
  BY <1>5, <1>6 DEF ConsoleInv

\* Steps that only end a run that has started no proxy or has handed it over.
LEMMA EndKeeps ==
    ASSUME ConsoleInv, NEW p \in Panes, NEW n \in Runs, Step(p, n, "ended"),
           runs[p][n].pc \in {"ticket", "start", "import", "opening"},
           UNCHANGED <<open, proxyIdRef, socketRef, stops, proxyVars>>,
           sockets' \subseteq sockets
    PROVE  ConsoleInv'
<1>1. /\ runs' \in [Panes -> [Runs -> Run]]
      /\ \A q \in Panes, m \in Runs :
           /\ runs'[q][m].pc = IF q = p /\ m = n THEN "ended" ELSE runs[q][m].pc
           /\ runs'[q][m].cancelled = runs[q][m].cancelled
  BY StepRuns DEF ConsoleInv, ConsoleTypes, Place
<1>2. open' = open /\ proxyIdRef' = proxyIdRef /\ stops' = stops /\ registered' = registered
  BY DEF proxyVars
<1>3. ConsoleTypes'
  BY <1>1 DEF ConsoleInv, ConsoleTypes, proxyVars
<1>4. ProxyInv'
  <2>0. /\ ConsoleTypes /\ LiveInOpen /\ OneLive /\ HeldByLive /\ StopsArePast
        /\ ProxiesAccounted /\ StartedListens /\ ImportsAreScreens /\ TerminalsBridged
    BY DEF ConsoleInv, ProxyInv
  <2>1. \A q \in Panes, m \in Runs : Live(q, m)' <=> Live(q, m)
    BY <1>1, <1>2 DEF Live, At_, Cancelled
  <2>2. Past(p, n)' /\ (\A q \in Panes, m \in Runs : Past(q, m) => Past(q, m)')
    BY <1>1, <1>2 DEF Past
  <2>3. \A q \in Panes, m \in Runs : At_(q, m, "started") => At_(q, m, "started")'
    BY <1>1, <1>2 DEF At_
  <2>4. \A q \in Panes, m \in Runs :
          At_(q, m, "opening")' /\ ~Cancelled(q, m)' => At_(q, m, "opening") /\ ~Cancelled(q, m)
    BY <1>1, <1>2 DEF At_, Cancelled
  <2>5. LiveInOpen'
    BY <2>0, <2>1, <1>2 DEF LiveInOpen
  <2>6. OneLive'
    BY <2>0, <2>1, <1>2 DEF OneLive
  <2>7. HeldByLive'
    BY <2>0, <2>1, <2>2, <1>2 DEF HeldByLive, ConsoleTypes
  <2>8. StopsArePast'
    BY <2>0, <2>2, <1>2 DEF StopsArePast, HeldByLive
  <2>9. ProxiesAccounted'
    BY <2>0, <2>2, <2>3, <1>2 DEF ProxiesAccounted
  <2>10. StartedListens'
    BY <2>0, <1>1, <1>2 DEF StartedListens, At_
  <2>11. ImportsAreScreens'
    BY <2>0, <1>1, <1>2 DEF ImportsAreScreens, At_
  <2>12. TerminalsBridged'
    BY <2>0, <2>4, <1>2 DEF TerminalsBridged
  <2> QED
    BY <2>5, <2>6, <2>7, <2>8, <2>9, <2>10, <2>11, <2>12 DEF ProxyInv
<1> QED
  BY <1>3, <1>4 DEF ConsoleInv

LEMMA RunEndsKeeps ==
    ASSUME ConsoleInv, NEW p \in Panes, NEW n \in Runs,
           RunFails(p, n) \/ SocketOpens(p, n) \/ ConnectTimesOut(p, n)
    PROVE  ConsoleInv'
<1>1. CASE RunFails(p, n)
  BY <1>1, EndKeeps DEF RunFails, At_
<1>2. CASE SocketOpens(p, n)
  BY <1>2, EndKeeps DEF SocketOpens, At_
<1>3. CASE ConnectTimesOut(p, n)
  BY <1>3, EndKeeps DEF ConnectTimesOut, At_
<1> QED
  BY <1>1, <1>2, <1>3

\* The proxy is handed over to the pane, which holds none, or given up.
LEMMA StartedKeeps ==
    ASSUME ConsoleInv, NEW p \in Panes, NEW n \in Runs, ProxyStarted(p, n)
    PROVE  ConsoleInv'
<1>0. runs[p][n].pc = "started" /\ None \notin Runs
  BY DEF ProxyStarted, None, Runs, At_
<1>1. CASE Cancelled(p, n)
  <2>1. /\ runs' \in [Panes -> [Runs -> Run]]
        /\ \A q \in Panes, m \in Runs :
             /\ runs'[q][m].pc = IF q = p /\ m = n THEN "ended" ELSE runs[q][m].pc
             /\ runs'[q][m].cancelled = runs[q][m].cancelled
    <3>1. Step(p, n, "ended") /\ "ended" \in Place
      BY <1>1 DEF ProxyStarted, Place
    <3> QED
      BY <3>1, StepRuns DEF ConsoleInv, ConsoleTypes
  <2>2. /\ open' = open /\ proxyIdRef' = proxyIdRef /\ registered' = registered
        /\ runs[p][n].cancelled
        /\ \A q \in Panes, m \in Runs :
             <<q, m>> \in stops' <=> <<q, m>> \in stops \/ (q = p /\ m = n)
    BY <1>1 DEF ProxyStarted, proxyVars, Cancelled
  <2>3. ConsoleTypes'
    BY <1>1, <2>1 DEF ProxyStarted, ConsoleInv, ConsoleTypes, proxyVars
  <2>4. ProxyInv'
    <3>0. /\ ConsoleTypes /\ LiveInOpen /\ OneLive /\ HeldByLive /\ StopsArePast
          /\ ProxiesAccounted /\ StartedListens /\ ImportsAreScreens /\ TerminalsBridged
      BY DEF ConsoleInv, ProxyInv
    <3>1. \A q \in Panes, m \in Runs : Live(q, m)' <=> Live(q, m)
      BY <1>0, <2>1, <2>2 DEF Live, At_, Cancelled
    <3>2. Past(p, n)' /\ (\A q \in Panes, m \in Runs : Past(q, m) => Past(q, m)')
      BY <1>0, <2>1, <2>2 DEF Past
    <3>3. \A q \in Panes, m \in Runs :
            At_(q, m, "started") => At_(q, m, "started")' \/ (q = p /\ m = n)
      BY <1>0, <2>1, <2>2 DEF At_
    <3>4. \A q \in Panes, m \in Runs :
            At_(q, m, "opening")' /\ ~Cancelled(q, m)' => At_(q, m, "opening") /\ ~Cancelled(q, m)
      BY <1>0, <2>1, <2>2 DEF At_, Cancelled
    <3>5. LiveInOpen'
      BY <3>0, <3>1, <2>2 DEF LiveInOpen
    <3>6. OneLive'
      BY <3>0, <3>1, <2>2 DEF OneLive
    <3>7. HeldByLive'
      BY <3>0, <3>1, <3>2, <2>2 DEF HeldByLive, ConsoleTypes
    <3>8. StopsArePast'
      BY <3>0, <3>2, <2>2 DEF StopsArePast, HeldByLive
    <3>9. ProxiesAccounted'
      BY <3>0, <3>2, <3>3, <2>2 DEF ProxiesAccounted
    <3>10. StartedListens'
      BY <3>0, <1>0, <2>1, <2>2 DEF StartedListens, At_
    <3>11. ImportsAreScreens'
      BY <3>0, <1>0, <2>1, <2>2 DEF ImportsAreScreens, At_
    <3>12. TerminalsBridged'
      BY <1>1, <3>0, <3>4, <2>2 DEF TerminalsBridged
    <3> QED
      BY <3>5, <3>6, <3>7, <3>8, <3>9, <3>10, <3>11, <3>12 DEF ProxyInv
  <2> QED
    BY <2>3, <2>4 DEF ConsoleInv
<1>2. CASE ~Cancelled(p, n)
  <2> DEFINE to == IF p \in Screen THEN "import" ELSE "opening"
  <2>1. /\ Step(p, n, to) /\ to \in Place
        /\ to \in {"import", "opening"} /\ (to = "import" => p \in Screen)
    BY <1>2, ConnectTypes DEF Place, ProxyStarted, ConsoleInv
  <2> HIDE DEF to
  <2>2. /\ runs' \in [Panes -> [Runs -> Run]]
        /\ \A q \in Panes, m \in Runs :
             /\ runs'[q][m].pc = IF q = p /\ m = n THEN to ELSE runs[q][m].pc
             /\ runs'[q][m].cancelled = runs[q][m].cancelled
    BY <2>1, StepRuns DEF ConsoleInv, ConsoleTypes
  <2>3. /\ open' = open /\ stops' = stops /\ registered' = registered
        /\ ~runs[p][n].cancelled
        /\ \A q \in Panes : proxyIdRef'[q] = IF q = p THEN n ELSE proxyIdRef[q]
    BY <1>2 DEF ProxyStarted, proxyVars, Cancelled, ConsoleInv, ConsoleTypes
  <2>4. ConsoleTypes'
    BY <1>2, <2>2, ConnectTypes DEF ProxyStarted, ConsoleInv, ConsoleTypes, proxyVars
  <2>5. proxyIdRef[p] = None
    BY <1>0, <2>3 DEF ConsoleInv, ConsoleTypes, ProxyInv, HeldByLive, OneLive, Live, Past, At_,
       Cancelled
  <2>6. Live(p, n) /\ <<p, n>> \in registered /\ <<p, n>> \notin stops
    BY <1>0, <2>3 DEF ConsoleInv, ProxyInv, StopsArePast, StartedListens, Live, Past, At_, Cancelled
  <2>7. ProxyInv'
    <3>0. /\ ConsoleTypes /\ LiveInOpen /\ OneLive /\ HeldByLive /\ StopsArePast
          /\ ProxiesAccounted /\ StartedListens /\ ImportsAreScreens /\ TerminalsBridged
      BY DEF ConsoleInv, ProxyInv
    <3>1. \A q \in Panes, m \in Runs : Live(q, m)' <=> Live(q, m)
      BY <1>0, <2>1, <2>2, <2>3 DEF Live, At_, Cancelled
    <3>2. Past(p, n)' /\ (\A q \in Panes, m \in Runs : Past(q, m) => Past(q, m)')
      BY <1>0, <2>1, <2>2, <2>3 DEF Past
    <3>3. \A q \in Panes, m \in Runs :
            At_(q, m, "started") => At_(q, m, "started")' \/ (q = p /\ m = n)
      BY <1>0, <2>1, <2>2, <2>3 DEF At_
    <3>4. \A q \in Panes, m \in Runs :
            At_(q, m, "opening")' /\ ~Cancelled(q, m)' =>
               \/ At_(q, m, "opening") /\ ~Cancelled(q, m)
               \/ q = p /\ m = n
      BY <1>0, <2>1, <2>2, <2>3 DEF At_, Cancelled
    <3>5. LiveInOpen'
      BY <3>0, <3>1, <2>3, <2>5, <2>6 DEF LiveInOpen
    <3>6. OneLive'
      BY <3>0, <3>1, <2>3, <2>5, <2>6 DEF OneLive
    <3>7. HeldByLive'
      BY <3>0, <3>1, <3>2, <2>3, <2>5, <2>6 DEF HeldByLive, ConsoleTypes
    <3>8. StopsArePast'
      BY <3>0, <3>2, <2>3, <2>5, <2>6 DEF StopsArePast, HeldByLive
    <3>9. ProxiesAccounted'
      BY <1>0, <3>0, <3>2, <3>3, <2>3, <2>5, <2>6 DEF ProxiesAccounted
    <3>10. StartedListens'
      BY <3>0, <1>0, <2>1, <2>2, <2>3 DEF StartedListens, At_
    <3>11. ImportsAreScreens'
      BY <3>0, <1>0, <2>1, <2>2, <2>3 DEF ImportsAreScreens, At_
    <3>13. stops' = stops /\ registered' = registered
      BY <2>3
    <3>12. TerminalsBridged'
      BY <3>0, <3>4, <3>13, <2>6 DEF TerminalsBridged
    <3> QED
      BY <3>5, <3>6, <3>7, <3>8, <3>9, <3>10, <3>11, <3>12 DEF ProxyInv
  <2> QED
    BY <2>4, <2>7 DEF ConsoleInv
<1> QED
  BY <1>1, <1>2

LEMMA ImportedKeeps ==
    ASSUME ConsoleInv, NEW p \in Panes, NEW n \in Runs, Imported(p, n)
    PROVE  ConsoleInv'
<1>0. runs[p][n].pc = "import" /\ p \in Screen /\ {"ended", "opening"} \subseteq Place
  BY DEF Imported, ConsoleInv, ProxyInv, ImportsAreScreens, Place, At_
<1>1. CASE Cancelled(p, n)
  <2>1. Teardown(p) /\ Step(p, n, "ended") /\ open' = open /\ registered' = registered
    BY <1>1 DEF Imported, proxyVars
  <2>2. /\ runs' \in [Panes -> [Runs -> Run]]
        /\ \A q \in Panes, m \in Runs :
             /\ runs'[q][m].pc = IF q = p /\ m = n THEN "ended" ELSE runs[q][m].pc
             /\ runs'[q][m].cancelled = runs[q][m].cancelled
    BY <1>0, <2>1, StepRuns DEF ConsoleInv, ConsoleTypes
  <2>3. /\ proxyIdRef' \in [Panes -> Runs \cup {None}] /\ proxyIdRef'[p] = None
        /\ \A q \in Panes : q # p => proxyIdRef'[q] = proxyIdRef[q]
        /\ \A q \in Panes, m \in Runs :
             <<q, m>> \in stops' <=> <<q, m>> \in stops \/ (q = p /\ m = proxyIdRef[p])
        /\ None \notin Runs
    BY <2>1, TeardownTypes DEF ConsoleInv, None, Runs
  <2>4. ConsoleTypes'
    BY <2>1, <2>2, TeardownTypes DEF Imported, ConsoleInv, ConsoleTypes, proxyVars
  <2>5. ProxyInv'
    <3>0. /\ ConsoleTypes /\ LiveInOpen /\ OneLive /\ HeldByLive /\ StopsArePast
          /\ ProxiesAccounted /\ StartedListens /\ ImportsAreScreens /\ TerminalsBridged
      BY DEF ConsoleInv, ProxyInv
    <3>1. \A q \in Panes, m \in Runs : Live(q, m)' <=> Live(q, m)
      BY <1>0, <2>1, <2>2, <2>3 DEF Live, At_, Cancelled
    <3>2. \A q \in Panes, m \in Runs : Past(q, m) => Past(q, m)'
      BY <1>0, <2>1, <2>2, <2>3 DEF Past
    <3>3. \A q \in Panes, m \in Runs :
            At_(q, m, "started") => At_(q, m, "started")'
      BY <1>0, <2>1, <2>2, <2>3 DEF At_
    <3>4. \A q \in Panes, m \in Runs :
            At_(q, m, "opening")' /\ ~Cancelled(q, m)' => At_(q, m, "opening") /\ ~Cancelled(q, m)
      BY <1>0, <2>1, <2>2, <2>3 DEF At_, Cancelled
    <3>5. LiveInOpen'
      BY <3>0, <3>1, <1>0, <2>1, <2>3 DEF LiveInOpen
    <3>6. OneLive'
      BY <3>0, <3>1, <1>0, <2>1, <2>3 DEF OneLive
    <3>7. HeldByLive'
      BY <3>0, <3>1, <3>2, <1>0, <2>1, <2>3 DEF HeldByLive, ConsoleTypes
    <3>8. StopsArePast'
      BY <3>0, <3>2, <1>0, <2>1, <2>3 DEF StopsArePast, HeldByLive
    <3>9. ProxiesAccounted'
      <4>1. registered' = registered
        BY <2>1
      <4> QED
        BY <3>0, <3>2, <3>3, <2>3, <4>1 DEF ProxiesAccounted
    <3>10. StartedListens'
      BY <3>0, <1>0, <2>1, <2>2, <2>3 DEF StartedListens, At_
    <3>11. ImportsAreScreens'
      BY <3>0, <1>0, <2>1, <2>2, <2>3 DEF ImportsAreScreens, At_
    <3>12. TerminalsBridged'
      BY <3>0, <3>4, <1>0, <2>1, <2>3 DEF TerminalsBridged
    <3> QED
      BY <3>5, <3>6, <3>7, <3>8, <3>9, <3>10, <3>11, <3>12 DEF ProxyInv
  <2> QED
    BY <2>4, <2>5 DEF ConsoleInv
<1>2. CASE ~Cancelled(p, n)
  <2>1. Step(p, n, "opening")
    BY <1>2 DEF Imported
  <2>2. /\ runs' \in [Panes -> [Runs -> Run]]
        /\ \A q \in Panes, m \in Runs :
             /\ runs'[q][m].pc = IF q = p /\ m = n THEN "opening" ELSE runs[q][m].pc
             /\ runs'[q][m].cancelled = runs[q][m].cancelled
    BY <1>0, <2>1, StepRuns DEF ConsoleInv, ConsoleTypes
  <2>3. open' = open /\ proxyIdRef' = proxyIdRef /\ stops' = stops /\ registered' = registered
    BY <1>2 DEF Imported, proxyVars
  <2>4. ConsoleTypes'
    <3>1. <<p, n>> \in Panes \X Runs
      OBVIOUS
    <3>2. socketRef' \in [Panes -> Runs \cup {None}] /\ sockets' \subseteq Panes \X Runs
      BY <1>2, <3>1 DEF Imported, ConsoleInv, ConsoleTypes
    <3> QED
      BY <1>2, <2>2, <3>2 DEF Imported, ConsoleInv, ConsoleTypes, proxyVars
  <2>5. ProxyInv'
    <3>0. /\ ConsoleTypes /\ LiveInOpen /\ OneLive /\ HeldByLive /\ StopsArePast
          /\ ProxiesAccounted /\ StartedListens /\ ImportsAreScreens /\ TerminalsBridged
      BY DEF ConsoleInv, ProxyInv
    <3>1. \A q \in Panes, m \in Runs : Live(q, m)' <=> Live(q, m)
      BY <1>0, <2>2, <2>3 DEF Live, At_, Cancelled
    <3>2. \A q \in Panes, m \in Runs : Past(q, m) => Past(q, m)'
      BY <1>0, <2>2, <2>3 DEF Past
    <3>3. \A q \in Panes, m \in Runs :
            At_(q, m, "started") => At_(q, m, "started")'
      BY <1>0, <2>2, <2>3 DEF At_
    <3>4. \A q \in Panes, m \in Runs :
            At_(q, m, "opening")' /\ ~Cancelled(q, m)' =>
               \/ At_(q, m, "opening") /\ ~Cancelled(q, m)
               \/ q = p /\ m = n
      BY <1>0, <2>2, <2>3 DEF At_, Cancelled
    <3>5. LiveInOpen'
      BY <3>0, <3>1, <1>0, <2>3 DEF LiveInOpen
    <3>6. OneLive'
      BY <3>0, <3>1, <1>0, <2>3 DEF OneLive
    <3>7. HeldByLive'
      BY <3>0, <3>1, <3>2, <1>0, <2>3 DEF HeldByLive, ConsoleTypes
    <3>8. StopsArePast'
      BY <3>0, <3>2, <1>0, <2>3 DEF StopsArePast, HeldByLive
    <3>9. ProxiesAccounted'
      BY <3>0, <3>2, <3>3, <1>0, <2>3 DEF ProxiesAccounted
    <3>10. StartedListens'
      BY <3>0, <1>0, <2>2, <2>3 DEF StartedListens, At_
    <3>11. ImportsAreScreens'
      BY <3>0, <1>0, <2>2, <2>3 DEF ImportsAreScreens, At_
    <3>12. TerminalsBridged'
      BY <3>0, <3>4, <1>0, <2>3 DEF TerminalsBridged
    <3> QED
      BY <3>5, <3>6, <3>7, <3>8, <3>9, <3>10, <3>11, <3>12 DEF ProxyInv
  <2> QED
    BY <2>4, <2>5 DEF ConsoleInv
<1> QED
  BY <1>1, <1>2

LEMMA StartKeeps ==
    ASSUME ConsoleInv, NEW p \in Panes, NEW n \in Runs, StartProxy(p, n)
    PROVE  ConsoleInv'
<1>1. Step(p, n, "started") /\ "started" \in Place /\ runs[p][n].pc = "start"
  BY DEF StartProxy, Place, At_
<1>2. /\ runs' \in [Panes -> [Runs -> Run]]
      /\ \A q \in Panes, m \in Runs :
           /\ runs'[q][m].pc = IF q = p /\ m = n THEN "started" ELSE runs[q][m].pc
           /\ runs'[q][m].cancelled = runs[q][m].cancelled
  BY <1>1, StepRuns DEF ConsoleInv, ConsoleTypes
<1>3. /\ open' = open /\ proxyIdRef' = proxyIdRef /\ stops' = stops
      /\ registered' = registered \cup {<<p, n>>}
  BY DEF StartProxy
<1>4. ConsoleTypes'
  BY <1>2 DEF StartProxy, ConsoleInv, ConsoleTypes
<1>5. ProxyInv'
  <2>0. /\ ConsoleTypes /\ LiveInOpen /\ OneLive /\ HeldByLive /\ StopsArePast
        /\ ProxiesAccounted /\ StartedListens /\ ImportsAreScreens /\ TerminalsBridged
    BY DEF ConsoleInv, ProxyInv
  <2>1. \A q \in Panes, m \in Runs : Live(q, m)' <=> Live(q, m)
    BY <1>1, <1>2, <1>3 DEF Live, At_, Cancelled
  <2>2. \A q \in Panes, m \in Runs : Past(q, m) => Past(q, m)'
    BY <1>1, <1>2, <1>3 DEF Past
  <2>3. \A q \in Panes, m \in Runs : At_(q, m, "started") => At_(q, m, "started")'
    BY <1>1, <1>2, <1>3 DEF At_
  <2>4. \A q \in Panes, m \in Runs :
          At_(q, m, "opening")' /\ ~Cancelled(q, m)' => At_(q, m, "opening") /\ ~Cancelled(q, m)
    BY <1>1, <1>2, <1>3 DEF At_, Cancelled
  <2>5. LiveInOpen'
    BY <2>0, <2>1, <1>1, <1>2, <1>3 DEF LiveInOpen
  <2>6. OneLive'
    BY <2>0, <2>1, <1>1, <1>2, <1>3 DEF OneLive
  <2>7. HeldByLive'
    BY <2>0, <2>1, <2>2, <1>1, <1>2, <1>3 DEF HeldByLive, ConsoleTypes
  <2>8. StopsArePast'
    BY <2>0, <2>2, <1>1, <1>2, <1>3 DEF StopsArePast, HeldByLive
  <2>9. ProxiesAccounted'
    <3>1. At_(p, n, "started")'
      BY <1>2 DEF At_
    <3>2. \A q \in Panes, m \in Runs :
            <<q, m>> \in registered' => <<q, m>> \in registered \/ (q = p /\ m = n)
      BY <1>3
    <3>3. proxyIdRef' = proxyIdRef /\ stops' = stops
      BY <1>3
    <3> QED
      BY <2>0, <2>2, <2>3, <3>1, <3>2, <3>3 DEF ProxiesAccounted
  <2>10. StartedListens'
    BY <2>0, <1>1, <1>2, <1>3 DEF StartedListens, At_
  <2>11. ImportsAreScreens'
    BY <2>0, <1>1, <1>2, <1>3 DEF ImportsAreScreens, At_
  <2>12. TerminalsBridged'
    BY <2>0, <2>4, <1>1, <1>2, <1>3 DEF TerminalsBridged
  <2> QED
    BY <2>5, <2>6, <2>7, <2>8, <2>9, <2>10, <2>11, <2>12 DEF ProxyInv
<1> QED
  BY <1>4, <1>5 DEF ConsoleInv

\* Steps of sockets and connections.
LEMMA TrafficKeeps ==
    ASSUME ConsoleInv, UNCHANGED <<open, runs, proxyIdRef, socketRef, stops, registered>>,
           sockets' \subseteq sockets,
           connections' \subseteq [of : Panes \X Runs, listed : BOOLEAN]
    PROVE  ConsoleInv'
  BY DEF ConsoleInv, ConsoleTypes, ProxyInv, LiveInOpen, OneLive, HeldByLive,
     StopsArePast, ProxiesAccounted, StartedListens, ImportsAreScreens,
     TerminalsBridged, Live, Past, At_, Cancelled

LEMMA StopKeeps ==
    ASSUME ConsoleInv, NEW id \in stops, StopProxy(id)
    PROVE  ConsoleInv'
<1>1. id \in Panes \X Runs /\ id \in stops
  BY DEF ConsoleInv, ConsoleTypes
<1>2. /\ open' = open /\ runs' = runs /\ proxyIdRef' = proxyIdRef
      /\ stops' = stops \ {id} /\ registered' = registered \ {id}
  BY DEF StopProxy
<1>3. ConsoleTypes'
  BY DEF StopProxy, ConsoleInv, ConsoleTypes
<1>4. ProxyInv'
  <2>0. /\ ConsoleTypes /\ LiveInOpen /\ OneLive /\ HeldByLive /\ StopsArePast
        /\ ProxiesAccounted /\ StartedListens /\ ImportsAreScreens /\ TerminalsBridged
    BY DEF ConsoleInv, ProxyInv
  <2>1. \A q \in Panes, m \in Runs : Live(q, m)' <=> Live(q, m)
    BY <1>1, <1>2 DEF Live, At_, Cancelled
  <2>2. \A q \in Panes, m \in Runs : Past(q, m) => Past(q, m)'
    BY <1>1, <1>2 DEF Past
  <2>3. \A q \in Panes, m \in Runs : At_(q, m, "started") => At_(q, m, "started")'
    BY <1>1, <1>2 DEF At_
  <2>4. \A q \in Panes, m \in Runs :
          At_(q, m, "opening")' /\ ~Cancelled(q, m)' => At_(q, m, "opening") /\ ~Cancelled(q, m)
    BY <1>1, <1>2 DEF At_, Cancelled
  <2>5. LiveInOpen'
    BY <2>0, <2>1, <1>1, <1>2 DEF LiveInOpen
  <2>6. OneLive'
    BY <2>0, <2>1, <1>1, <1>2 DEF OneLive
  <2>7. HeldByLive'
    BY <2>0, <2>1, <2>2, <1>1, <1>2 DEF HeldByLive, ConsoleTypes
  <2>8. StopsArePast'
    BY <2>0, <2>2, <1>1, <1>2 DEF StopsArePast, HeldByLive
  <2>9. ProxiesAccounted'
    <3>1. \A q \in Panes, m \in Runs :
            /\ <<q, m>> \in registered' => <<q, m>> \in registered /\ <<q, m>> # id
            /\ <<q, m>> \in stops /\ <<q, m>> # id => <<q, m>> \in stops'
      BY <1>2
    <3>2. proxyIdRef' = proxyIdRef
      BY <1>2
    <3> QED
      BY <2>0, <2>2, <2>3, <3>1, <3>2 DEF ProxiesAccounted
  <2>10. StartedListens'
    BY <2>0, <1>1, <1>2 DEF StartedListens, StopsArePast, Past, At_
  <2>11. ImportsAreScreens'
    BY <2>0, <1>1, <1>2 DEF ImportsAreScreens, At_
  <2>12. TerminalsBridged'
    BY <2>0, <2>4, <1>1, <1>2 DEF TerminalsBridged
  <2> QED
    BY <2>5, <2>6, <2>7, <2>8, <2>9, <2>10, <2>11, <2>12 DEF ProxyInv
<1> QED
  BY <1>3, <1>4 DEF ConsoleInv

LEMMA ConsoleStep == ConsoleInv /\ [ConsoleNext]_consoleVars => ConsoleInv'
<1> SUFFICES ASSUME ConsoleInv, [ConsoleNext]_consoleVars
             PROVE  ConsoleInv'
  OBVIOUS
<1>1. ASSUME NEW p \in Panes, PaneStep(p)
      PROVE  ConsoleInv'
  <2>1. ASSUME NEW n \in Runs, SocketEnds(p, n)
        PROVE  ConsoleInv'
    BY <2>1, TrafficKeeps DEF SocketEnds, proxyVars, ConsoleInv, ConsoleTypes
  <2>2. ASSUME NEW n \in Runs, Accept(p, n)
        PROVE  ConsoleInv'
    <3>1. [of |-> <<p, n>>, listed |-> FALSE] \in [of : Panes \X Runs, listed : BOOLEAN]
      OBVIOUS
    <3>2. connections' \subseteq [of : Panes \X Runs, listed : BOOLEAN]
      BY <2>2, <3>1 DEF Accept, ConsoleInv, ConsoleTypes
    <3> QED
      BY <2>2, <3>2, TrafficKeeps DEF Accept
  <2> QED
    BY <1>1, <2>1, <2>2, MountKeeps, ReconnectKeeps, UnmountKeeps, TicketKeeps, RunEndsKeeps,
       StartedKeeps, ImportedKeeps, StartKeeps DEF PaneStep
<1>2. ASSUME NEW c \in connections, ListConnection(c) \/ ConnectionEnds(c)
      PROVE  ConsoleInv'
  <2>1. c \in [of : Panes \X Runs, listed : BOOLEAN]
    BY DEF ConsoleInv, ConsoleTypes
  <2>2. connections' \subseteq [of : Panes \X Runs, listed : BOOLEAN]
    BY <1>2, <2>1 DEF ListConnection, ConnectionEnds, ConsoleInv, ConsoleTypes
  <2> QED
    BY <1>2, <2>2, TrafficKeeps DEF ListConnection, ConnectionEnds
<1>3. CASE UNCHANGED consoleVars
  BY <1>3, TrafficKeeps DEF consoleVars, ConsoleInv, ConsoleTypes
<1> QED
  BY <1>1, <1>2, <1>3, StopKeeps DEF ConsoleNext

LEMMA ConsoleStart == ConsoleInit => ConsoleInv
  BY DEF ConsoleInit, ConsoleInv, ConsoleTypes, ProxyInv, LiveInOpen, OneLive, HeldByLive,
     StopsArePast, ProxiesAccounted, StartedListens, ImportsAreScreens,
     TerminalsBridged, Live, Past, At_, Cancelled, NoRun, Run, Place

-----------------------------------------------------------------------------
(* The theorems                                                            *)

\* Every variable keeps values of its kind.
THEOREM TypeCorrect == ConsoleSpec => []ConsoleTypeOK
<1>1. ConsoleInv => ConsoleTypeOK
  <2> SUFFICES ASSUME ConsoleTypes PROVE ConsoleTypeOK
    BY DEF ConsoleInv
  <2>1. ASSUME NEW p \in Panes, NEW n \in Runs
        PROVE  runs[p][n].pc \in Place
    <3>1. runs[p][n] \in Run
      BY DEF ConsoleTypes
    <3> QED
      BY <3>1 DEF Run
  <2>2. ASSUME NEW c \in connections
        PROVE  c.of \in Panes \X Runs /\ c.listed \in BOOLEAN
    BY DEF ConsoleTypes
  <2>3. ASSUME NEW p \in Panes
        PROVE  proxyIdRef[p] \in Runs \cup {None} /\ socketRef[p] \in Runs \cup {None}
    BY DEF ConsoleTypes
  <2>4. open \subseteq Panes /\ UNION {sockets, stops, registered} \subseteq Panes \X Runs
    BY DEF ConsoleTypes
  <2> QED
    BY <2>1, <2>2, <2>3, <2>4 DEF ConsoleTypeOK, Place
<1> QED
  BY ConsoleStart, ConsoleStep, <1>1, PTL DEF ConsoleSpec

\* A proxy is never left behind: with its run over it is held by its open pane or
\* being stopped; and no late run stops the proxy of a terminal that is connecting.
THEOREM NoProxyIsLeft == ConsoleSpec => []NoProxyOutlivesItsPane
<1>1. ConsoleInv => NoProxyOutlivesItsPane
  <2> SUFFICES ASSUME ConsoleInv PROVE NoProxyOutlivesItsPane
    OBVIOUS
  <2>1. ASSUME NEW p \in Panes, NEW n \in Runs, <<p, n>> \in registered, Over(p, n),
               <<p, n>> \notin stops
        PROVE  p \in open /\ proxyIdRef[p] = n
    <3>1. None \notin Runs
      BY DEF None, Runs
    <3> QED
      BY <2>1, <3>1 DEF ConsoleInv, ProxyInv, ProxiesAccounted, HeldByLive, LiveInOpen, Over,
         Past, At_
  <2> QED
    <3>1. ASSUME NEW id \in registered, Over(id[1], id[2]), id \notin stops
          PROVE  id[1] \in open /\ proxyIdRef[id[1]] = id[2]
      <4>1. id \in Panes \X Runs
        BY DEF ConsoleInv, ConsoleTypes
      <4>2. id[1] \in Panes /\ id[2] \in Runs /\ id = <<id[1], id[2]>>
        BY <4>1
      <4> QED
        BY <2>1, <3>1, <4>2
    <3>2. ASSUME NEW p \in Bridged \ Screen, NEW n \in Runs, At_(p, n, "opening"), ~Cancelled(p, n)
          PROVE  <<p, n>> \in registered
      BY <3>2, ProxmuxConsoleAssumption DEF ConsoleInv, ProxyInv, TerminalsBridged
    <3> QED
      BY <3>1, <3>2 DEF NoProxyOutlivesItsPane
<1> QED
  BY ConsoleStart, ConsoleStep, <1>1, PTL DEF ConsoleSpec

=============================================================================
