---------------------------- MODULE SessionInput ----------------------------
(***************************************************************************)
(* How keystrokes reach a session's PTY.                                   *)
(*                                                                         *)
(* The webview side (tauri-api.ts, features/session-input-queue.ts) keeps  *)
(* one queue per session, coalesces single characters that wait, and lets  *)
(* at most one drain loop per session talk to the backend.  The backend    *)
(* side (session.rs) looks the session up and writes to its PTY.           *)
(*                                                                         *)
(* Inputs are numbered per session: the n-th call of sendInput(s, _) is    *)
(* the input n of s, so a queue entry is the interval lo..hi of the inputs *)
(* whose data it concatenates, and order, loss and duplication are visible *)
(* in the numbers that reach `pty`.                                        *)
(*                                                                         *)
(* One action is one macrotask of the webview's event loop or one step of  *)
(* a backend command.  Commands run on worker threads                      *)
(* (docs/performance.md), so send_input, which gives the map's lock back   *)
(* before it writes, is two steps, and a close may come between them.      *)
(***************************************************************************)
EXTENDS Integers, Sequences

CONSTANTS Sessions,   \* ids of the sessions that were started
          MaxInputs   \* bound: sendInput calls per session

ASSUME MaxInputsAssumption == MaxInputs \in Nat

VARIABLES
    sent,       \* sent[s]: number of sendInput(s, _) calls made so far
    queue,      \* queue[s]: queuesBySession, waiting entries, oldest first
    draining,   \* draining[s]: s is in drainingSessions
    timer,      \* timer[s]: s has an entry in scheduledDrainTimers
    inflight,   \* inflight[s]: send_input requests of drain loops not settled
    resolved,   \* resolved[s]: inputs whose promise was resolved
    rejected,   \* rejected[s]: inputs whose promise was rejected
    pty,        \* pty[s]: inputs the child of s received, in that order
    registered, \* registered: ids in SessionState.sessions
    alive       \* alive: sessions whose child process runs

uiVars == <<sent, queue, draining, timer, resolved, rejected>>
backendVars == <<pty, registered, alive>>
vars == <<sent, queue, draining, timer, inflight, resolved, rejected,
          pty, registered, alive>>

Entry == {e \in [lo : Nat, hi : Nat, coalescible : BOOLEAN] : e.lo <= e.hi}
Request ==
    [lo : Nat, hi : Nat, coalescible : BOOLEAN, phase : {"invoked", "found", "ok", "err"}]

Invoke(e) ==
    [lo |-> e.lo, hi |-> e.hi, coalescible |-> e.coalescible, phase |-> "invoked"]

(* Requests the backend has not answered. *)
Open(s) == {r \in inflight[s] : r.phase \in {"invoked", "found"}}

-----------------------------------------------------------------------------

(* A single character joins a waiting entry of single characters; anything *)
(* else (a paste, an escape sequence, "yes\n") gets an entry of its own.   *)
CanCoalesce(q, single) ==
    /\ q # <<>>
    /\ q[Len(q)].coalescible
    /\ single

(* Faulty: the new entry does not hold the input's data yet. *)
EnqueueEmpty(q, n, single) ==
    IF CanCoalesce(q, single)
    THEN [q EXCEPT ![Len(q)] = [@ EXCEPT !.hi = n]]
    ELSE Append(q, [lo |-> n, hi |-> n - 1, coalescible |-> single])

EnqueueEntry(q, n, single) ==
    IF CanCoalesce(q, single)
    THEN [q EXCEPT ![Len(q)] = [@ EXCEPT !.hi = n]]
    ELSE Append(q, [lo |-> n, hi |-> n, coalescible |-> single])

(* drainSessionInputQueue for the sessions of T, whose queues are now q:   *)
(* nothing if a drain loop runs already, else the loop's first round takes *)
(* the oldest entry and sends it, or ends at once on an empty queue.       *)
(* Faulty: drainingSessions is not consulted. *)
StartsAlways(T, q) == {s \in T : q[s] # <<>>}

Starts(T, q) == {s \in T : ~draining[s] /\ q[s] # <<>>}

StartDrain(T, q) ==
    /\ queue' = [s \in Sessions |-> IF s \in Starts(T, q) THEN Tail(q[s]) ELSE q[s]]
    /\ draining' = [s \in Sessions |-> draining[s] \/ s \in Starts(T, q)]
    /\ inflight' = [s \in Sessions |->
                       IF s \in Starts(T, q)
                       THEN inflight[s] \cup {Invoke(Head(q[s]))}
                       ELSE inflight[s]]

(* sendInput for every session of T in one event handler: one target for a *)
(* keystroke or the answer to a host-key prompt, several when broadcasting.*)
(* It schedules the micro-batch timer and then drains without waiting.     *)
SendInput(T, single) ==
    /\ \A s \in T : sent[s] < MaxInputs
    /\ sent' = [s \in Sessions |-> IF s \in T THEN sent[s] + 1 ELSE sent[s]]
    /\ timer' = [s \in Sessions |-> timer[s] \/ (s \in T /\ ~draining[s])]
    /\ StartDrain(T, [s \in Sessions |->
                         IF s \in T THEN EnqueueEntry(queue[s], sent[s] + 1, single)
                                    ELSE queue[s]])
    /\ UNCHANGED <<resolved, rejected, backendVars>>

(* The micro-batch timer fires. *)
TimerFires(s) ==
    /\ timer[s]
    /\ timer' = [timer EXCEPT ![s] = FALSE]
    /\ StartDrain({s}, queue)
    /\ UNCHANGED <<sent, resolved, rejected, backendVars>>

(* Faulty: an error of one request ends the loop. *)
LoopEndsOnError(s, r) == queue[s] = <<>> \/ r.phase = "err"

LoopEnds(s, r) == queue[s] = <<>>

(* The answer to request r arrives: its promises are settled, and the loop *)
(* goes on with the next entry, whether the request succeeded or not, or   *)
(* ends when none waits.                                                   *)
RequestSettled(s, r) ==
    /\ r \in inflight[s]
    /\ r \notin Open(s)
    /\ resolved' = [resolved EXCEPT ![s] =
                       IF r.phase = "ok" THEN @ \cup (r.lo .. r.hi) ELSE @]
    /\ rejected' = [rejected EXCEPT ![s] =
                       IF r.phase = "err" THEN @ \cup (r.lo .. r.hi) ELSE @]
    /\ IF LoopEnds(s, r)
       THEN /\ draining' = [draining EXCEPT ![s] = FALSE]
            /\ inflight' = [inflight EXCEPT ![s] = @ \ {r}]
            /\ UNCHANGED queue
       ELSE /\ inflight' = [inflight EXCEPT ![s] =
                               (@ \ {r}) \cup {Invoke(Head(queue[s]))}]
            /\ queue' = [queue EXCEPT ![s] = Tail(@)]
            /\ UNCHANGED draining
    /\ UNCHANGED <<sent, timer, backendVars>>

-----------------------------------------------------------------------------

Becomes(s, r, phase) ==
    inflight' = [inflight EXCEPT ![s] = (@ \ {r}) \cup {[r EXCEPT !.phase = phase]}]

(* The inputs lo..hi as a sequence. *)
Block(lo, hi) == [i \in 1 .. hi - lo + 1 |-> lo + i - 1]

(* Faulty: the PTY's writer is used as long as the child runs. *)
FindsAlive(s) == s \in alive

(* The lookup in SessionState.sessions. *)
Finds(s) == s \in registered

(* send_input of the backend, first step: it takes a clone of the writer   *)
(* from the map.                                                           *)
LookUp(s, r) ==
    /\ r \in inflight[s]
    /\ r.phase = "invoked"
    /\ Finds(s)
    /\ Becomes(s, r, "found")
    /\ UNCHANGED <<uiVars, backendVars>>

(* Second step: it writes to the PTY, wherever the id is by now.  A write  *)
(* whose child has gone may fail after part of the data was taken          *)
(* (write_all, flush).                                                     *)
WriteInput(s, r) ==
    /\ r \in inflight[s]
    /\ r.phase = "found"
    /\ \/ /\ Becomes(s, r, "ok")
          /\ pty' = [pty EXCEPT ![s] = @ \o Block(r.lo, r.hi)]
       \/ /\ s \notin alive
          /\ Becomes(s, r, "err")
          /\ \E last \in r.lo - 1 .. r.hi :
                pty' = [pty EXCEPT ![s] = @ \o Block(r.lo, last)]
    /\ UNCHANGED <<uiVars, registered, alive>>

(* Faulty: input for an unknown session is dropped without an error. *)
DropInput(s, r) ==
    /\ r \in inflight[s]
    /\ r.phase = "invoked"
    /\ ~Finds(s)
    /\ Becomes(s, r, "ok")
    /\ UNCHANGED <<uiVars, backendVars>>

(* An id that is not registered is an error. *)
RefuseInput(s, r) ==
    /\ r \in inflight[s]
    /\ r.phase = "invoked"
    /\ ~Finds(s)
    /\ Becomes(s, r, "err")
    /\ UNCHANGED <<uiVars, backendVars>>

(* close: the id leaves the map first; killing the child may fail.         *)
Close(s) ==
    /\ s \in registered
    /\ registered' = registered \ {s}
    /\ \/ alive' = alive \ {s}
       \/ UNCHANGED alive
    /\ UNCHANGED <<uiVars, inflight, pty>>

(* The child exits by itself; nothing unregisters the session.             *)
ChildExits(s) ==
    /\ s \in alive
    /\ alive' = alive \ {s}
    /\ UNCHANGED <<uiVars, inflight, pty, registered>>

-----------------------------------------------------------------------------

Init ==
    /\ sent = [s \in Sessions |-> 0]
    /\ queue = [s \in Sessions |-> <<>>]
    /\ draining = [s \in Sessions |-> FALSE]
    /\ timer = [s \in Sessions |-> FALSE]
    /\ inflight = [s \in Sessions |-> {}]
    /\ resolved = [s \in Sessions |-> {}]
    /\ rejected = [s \in Sessions |-> {}]
    /\ pty = [s \in Sessions |-> <<>>]
    /\ registered = Sessions
    /\ alive = Sessions

UserInput == \E T \in SUBSET Sessions, single \in BOOLEAN : SendInput(T, single)

Respond(s) ==
    \E r \in inflight[s] : LookUp(s, r) \/ WriteInput(s, r) \/ RefuseInput(s, r)

Settle(s) == \E r \in inflight[s] : RequestSettled(s, r)

Next ==
    \/ UserInput
    \/ \E s \in Sessions :
          TimerFires(s) \/ Settle(s) \/ Respond(s) \/ Close(s) \/ ChildExits(s)

(* The event loop of the webview runs every callback, and the backend      *)
(* answers every command; users, closes and exits are under no obligation. *)
Fairness ==
    \A s \in Sessions : WF_vars(TimerFires(s)) /\ WF_vars(Settle(s)) /\ WF_vars(Respond(s))

Spec == Init /\ [][Next]_vars /\ Fairness
-----------------------------------------------------------------------------

(* Every variable holds values of its kind. *)
TypeOK ==
    /\ sent \in [Sessions -> Nat]
    /\ queue \in [Sessions -> Seq(Entry)]
    /\ draining \in [Sessions -> BOOLEAN]
    /\ timer \in [Sessions -> BOOLEAN]
    /\ inflight \in [Sessions -> SUBSET Request]
    /\ resolved \in [Sessions -> SUBSET Nat]
    /\ rejected \in [Sessions -> SUBSET Nat]
    /\ pty \in [Sessions -> Seq(Nat)]
    /\ registered \subseteq Sessions
    /\ alive \subseteq Sessions

(* A child sees its session's inputs in the order of the sendInput calls,  *)
(* none twice: coalescing, the timer and broadcasting never reorder or     *)
(* repeat what drainSessionInputQueue sends.                               *)
InOrder ==
    \A s \in Sessions : \A i, j \in 1 .. Len(pty[s]) : i < j => pty[s][i] < pty[s][j]

(* drainingSessions admits one drain loop per session: two requests of one *)
(* session are never under way, and the flag is up exactly while one is.   *)
OneLoop ==
    \A s \in Sessions :
        /\ \A r1, r2 \in inflight[s] : r1 = r2
        /\ draining[s] <=> inflight[s] # {}

(* No input is stranded: what waits in a queue always has a running loop   *)
(* that will take it, whatever failed before it.                           *)
NoneStranded == \A s \in Sessions : queue[s] # <<>> => inflight[s] # {}

(* Promises are honest and complete: a resolved sendInput means the child  *)
(* received the data, none is both resolved and rejected, and the settled  *)
(* ones are exactly those whose data is in no request and in no queue.     *)
PromisesHonest ==
    \A s \in Sessions :
        /\ resolved[s] \subseteq {pty[s][i] : i \in 1 .. Len(pty[s])}
        /\ resolved[s] \cap rejected[s] = {}
        /\ resolved[s] \cup rejected[s] =
              (1 .. sent[s]) \ (UNION ({r.lo .. r.hi : r \in inflight[s]}
                  \cup {queue[s][i].lo .. queue[s][i].hi : i \in 1 .. Len(queue[s])}))

(* Every keystroke is eventually delivered or reported as failed.          *)
EverySettles ==
    \A s \in Sessions : \A n \in 1 .. MaxInputs :
        sent[s] >= n ~> n \in resolved[s] \cup rejected[s]

(* docs/performance.md: "Single-character keystrokes are coalesced inside  *)
(* a 6 ms micro-batch window before crossing the IPC boundary."  A lone    *)
(* keystroke would then leave when its window ends, not with the call.     *)
KeystrokesWaitForWindow ==
    [][\A s \in Sessions :
          (~draining[s] /\ \E r \in inflight'[s] \ inflight[s] : r.coalescible)
             => timer[s] /\ ~timer'[s]]_vars

(* The last input that the backend has answered. *)
HandedOver(s) ==
    IF Open(s) # {}
    THEN (CHOOSE r \in inflight[s] : r \in Open(s)).lo - 1
    ELSE IF queue[s] # <<>> THEN Head(queue[s]).lo - 1 ELSE sent[s]

(* The last input that was answered or whose request holds the writer.     *)
HoldsWriter(s, r) == r \in inflight[s] /\ r.phase = "found"

Claimed(s) ==
    IF \E r \in inflight[s] : HoldsWriter(s, r)
    THEN (CHOOSE r \in inflight[s] : HoldsWriter(s, r)).hi
    ELSE HandedOver(s)

(* After close has taken the session out of the map, at most the request   *)
(* that held the writer at that moment still reaches the child: nothing    *)
(* that waited in the queue, was under way without the writer or is typed  *)
(* later does, even if the child was not killed.                           *)
SilentAfterClose ==
    \A s \in Sessions : \A n \in 0 .. MaxInputs :
        [](s \notin registered /\ Claimed(s) = n
             => [](\A i \in 1 .. Len(pty[s]) : pty[s][i] <= n))

Pipe == INSTANCE InputPipe
           WITH accepted <- sent,
                handed <- [s \in Sessions |-> HandedOver(s)],
                received <- pty

(* The queue, the drain loop and the backend together are one ordered pipe *)
(* per session.                                                            *)
ImplementsPipe == Pipe!PipeSpec
=============================================================================
