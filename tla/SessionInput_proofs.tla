------------------------- MODULE SessionInput_proofs -------------------------
(***************************************************************************)
(* Proofs about SessionInput for any set of sessions.                      *)
(*                                                                         *)
(* The inductive invariant says that, per session, the inputs accepted so  *)
(* far are cut into consecutive intervals: first the settled ones, then    *)
(* the request under way, then the entries of the queue, oldest first; and *)
(* that the PTY holds, in increasing order, inputs of the first two only.  *)
(***************************************************************************)
EXTENDS SessionInput, SequenceTheorems, TLAPS

Taken(s) == {pty[s][i] : i \in 1 .. Len(pty[s])}

(* The first input that waits in q; one past the latest if none does.      *)
FirstOf(q, last) == IF q = <<>> THEN last + 1 ELSE q[1].lo

(* The entries of q are consecutive intervals of inputs, up to `last`,     *)
(* and every input from the first of them on is in one.                    *)
Consecutive(q, last) ==
    /\ \A i \in 1 .. Len(q) - 1 : q[i + 1].lo = q[i].hi + 1
    /\ \A i, j \in 1 .. Len(q) : i < j => q[i].hi < q[j].lo
    /\ \A n \in FirstOf(q, last) .. last : \E i \in 1 .. Len(q) : n \in q[i].lo .. q[i].hi
    /\ q # <<>> => q[Len(q)].hi = last

(* One request at most, which ends where the queue begins.                 *)
OneRequest(s, q, last) ==
    /\ \A r1, r2 \in inflight[s] : r1 = r2
    /\ draining[s] <=> inflight[s] # {}
    /\ \A r \in inflight[s] : 1 <= r.lo /\ r.lo <= r.hi /\ r.hi + 1 = FirstOf(q, last)

(* Exactly the inputs before the request are settled.                      *)
SettledBefore(s, q, last) ==
    /\ inflight[s] = {} => resolved[s] \cup rejected[s] = 1 .. FirstOf(q, last) - 1
    /\ \A r \in inflight[s] : resolved[s] \cup rejected[s] = 1 .. r.lo - 1
    /\ resolved[s] \cap rejected[s] = {}

(* The PTY is increasing and holds nothing that is still to be written.    *)
PtyBehind(s, q, last) ==
    /\ \A i, j \in 1 .. Len(pty[s]) : i < j => pty[s][i] < pty[s][j]
    /\ \A i \in 1 .. Len(pty[s]) :
          /\ pty[s][i] < FirstOf(q, last)
          /\ \A r \in Open(s) : pty[s][i] < r.lo
    /\ \A r \in inflight[s] : r.phase = "ok" => r.lo .. r.hi \subseteq Taken(s)
    /\ resolved[s] \subseteq Taken(s)

(* Session s is in order when q waits and `last` was its latest input.     *)
Ready(s, q, last) ==
    /\ Consecutive(q, last)
    /\ 1 <= FirstOf(q, last)
    /\ OneRequest(s, q, last)
    /\ SettledBefore(s, q, last)
    /\ PtyBehind(s, q, last)

InputInv ==
    /\ TypeOK
    /\ \A s \in Sessions :
          /\ Ready(s, queue[s], sent[s])
          /\ queue[s] # <<>> => inflight[s] # {}

-----------------------------------------------------------------------------

(* Adding input last + 1 to a queue keeps it consecutive and its start.    *)
LEMMA EnqueueConsecutive ==
    ASSUME NEW q \in Seq(Entry), NEW last \in Nat, NEW single \in BOOLEAN,
           Consecutive(q, last)
    PROVE  /\ EnqueueEntry(q, last + 1, single) \in Seq(Entry)
           /\ EnqueueEntry(q, last + 1, single) # <<>>
           /\ Consecutive(EnqueueEntry(q, last + 1, single), last + 1)
           /\ FirstOf(EnqueueEntry(q, last + 1, single), last + 1) = FirstOf(q, last)
<1> DEFINE e == [lo |-> last + 1, hi |-> last + 1, coalescible |-> single]
<1>1. CASE CanCoalesce(q, single)
  <2> DEFINE n == Len(q)
             x == [q[n] EXCEPT !.hi = last + 1]
             r == [q EXCEPT ![n] = x]
  <2>1. n \in 1 .. Len(q) /\ q[n] \in Entry /\ q[n].hi = last
    BY <1>1 DEF CanCoalesce, Consecutive
  <2>2. x \in Entry /\ x.lo = q[n].lo /\ x.hi = last + 1
    BY <2>1 DEF Entry
  <2>3. r \in Seq(Entry) /\ Len(r) = n
    BY <2>1, <2>2
  <2>4. \A i \in 1 .. n : r[i].lo = q[i].lo /\ (i # n => r[i].hi = q[i].hi)
    BY <2>1, <2>2, <2>3
  <2>5. r[n].hi = last + 1
    BY <2>1, <2>2, <2>3
  <2>6. r # <<>> /\ FirstOf(r, last + 1) = FirstOf(q, last)
    BY <2>1, <2>3, <2>4 DEF FirstOf
  <2>7. Consecutive(r, last + 1)
    <3>1. \A i \in 1 .. n - 1 : r[i + 1].lo = r[i].hi + 1
      BY <2>1, <2>4 DEF Consecutive
    <3>2. \A i, j \in 1 .. n : i < j => r[i].hi < r[j].lo
      BY <2>1, <2>4 DEF Consecutive
    <3>3. ASSUME NEW k \in FirstOf(q, last) .. last + 1
          PROVE  \E i \in 1 .. n : k \in r[i].lo .. r[i].hi
      <4>1. CASE k = last + 1
        <5>1. r[n].lo \in Nat /\ r[n].lo <= last
          BY <2>1, <2>4 DEF Entry
        <5>2. k \in r[n].lo .. r[n].hi
          BY <2>5, <4>1, <5>1
        <5>3. QED
          BY <2>1, <5>2
      <4>2. CASE k # last + 1
        <5>1. FirstOf(q, last) \in Int
          BY <2>1 DEF FirstOf, Entry
        <5>2. k \in FirstOf(q, last) .. last
          BY <4>2, <5>1
        <5>3. PICK i \in 1 .. n : k \in q[i].lo .. q[i].hi
          BY <5>2 DEF Consecutive
        <5>4. r[i].lo = q[i].lo /\ q[i].lo \in Nat /\ k <= last
          BY <2>4, <5>1, <5>2 DEF Entry
        <5>5. r[i].hi = q[i].hi \/ r[i].hi = last + 1
          BY <2>4, <2>5
        <5>6. k \in r[i].lo .. r[i].hi
          BY <5>1, <5>2, <5>3, <5>4, <5>5
        <5>7. QED
          BY <5>6
      <4>3. QED
        BY <4>1, <4>2
    <3>4. QED
      BY <3>1, <3>2, <3>3, <2>1, <2>3, <2>5, <2>6 DEF Consecutive
  <2>8. EnqueueEntry(q, last + 1, single) = r
    BY <1>1 DEF EnqueueEntry
  <2>9. QED
    BY <2>3, <2>6, <2>7, <2>8
<1>2. CASE ~CanCoalesce(q, single)
  <2> DEFINE r == Append(q, e)
  <2>1. e \in Entry /\ e.lo = last + 1 /\ e.hi = last + 1
    BY DEF Entry
  <2>2. /\ r \in Seq(Entry)
        /\ Len(r) = Len(q) + 1
        /\ \A i \in 1 .. Len(q) : r[i] = q[i]
        /\ r[Len(q) + 1] = e
    BY <2>1
  <2>3. r # <<>>
    BY <2>2
  <2>4. FirstOf(r, last + 1) = FirstOf(q, last)
    BY <2>1, <2>2, <2>3 DEF FirstOf
  <2>5. Consecutive(r, last + 1)
    <3>1. ASSUME NEW i \in 1 .. Len(q)
          PROVE  r[i + 1].lo = r[i].hi + 1
      BY <2>1, <2>2 DEF Consecutive
    <3>2. \A i \in 1 .. Len(q) : q[i].hi <= last
      <4>1. ASSUME NEW i \in 1 .. Len(q) PROVE q[i].hi <= last
        <5>1. /\ Len(q) \in 1 .. Len(q) /\ q[i] \in Entry /\ q[Len(q)] \in Entry
              /\ q[Len(q)].hi = last
          BY DEF Consecutive
        <5>2. i < Len(q) => q[i].hi < q[Len(q)].lo
          BY <5>1 DEF Consecutive
        <5>3. QED
          BY <5>1, <5>2 DEF Entry
      <4>2. QED
        BY <4>1
    <3>3. ASSUME NEW i \in 1 .. Len(r), NEW j \in 1 .. Len(r), i < j
          PROVE  r[i].hi < r[j].lo
      <4>1. CASE j = Len(r)
        <5>1. r[i] = q[i] /\ q[i].hi <= last /\ q[i] \in Entry /\ r[j].lo = last + 1
          BY <2>1, <2>2, <3>2, <3>3, <4>1
        <5>2. QED
          BY <5>1 DEF Entry
      <4>2. CASE j # Len(r)
        <5>1. i \in 1 .. Len(q) /\ j \in 1 .. Len(q)
          BY <2>2, <3>3, <4>2
        <5>2. QED
          BY <2>2, <3>3, <5>1 DEF Consecutive
      <4>3. QED
        BY <4>1, <4>2
    <3>4. ASSUME NEW k \in FirstOf(q, last) .. last + 1
          PROVE  \E i \in 1 .. Len(r) : k \in r[i].lo .. r[i].hi
      <4>1. CASE k = last + 1
        <5>1. Len(r) \in 1 .. Len(r) /\ k \in r[Len(r)].lo .. r[Len(r)].hi
          BY <2>1, <2>2, <4>1
        <5>2. QED
          BY <5>1
      <4>2. CASE k # last + 1
        <5>1. FirstOf(q, last) \in Int
          BY DEF FirstOf, Entry
        <5>2. PICK i \in 1 .. Len(q) : k \in q[i].lo .. q[i].hi
          BY <4>2, <5>1 DEF Consecutive
        <5>3. QED
          BY <2>2, <5>2
      <4>3. QED
        BY <4>1, <4>2
    <3>5. Len(r) - 1 = Len(q) /\ r[Len(r)].hi = last + 1
      BY <2>1, <2>2
    <3> HIDE DEF r
    <3>6. QED
      BY <3>1, <3>3, <3>4, <3>5, <2>4 DEF Consecutive
  <2>6. EnqueueEntry(q, last + 1, single) = r
    BY <1>2 DEF EnqueueEntry
  <2>7. QED
    BY <2>2, <2>3, <2>4, <2>5, <2>6
<1>3. QED
  BY <1>1, <1>2

(* Taking the oldest entry leaves a consecutive queue that begins where    *)
(* that entry ended.                                                       *)
LEMMA TailConsecutive ==
    ASSUME NEW q \in Seq(Entry), NEW last \in Nat, q # <<>>, Consecutive(q, last)
    PROVE  /\ Tail(q) \in Seq(Entry)
           /\ Head(q) \in Entry
           /\ Consecutive(Tail(q), last)
           /\ Head(q).lo = FirstOf(q, last)
           /\ Head(q).hi + 1 = FirstOf(Tail(q), last)
<1>1. /\ Tail(q) \in Seq(Entry)
      /\ Len(Tail(q)) = Len(q) - 1
      /\ \A i \in 1 .. Len(q) - 1 : Tail(q)[i] = q[i + 1]
      /\ Head(q) = q[1] /\ Head(q) \in Entry
      /\ Len(q) >= 1
  OBVIOUS
<1>2. Head(q).hi + 1 = FirstOf(Tail(q), last)
  <2>1. CASE Len(q) = 1
    <3>1. Tail(q) = <<>>
      <4>1. Tail(q) \in Seq(Entry) /\ Len(Tail(q)) = 0
        BY <1>1, <2>1
      <4>2. \A seq \in Seq(Entry) : seq # <<>> => Len(seq) \in Nat \ {0}
        BY EmptySeq, Zenon
      <4>3. QED
        BY <4>1, <4>2
    <3>2. q[1].hi = last
      BY <2>1 DEF Consecutive
    <3>3. QED
      BY <1>1, <3>1, <3>2 DEF FirstOf
  <2>2. CASE Len(q) # 1
    <3>1. Len(Tail(q)) # 0 /\ 1 \in 1 .. Len(q) - 1
      BY <1>1, <2>2
    <3>2. Tail(q) # <<>> /\ Tail(q)[1] = q[2]
      BY <1>1, <3>1
    <3>3. q[1 + 1].lo = q[1].hi + 1
      BY <3>1 DEF Consecutive
    <3>4. QED
      BY <1>1, <3>2, <3>3 DEF FirstOf
  <2>3. QED
    BY <2>1, <2>2
<1>3. Consecutive(Tail(q), last)
  <2>1. ASSUME NEW i \in 1 .. Len(Tail(q)) - 1
        PROVE  Tail(q)[i + 1].lo = Tail(q)[i].hi + 1
    BY <1>1 DEF Consecutive
  <2>2. ASSUME Tail(q) # <<>>
        PROVE  Tail(q)[Len(Tail(q))].hi = last
    BY <1>1, <2>2 DEF Consecutive
  <2>3. ASSUME NEW i \in 1 .. Len(Tail(q)), NEW j \in 1 .. Len(Tail(q)), i < j
        PROVE  Tail(q)[i].hi < Tail(q)[j].lo
    <3>1. /\ i + 1 \in 1 .. Len(q) /\ j + 1 \in 1 .. Len(q) /\ i + 1 < j + 1
          /\ Tail(q)[i] = q[i + 1] /\ Tail(q)[j] = q[j + 1]
      BY <1>1, <2>3
    <3>2. QED
      BY <3>1 DEF Consecutive
  <2>4. ASSUME NEW k \in FirstOf(Tail(q), last) .. last
        PROVE  \E i \in 1 .. Len(Tail(q)) : k \in Tail(q)[i].lo .. Tail(q)[i].hi
    <3>1. /\ q[1] \in Entry /\ FirstOf(q, last) = q[1].lo
          /\ q[1].hi + 1 = FirstOf(Tail(q), last)
      BY <1>1, <1>2 DEF FirstOf
    <3>2. k \in FirstOf(q, last) .. last /\ k > q[1].hi
      BY <3>1 DEF Entry
    <3>3. PICK i \in 1 .. Len(q) : k \in q[i].lo .. q[i].hi
      BY <3>2 DEF Consecutive
    <3>4. i # 1
      BY <3>1, <3>2, <3>3 DEF Entry
    <3>5. i - 1 \in 1 .. Len(Tail(q)) /\ i - 1 \in 1 .. Len(q) - 1
      BY <1>1, <3>4
    <3>6. Tail(q)[i - 1] = q[i]
      BY <1>1, <3>5
    <3>7. QED
      BY <3>3, <3>5, <3>6
  <2>5. QED
    BY <2>1, <2>2, <2>3, <2>4 DEF Consecutive
<1>4. QED
  BY <1>1, <1>2, <1>3 DEF FirstOf

(* StartDrain puts every session in order whose queue, before, was in      *)
(* order except that its loop may have been idle.                          *)
LEMMA StartDrainReady ==
    ASSUME TypeOK,
           NEW T \in SUBSET Sessions,
           NEW q \in [Sessions -> Seq(Entry)],
           sent' \in [Sessions -> Nat],
           StartDrain(T, q),
           UNCHANGED <<resolved, rejected, pty>>,
           NEW s \in Sessions,
           Ready(s, q[s], sent'[s]),
           s \notin T => (q[s] # <<>> => inflight[s] # {})
    PROVE  /\ queue'[s] \in Seq(Entry)
           /\ draining'[s] \in BOOLEAN
           /\ inflight'[s] \in SUBSET Request
           /\ Ready(s, queue[s], sent[s])'
           /\ queue'[s] # <<>> => inflight'[s] # {}
<1>1. CASE s \in Starts(T, q)
  <2> DEFINE h == Head(q[s])
             r == Invoke(h)
  <2>1. /\ ~draining[s] /\ inflight[s] = {} /\ q[s] # <<>> /\ sent'[s] \in Nat
        /\ q[s] \in Seq(Entry) /\ Consecutive(q[s], sent'[s])
    BY <1>1 DEF Starts, Ready, OneRequest
  <2>2. /\ queue'[s] = Tail(q[s])
        /\ draining'[s] = TRUE
        /\ inflight'[s] = {r}
    BY <1>1, <2>1 DEF StartDrain
  <2>3. /\ Tail(q[s]) \in Seq(Entry)
        /\ h \in Entry
        /\ Consecutive(Tail(q[s]), sent'[s])
        /\ h.lo = FirstOf(q[s], sent'[s])
        /\ h.hi + 1 = FirstOf(Tail(q[s]), sent'[s])
    BY <2>1, TailConsecutive
  <2>4. /\ r \in Request /\ r.lo = h.lo /\ r.hi = h.hi /\ r.phase = "invoked"
        /\ h.lo \in Nat /\ h.hi \in Nat /\ h.lo <= h.hi
    BY <2>3 DEF Invoke, Request, Entry
  <2>5. 1 <= h.lo /\ h.lo < FirstOf(Tail(q[s]), sent'[s])
    BY <2>3, <2>4 DEF Ready
  <2>6. OneRequest(s, queue[s], sent[s])'
    BY <2>2, <2>3, <2>4, <2>5 DEF OneRequest, FirstOf
  <2>7. SettledBefore(s, queue[s], sent[s])'
    BY <2>1, <2>2, <2>3, <2>4 DEF SettledBefore, Ready, FirstOf
  <2>8. PtyBehind(s, queue[s], sent[s])'
    <3>1. pty'[s] = pty[s] /\ Taken(s)' = Taken(s) /\ resolved'[s] = resolved[s]
      BY DEF Taken
    <3>2. pty[s] \in Seq(Nat)
      BY DEF TypeOK
    <3>3. ASSUME NEW i \in 1 .. Len(pty[s])
          PROVE  pty[s][i] < h.lo /\ pty[s][i] < FirstOf(Tail(q[s]), sent'[s])
      BY <2>3, <2>4, <2>5, <3>2 DEF Ready, PtyBehind
    <3>4. QED
      BY <2>2, <2>4, <3>1, <3>3 DEF Ready, PtyBehind, FirstOf, Open
  <2>9. Consecutive(queue[s], sent[s])' /\ (1 <= FirstOf(queue[s], sent[s]))'
    <3>1. Consecutive(queue[s], sent[s])'
      BY <2>2, <2>3 DEF Consecutive, FirstOf
    <3>2. 1 <= FirstOf(Tail(q[s]), sent'[s])
      BY <2>3, <2>4, <2>5
    <3>3. QED
      BY <2>2, <3>1, <3>2 DEF FirstOf
  <2>10. QED
    BY <2>2, <2>3, <2>4, <2>6, <2>7, <2>8, <2>9 DEF Ready
<1>2. CASE s \notin Starts(T, q)
  <2>1. /\ queue'[s] = q[s] /\ inflight'[s] = inflight[s] /\ draining'[s] = draining[s]
        /\ resolved'[s] = resolved[s] /\ rejected'[s] = rejected[s] /\ pty'[s] = pty[s]
    BY <1>2 DEF StartDrain, TypeOK
  <2>2. q[s] # <<>> => inflight[s] # {}
    BY <1>2 DEF Starts, Ready, OneRequest
  <2>3. Ready(s, queue[s], sent[s])'
    <3>1. Consecutive(queue[s], sent[s])' /\ (1 <= FirstOf(queue[s], sent[s]))'
      BY <2>1 DEF Ready, Consecutive, FirstOf
    <3>2. OneRequest(s, queue[s], sent[s])'
      BY <2>1 DEF Ready, OneRequest, FirstOf
    <3>3. SettledBefore(s, queue[s], sent[s])'
      BY <2>1 DEF Ready, SettledBefore, FirstOf
    <3>4. PtyBehind(s, queue[s], sent[s])'
      BY <2>1 DEF Ready, PtyBehind, FirstOf, Taken, Open
    <3>5. QED
      BY <3>1, <3>2, <3>3, <3>4 DEF Ready
  <2>4. QED
    BY <2>1, <2>2, <2>3 DEF TypeOK
<1>3. QED
  BY <1>1, <1>2

-----------------------------------------------------------------------------

(* Ready looks at the queue through its intervals and its start only.      *)
LEMMA ReadyExtends ==
    ASSUME NEW s, NEW q1, NEW q2, NEW n1, NEW n2,
           Ready(s, q1, n1), Consecutive(q2, n2), FirstOf(q2, n2) = FirstOf(q1, n1)
    PROVE  Ready(s, q2, n2)
<1>1. OneRequest(s, q2, n2)
  BY DEF Ready, OneRequest
<1>2. SettledBefore(s, q2, n2)
  BY DEF Ready, SettledBefore
<1>3. PtyBehind(s, q2, n2)
  BY DEF Ready, PtyBehind
<1>4. QED
  BY <1>1, <1>2, <1>3 DEF Ready

(* A session none of whose variables changes stays in order.               *)
LEMMA FrameReady ==
    ASSUME NEW s, Ready(s, queue[s], sent[s]),
           queue'[s] = queue[s], sent'[s] = sent[s], inflight'[s] = inflight[s],
           draining'[s] = draining[s], resolved'[s] = resolved[s],
           rejected'[s] = rejected[s], pty'[s] = pty[s]
    PROVE  Ready(s, queue[s], sent[s])'
<1>1. Consecutive(queue[s], sent[s])' /\ (1 <= FirstOf(queue[s], sent[s]))'
  BY DEF Ready, Consecutive, FirstOf
<1>2. OneRequest(s, queue[s], sent[s])'
  BY DEF Ready, OneRequest, FirstOf
<1>3. SettledBefore(s, queue[s], sent[s])'
  BY DEF Ready, SettledBefore, FirstOf
<1>4. PtyBehind(s, queue[s], sent[s])'
  BY DEF Ready, PtyBehind, FirstOf, Taken, Open
<1>5. QED
  BY <1>1, <1>2, <1>3, <1>4 DEF Ready

LEMMA SendInputKeeps ==
    ASSUME InputInv, NEW T \in SUBSET Sessions, NEW single \in BOOLEAN,
           SendInput(T, single)
    PROVE  InputInv'
<1> DEFINE q == [s \in Sessions |-> IF s \in T THEN EnqueueEntry(queue[s], sent[s] + 1, single)
                                               ELSE queue[s]]
<1>1. /\ TypeOK
      /\ sent' = [s \in Sessions |-> IF s \in T THEN sent[s] + 1 ELSE sent[s]]
      /\ sent' \in [Sessions -> Nat]
      /\ StartDrain(T, q)
      /\ UNCHANGED <<resolved, rejected, pty, registered, alive>>
  BY DEF SendInput, InputInv, TypeOK, backendVars
<1>2. ASSUME NEW s \in Sessions
      PROVE  q[s] \in Seq(Entry) /\ Ready(s, q[s], sent'[s])
  <2>1. queue[s] \in Seq(Entry) /\ sent[s] \in Nat /\ Ready(s, queue[s], sent[s])
    BY DEF InputInv, TypeOK
  <2>2. Consecutive(queue[s], sent[s])
    BY <2>1 DEF Ready
  <2>3. CASE s \in T
    <3>1. /\ q[s] \in Seq(Entry)
          /\ Consecutive(q[s], sent'[s])
          /\ FirstOf(q[s], sent'[s]) = FirstOf(queue[s], sent[s])
      BY <1>1, <2>1, <2>2, <2>3, EnqueueConsecutive
    <3>2. QED
      BY <2>1, <3>1, ReadyExtends
  <2>4. CASE s \notin T
    BY <1>1, <2>1, <2>4
  <2>5. QED
    BY <2>3, <2>4
<1>3. q \in [Sessions -> Seq(Entry)]
  BY <1>2
<1>4. ASSUME NEW s \in Sessions
      PROVE  /\ queue'[s] \in Seq(Entry)
             /\ draining'[s] \in BOOLEAN
             /\ inflight'[s] \in SUBSET Request
             /\ Ready(s, queue[s], sent[s])'
             /\ queue'[s] # <<>> => inflight'[s] # {}
  <2>1. s \notin T => (q[s] # <<>> => inflight[s] # {})
    BY DEF InputInv
  <2> HIDE DEF q
  <2>2. QED
    BY <1>1, <1>2, <1>3, <2>1, StartDrainReady
<1>5. TypeOK'
  <2>1. /\ queue' \in [Sessions -> Seq(Entry)]
        /\ draining' \in [Sessions -> BOOLEAN]
        /\ inflight' \in [Sessions -> SUBSET Request]
    BY <1>1, <1>4 DEF StartDrain
  <2>2. timer' \in [Sessions -> BOOLEAN]
    BY DEF SendInput
  <2>3. QED
    BY <1>1, <2>1, <2>2 DEF TypeOK
<1>6. QED
  BY <1>4, <1>5 DEF InputInv

LEMMA TimerFiresKeeps ==
    ASSUME InputInv, NEW t \in Sessions, TimerFires(t)
    PROVE  InputInv'
<1>1. /\ TypeOK
      /\ sent' = sent /\ sent' \in [Sessions -> Nat]
      /\ queue \in [Sessions -> Seq(Entry)]
      /\ timer' = [timer EXCEPT ![t] = FALSE]
      /\ StartDrain({t}, queue)
      /\ UNCHANGED <<resolved, rejected, pty, registered, alive>>
  BY DEF TimerFires, InputInv, TypeOK, backendVars
<1>2. ASSUME NEW s \in Sessions
      PROVE  /\ queue'[s] \in Seq(Entry)
             /\ draining'[s] \in BOOLEAN
             /\ inflight'[s] \in SUBSET Request
             /\ Ready(s, queue[s], sent[s])'
             /\ queue'[s] # <<>> => inflight'[s] # {}
  <2>1. Ready(s, queue[s], sent'[s]) /\ (queue[s] # <<>> => inflight[s] # {})
    BY <1>1 DEF InputInv
  <2>2. QED
    BY <1>1, <2>1, StartDrainReady
<1>3. TypeOK'
  <2>1. /\ queue' \in [Sessions -> Seq(Entry)]
        /\ draining' \in [Sessions -> BOOLEAN]
        /\ inflight' \in [Sessions -> SUBSET Request]
    BY <1>1, <1>2 DEF StartDrain
  <2>2. QED
    BY <1>1, <2>1 DEF TypeOK
<1>4. QED
  BY <1>2, <1>3 DEF InputInv

LEMMA RequestSettledKeeps ==
    ASSUME InputInv, NEW t \in Sessions, NEW r \in inflight[t], RequestSettled(t, r)
    PROVE  InputInv'
<1>1. /\ TypeOK
      /\ UNCHANGED <<sent, timer, pty, registered, alive>>
      /\ r \in Request /\ r.phase \in {"ok", "err"}
      /\ queue[t] \in Seq(Entry) /\ sent[t] \in Nat
      /\ Ready(t, queue[t], sent[t])
      /\ inflight[t] = {r}
  BY DEF RequestSettled, InputInv, TypeOK, Request, Ready, OneRequest, Open, backendVars
<1>2. /\ r.lo \in Nat /\ r.hi \in Nat
      /\ 1 <= r.lo /\ r.lo <= r.hi /\ r.hi + 1 = FirstOf(queue[t], sent[t])
      /\ resolved[t] \cup rejected[t] = 1 .. r.lo - 1
      /\ resolved[t] \cap rejected[t] = {}
  BY <1>1 DEF Request, Ready, OneRequest, SettledBefore
<1>3. /\ resolved' \in [Sessions -> SUBSET Nat]
      /\ rejected' \in [Sessions -> SUBSET Nat]
      /\ resolved'[t] \cup rejected'[t] = 1 .. r.hi
      /\ resolved'[t] \cap rejected'[t] = {}
  <2>1. CASE r.phase = "ok"
    <3>1. /\ resolved' = [resolved EXCEPT ![t] = @ \cup (r.lo .. r.hi)]
          /\ rejected' = rejected
      BY <2>1 DEF RequestSettled, TypeOK, InputInv
    <3>2. QED
      BY <1>1, <1>2, <3>1 DEF TypeOK
  <2>2. CASE r.phase = "err"
    <3>1. /\ rejected' = [rejected EXCEPT ![t] = @ \cup (r.lo .. r.hi)]
          /\ resolved' = resolved
      BY <2>2 DEF RequestSettled, TypeOK, InputInv
    <3>2. QED
      BY <1>1, <1>2, <3>1 DEF TypeOK
  <2>3. QED
    BY <1>1, <2>1, <2>2
<1>4. resolved'[t] \subseteq Taken(t)'
  BY <1>1 DEF RequestSettled, Ready, PtyBehind, Taken, TypeOK
<1>5. ASSUME NEW i \in 1 .. Len(pty[t])
      PROVE  pty[t][i] \in Nat /\ pty[t][i] < FirstOf(queue[t], sent[t])
  BY <1>1 DEF TypeOK, Ready, PtyBehind
<1>6. /\ Ready(t, queue[t], sent[t])'
      /\ queue'[t] # <<>> => inflight'[t] # {}
      /\ queue' \in [Sessions -> Seq(Entry)]
      /\ draining' \in [Sessions -> BOOLEAN]
      /\ inflight' \in [Sessions -> SUBSET Request]
  <2>1. CASE queue[t] = <<>>
    <3>1. /\ queue' = queue /\ draining' = [draining EXCEPT ![t] = FALSE]
          /\ inflight' = [inflight EXCEPT ![t] = {}]
      BY <1>1, <2>1 DEF RequestSettled, LoopEnds
    <3>2. /\ Consecutive(queue[t], sent[t])' /\ (1 <= FirstOf(queue[t], sent[t]))'
      BY <1>1, <3>1 DEF Ready, Consecutive, FirstOf
    <3>3. OneRequest(t, queue[t], sent[t])'
      BY <3>1 DEF OneRequest, TypeOK, InputInv
    <3>4. SettledBefore(t, queue[t], sent[t])'
      BY <1>1, <1>2, <1>3, <3>1 DEF SettledBefore, FirstOf, TypeOK
    <3>5. PtyBehind(t, queue[t], sent[t])'
      BY <1>1, <1>4, <1>5, <3>1 DEF PtyBehind, FirstOf, TypeOK, Ready, Open
    <3>6. QED
      BY <1>1, <2>1, <3>1, <3>2, <3>3, <3>4, <3>5 DEF Ready, TypeOK
  <2>2. CASE queue[t] # <<>>
    <3> DEFINE h == Head(queue[t])
               n == Invoke(h)
    <3>1. /\ queue' = [queue EXCEPT ![t] = Tail(queue[t])] /\ draining' = draining
          /\ inflight' = [inflight EXCEPT ![t] = {n}]
      BY <1>1, <2>2 DEF RequestSettled, LoopEnds
    <3>2. /\ Tail(queue[t]) \in Seq(Entry)
          /\ h \in Entry
          /\ Consecutive(Tail(queue[t]), sent[t])
          /\ h.lo = FirstOf(queue[t], sent[t])
          /\ h.hi + 1 = FirstOf(Tail(queue[t]), sent[t])
      BY <1>1, <2>2, TailConsecutive DEF Ready
    <3>3. /\ n \in Request /\ n.lo = h.lo /\ n.hi = h.hi /\ n.phase = "invoked"
          /\ h.lo \in Nat /\ h.hi \in Nat /\ h.lo <= h.hi
          /\ 1 <= h.lo /\ h.lo < FirstOf(Tail(queue[t]), sent[t])
      BY <1>1, <3>2 DEF Invoke, Request, Entry, Ready
    <3>4. /\ queue'[t] = Tail(queue[t]) /\ inflight'[t] = {n} /\ draining'[t] = draining[t]
          /\ sent'[t] = sent[t] /\ pty'[t] = pty[t]
      BY <1>1, <3>1 DEF TypeOK
    <3>5. Consecutive(queue[t], sent[t])' /\ (1 <= FirstOf(queue[t], sent[t]))'
      <4>1. Consecutive(queue[t], sent[t])'
        BY <3>2, <3>4 DEF Consecutive, FirstOf
      <4>2. 1 <= FirstOf(Tail(queue[t]), sent[t])
        BY <3>2, <3>3
      <4>3. QED
        BY <3>4, <4>1, <4>2 DEF FirstOf
    <3>6. OneRequest(t, queue[t], sent[t])'
      BY <1>1, <3>2, <3>3, <3>4 DEF OneRequest, FirstOf, Ready
    <3>7. SettledBefore(t, queue[t], sent[t])'
      <4>1. h.lo - 1 = r.hi
        BY <1>2, <3>2, <3>3
      <4>2. QED
        BY <1>3, <3>3, <3>4, <4>1 DEF SettledBefore
    <3>8. PtyBehind(t, queue[t], sent[t])'
      <4>1. ASSUME NEW i \in 1 .. Len(pty[t])
            PROVE  pty[t][i] < h.lo /\ pty[t][i] < FirstOf(Tail(queue[t]), sent[t])
        BY <1>5, <3>2, <3>3
      <4>2. QED
        BY <1>1, <1>4, <3>3, <3>4, <4>1 DEF PtyBehind, FirstOf, Ready, Open
    <3>9. QED
      BY <1>1, <3>1, <3>2, <3>3, <3>4, <3>5, <3>6, <3>7, <3>8 DEF Ready, TypeOK
  <2>3. QED
    BY <2>1, <2>2
<1>7. ASSUME NEW s \in Sessions, s # t
      PROVE  Ready(s, queue[s], sent[s])' /\ (queue'[s] # <<>> => inflight'[s] # {})
  <2>1. /\ queue'[s] = queue[s] /\ sent'[s] = sent[s] /\ inflight'[s] = inflight[s]
        /\ draining'[s] = draining[s] /\ resolved'[s] = resolved[s]
        /\ rejected'[s] = rejected[s] /\ pty'[s] = pty[s]
    BY <1>1, <1>7 DEF RequestSettled, TypeOK
  <2>2. QED
    BY <2>1, <1>7, FrameReady DEF InputInv
<1>8. QED
  BY <1>1, <1>3, <1>6, <1>7 DEF InputInv, TypeOK

(* Block(lo, hi) is the increasing sequence of lo..hi; empty for hi = lo-1. *)
LEMMA BlockProperties ==
    ASSUME NEW lo \in Nat, NEW hi \in Int, lo >= 1, hi >= lo - 1
    PROVE  /\ Block(lo, hi) \in Seq(Nat)
           /\ Len(Block(lo, hi)) = hi - lo + 1
           /\ \A i \in 1 .. hi - lo + 1 : Block(lo, hi)[i] = lo + i - 1
<1>1. hi - lo + 1 \in Nat
  OBVIOUS
<1>2. \A i \in 1 .. hi - lo + 1 : lo + i - 1 \in Nat
  OBVIOUS
<1>3. Block(lo, hi) \in [1 .. hi - lo + 1 -> Nat]
  BY <1>2 DEF Block
<1>4. QED
  BY <1>1, <1>3 DEF Block

(* Appending lo, lo + 1, ... to an increasing sequence of numbers below lo *)
(* gives an increasing sequence.                                           *)
LEMMA ConcatIncreasing ==
    ASSUME NEW p \in Seq(Nat), NEW b \in Seq(Nat), NEW lo \in Nat,
           \A i \in 1 .. Len(p) : p[i] < lo,
           \A i, j \in 1 .. Len(p) : i < j => p[i] < p[j],
           \A i \in 1 .. Len(b) : b[i] = lo + i - 1
    PROVE  /\ p \o b \in Seq(Nat)
           /\ \A i, j \in 1 .. Len(p \o b) : i < j => (p \o b)[i] < (p \o b)[j]
           /\ \A i \in 1 .. Len(p \o b) : (p \o b)[i] < lo + Len(b)
           /\ {p[i] : i \in 1 .. Len(p)} \subseteq {(p \o b)[i] : i \in 1 .. Len(p \o b)}
           /\ lo .. lo + Len(b) - 1 \subseteq {(p \o b)[i] : i \in 1 .. Len(p \o b)}
<1> DEFINE c == p \o b
           m == Len(p)
           k == Len(b)
<1>1. m \in Nat /\ k \in Nat
  OBVIOUS
<1>2. /\ c \in Seq(Nat)
      /\ Len(c) = m + k
      /\ \A i \in 1 .. m : c[i] = p[i]
      /\ \A i \in 1 .. k : c[m + i] = b[i]
  OBVIOUS
<1>3. \A i \in 1 .. m : c[i] \in Nat /\ c[i] < lo
  BY <1>2
<1>4. \A i \in m + 1 .. m + k : c[i] = lo + (i - m) - 1
  <2>1. ASSUME NEW i \in m + 1 .. m + k
        PROVE  c[i] = lo + (i - m) - 1
    <3>1. i - m \in 1 .. k /\ i = m + (i - m)
      BY <1>1
    <3>2. c[i] = b[i - m]
      BY <1>2, <3>1
    <3>3. QED
      BY <3>1, <3>2
  <2>2. QED
    BY <2>1
<1>5. \A i, j \in 1 .. m : i < j => c[i] < c[j]
  BY <1>2
<1> HIDE DEF c, m, k
<1>6. ASSUME NEW i \in 1 .. m + k, NEW j \in 1 .. m + k, i < j
      PROVE  c[i] < c[j]
  <2>1. CASE j <= m
    BY <1>1, <1>5, <1>6, <2>1
  <2>2. CASE i <= m /\ j > m
    BY <1>1, <1>3, <1>4, <2>2
  <2>3. CASE i > m
    BY <1>1, <1>4, <1>6, <2>3
  <2>4. QED
    BY <1>1, <2>1, <2>2, <2>3
<1>7. ASSUME NEW i \in 1 .. m + k
      PROVE  c[i] < lo + k
  <2>1. CASE i <= m
    BY <1>1, <1>3, <2>1
  <2>2. CASE i > m
    BY <1>1, <1>4, <2>2
  <2>3. QED
    BY <1>1, <2>1, <2>2
<1>8. ASSUME NEW n \in lo .. lo + k - 1
      PROVE  \E i \in 1 .. m + k : n = c[i]
  <2>1. m + (n - lo) + 1 \in m + 1 .. m + k
    BY <1>1
  <2>2. c[m + (n - lo) + 1] = n
    BY <1>1, <1>4, <2>1
  <2>3. QED
    BY <1>1, <2>1, <2>2
<1>9. \A i \in 1 .. m : p[i] = c[i] /\ i \in 1 .. m + k
  BY <1>1, <1>2
<1>10. QED
  BY <1>2, <1>6, <1>7, <1>8, <1>9 DEF c, m, k

(* Writing up to `last` of an open request keeps the PTY in order.         *)
LEMMA WriteKeepsOrder ==
    ASSUME TypeOK, NEW t \in Sessions, NEW r \in inflight[t],
           Ready(t, queue[t], sent[t]), r \in Open(t),
           NEW last \in r.lo - 1 .. r.hi
    PROVE  LET p == pty[t] \o Block(r.lo, last)
           IN  /\ p \in Seq(Nat)
               /\ \A i, j \in 1 .. Len(p) : i < j => p[i] < p[j]
               /\ \A i \in 1 .. Len(p) : p[i] < FirstOf(queue[t], sent[t])
               /\ Taken(t) \subseteq {p[i] : i \in 1 .. Len(p)}
               /\ last = r.hi => r.lo .. r.hi \subseteq {p[i] : i \in 1 .. Len(p)}
<1> DEFINE b == Block(r.lo, last)
           p == pty[t] \o b
<1>1. /\ r.lo \in Nat /\ r.hi \in Nat /\ 1 <= r.lo /\ r.lo <= r.hi
      /\ r.hi + 1 = FirstOf(queue[t], sent[t])
      /\ pty[t] \in Seq(Nat)
  BY DEF TypeOK, Request, Ready, OneRequest
<1>2. /\ b \in Seq(Nat)
      /\ Len(b) = last - r.lo + 1
      /\ \A i \in 1 .. Len(b) : b[i] = r.lo + i - 1
  <2>1. last \in Int /\ last >= r.lo - 1
    BY <1>1
  <2>2. /\ b \in Seq(Nat)
        /\ Len(b) = last - r.lo + 1
        /\ \A i \in 1 .. last - r.lo + 1 : b[i] = r.lo + i - 1
    BY <1>1, <2>1, BlockProperties
  <2> HIDE DEF b
  <2>3. QED
    BY <2>2
<1>3. /\ \A i \in 1 .. Len(pty[t]) : pty[t][i] < r.lo
      /\ \A i, j \in 1 .. Len(pty[t]) : i < j => pty[t][i] < pty[t][j]
  BY DEF Ready, PtyBehind
<1> HIDE DEF b
<1>4. /\ p \in Seq(Nat)
      /\ \A i, j \in 1 .. Len(p) : i < j => p[i] < p[j]
      /\ \A i \in 1 .. Len(p) : p[i] < r.lo + Len(b)
      /\ Taken(t) \subseteq {p[i] : i \in 1 .. Len(p)}
      /\ r.lo .. r.lo + Len(b) - 1 \subseteq {p[i] : i \in 1 .. Len(p)}
  BY <1>1, <1>2, <1>3, ConcatIncreasing, Zenon DEF Taken
<1> HIDE DEF p
<1>5. ASSUME NEW i \in 1 .. Len(p)
      PROVE  p[i] < FirstOf(queue[t], sent[t])
  <2>1. p[i] \in Nat /\ p[i] < r.lo + Len(b)
    BY <1>4
  <2>2. r.lo + Len(b) <= r.hi + 1
    BY <1>1, <1>2
  <2>3. QED
    BY <1>1, <1>2, <2>1, <2>2
<1>6. last = r.hi => r.lo .. r.hi \subseteq {p[i] : i \in 1 .. Len(p)}
  <2>1. last = r.hi => r.lo + Len(b) - 1 = r.hi
    BY <1>1, <1>2
  <2>2. QED
    BY <1>4, <2>1
<1>7. QED
  BY <1>4, <1>5, <1>6 DEF p, b

(* What the two answers of the backend have in common: r is replaced by    *)
(* its answer, the PTY takes p, and nothing else changes.                  *)
LEMMA AnswerKeeps ==
    ASSUME InputInv, NEW t \in Sessions, NEW r \in inflight[t], r \in Open(t),
           NEW phase \in {"ok", "err"}, Becomes(t, r, phase),
           NEW p \in Seq(Nat), pty' = [pty EXCEPT ![t] = p],
           \A i, j \in 1 .. Len(p) : i < j => p[i] < p[j],
           \A i \in 1 .. Len(p) : p[i] < FirstOf(queue[t], sent[t]),
           Taken(t) \subseteq {p[i] : i \in 1 .. Len(p)},
           phase = "ok" => r.lo .. r.hi \subseteq {p[i] : i \in 1 .. Len(p)},
           UNCHANGED <<uiVars, registered, alive>>
    PROVE  InputInv'
<1> DEFINE a == [r EXCEPT !.phase = phase]
<1>1. /\ TypeOK /\ Ready(t, queue[t], sent[t])
      /\ inflight[t] = {r} /\ r \in Request
      /\ UNCHANGED <<sent, queue, draining, timer, resolved, rejected, registered, alive>>
  BY DEF InputInv, TypeOK, Ready, OneRequest, uiVars
<1>2. a \in Request /\ a.lo = r.lo /\ a.hi = r.hi /\ a.phase = phase
  BY <1>1 DEF Request
<1>3. inflight' = [inflight EXCEPT ![t] = {a}] /\ inflight'[t] = {a} /\ pty'[t] = p
  BY <1>1 DEF Becomes, TypeOK
<1> HIDE DEF a
<1>4. TypeOK'
  BY <1>1, <1>2, <1>3 DEF TypeOK
<1>5. Ready(t, queue[t], sent[t])'
  <2>1. Consecutive(queue[t], sent[t])' /\ (1 <= FirstOf(queue[t], sent[t]))'
    BY <1>1 DEF Ready, Consecutive, FirstOf
  <2>2. OneRequest(t, queue[t], sent[t])'
    BY <1>1, <1>2, <1>3 DEF Ready, OneRequest, FirstOf
  <2>3. SettledBefore(t, queue[t], sent[t])'
    BY <1>1, <1>2, <1>3 DEF Ready, SettledBefore
  <2>4. PtyBehind(t, queue[t], sent[t])'
    <3>1. Taken(t)' = {p[i] : i \in 1 .. Len(p)}
      BY <1>3 DEF Taken
    <3>2. resolved'[t] \subseteq Taken(t)'
      BY <1>1, <3>1 DEF Ready, PtyBehind
    <3>3. FirstOf(queue[t], sent[t])' = FirstOf(queue[t], sent[t])
      BY <1>1 DEF FirstOf
    <3>4. \A i \in 1 .. Len(p) : p[i] < FirstOf(queue[t], sent[t])'
      BY <3>3
    <3>5. \A x \in inflight'[t] : x.phase = "ok" => x.lo .. x.hi \subseteq Taken(t)'
      BY <1>2, <1>3, <3>1
    <3>6. Open(t)' = {}
      BY <1>2, <1>3 DEF Open
    <3>7. QED
      BY <1>3, <3>2, <3>4, <3>5, <3>6 DEF PtyBehind
  <2>5. QED
    BY <2>1, <2>2, <2>3, <2>4 DEF Ready
<1>6. ASSUME NEW s \in Sessions, s # t
      PROVE  Ready(s, queue[s], sent[s])' /\ (queue'[s] # <<>> => inflight'[s] # {})
  <2>1. /\ queue'[s] = queue[s] /\ sent'[s] = sent[s] /\ inflight'[s] = inflight[s]
        /\ draining'[s] = draining[s] /\ resolved'[s] = resolved[s]
        /\ rejected'[s] = rejected[s] /\ pty'[s] = pty[s]
    BY <1>1, <1>3, <1>6 DEF TypeOK
  <2>2. QED
    BY <2>1, <1>6, FrameReady DEF InputInv
<1>7. QED
  BY <1>3, <1>4, <1>5, <1>6 DEF InputInv

LEMMA WriteInputKeeps ==
    ASSUME InputInv, NEW t \in Sessions, NEW r \in inflight[t], WriteInput(t, r)
    PROVE  InputInv'
<1>1. TypeOK /\ Ready(t, queue[t], sent[t]) /\ r \in Open(t)
      /\ UNCHANGED <<uiVars, registered, alive>>
  BY DEF InputInv, WriteInput, Open
<1>2. r.hi \in r.lo - 1 .. r.hi
  BY <1>1 DEF TypeOK, Request, Ready, OneRequest
<1>3. CASE /\ Becomes(t, r, "ok")
           /\ pty' = [pty EXCEPT ![t] = @ \o Block(r.lo, r.hi)]
  BY <1>1, <1>2, <1>3, WriteKeepsOrder, AnswerKeeps
<1>4. CASE /\ Becomes(t, r, "err")
           /\ \E last \in r.lo - 1 .. r.hi :
                 pty' = [pty EXCEPT ![t] = @ \o Block(r.lo, last)]
  <2>1. PICK last \in r.lo - 1 .. r.hi : pty' = [pty EXCEPT ![t] = @ \o Block(r.lo, last)]
    BY <1>4
  <2>2. QED
    BY <1>1, <1>4, <2>1, WriteKeepsOrder, AnswerKeeps
<1>5. QED
  BY <1>3, <1>4 DEF WriteInput

LEMMA RefuseInputKeeps ==
    ASSUME InputInv, NEW t \in Sessions, NEW r \in inflight[t], RefuseInput(t, r)
    PROVE  InputInv'
<1> DEFINE p == pty[t]
<1>1. /\ TypeOK /\ Ready(t, queue[t], sent[t]) /\ r \in Open(t)
      /\ Becomes(t, r, "err")
      /\ pty' = [pty EXCEPT ![t] = p] /\ p \in Seq(Nat)
      /\ UNCHANGED <<uiVars, registered, alive>>
  BY DEF InputInv, RefuseInput, TypeOK, Open, backendVars
<1>2. /\ \A i, j \in 1 .. Len(p) : i < j => p[i] < p[j]
      /\ \A i \in 1 .. Len(p) : p[i] < FirstOf(queue[t], sent[t])
      /\ Taken(t) \subseteq {p[i] : i \in 1 .. Len(p)}
  BY <1>1 DEF Ready, PtyBehind, Taken
<1>3. QED
  BY <1>1, <1>2, AnswerKeeps

(* Taking the writer changes only the phase of the request.                *)
LEMMA LookUpKeeps ==
    ASSUME InputInv, NEW t \in Sessions, NEW r \in inflight[t], LookUp(t, r)
    PROVE  InputInv'
<1> DEFINE a == [r EXCEPT !.phase = "found"]
<1>1. /\ TypeOK /\ Ready(t, queue[t], sent[t]) /\ r \in Open(t)
      /\ inflight[t] = {r} /\ r \in Request
      /\ UNCHANGED <<sent, queue, draining, timer, resolved, rejected, pty,
                     registered, alive>>
  BY DEF InputInv, LookUp, TypeOK, Ready, OneRequest, Open, uiVars, backendVars
<1>2. a \in Request /\ a.lo = r.lo /\ a.hi = r.hi /\ a.phase = "found"
  BY <1>1 DEF Request
<1>3. inflight' = [inflight EXCEPT ![t] = {a}] /\ inflight'[t] = {a}
  BY <1>1 DEF LookUp, Becomes, TypeOK
<1> HIDE DEF a
<1>4. TypeOK'
  BY <1>1, <1>2, <1>3 DEF TypeOK
<1>5. Ready(t, queue[t], sent[t])'
  <2>1. Consecutive(queue[t], sent[t])' /\ (1 <= FirstOf(queue[t], sent[t]))'
    BY <1>1 DEF Ready, Consecutive, FirstOf
  <2>2. OneRequest(t, queue[t], sent[t])'
    BY <1>1, <1>2, <1>3 DEF Ready, OneRequest, FirstOf
  <2>3. SettledBefore(t, queue[t], sent[t])'
    BY <1>1, <1>2, <1>3 DEF Ready, SettledBefore
  <2>4. PtyBehind(t, queue[t], sent[t])'
    BY <1>1, <1>2, <1>3 DEF Ready, PtyBehind, FirstOf, Taken, Open
  <2>5. QED
    BY <2>1, <2>2, <2>3, <2>4 DEF Ready
<1>6. ASSUME NEW s \in Sessions, s # t
      PROVE  Ready(s, queue[s], sent[s])' /\ (queue'[s] # <<>> => inflight'[s] # {})
  <2>1. /\ queue'[s] = queue[s] /\ sent'[s] = sent[s] /\ inflight'[s] = inflight[s]
        /\ draining'[s] = draining[s] /\ resolved'[s] = resolved[s]
        /\ rejected'[s] = rejected[s] /\ pty'[s] = pty[s]
    BY <1>1, <1>3, <1>6 DEF TypeOK
  <2>2. QED
    BY <2>1, <1>6, FrameReady DEF InputInv
<1>7. QED
  BY <1>3, <1>4, <1>5, <1>6 DEF InputInv

(* Steps that leave the sessions' inputs alone keep the invariant.         *)
LEMMA BackendKeeps ==
    ASSUME InputInv, UNCHANGED <<uiVars, inflight, pty>>,
           registered' \subseteq Sessions, alive' \subseteq Sessions
    PROVE  InputInv'
<1>1. ASSUME NEW s \in Sessions
      PROVE  Ready(s, queue[s], sent[s])' /\ (queue'[s] # <<>> => inflight'[s] # {})
  BY FrameReady DEF InputInv, uiVars
<1>2. TypeOK'
  BY DEF InputInv, TypeOK, uiVars
<1>3. QED
  BY <1>1, <1>2 DEF InputInv

(* The inductive invariant holds in every reachable state.                 *)
THEOREM InputInvariant == Spec => []InputInv
<1>1. Init => InputInv
  <2> SUFFICES ASSUME Init PROVE InputInv
    OBVIOUS
  <2>1. TypeOK
    BY DEF Init, TypeOK
  <2>2. ASSUME NEW s \in Sessions
        PROVE  Ready(s, queue[s], sent[s]) /\ queue[s] = <<>>
    <3>1. /\ queue[s] = <<>> /\ sent[s] = 0 /\ inflight[s] = {} /\ draining[s] = FALSE
          /\ resolved[s] = {} /\ rejected[s] = {} /\ pty[s] = <<>>
      BY DEF Init
    <3>2. FirstOf(queue[s], sent[s]) = 1
      BY <3>1 DEF FirstOf
    <3>3. Consecutive(queue[s], sent[s])
      BY <3>1, <3>2 DEF Consecutive
    <3>4. OneRequest(s, queue[s], sent[s])
      BY <3>1 DEF OneRequest
    <3>5. SettledBefore(s, queue[s], sent[s])
      BY <3>1, <3>2 DEF SettledBefore
    <3>6. PtyBehind(s, queue[s], sent[s])
      BY <3>1 DEF PtyBehind
    <3>7. QED
      BY <3>1, <3>2, <3>3, <3>4, <3>5, <3>6 DEF Ready
  <2>3. QED
    BY <2>1, <2>2 DEF InputInv
<1>2. InputInv /\ [Next]_vars => InputInv'
  <2> SUFFICES ASSUME InputInv, [Next]_vars PROVE InputInv'
    OBVIOUS
  <2>1. CASE UserInput
    BY <2>1, SendInputKeeps DEF UserInput
  <2>2. ASSUME NEW s \in Sessions, TimerFires(s) PROVE InputInv'
    BY <2>2, TimerFiresKeeps
  <2>3. ASSUME NEW s \in Sessions, Settle(s) PROVE InputInv'
    BY <2>3, RequestSettledKeeps DEF Settle
  <2>4. ASSUME NEW s \in Sessions, Respond(s) PROVE InputInv'
    BY <2>4, LookUpKeeps, WriteInputKeeps, RefuseInputKeeps DEF Respond
  <2>5. ASSUME NEW s \in Sessions, Close(s) PROVE InputInv'
    BY <2>5, BackendKeeps DEF Close, InputInv, TypeOK
  <2>6. ASSUME NEW s \in Sessions, ChildExits(s) PROVE InputInv'
    BY <2>6, BackendKeeps DEF ChildExits, InputInv, TypeOK
  <2>7. CASE UNCHANGED vars
    <3>1. UNCHANGED <<uiVars, inflight, pty, registered, alive>>
      BY <2>7 DEF vars, uiVars
    <3>2. QED
      BY <3>1, BackendKeeps DEF InputInv, TypeOK
  <2>8. QED
    BY <2>1, <2>2, <2>3, <2>4, <2>5, <2>6, <2>7 DEF Next
<1>3. QED
  BY <1>1, <1>2, PTL DEF Spec

(* Every variable keeps its type.                                          *)
THEOREM TypeCorrect == Spec => []TypeOK
<1>1. InputInv => TypeOK
  BY DEF InputInv
<1>2. QED
  BY <1>1, InputInvariant, PTL

(* A child receives the inputs of its session in order, none twice.        *)
THEOREM Ordered == Spec => []InOrder
<1>1. InputInv => InOrder
  BY DEF InputInv, InOrder, Ready, PtyBehind
<1>2. QED
  BY <1>1, InputInvariant, PTL

(* A session never has two drain loops.                                    *)
THEOREM SingleLoop == Spec => []OneLoop
<1>1. InputInv => OneLoop
  BY DEF InputInv, OneLoop, Ready, OneRequest
<1>2. QED
  BY <1>1, InputInvariant, PTL

(* Waiting input always has a running loop.                                *)
THEOREM Unstranded == Spec => []NoneStranded
<1>1. InputInv => NoneStranded
  BY DEF InputInv, NoneStranded
<1>2. QED
  BY <1>1, InputInvariant, PTL

(* The inputs in the queue's entries are those from the first on.          *)
LEMMA QueuedInputs ==
    ASSUME NEW q \in Seq(Entry), NEW last \in Nat, Consecutive(q, last)
    PROVE  UNION {q[i].lo .. q[i].hi : i \in 1 .. Len(q)} = FirstOf(q, last) .. last
<1>1. ASSUME NEW i \in 1 .. Len(q), NEW n \in q[i].lo .. q[i].hi
      PROVE  n \in FirstOf(q, last) .. last
  <2>1. /\ q # <<>> /\ 1 \in 1 .. Len(q) /\ Len(q) \in 1 .. Len(q)
        /\ q[i] \in Entry /\ q[1] \in Entry /\ q[Len(q)] \in Entry
    OBVIOUS
  <2>2. FirstOf(q, last) = q[1].lo /\ q[Len(q)].hi = last
    BY <2>1 DEF FirstOf, Consecutive
  <2>3. i # 1 => q[1].hi < q[i].lo
    BY <2>1 DEF Consecutive
  <2>4. i # Len(q) => q[i].hi < q[Len(q)].lo
    BY <2>1 DEF Consecutive
  <2>5. q[1].lo <= q[i].lo /\ q[i].hi <= last
    BY <2>1, <2>2, <2>3, <2>4 DEF Entry
  <2>6. q[i].lo \in Nat /\ q[i].hi \in Nat /\ q[1].lo \in Nat
    BY <2>1 DEF Entry
  <2>7. QED
    BY <2>2, <2>5, <2>6
<1>2. ASSUME NEW n \in FirstOf(q, last) .. last
      PROVE  \E i \in 1 .. Len(q) : n \in q[i].lo .. q[i].hi
  BY DEF Consecutive
<1>3. QED
  BY <1>1, <1>2

LEMMA FirstBounded ==
    ASSUME NEW q \in Seq(Entry), NEW last \in Nat, Consecutive(q, last)
    PROVE  FirstOf(q, last) <= last + 1
<1>1. CASE q = <<>>
  BY <1>1 DEF FirstOf
<1>2. CASE q # <<>>
  <2> DEFINE n == Len(q)
  <2>1. n \in Nat /\ 1 \in 1 .. n /\ n \in 1 .. n /\ q[1] \in Entry /\ q[n] \in Entry
    BY <1>2
  <2>2. q[n].hi = last /\ FirstOf(q, last) = q[1].lo
    BY <1>2 DEF Consecutive, FirstOf
  <2>3. 1 < n => q[1].hi < q[n].lo
    BY <2>1 DEF Consecutive
  <2>4. QED
    BY <2>1, <2>2, <2>3 DEF Entry
<1>3. QED
  BY <1>1, <1>2

(* Promises are honest and complete.                                       *)
THEOREM Honest == Spec => []PromisesHonest
<1>1. ASSUME InputInv, NEW s \in Sessions
      PROVE  /\ resolved[s] \subseteq {pty[s][i] : i \in 1 .. Len(pty[s])}
             /\ resolved[s] \cap rejected[s] = {}
             /\ resolved[s] \cup rejected[s] =
                   (1 .. sent[s]) \ (UNION ({r.lo .. r.hi : r \in inflight[s]}
                       \cup {queue[s][i].lo .. queue[s][i].hi : i \in 1 .. Len(queue[s])}))
  <2> DEFINE Q == UNION {queue[s][i].lo .. queue[s][i].hi : i \in 1 .. Len(queue[s])}
             R == UNION {r.lo .. r.hi : r \in inflight[s]}
             first == FirstOf(queue[s], sent[s])
  <2>1. /\ TypeOK /\ Ready(s, queue[s], sent[s])
        /\ queue[s] \in Seq(Entry) /\ sent[s] \in Nat
        /\ queue[s] # <<>> => inflight[s] # {}
    BY <1>1 DEF InputInv, TypeOK
  <2>2. Q = first .. sent[s]
    BY <2>1, QueuedInputs DEF Ready
  <2>3. resolved[s] \cup rejected[s] = (1 .. sent[s]) \ (R \cup Q)
    <3>1. CASE inflight[s] = {}
      <4>1. R = {} /\ first = sent[s] + 1
        BY <2>1, <3>1 DEF FirstOf
      <4>2. Q = {} /\ resolved[s] \cup rejected[s] = 1 .. sent[s]
        BY <2>1, <2>2, <3>1, <4>1 DEF Ready, SettledBefore
      <4>3. QED
        BY <4>1, <4>2
    <3>2. CASE inflight[s] # {}
      <4>1. PICK r \in inflight[s] : TRUE
        BY <3>2
      <4>2. /\ r \in Request /\ R = r.lo .. r.hi
            /\ 1 <= r.lo /\ r.lo <= r.hi /\ r.hi + 1 = first
            /\ resolved[s] \cup rejected[s] = 1 .. r.lo - 1
        BY <2>1, <4>1 DEF TypeOK, Ready, OneRequest, SettledBefore
      <4>3. first <= sent[s] + 1
        BY <2>1, FirstBounded DEF Ready
      <4>4. r.lo \in Nat /\ r.hi \in Nat /\ r.hi <= sent[s]
        BY <2>1, <4>2, <4>3 DEF Request
      <4> HIDE DEF Q, R, first
      <4>5. QED
        BY <2>1, <2>2, <4>2, <4>4
    <3>3. QED
      BY <3>1, <3>2
  <2>4. UNION ({r.lo .. r.hi : r \in inflight[s]}
               \cup {queue[s][i].lo .. queue[s][i].hi : i \in 1 .. Len(queue[s])}) = R \cup Q
    OBVIOUS
  <2>5. QED
    BY <2>1, <2>3, <2>4 DEF Ready, SettledBefore, PtyBehind, Taken
<1>2. InputInv => PromisesHonest
  BY <1>1 DEF PromisesHonest
<1>3. QED
  BY <1>2, InputInvariant, PTL

-----------------------------------------------------------------------------

(* What the refinement mapping gives in a reachable state.                 *)
HandedIs(s) ==
    /\ HandedOver(s) \in Nat
    /\ \A r \in inflight[s] :
          HandedOver(s) = IF r \in Open(s) THEN r.lo - 1 ELSE r.hi
    /\ inflight[s] = {} => HandedOver(s) = sent[s]

LEMMA HandedValue == ASSUME InputInv, NEW s \in Sessions PROVE HandedIs(s)
<1>1. /\ queue[s] \in Seq(Entry) /\ sent[s] \in Nat /\ inflight[s] \subseteq Request
      /\ Ready(s, queue[s], sent[s]) /\ (queue[s] # <<>> => inflight[s] # {})
      /\ OneRequest(s, queue[s], sent[s])
  BY DEF InputInv, TypeOK, Ready
<1>2. queue[s] # <<>> => Head(queue[s]).lo - 1 = FirstOf(queue[s], sent[s]) - 1
  BY <1>1 DEF FirstOf
<1>3. inflight[s] = {} => HandedOver(s) = sent[s]
  BY <1>1 DEF HandedOver, Open
<1>4. ASSUME NEW r \in inflight[s]
      PROVE  HandedOver(s) = IF r \in Open(s) THEN r.lo - 1 ELSE r.hi
  <2>1. /\ r.lo \in Nat /\ r.hi \in Nat /\ r.hi + 1 = FirstOf(queue[s], sent[s])
        /\ \A x \in inflight[s] : x = r
    BY <1>1 DEF OneRequest, Request
  <2>2. CASE r \in Open(s)
    <3>1. (CHOOSE x \in inflight[s] : x \in Open(s)) = r
      BY <2>1, <2>2
    <3>2. QED
      BY <2>2, <3>1 DEF HandedOver
  <2>3. CASE r \notin Open(s)
    <3>1. Open(s) = {}
      BY <2>1, <2>3 DEF Open
    <3>2. CASE queue[s] = <<>>
      BY <1>1, <2>1, <2>3, <3>1, <3>2 DEF HandedOver, FirstOf
    <3>3. CASE queue[s] # <<>>
      <4>1. HandedOver(s) = Head(queue[s]).lo - 1
        BY <3>1, <3>3 DEF HandedOver
      <4>2. QED
        BY <1>2, <2>1, <2>3, <3>3, <4>1
    <3>4. QED
      BY <3>2, <3>3
  <2>4. QED
    BY <2>2, <2>3
<1>5. HandedOver(s) \in Nat
  <2>1. CASE inflight[s] # {}
    <3>1. PICK r \in inflight[s] : TRUE
      BY <2>1
    <3>2. r.lo \in Nat /\ r.hi \in Nat /\ 1 <= r.lo
      BY <1>1 DEF OneRequest, Request
    <3>3. QED
      BY <1>4, <3>1, <3>2
  <2>2. QED
    BY <1>1, <1>3, <2>1
<1>6. QED
  BY <1>3, <1>4, <1>5 DEF HandedIs

LEMMA HandedValueNext == InputInv' => (\A s \in Sessions : HandedIs(s))'
<1>1. InputInv => \A s \in Sessions : HandedIs(s)
  BY HandedValue
<1>2. QED
  BY <1>1, PTL

(* Once s is closed, nothing after input n can reach its child: none has   *)
(* and the request that holds the writer, if any, ends there.              *)
CutAt(s, n) ==
    /\ s \notin registered
    /\ \A i \in 1 .. Len(pty[s]) : pty[s][i] <= n
    /\ \A r \in inflight[s] : r.phase = "found" => r.hi <= n

ReachesTo(s, n) == \A i \in 1 .. Len(pty[s]) : pty[s][i] <= n

LEMMA ClaimedCuts ==
    ASSUME InputInv, NEW s \in Sessions, s \notin registered
    PROVE  CutAt(s, Claimed(s))
<1>1. /\ HandedIs(s) /\ Ready(s, queue[s], sent[s]) /\ queue[s] \in Seq(Entry)
      /\ inflight[s] \subseteq Request /\ sent[s] \in Nat /\ pty[s] \in Seq(Nat)
      /\ \A r1, r2 \in inflight[s] : r1 = r2
      /\ queue[s] # <<>> => inflight[s] # {}
  BY HandedValue DEF InputInv, TypeOK, Ready, OneRequest
<1>2. \A r \in inflight[s] :
         /\ r.lo \in Nat /\ r.hi \in Nat /\ r.lo <= r.hi
         /\ r.hi + 1 = FirstOf(queue[s], sent[s])
  BY <1>1 DEF Ready, OneRequest, Request
<1>3. \A i \in 1 .. Len(pty[s]) :
         /\ pty[s][i] \in Nat /\ pty[s][i] < FirstOf(queue[s], sent[s])
         /\ \A r \in Open(s) : pty[s][i] < r.lo
  BY <1>1 DEF Ready, PtyBehind
<1>4. CASE \E r \in inflight[s] : HoldsWriter(s, r)
  <2>1. PICK r \in inflight[s] : HoldsWriter(s, r)
    BY <1>4
  <2>2. Claimed(s) = r.hi
    <3>1. (CHOOSE x \in inflight[s] : HoldsWriter(s, x)) = r
      BY <1>1, <2>1
    <3>2. QED
      BY <1>4, <3>1 DEF Claimed
  <2>3. r \in Open(s) /\ \A x \in inflight[s] : x = r
    BY <1>1, <2>1 DEF HoldsWriter, Open
  <2>4. QED
    BY <1>2, <1>3, <2>1, <2>2, <2>3 DEF CutAt
<1>5. CASE ~ \E r \in inflight[s] : HoldsWriter(s, r)
  <2>1. Claimed(s) = HandedOver(s)
    BY <1>5 DEF Claimed
  <2>2. \A r \in inflight[s] : r.phase # "found"
    BY <1>5 DEF HoldsWriter
  <2>3. ASSUME NEW i \in 1 .. Len(pty[s]) PROVE pty[s][i] <= HandedOver(s)
    <3>1. CASE inflight[s] = {}
      BY <1>1, <1>3, <3>1 DEF HandedIs, FirstOf
    <3>2. CASE inflight[s] # {}
      <4>1. PICK r \in inflight[s] : TRUE
        BY <3>2
      <4>2. HandedOver(s) = IF r \in Open(s) THEN r.lo - 1 ELSE r.hi
        BY <1>1, <4>1 DEF HandedIs
      <4>3. QED
        BY <1>2, <1>3, <4>1, <4>2
    <3>3. QED
      BY <3>1, <3>2
  <2>4. QED
    BY <2>1, <2>2, <2>3 DEF CutAt
<1>6. QED
  BY <1>4, <1>5

LEMMA CutStays ==
    ASSUME InputInv, [Next]_vars, NEW s \in Sessions, NEW n \in Nat, CutAt(s, n)
    PROVE  CutAt(s, n)'
<1>1. /\ TypeOK /\ s \notin registered /\ ReachesTo(s, n) /\ pty[s] \in Seq(Nat)
      /\ \A r \in inflight[s] : r.phase = "found" => r.hi <= n
      /\ \A r \in inflight[s] : 1 <= r.lo /\ r.lo \in Nat /\ r.hi \in Nat
  BY DEF CutAt, ReachesTo, InputInv, TypeOK, Ready, OneRequest, Request
<1>2. CASE UserInput
  <2>1. /\ UNCHANGED <<pty, registered>>
        /\ \A r \in inflight'[s] : r \in inflight[s] \/ r.phase = "invoked"
    BY <1>2 DEF UserInput, SendInput, StartDrain, Invoke, backendVars
  <2>2. QED
    BY <1>1, <2>1 DEF CutAt, ReachesTo
<1>3. ASSUME NEW t \in Sessions, TimerFires(t) PROVE CutAt(s, n)'
  <2>1. /\ UNCHANGED <<pty, registered>>
        /\ \A r \in inflight'[s] : r \in inflight[s] \/ r.phase = "invoked"
    BY <1>3 DEF TimerFires, StartDrain, Invoke, backendVars
  <2>2. QED
    BY <1>1, <2>1 DEF CutAt, ReachesTo
<1>4. ASSUME NEW t \in Sessions, NEW r \in inflight[t], RequestSettled(t, r)
      PROVE  CutAt(s, n)'
  <2>1. /\ UNCHANGED <<pty, registered>>
        /\ \A x \in inflight'[s] : x \in inflight[s] \/ x.phase = "invoked"
    <3>1. UNCHANGED <<pty, registered>>
      BY <1>4 DEF RequestSettled, backendVars
    <3>2. CASE LoopEnds(t, r)
      <4>1. inflight' = [inflight EXCEPT ![t] = @ \ {r}]
        BY <1>4, <3>2 DEF RequestSettled
      <4>2. QED
        BY <1>1, <3>1, <4>1 DEF TypeOK
    <3>3. CASE ~LoopEnds(t, r)
      <4>1. Invoke(Head(queue[t])).phase = "invoked"
        BY DEF Invoke
      <4>2. inflight' = [inflight EXCEPT ![t] = (@ \ {r}) \cup {Invoke(Head(queue[t]))}]
        BY <1>4, <3>3 DEF RequestSettled
      <4>3. QED
        BY <1>1, <3>1, <4>1, <4>2 DEF TypeOK
    <3>4. QED
      BY <3>2, <3>3
  <2>2. QED
    BY <1>1, <2>1 DEF CutAt, ReachesTo
<1>5. ASSUME NEW t \in Sessions, NEW r \in inflight[t], LookUp(t, r)
      PROVE  CutAt(s, n)'
  <2>1. t # s /\ UNCHANGED <<pty, registered>> /\ inflight'[s] = inflight[s]
    BY <1>1, <1>5 DEF LookUp, Finds, Becomes, TypeOK, backendVars
  <2>2. QED
    BY <1>1, <2>1 DEF CutAt, ReachesTo
<1>6. ASSUME NEW t \in Sessions, NEW r \in inflight[t], WriteInput(t, r)
      PROVE  CutAt(s, n)'
  <2>1. CASE t # s
    <3>1. pty'[s] = pty[s] /\ registered' = registered /\ inflight'[s] = inflight[s]
      BY <1>1, <1>6, <2>1 DEF WriteInput, Becomes, TypeOK
    <3>2. QED
      BY <1>1, <3>1 DEF CutAt, ReachesTo
  <2>2. CASE t = s
    <3>1. /\ r.hi <= n /\ r.hi \in Nat /\ r.lo \in Nat /\ 1 <= r.lo
          /\ registered' = registered
          /\ \A x \in inflight'[s] : x \in inflight[s] \/ x.phase \in {"ok", "err"}
      <4>1. r.phase = "found" /\ registered' = registered
        BY <1>6 DEF WriteInput
      <4>2. PICK phase \in {"ok", "err"} : Becomes(t, r, phase)
        BY <1>6 DEF WriteInput
      <4>3. r \in Request /\ [r EXCEPT !.phase = phase].phase = phase
        BY <1>1, <2>2 DEF TypeOK, Request
      <4>4. inflight'[s] = (inflight[s] \ {r}) \cup {[r EXCEPT !.phase = phase]}
        BY <1>1, <2>2, <4>2 DEF Becomes, TypeOK
      <4>5. QED
        BY <1>1, <2>2, <4>1, <4>2, <4>3, <4>4
    <3>2. PICK last \in r.lo - 1 .. r.hi : pty'[s] = pty[s] \o Block(r.lo, last)
      <4>1. r.hi \in r.lo - 1 .. r.hi
        BY <2>2 DEF InputInv, TypeOK, Ready, OneRequest, Request
      <4>2. QED
        BY <1>1, <1>6, <2>2, <4>1 DEF WriteInput, TypeOK
    <3> DEFINE b == Block(r.lo, last)
    <3>3. /\ b \in Seq(Nat)
          /\ \A i \in 1 .. Len(b) : b[i] <= n
      <4>1. last \in Int /\ last >= r.lo - 1 /\ last <= n
        BY <3>1
      <4>2. /\ b \in Seq(Nat)
            /\ Len(b) = last - r.lo + 1
            /\ \A i \in 1 .. last - r.lo + 1 : b[i] = r.lo + i - 1
        BY <3>1, <4>1, BlockProperties
      <4> HIDE DEF b
      <4>3. QED
        BY <3>1, <4>1, <4>2
    <3>4. \A i \in 1 .. Len(pty'[s]) : pty'[s][i] <= n
      <4>1. pty'[s] = pty[s] \o b /\ pty[s] \in Seq(Nat) /\ b \in Seq(Nat)
        BY <1>1, <3>2, <3>3
      <4>2. /\ \A i \in 1 .. Len(pty[s]) : pty[s][i] <= n
            /\ \A i \in 1 .. Len(b) : b[i] <= n
        BY <1>1, <3>3 DEF ReachesTo
      <4> HIDE DEF b
      <4>3. QED
        BY <4>1, <4>2
    <3>5. QED
      BY <1>1, <3>1, <3>4 DEF CutAt
  <2>3. QED
    BY <2>1, <2>2
<1>7. ASSUME NEW t \in Sessions, NEW r \in inflight[t], RefuseInput(t, r)
      PROVE  CutAt(s, n)'
  <2>1. /\ UNCHANGED <<pty, registered>>
        /\ \A x \in inflight'[s] : x \in inflight[s] \/ x.phase = "err"
    <3>1. r \in Request /\ [r EXCEPT !.phase = "err"].phase = "err"
      BY <1>1 DEF TypeOK, Request
    <3>2. QED
      BY <1>1, <1>7, <3>1 DEF RefuseInput, Becomes, TypeOK, backendVars
  <2>2. QED
    BY <1>1, <2>1 DEF CutAt, ReachesTo
<1>8. ASSUME NEW t \in Sessions, Close(t) \/ ChildExits(t)
      PROVE  CutAt(s, n)'
  BY <1>1, <1>8 DEF Close, ChildExits, CutAt, ReachesTo
<1>9. CASE UNCHANGED vars
  BY <1>1, <1>9 DEF vars, CutAt, ReachesTo
<1>10. QED
  BY <1>2, <1>3, <1>4, <1>5, <1>6, <1>7, <1>8, <1>9 DEF Next, Settle, Respond

(* After close at most the request that held the writer reaches the child. *)
THEOREM Silence == Spec => SilentAfterClose
<1>1. ASSUME NEW s \in Sessions, NEW n \in 0 .. MaxInputs
      PROVE  Spec => [](s \notin registered /\ Claimed(s) = n
                          => [](\A i \in 1 .. Len(pty[s]) : pty[s][i] <= n))
  <2>1. n \in Nat
    BY MaxInputsAssumption
  <2>2. InputInv => (s \notin registered /\ Claimed(s) = n => CutAt(s, n))
    BY ClaimedCuts
  <2>3. InputInv /\ [Next]_vars /\ CutAt(s, n) => CutAt(s, n)'
    BY <2>1, CutStays
  <2>4. CutAt(s, n) => \A i \in 1 .. Len(pty[s]) : pty[s][i] <= n
    BY DEF CutAt
  <2>5. QED
    BY <2>2, <2>3, <2>4, InputInvariant, PTL DEF Spec
<1>2. QED
  BY <1>1 DEF SilentAfterClose

-----------------------------------------------------------------------------

(* A step that changes no request and no answer hands nothing over.        *)
LEMMA HandedSame ==
    ASSUME InputInv, InputInv', NEW s \in Sessions,
           inflight'[s] = inflight[s],
           inflight[s] = {} => sent'[s] = sent[s]
    PROVE  HandedOver(s)' = HandedOver(s)
<1>1. /\ \A r \in inflight[s] : HandedOver(s) = IF r \in Open(s) THEN r.lo - 1 ELSE r.hi
      /\ inflight[s] = {} => HandedOver(s) = sent[s]
  BY HandedValue DEF HandedIs
<1>2. /\ \A r \in inflight'[s] :
            HandedOver(s)' = IF r \in Open(s)' THEN r.lo - 1 ELSE r.hi
      /\ inflight'[s] = {} => HandedOver(s)' = sent'[s]
  BY HandedValueNext DEF HandedIs
<1> USE DEF Open
<1>3. CASE inflight[s] = {}
  BY <1>1, <1>2, <1>3
<1>4. CASE inflight[s] # {}
  <2>1. PICK r \in inflight[s] : TRUE
    BY <1>4
  <2>2. QED
    BY <1>1, <1>2, <2>1
<1>5. QED
  BY <1>3, <1>4

(* Init and every step, seen through the refinement mapping.               *)
LEMMA SendInputAccepts ==
    ASSUME InputInv, InputInv', NEW T \in SUBSET Sessions, NEW single \in BOOLEAN,
           SendInput(T, single)
    PROVE  Pipe!Accept(T)
<1>1. /\ sent' = [s \in Sessions |-> IF s \in T THEN sent[s] + 1 ELSE sent[s]]
      /\ UNCHANGED <<pty, resolved, rejected>>
  BY DEF SendInput, backendVars
<1>2. ASSUME NEW s \in Sessions
      PROVE  HandedOver(s)' = HandedOver(s)
  <2> DEFINE q == IF s \in T THEN EnqueueEntry(queue[s], sent[s] + 1, single) ELSE queue[s]
  <2>1. /\ queue[s] \in Seq(Entry) /\ sent[s] \in Nat
        /\ Ready(s, queue[s], sent[s]) /\ (queue[s] # <<>> => inflight[s] # {})
        /\ draining[s] <=> inflight[s] # {}
    BY DEF InputInv, TypeOK, Ready, OneRequest
  <2>2. CASE inflight[s] = {} /\ s \in T
    <3>1. queue[s] = <<>> /\ ~draining[s]
      BY <2>1, <2>2
    <3>2. q = <<[lo |-> sent[s] + 1, hi |-> sent[s] + 1, coalescible |-> single]>>
      BY <2>2, <3>1 DEF EnqueueEntry, CanCoalesce
    <3>3. q # <<>> /\ Head(q).lo = sent[s] + 1
      BY <3>2
    <3> HIDE DEF q
    <3>4. inflight'[s] = {Invoke(Head(q))}
      BY <2>2, <3>1, <3>3 DEF SendInput, StartDrain, Starts, q
    <3>5. Invoke(Head(q)).phase = "invoked" /\ Invoke(Head(q)).lo = sent[s] + 1
      BY <3>3 DEF Invoke
    <3>6. HandedOver(s)' = sent[s] + 1 - 1
      <4>1. \A r \in inflight'[s] :
               HandedOver(s)' = IF r \in Open(s)' THEN r.lo - 1 ELSE r.hi
        BY HandedValueNext DEF HandedIs
      <4> DEFINE x == Invoke(Head(q))
      <4>2. x \in inflight'[s] /\ x \in Open(s)' /\ x.lo = sent[s] + 1
        BY <3>4, <3>5 DEF Open
      <4> HIDE DEF x
      <4>3. HandedOver(s)' = x.lo - 1
        BY <4>1, <4>2, Zenon
      <4>4. QED
        BY <2>1, <4>2, <4>3
    <3>7. HandedOver(s) = sent[s]
      BY <2>2, HandedValue DEF HandedIs
    <3>8. QED
      BY <2>1, <3>6, <3>7
  <2>3. CASE ~(inflight[s] = {} /\ s \in T)
    <3>1. inflight'[s] = inflight[s] /\ (inflight[s] = {} => sent'[s] = sent[s])
      BY <1>1, <2>1, <2>3 DEF SendInput, StartDrain, Starts
    <3>2. QED
      BY <3>1, HandedSame
  <2>4. QED
    BY <2>2, <2>3
<1>3. [s \in Sessions |-> HandedOver(s)]' = [s \in Sessions |-> HandedOver(s)]
  BY <1>2
<1>4. QED
  BY <1>1, <1>3 DEF Pipe!Accept

LEMMA RequestSettledSettles ==
    ASSUME InputInv, InputInv', NEW t \in Sessions, NEW r \in inflight[t],
           RequestSettled(t, r)
    PROVE  Pipe!SettleBlock(t)
<1> DEFINE block == (1 .. r.hi) \ (resolved[t] \cup rejected[t])
<1>1. /\ TypeOK /\ Ready(t, queue[t], sent[t]) /\ queue[t] \in Seq(Entry)
      /\ r \in Request /\ r.phase \in {"ok", "err"} /\ inflight[t] = {r}
      /\ r \notin Open(t) /\ UNCHANGED <<sent, pty>>
  BY DEF InputInv, TypeOK, RequestSettled, Request, Ready, OneRequest, Open, backendVars
<1>2. /\ r.lo \in Nat /\ r.hi \in Nat /\ 1 <= r.lo /\ r.lo <= r.hi
      /\ resolved[t] \cup rejected[t] = 1 .. r.lo - 1
      /\ r.hi + 1 = FirstOf(queue[t], sent[t])
  BY <1>1 DEF Request, Ready, OneRequest, SettledBefore
<1>3. block = r.lo .. r.hi /\ block # {}
  BY <1>2
<1>4. HandedOver(t) = r.hi
  BY <1>1, HandedValue DEF HandedIs
<1>5. ASSUME NEW s \in Sessions
      PROVE  HandedOver(s)' = HandedOver(s)
  <2>1. CASE s # t
    <3>1. inflight'[s] = inflight[s] /\ sent'[s] = sent[s]
      BY <1>1, <2>1 DEF RequestSettled, TypeOK
    <3>2. QED
      BY <3>1, HandedSame
  <2>2. CASE s = t /\ queue[t] = <<>>
    <3>1. inflight'[t] = {}
      BY <1>1, <2>2 DEF RequestSettled, LoopEnds, TypeOK
    <3>2. HandedOver(t)' = sent[t]
      BY <1>1, <3>1, HandedValueNext DEF HandedIs
    <3>3. sent[t] \in Nat /\ r.hi + 1 = sent[t] + 1
      BY <1>1, <1>2, <2>2 DEF FirstOf, TypeOK
    <3>4. QED
      BY <1>2, <1>4, <2>2, <3>2, <3>3
  <2>3. CASE s = t /\ queue[t] # <<>>
    <3>1. inflight'[t] = {Invoke(Head(queue[t]))}
      BY <1>1, <2>3 DEF RequestSettled, LoopEnds, TypeOK
    <3>2. /\ Invoke(Head(queue[t])) \in Open(t)'
          /\ Invoke(Head(queue[t])).lo = FirstOf(queue[t], sent[t])
      BY <1>1, <2>3, <3>1 DEF Invoke, FirstOf, Open
    <3>3. HandedOver(t)' = FirstOf(queue[t], sent[t]) - 1
      BY <3>1, <3>2, HandedValueNext DEF HandedIs
    <3>4. QED
      BY <1>2, <1>4, <2>3, <3>3
  <2>4. QED
    BY <2>1, <2>2, <2>3
<1>6. \/ /\ block \subseteq {pty[t][i] : i \in 1 .. Len(pty[t])}
         /\ resolved' = [resolved EXCEPT ![t] = @ \cup block]
         /\ UNCHANGED rejected
      \/ /\ rejected' = [rejected EXCEPT ![t] = @ \cup block]
         /\ UNCHANGED resolved
  <2>1. CASE r.phase = "ok"
    <3>1. r.lo .. r.hi \subseteq Taken(t)
      BY <1>1, <2>1 DEF Ready, PtyBehind
    <3>2. /\ resolved' = [resolved EXCEPT ![t] = @ \cup (r.lo .. r.hi)]
          /\ rejected' = rejected
      BY <1>1, <2>1 DEF RequestSettled, TypeOK
    <3>3. QED
      BY <1>3, <3>1, <3>2 DEF Taken
  <2>2. CASE r.phase = "err"
    <3>1. /\ rejected' = [rejected EXCEPT ![t] = @ \cup (r.lo .. r.hi)]
          /\ resolved' = resolved
      BY <1>1, <2>2 DEF RequestSettled, TypeOK
    <3>2. QED
      BY <1>3, <3>1
  <2>3. QED
    BY <1>1, <2>1, <2>2
<1>7. [s \in Sessions |-> HandedOver(s)]' = [s \in Sessions |-> HandedOver(s)]
  BY <1>5
<1>8. r.hi \in 1 .. [s \in Sessions |-> HandedOver(s)][t]
  BY <1>2, <1>4
<1>9. QED
  BY <1>1, <1>3, <1>6, <1>7, <1>8 DEF Pipe!SettleBlock, Pipe!Received

(* The answer `phase` to r hands over the inputs of r. *)
LEMMA AnswerHands ==
    ASSUME InputInv, InputInv', NEW t \in Sessions, NEW r \in inflight[t],
           r \in Open(t), NEW phase \in {"ok", "err"}, Becomes(t, r, phase),
           UNCHANGED uiVars
    PROVE  /\ HandedOver(t) = r.lo - 1
           /\ r.hi \in HandedOver(t) + 1 .. sent[t]
           /\ \A s \in Sessions : HandedOver(s)' = IF s = t THEN r.hi ELSE HandedOver(s)
<1> DEFINE a == [r EXCEPT !.phase = phase]
<1>1. /\ TypeOK /\ Ready(t, queue[t], sent[t]) /\ queue[t] \in Seq(Entry) /\ sent[t] \in Nat
      /\ r \in Request /\ inflight[t] = {r} /\ UNCHANGED <<sent, queue>>
  BY DEF InputInv, TypeOK, Ready, OneRequest, uiVars
<1>2. /\ r.lo \in Nat /\ r.hi \in Nat /\ r.lo <= r.hi
      /\ r.hi + 1 = FirstOf(queue[t], sent[t])
      /\ FirstOf(queue[t], sent[t]) <= sent[t] + 1
  BY <1>1, FirstBounded DEF Request, Ready, OneRequest
<1>3. HandedOver(t) = r.lo - 1
  BY HandedValue DEF HandedIs
<1>4. inflight' = [inflight EXCEPT ![t] = {a}] /\ a.phase = phase /\ a.hi = r.hi
  BY <1>1 DEF Becomes, Request
<1> HIDE DEF a
<1>5. ASSUME NEW s \in Sessions
      PROVE  HandedOver(s)' = IF s = t THEN r.hi ELSE HandedOver(s)
  <2>1. CASE s = t
    <3>1. a \in inflight'[t] /\ a \notin Open(t)'
      BY <1>1, <1>4 DEF TypeOK, Open
    <3>2. \A x \in inflight'[t] :
             HandedOver(t)' = IF x \in Open(t)' THEN x.lo - 1 ELSE x.hi
      BY HandedValueNext DEF HandedIs
    <3>3. QED
      BY <1>4, <2>1, <3>1, <3>2
  <2>2. CASE s # t
    <3>1. inflight'[s] = inflight[s] /\ sent'[s] = sent[s]
      BY <1>1, <1>4, <2>2 DEF TypeOK
    <3>2. QED
      BY <2>2, <3>1, HandedSame
  <2>3. QED
    BY <2>1, <2>2
<1>6. QED
  BY <1>1, <1>2, <1>3, <1>5

LEMMA RespondHands ==
    ASSUME InputInv, InputInv', NEW t \in Sessions, NEW r \in inflight[t],
           WriteInput(t, r) \/ RefuseInput(t, r)
    PROVE  Pipe!Hand(t)
<1> DEFINE handed == [s \in Sessions |-> HandedOver(s)]
<1>1. /\ r \in Open(t) /\ UNCHANGED uiVars
      /\ r \in Request /\ pty \in [Sessions -> Seq(Nat)] /\ r.lo <= r.hi /\ 1 <= r.lo
  BY DEF WriteInput, RefuseInput, InputInv, TypeOK, Ready, OneRequest, Open
<1>2. PICK phase \in {"ok", "err"} : Becomes(t, r, phase)
  BY DEF WriteInput, RefuseInput
<1>3. /\ HandedOver(t) = r.lo - 1
      /\ r.hi \in HandedOver(t) + 1 .. sent[t]
      /\ \A s \in Sessions : HandedOver(s)' = IF s = t THEN r.hi ELSE HandedOver(s)
  BY <1>1, <1>2, AnswerHands
<1>4. \E last \in handed[t] .. r.hi :
         pty' = [pty EXCEPT ![t] = @ \o [i \in 1 .. last - handed[t] |-> handed[t] + i]]
  <2>1. ASSUME NEW last \in r.lo - 1 .. r.hi
        PROVE  Block(r.lo, last) = [i \in 1 .. last - handed[t] |-> handed[t] + i]
    <3>1. r.lo \in Nat /\ last \in Int /\ handed[t] = r.lo - 1
      BY <1>1, <1>3 DEF Request
    <3>2. last - r.lo + 1 = last - handed[t]
      BY <3>1
    <3>3. \A i \in 1 .. last - r.lo + 1 : r.lo + i - 1 = handed[t] + i
      BY <3>1
    <3> HIDE DEF handed
    <3>4. QED
      BY <3>2, <3>3 DEF Block
  <2>2. handed[t] = r.lo - 1 /\ r.lo \in Nat /\ r.hi \in Nat
    BY <1>1, <1>3 DEF Request
  <2> HIDE DEF handed
  <2>3. CASE WriteInput(t, r)
    <3>1. PICK last \in r.lo - 1 .. r.hi : pty' = [pty EXCEPT ![t] = @ \o Block(r.lo, last)]
      <4>1. CASE pty' = [pty EXCEPT ![t] = @ \o Block(r.lo, r.hi)]
        <5>1. r.hi \in r.lo - 1 .. r.hi
          BY <1>1, <2>2
        <5>2. QED
          BY <4>1, <5>1
      <4>2. CASE \E last \in r.lo - 1 .. r.hi :
                    pty' = [pty EXCEPT ![t] = @ \o Block(r.lo, last)]
        BY <4>2
      <4>3. QED
        BY <2>3, <4>1, <4>2 DEF WriteInput
    <3>2. QED
      BY <2>1, <2>2, <3>1
  <2>4. CASE RefuseInput(t, r)
    <3>1. Block(r.lo, r.lo - 1) = << >>
      <4>1. \A seq \in Seq(Nat) : Len(seq) = 0 => seq = << >>
        BY EmptySeq
      <4>2. r.lo - 1 \in Int /\ r.lo - 1 - r.lo + 1 = 0
        BY <2>2
      <4>3. ASSUME NEW lo \in Nat, 1 <= lo
            PROVE  Block(lo, lo - 1) \in Seq(Nat) /\ Len(Block(lo, lo - 1)) = 0
        <5>1. lo - 1 \in Int /\ lo - 1 >= lo - 1 /\ lo - 1 - lo + 1 = 0
          BY <4>3
        <5>2. QED
          BY <4>3, <5>1, BlockProperties
      <4>4. QED
        BY <1>1, <2>2, <4>1, <4>3
    <3>2. pty[t] \o << >> = pty[t]
      BY <1>1
    <3>3. pty' = [pty EXCEPT ![t] = @ \o Block(r.lo, r.lo - 1)]
      BY <1>1, <2>4, <3>1, <3>2 DEF RefuseInput, backendVars
    <3>4. r.lo - 1 \in r.lo - 1 .. r.hi
      BY <1>1, <2>2
    <3>5. QED
      BY <2>1, <2>2, <3>3, <3>4
  <2>5. QED
    BY <2>3, <2>4
<1>5. handed' = [handed EXCEPT ![t] = r.hi]
  BY <1>3
<1>6. r.hi \in handed[t] + 1 .. sent[t]
  BY <1>3
<1>7. UNCHANGED <<sent, resolved, rejected>>
  BY <1>1 DEF uiVars
<1>8. QED
  BY <1>4, <1>5, <1>6, <1>7 DEF Pipe!Hand

(* Steps that are invisible through the mapping.                           *)
LEMMA SilentStep ==
    ASSUME InputInv, InputInv',
           UNCHANGED <<sent, inflight, pty, resolved, rejected>>
    PROVE  UNCHANGED Pipe!pipeVars
<1>1. \A s \in Sessions : HandedOver(s)' = HandedOver(s)
  BY HandedSame
<1>2. [s \in Sessions |-> HandedOver(s)]' = [s \in Sessions |-> HandedOver(s)]
  BY <1>1
<1>3. QED
  BY <1>2 DEF Pipe!pipeVars

(* Taking the writer hands nothing over.                                   *)
LEMMA LookUpSilent ==
    ASSUME InputInv, InputInv', NEW t \in Sessions, NEW r \in inflight[t], LookUp(t, r)
    PROVE  UNCHANGED Pipe!pipeVars
<1> DEFINE a == [r EXCEPT !.phase = "found"]
<1>1. /\ inflight \in [Sessions -> SUBSET Request] /\ inflight[t] = {r}
      /\ r \in Request /\ r \in Open(t)
      /\ UNCHANGED <<sent, pty, resolved, rejected>>
  BY DEF InputInv, TypeOK, Ready, OneRequest, LookUp, Open, uiVars, backendVars
<1>2. inflight' = [inflight EXCEPT ![t] = {a}] /\ a.phase = "found" /\ a.lo = r.lo
  BY <1>1 DEF LookUp, Becomes, Request
<1> HIDE DEF a
<1>3. ASSUME NEW s \in Sessions
      PROVE  HandedOver(s)' = HandedOver(s)
  <2>1. CASE s = t
    <3>1. a \in inflight'[t] /\ a \in Open(t)'
      BY <1>1, <1>2 DEF Open
    <3>2. \A x \in inflight'[t] :
             HandedOver(t)' = IF x \in Open(t)' THEN x.lo - 1 ELSE x.hi
      BY HandedValueNext DEF HandedIs
    <3>3. HandedOver(t) = r.lo - 1
      BY <1>1, HandedValue DEF HandedIs
    <3>4. QED
      BY <1>2, <2>1, <3>1, <3>2, <3>3
  <2>2. CASE s # t
    <3>1. inflight'[s] = inflight[s] /\ sent'[s] = sent[s]
      BY <1>1, <1>2, <2>2
    <3>2. QED
      BY <3>1, HandedSame
  <2>3. QED
    BY <2>1, <2>2
<1>4. [s \in Sessions |-> HandedOver(s)]' = [s \in Sessions |-> HandedOver(s)]
  BY <1>3
<1>5. QED
  BY <1>1, <1>4 DEF Pipe!pipeVars

(* The input queue with its drain loops and the backend implements the     *)
(* safety part of InputPipe.                                               *)
THEOREM Refinement == Spec => Pipe!PipeSafety
<1>1. Init => Pipe!PipeInit
  <2> SUFFICES ASSUME Init PROVE Pipe!PipeInit
    OBVIOUS
  <2>1. \A s \in Sessions : HandedOver(s) = 0
    BY DEF Init, HandedOver, Open
  <2>2. [s \in Sessions |-> HandedOver(s)] = [s \in Sessions |-> 0]
    BY <2>1
  <2>3. QED
    BY <2>2 DEF Init, Pipe!PipeInit
<1>2. InputInv /\ InputInv' /\ [Next]_vars => [Pipe!PipeNext]_(Pipe!pipeVars)
  <2> SUFFICES ASSUME InputInv, InputInv', [Next]_vars
               PROVE  Pipe!PipeNext \/ UNCHANGED Pipe!pipeVars
    OBVIOUS
  <2>1. CASE UserInput
    BY <2>1, SendInputAccepts DEF UserInput, Pipe!PipeNext
  <2>2. ASSUME NEW t \in Sessions, TimerFires(t)
        PROVE  UNCHANGED Pipe!pipeVars
    <3>1. UNCHANGED <<sent, pty, resolved, rejected>>
      BY <2>2 DEF TimerFires, backendVars
    <3>2. \A s \in Sessions : queue[s] # <<>> => draining[s]
      BY DEF InputInv, Ready, OneRequest
    <3>3. Starts({t}, queue) = {}
      BY <3>2 DEF Starts
    <3>4. inflight' = inflight
      BY <2>2, <3>3 DEF TimerFires, StartDrain, InputInv, TypeOK
    <3>5. QED
      BY <3>1, <3>4, SilentStep
  <2>3. ASSUME NEW t \in Sessions, Settle(t)
        PROVE  Pipe!PipeNext
    BY <2>3, RequestSettledSettles DEF Settle, Pipe!PipeNext
  <2>4. ASSUME NEW t \in Sessions, Respond(t)
        PROVE  Pipe!PipeNext \/ UNCHANGED Pipe!pipeVars
    BY <2>4, RespondHands, LookUpSilent DEF Respond, Pipe!PipeNext
  <2>5. ASSUME NEW t \in Sessions, Close(t) \/ ChildExits(t)
        PROVE  UNCHANGED Pipe!pipeVars
    BY <2>5, SilentStep DEF Close, ChildExits, uiVars
  <2>6. CASE UNCHANGED vars
    BY <2>6, SilentStep DEF vars
  <2>7. QED
    BY <2>1, <2>2, <2>3, <2>4, <2>5, <2>6 DEF Next
<1>3. QED
  BY <1>1, <1>2, InputInvariant, PTL DEF Spec, Pipe!PipeSafety
=============================================================================
