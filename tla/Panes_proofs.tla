---------------------------- MODULE Panes_proofs ----------------------------
(***************************************************************************)
(* Theorems about what the panes show and do, for any sessions, folders,   *)
(* items and bounds: the output of sessions and the questions about host   *)
(* keys, the file panes, the transfers between them, the keys of an        *)
(* NSS-Commander, and the views, keyboard and marks of panes.              *)
(***************************************************************************)
EXTENDS SessionOutput, FilePane, NssTransfer, CommanderOps, PaneViews, SequenceTheorems,
        WellFoundedInduction, TLAPS

-----------------------------------------------------------------------------
(* Session output and host-key prompts                                     *)

Number == 1..MaxPrinted
Streams == [Sessions -> Seq(Number)]
TerminalStreams == [Terminal -> Seq(Number)]

ReaderTypes ==
    /\ printed \in [Sessions -> 0..MaxPrinted] /\ taken \in [Sessions -> 0..MaxPrinted]
    /\ \A s \in Sessions : taken[s] <= printed[s]
    /\ reader \in [Sessions -> {"none", "reads", "ended"}]

TabTypes ==
    /\ tabs \subseteq Sessions /\ tabsRef \subseteq Sessions
    /\ mounted \subseteq Terminal /\ doubled \subseteq Sessions

StreamTypes ==
    /\ events \in [Sessions -> Seq(Event)]
    /\ batch \in TerminalStreams /\ screen \in TerminalStreams /\ arrived \in TerminalStreams
    /\ scrollback \in Streams /\ seen \in Streams

QuestionTypes ==
    /\ DOMAIN queue \subseteq Sessions
    /\ \A s \in DOMAIN queue : queue[s] \subseteq DOMAIN queue
    /\ accepting \in [Sessions -> [save : Nat, send : Nat]]
    /\ trusted \subseteq Hosts /\ trustedRef \subseteq Hosts
    /\ asked \in [Sessions -> Nat] /\ answers \in [Sessions -> Nat]

OutputTypes == ReaderTypes /\ TabTypes /\ StreamTypes /\ QuestionTypes

-----------------------------------------------------------------------------
(* Numbers, chunks and the end of a sequence                               *)

LEMMA NumbersAre ==
    ASSUME NEW a \in Number, NEW b \in Number, a <= b
    PROVE  /\ Numbers(a, b) \in Seq(Number) /\ Len(Numbers(a, b)) = b + 1 - a
           /\ \A i \in 1..(b + 1 - a) : Numbers(a, b)[i] = a + i - 1
<1>1. b + 1 - a \in Nat /\ \A i \in 1..(b + 1 - a) : a + i - 1 \in Number
  BY OutputAssumption DEF Number
<1> QED
  BY <1>1 DEF Numbers

LEMMA EventIs ==
    /\ \A e \in Event : e.first \in Number /\ e.last \in Number
    /\ \A n \in Number : n \in Nat
  BY OutputAssumption DEF Event, Number

LEMMA ChunkIs ==
    ASSUME NEW a \in Number, NEW b \in Number
    PROVE  /\ Chunk(a, b) \in Event /\ Chunk(a, b).first = a /\ Chunk(a, b).last = b
  BY DEF Chunk, Event, Number

IsEnd(short, long) ==
    /\ Len(short) <= Len(long)
    /\ \A i \in 1..Len(short) : short[i] = long[Len(long) - Len(short) + i]

LEMMA LastOfIs ==
    ASSUME NEW S, NEW q \in Seq(S), NEW n \in Nat
    PROVE  /\ LastOf(q, n) \in Seq(S)
           /\ Len(LastOf(q, n)) = IF Len(q) <= n THEN Len(q) ELSE n
           /\ \A i \in 1..Len(LastOf(q, n)) : LastOf(q, n)[i] = q[Len(q) - Len(LastOf(q, n)) + i]
           /\ Len(q) <= n => LastOf(q, n) = q
<1>1. CASE Len(q) <= n
  BY <1>1 DEF LastOf
<1>2. CASE ~(Len(q) <= n)
  <2>1. /\ Len(q) - n + 1 \in Int /\ Len(q) \in Int
        /\ \A i \in Len(q) - n + 1 .. Len(q) : q[i] \in S
    BY <1>2
  <2>2. LastOf(q, n) = SubSeq(q, Len(q) - n + 1, Len(q))
    BY <1>2 DEF LastOf
  <2>3. /\ LastOf(q, n) \in Seq(S)
        /\ Len(LastOf(q, n)) = IF Len(q) - n + 1 <= Len(q) THEN Len(q) - (Len(q) - n + 1) + 1 ELSE 0
        /\ \A i \in 1 .. Len(q) - (Len(q) - n + 1) + 1 :
             LastOf(q, n)[i] = q[(Len(q) - n + 1) + i - 1]
    BY <2>1, <2>2, SubSeqProperties
  <2>4. Len(LastOf(q, n)) = n
    BY <1>2, <2>3
  <2>5. \A i \in 1..n : LastOf(q, n)[i] = q[Len(q) - n + i]
    BY <1>2, <2>3
  <2> QED
    BY <1>2, <2>3, <2>4, <2>5
<1> QED
  BY <1>1, <1>2

LEMMA EndsWithIs ==
    ASSUME NEW S, NEW short \in Seq(S), NEW long \in Seq(S)
    PROVE  EndsWith(short, long) <=> IsEnd(short, long)
<1> DEFINE last == LastOf(long, Len(short))
<1>1. /\ last \in Seq(S)
      /\ Len(last) = IF Len(long) <= Len(short) THEN Len(long) ELSE Len(short)
      /\ \A i \in 1..Len(last) : last[i] = long[Len(long) - Len(last) + i]
  BY LastOfIs
<1>2. EndsWith(short, long) <=> short = last
  BY DEF EndsWith
<1> HIDE DEF last
<1>3. ASSUME short = last
      PROVE  IsEnd(short, long)
  <2>1. Len(short) \in Nat /\ Len(long) \in Nat
    OBVIOUS
  <2>2. Len(last) <= Len(long)
    BY <1>1, <2>1
  <2>3. IsEnd(last, long)
    BY <1>1, <2>2 DEF IsEnd
  <2> QED
    BY <1>3, <2>3
<1>4. ASSUME IsEnd(short, long)
      PROVE  short = last
  <2>1. Len(short) = Len(last)
    BY <1>1, <1>4 DEF IsEnd
  <2>2. \A i \in 1..Len(short) : short[i] = last[i]
    BY <1>1, <1>4, <2>1 DEF IsEnd
  <2> QED
    BY <1>1, <2>1, <2>2, SeqEqual
<1> QED
  BY <1>2, <1>3, <1>4

\* What is added to both keeps one the end of the other.
LEMMA EndGrows ==
    ASSUME NEW S, NEW short \in Seq(S), NEW long \in Seq(S), NEW more \in Seq(S),
           IsEnd(short, long)
    PROVE  IsEnd(short \o more, long \o more)
<1>1. /\ Len(short \o more) = Len(short) + Len(more)
      /\ \A i \in 1..Len(short) + Len(more) :
           (short \o more)[i] = IF i <= Len(short) THEN short[i] ELSE more[i - Len(short)]
  BY ConcatProperties
<1>2. /\ Len(long \o more) = Len(long) + Len(more)
      /\ \A i \in 1..Len(long) + Len(more) :
           (long \o more)[i] = IF i <= Len(long) THEN long[i] ELSE more[i - Len(long)]
  BY ConcatProperties
<1>3. Len(short) \in Nat /\ Len(long) \in Nat /\ Len(more) \in Nat /\ Len(short) <= Len(long)
  BY DEF IsEnd
<1>4. Len(short \o more) <= Len(long \o more)
  BY <1>1, <1>2, <1>3
<1>5. ASSUME NEW i \in 1..Len(short \o more)
      PROVE  (short \o more)[i] = (long \o more)[Len(long \o more) - Len(short \o more) + i]
  <2> DEFINE j == Len(long) - Len(short) + i
  <2>1. j \in 1..Len(long) + Len(more) /\ Len(long \o more) - Len(short \o more) + i = j
    BY <1>1, <1>2, <1>3
  <2>2. CASE i <= Len(short)
    <3>0. i \in 1..Len(short) /\ i \in 1..Len(short) + Len(more)
      BY <1>1, <1>3, <2>2
    <3>1. (short \o more)[i] = short[i] /\ short[i] = long[j]
      <4>1. (short \o more)[i] = short[i]
        BY <1>1, <2>2, <3>0
      <4>2. short[i] = long[j]
        BY <3>0 DEF IsEnd
      <4> QED
        BY <4>1, <4>2
    <3>2. j <= Len(long)
      BY <1>3, <2>2
    <3> QED
      BY <1>2, <2>1, <3>1, <3>2
  <2>3. CASE ~(i <= Len(short))
    <3>1. ~(j <= Len(long)) /\ j - Len(long) = i - Len(short)
      BY <1>3, <2>3
    <3> QED
      BY <1>1, <1>2, <2>1, <2>3, <3>1
  <2> QED
    BY <2>2, <2>3
<1> QED
  BY <1>4, <1>5 DEF IsEnd

\* The last of an end is an end.
LEMMA EndOfEnd ==
    ASSUME NEW S, NEW short \in Seq(S), NEW long \in Seq(S), NEW n \in Nat,
           IsEnd(short, long)
    PROVE  IsEnd(LastOf(short, n), long)
<1>1. /\ Len(LastOf(short, n)) <= Len(short) /\ Len(LastOf(short, n)) \in Nat
      /\ \A i \in 1..Len(LastOf(short, n)) :
           LastOf(short, n)[i] = short[Len(short) - Len(LastOf(short, n)) + i]
  BY LastOfIs
<1>2. Len(short) \in Nat /\ Len(long) \in Nat /\ Len(short) <= Len(long)
  BY DEF IsEnd
<1>3. ASSUME NEW i \in 1..Len(LastOf(short, n))
      PROVE  LastOf(short, n)[i] = long[Len(long) - Len(LastOf(short, n)) + i]
  <2> DEFINE j == Len(short) - Len(LastOf(short, n)) + i
  <2>1. j \in 1..Len(short) /\ Len(long) - Len(short) + j = Len(long) - Len(LastOf(short, n)) + i
    BY <1>1, <1>2
  <2>2. LastOf(short, n)[i] = short[j] /\ short[j] = long[Len(long) - Len(short) + j]
    BY <1>1, <2>1 DEF IsEnd
  <2> QED
    BY <2>1, <2>2
<1> QED
  BY <1>1, <1>2, <1>3 DEF IsEnd

-----------------------------------------------------------------------------
(* Every step keeps the types                                              *)

LEMMA ReaderTypesStep ==
    ASSUME OutputTypes, NEW s \in Sessions,
           SpawnReader(s) \/ ChildPrints(s) \/ ReadAndEmit(s) \/ ReaderEnds(s)
    PROVE  OutputTypes'
<1>1. /\ UNCHANGED <<tabs, tabsRef, mounted, batch, screen, scrollback, arrived, seen, doubled,
                     queue, accepting, trusted, trustedRef, asked, answers>>
  BY DEF SpawnReader, ChildPrints, ReadAndEmit, ReaderEnds, terminals, trust
<1>2. TabTypes' /\ QuestionTypes'
  BY <1>1 DEF OutputTypes, TabTypes, QuestionTypes
<1>3. CASE SpawnReader(s) \/ ChildPrints(s) \/ ReaderEnds(s)
  <2>1. ReaderTypes'
    BY <1>3, OutputAssumption DEF OutputTypes, ReaderTypes, SpawnReader, ChildPrints, ReaderEnds
  <2>2. StreamTypes'
    BY <1>1, <1>3 DEF OutputTypes, StreamTypes, SpawnReader, ChildPrints, ReaderEnds
  <2> QED
    BY <1>2, <2>1, <2>2 DEF OutputTypes
<1>4. CASE ReadAndEmit(s)
  <2>1. PICK b \in taken[s] + 1 .. printed[s] :
          /\ taken' = [taken EXCEPT ![s] = b]
          /\ \/ /\ events' = [events EXCEPT ![s] = Append(@, Chunk(taken[s] + 1, b))]
                /\ UNCHANGED reader
             \/ /\ \E cut \in taken[s] + 1 .. b - 1 :
                     events' = [events EXCEPT ![s] =
                                  @ \o <<Chunk(taken[s] + 1, cut), Chunk(cut + 1, b)>>]
                /\ UNCHANGED reader
             \/ /\ reader' = [reader EXCEPT ![s] = "ended"]
                /\ UNCHANGED events
    BY <1>4 DEF ReadAndEmit
  <2>2. printed' = printed
    BY <1>4 DEF ReadAndEmit
  <2>3. b \in Number /\ taken[s] + 1 \in Number /\ b \in 0..MaxPrinted
    BY OutputAssumption DEF OutputTypes, ReaderTypes, Number
  <2>4. ReaderTypes'
    BY <2>1, <2>2, <2>3 DEF OutputTypes, ReaderTypes
  <2>5. events' \in [Sessions -> Seq(Event)]
    <3>1. events \in [Sessions -> Seq(Event)] /\ events[s] \in Seq(Event)
      BY DEF OutputTypes, StreamTypes
    <3>2. CASE events' = [events EXCEPT ![s] = Append(@, Chunk(taken[s] + 1, b))]
      <4>1. Chunk(taken[s] + 1, b) \in Event
        BY <2>3, ChunkIs
      <4>2. Append(events[s], Chunk(taken[s] + 1, b)) \in Seq(Event)
        BY <3>1, <4>1
      <4> QED
        BY <3>1, <3>2, <4>2
    <3>3. ASSUME NEW cut \in taken[s] + 1 .. b - 1,
                 events' = [events EXCEPT ![s] =
                              @ \o <<Chunk(taken[s] + 1, cut), Chunk(cut + 1, b)>>]
          PROVE  events' \in [Sessions -> Seq(Event)]
      <4>1. cut \in Number /\ cut + 1 \in Number
        BY <2>3, OutputAssumption DEF OutputTypes, ReaderTypes, Number
      <4>2. <<Chunk(taken[s] + 1, cut), Chunk(cut + 1, b)>> \in Seq(Event)
        <5>1. Chunk(taken[s] + 1, cut) \in Event /\ Chunk(cut + 1, b) \in Event
          BY <2>3, <4>1, ChunkIs
        <5> QED
          BY <5>1
      <4>3. events[s] \o <<Chunk(taken[s] + 1, cut), Chunk(cut + 1, b)>> \in Seq(Event)
        BY <3>1, <4>2, ConcatProperties
      <4> QED
        BY <3>1, <3>3, <4>3
    <3> QED
      BY <2>1, <3>1, <3>2, <3>3
  <2>6. StreamTypes'
    BY <1>1, <2>5 DEF OutputTypes, StreamTypes
  <2> QED
    BY <1>2, <2>4, <2>6 DEF OutputTypes
<1> QED
  BY <1>3, <1>4

LEMMA EventFields ==
    ASSUME StreamTypes, NEW s \in Sessions, events[s] # <<>>
    PROVE  /\ Head(events[s]) \in Event /\ Tail(events[s]) \in Seq(Event)
           /\ Head(events[s]).first \in Number /\ Head(events[s]).last \in Number
<1>1. Head(events[s]) \in Event /\ Tail(events[s]) \in Seq(Event)
  BY HeadTailProperties DEF StreamTypes
<1>2. \A e \in Event : e.first \in Number /\ e.last \in Number
  BY DEF Event, Number
<1> QED
  BY <1>1, <1>2

\* Chunks q on their way and numbers given to terminals are in order; all were read.
Ordered(q, given, top) ==
    /\ \A i \in 1..Len(q) : q[i].first <= q[i].last /\ q[i].last <= top
    /\ \A i, j \in 1..Len(q) : i < j => q[i].last < q[j].first
    /\ \A k \in 1..Len(given) : given[k] <= top /\ \A i \in 1..Len(q) : given[k] < q[i].first
    /\ \A i, j \in 1..Len(given) : i < j => given[i] < given[j]

InOrder(s) == Ordered(events[s], seen[s], taken[s])

LEMMA HandlePromptTypes ==
    ASSUME QuestionTypes, NEW s \in Sessions, HandleHostKeyPrompt(s),
           UNCHANGED <<accepting, trusted, trustedRef>>
    PROVE  QuestionTypes'
<1>1. asked' \in [Sessions -> Nat] /\ answers' \in [Sessions -> Nat]
  BY DEF QuestionTypes, HandleHostKeyPrompt, AnswersItself
<1>2. queue' = queue \/ queue' = Queued(s)
  BY DEF HandleHostKeyPrompt, AnswersItself
<1>3. DOMAIN queue' \subseteq Sessions /\ \A t \in DOMAIN queue' : queue'[t] \subseteq DOMAIN queue'
  BY <1>2 DEF QuestionTypes, Queued
<1> QED
  BY <1>1, <1>3 DEF QuestionTypes

LEMMA FilterTypes ==
    ASSUME QuestionTypes, NEW open, queue' = OpenOnly(open)
    PROVE  /\ DOMAIN queue' \subseteq Sessions
           /\ \A t \in DOMAIN queue' : queue'[t] \subseteq DOMAIN queue'
           /\ DOMAIN queue' = DOMAIN queue \cap open
  BY DEF QuestionTypes, OpenOnly

\* What a subscriber and the others hold after a chunk.
LEMMA EnqueueDoes ==
    ASSUME StreamTypes, TabTypes, NEW s \in Sessions, NEW e \in Event, e.first \in Number,
           e.last \in Number, e.first <= e.last, Enqueue(s, e)
    PROVE  /\ batch' \in TerminalStreams /\ arrived' \in TerminalStreams /\ seen' \in Streams
           /\ \A t \in Terminal :
                IF t \in Showing(s)
                THEN /\ batch'[t] = batch[t] \o Numbers(e.first, e.last)
                     /\ arrived'[t] = arrived[t] \o Numbers(e.first, e.last)
                ELSE batch'[t] = batch[t] /\ arrived'[t] = arrived[t]
           /\ \A r \in Sessions : seen'[r] = IF r = s /\ Showing(s) # {}
                                           THEN seen[r] \o Numbers(e.first, e.last)
                                           ELSE seen[r]
<1> DEFINE ns == Numbers(e.first, e.last)
           Taken(q) == [t \in Terminal |-> IF t \in Showing(s) THEN q[t] \o ns ELSE q[t]]
<1>1. ns \in Seq(Number)
  BY NumbersAre
<1>2. /\ batch' = Taken(batch) /\ arrived' = Taken(arrived)
      /\ seen' = IF Showing(s) = {} THEN seen ELSE [seen EXCEPT ![s] = @ \o ns]
  BY DEF Enqueue
<1>3. /\ batch \in [Terminal -> Seq(Number)] /\ arrived \in [Terminal -> Seq(Number)]
      /\ seen \in [Sessions -> Seq(Number)]
  BY DEF StreamTypes, TerminalStreams, Streams
<1> HIDE DEF ns
<1>4. ASSUME NEW q \in [Terminal -> Seq(Number)]
      PROVE  /\ Taken(q) \in [Terminal -> Seq(Number)]
             /\ \A t \in Terminal :
                  Taken(q)[t] = IF t \in Showing(s) THEN q[t] \o ns ELSE q[t]
  <2>1. \A t \in Terminal : q[t] \o ns \in Seq(Number)
    BY <1>1, ConcatProperties
  <2> QED
    BY <2>1
<1>5. seen[s] \o ns \in Seq(Number)
  BY <1>1, <1>3, ConcatProperties
<1>6. /\ batch' \in TerminalStreams /\ arrived' \in TerminalStreams
      /\ \A t \in Terminal : batch'[t] = IF t \in Showing(s) THEN batch[t] \o ns ELSE batch[t]
      /\ \A t \in Terminal : arrived'[t] = IF t \in Showing(s) THEN arrived[t] \o ns ELSE arrived[t]
  BY <1>2, <1>3, <1>4 DEF TerminalStreams
<1>7. /\ seen' \in Streams
      /\ \A r \in Sessions : seen'[r] = IF r = s /\ Showing(s) # {} THEN seen[r] \o ns ELSE seen[r]
  BY <1>2, <1>3, <1>5 DEF Streams
<1> QED
  BY <1>6, <1>7 DEF ns

LEMMA DispatchTypes ==
    ASSUME OutputTypes, NEW s \in Sessions, InOrder(s), DispatchOutput(s)
    PROVE  OutputTypes'
<1> DEFINE e == Head(events[s])
<1>1. /\ e \in Event /\ Tail(events[s]) \in Seq(Event)
      /\ e.first \in Number /\ e.last \in Number /\ events[s] # <<>>
  BY EventFields DEF OutputTypes, DispatchOutput
<1>2. e.first <= e.last
  <2>1. e = events[s][1] /\ 1 \in 1..Len(events[s])
    BY <1>1 DEF OutputTypes, StreamTypes
  <2> QED
    BY <2>1 DEF InOrder, Ordered
<1>3. /\ Enqueue(s, e) /\ events' = [events EXCEPT ![s] = Tail(@)]
      /\ UNCHANGED <<printed, taken, reader, tabs, tabsRef, mounted, screen, scrollback, doubled,
                     accepting, trusted, trustedRef>>
      /\ HandleHostKeyPrompt(s) \/ UNCHANGED <<queue, asked, answers>>
  BY DEF DispatchOutput, backend
<1>4. StreamTypes'
  <2>1. StreamTypes /\ TabTypes
    BY DEF OutputTypes
  <2>2. batch' \in TerminalStreams /\ arrived' \in TerminalStreams /\ seen' \in Streams
    BY <1>1, <1>2, <1>3, <2>1, EnqueueDoes
  <2> QED
    BY <1>1, <1>3, <2>1, <2>2 DEF StreamTypes
<1>5. QuestionTypes'
  BY <1>3, HandlePromptTypes DEF OutputTypes, QuestionTypes
<1>6. ReaderTypes' /\ TabTypes'
  BY <1>3 DEF OutputTypes, ReaderTypes, TabTypes
<1> QED
  BY <1>4, <1>5, <1>6 DEF OutputTypes

LEMMA ShownBy ==
    ASSUME NEW t \in Terminal
    PROVE  SessionOf[t] \in Sessions
  BY OutputAssumption

LEMMA FlushTypes ==
    ASSUME StreamTypes, NEW t \in Terminal
    PROVE  /\ Flushed(t) \in Seq(Number) /\ LastOf(Flushed(t), MaxScrollback) \in Seq(Number)
           /\ screen[t] \o batch[t] \in Seq(Number)
           /\ Flush(t) => batch' \in TerminalStreams /\ scrollback' \in Streams
<1>0. SessionOf[t] \in Sessions
  BY ShownBy
<1>1. Flushed(t) \in Seq(Number) /\ screen[t] \o batch[t] \in Seq(Number)
  BY <1>0, ConcatProperties DEF StreamTypes, Streams, TerminalStreams, Flushed
<1>2. LastOf(Flushed(t), MaxScrollback) \in Seq(Number)
  BY <1>1, LastOfIs, OutputAssumption
<1>3. Flush(t) => batch' \in TerminalStreams /\ scrollback' \in Streams
  <2>1. <<>> \in Seq(Number)
    BY EmptySeq
  <2> QED
    BY <1>2, <2>1 DEF Flush, StreamTypes, Streams, TerminalStreams
<1> QED
  BY <1>1, <1>2, <1>3

LEMMA TerminalTypesStep ==
    ASSUME OutputTypes, NEW t \in Terminal, TerminalStep(t)
    PROVE  OutputTypes'
<1>0. ReaderTypes /\ TabTypes /\ StreamTypes /\ QuestionTypes /\ SessionOf[t] \in Sessions
  BY ShownBy DEF OutputTypes
<1>1. UNCHANGED <<printed, taken, reader, events, tabs, tabsRef, seen, queue, accepting,
                  trusted, trustedRef, asked, answers>>
  BY DEF TerminalStep, Frame, MountTerminal, UnmountTerminal, RemountTerminal, backend, trust
<1>2. mounted' \subseteq Terminal /\ doubled' \subseteq Sessions
  BY <1>0 DEF TerminalStep, Frame, MountTerminal, UnmountTerminal, RemountTerminal, TabTypes
<1>3. batch' \in TerminalStreams /\ scrollback' \in Streams
  <2>1. Flush(t) \/ UNCHANGED <<batch, scrollback>>
    BY DEF TerminalStep, Frame, MountTerminal, UnmountTerminal, RemountTerminal, DisposeTerminal
  <2> QED
    BY <1>0, <2>1, FlushTypes DEF StreamTypes
<1>4. arrived' \in TerminalStreams
  <2>1. arrived' = arrived \/ arrived' = [arrived EXCEPT ![t] = <<>>]
    BY DEF TerminalStep, Frame, MountTerminal, UnmountTerminal, RemountTerminal
  <2> QED
    BY <1>0, <2>1, EmptySeq DEF StreamTypes, TerminalStreams
<1>5. screen' \in TerminalStreams
  <2>1. /\ screen[t] \o batch[t] \in Seq(Number) /\ <<>> \in Seq(Number)
        /\ scrollback[SessionOf[t]] \in Seq(Number) /\ scrollback'[SessionOf[t]] \in Seq(Number)
    BY <1>0, <1>3, FlushTypes, EmptySeq DEF StreamTypes, Streams
  <2>2. \E q \in Seq(Number) : screen' = [screen EXCEPT ![t] = q]
    BY <2>1 DEF TerminalStep, Frame, MountTerminal, UnmountTerminal, RemountTerminal
  <2> QED
    BY <1>0, <2>2 DEF StreamTypes, TerminalStreams
<1> QED
  BY <1>0, <1>1, <1>2, <1>3, <1>4, <1>5
     DEF OutputTypes, ReaderTypes, TabTypes, StreamTypes, QuestionTypes

LEMMA TabTypesStep ==
    ASSUME OutputTypes, NEW s \in Sessions, OutputTabStep(s)
    PROVE  OutputTypes'
<1>0. ReaderTypes /\ TabTypes /\ StreamTypes /\ QuestionTypes
  BY DEF OutputTypes
<1>1. /\ UNCHANGED <<printed, taken, events, tabsRef, mounted, batch, screen, scrollback, arrived,
                     seen, doubled, accepting, trusted, trustedRef, asked, answers>>
      /\ tabs' \subseteq Sessions
      /\ reader' = reader \/ reader' = [reader EXCEPT ![s] = "ended"]
      /\ queue' = queue \/ queue' = OpenOnly(Sessions \ {s})
  BY <1>0 DEF OutputTabStep, TabOpens, TabCloses, Dismissed, backend, terminals, trust, TabTypes
<1>2. QuestionTypes'
  <2>1. /\ DOMAIN queue' \subseteq Sessions
        /\ \A r \in DOMAIN queue' : queue'[r] \subseteq DOMAIN queue'
    BY <1>0, <1>1, FilterTypes DEF QuestionTypes
  <2> QED
    BY <1>0, <1>1, <2>1 DEF QuestionTypes
<1> QED
  BY <1>0, <1>1, <1>2 DEF OutputTypes, ReaderTypes, TabTypes, StreamTypes

LEMMA AcceptingTypes ==
    ASSUME NEW a \in [save : Nat, send : Nat]
    PROVE  /\ a.save \in Nat /\ a.send \in Nat
           /\ [a EXCEPT !.save = a.save + 1] = [save |-> a.save + 1, send |-> a.send]
           /\ [a EXCEPT !.send = a.send + 1] = [save |-> a.save, send |-> a.send + 1]
           /\ [a EXCEPT !.save = a.save - 1] = [save |-> a.save - 1, send |-> a.send]
           /\ [a EXCEPT !.send = a.send - 1] = [save |-> a.save, send |-> a.send - 1]
  OBVIOUS

\* A step of the question in the window: what becomes of the answers on their way.
LEMMA AcceptingSteps ==
    ASSUME QuestionTypes, NEW s \in Sessions, TrustStep(s)
    PROVE  /\ accepting' \in [Sessions -> [save : Nat, send : Nat]]
           /\ \A t \in Sessions : t # s => accepting'[t] = accepting[t]
           /\ AcceptTrustPrompt(s) =>
                accepting'[s].save + accepting'[s].send = accepting[s].save + accepting[s].send + 1
           /\ MetadataSaved(s) =>
                accepting'[s].save + accepting'[s].send = accepting[s].save + accepting[s].send
           /\ AnswerSent(s) \/ AcceptFails(s) =>
                accepting'[s].save + accepting'[s].send = accepting[s].save + accepting[s].send - 1
           /\ DismissTrustPrompt(s) => accepting' = accepting
<1> DEFINE a == accepting[s]
           Gets(b) == accepting' = [accepting EXCEPT ![s] = b]
<1>0. accepting \in [Sessions -> [save : Nat, send : Nat]] /\ a \in [save : Nat, send : Nat]
  BY DEF QuestionTypes
<1>1. a.save \in Nat /\ a.send \in Nat
  BY <1>0
<1>2. AcceptTrustPrompt(s) => \/ Gets([save |-> a.save + 1, send |-> a.send])
                              \/ Gets([save |-> a.save, send |-> a.send + 1])
  BY <1>0, AcceptingTypes DEF AcceptTrustPrompt
<1>3. MetadataSaved(s) => a.save > 0 /\ Gets([save |-> a.save - 1, send |-> a.send + 1])
  BY <1>0 DEF MetadataSaved
<1>4. AnswerSent(s) \/ AcceptFails(s) =>
        \/ a.save > 0 /\ Gets([save |-> a.save - 1, send |-> a.send])
        \/ a.send > 0 /\ Gets([save |-> a.save, send |-> a.send - 1])
  BY <1>0, AcceptingTypes DEF AnswerSent, AcceptFails
<1>5. DismissTrustPrompt(s) => accepting' = accepting
  BY DEF DismissTrustPrompt
<1> HIDE DEF a
<1>6. ASSUME NEW i \in Nat, NEW j \in Nat, Gets([save |-> i, send |-> j])
      PROVE  /\ accepting' \in [Sessions -> [save : Nat, send : Nat]]
             /\ \A t \in Sessions : t # s => accepting'[t] = accepting[t]
             /\ accepting'[s].save + accepting'[s].send = i + j
  BY <1>0, <1>6
<1> QED
  BY <1>0, <1>1, <1>2, <1>3, <1>4, <1>5, <1>6 DEF TrustStep, a

LEMMA TrustTypesStep ==
    ASSUME OutputTypes, NEW s \in Sessions, TrustStep(s)
    PROVE  OutputTypes'
<1>0. QuestionTypes
  BY DEF OutputTypes
<1>1. accepting' \in [Sessions -> [save : Nat, send : Nat]]
  BY <1>0, AcceptingSteps
<1>2. /\ UNCHANGED <<printed, taken, reader, events, tabs, tabsRef, mounted, batch, screen,
                     scrollback, arrived, seen, doubled, trustedRef, asked>>
      /\ trusted' \subseteq Hosts
      /\ answers' = answers \/ answers' = [answers EXCEPT ![s] = @ + 1]
      /\ queue' = queue \/ queue' = OpenOnly(Sessions \ {s})
  BY <1>0 DEF TrustStep, AcceptTrustPrompt, MetadataSaved, AnswerSent, AcceptFails,
     DismissTrustPrompt, backend, terminals, QuestionTypes, Hosts, Dismissed
<1>3. answers' \in [Sessions -> Nat]
  BY <1>0, <1>2 DEF QuestionTypes
<1>4. /\ DOMAIN queue' \subseteq Sessions
      /\ \A t \in DOMAIN queue' : queue'[t] \subseteq DOMAIN queue'
  BY <1>0, <1>2, FilterTypes DEF QuestionTypes
<1>5. QuestionTypes'
  BY <1>0, <1>1, <1>2, <1>3, <1>4 DEF QuestionTypes
<1> QED
  BY <1>2, <1>5 DEF OutputTypes, ReaderTypes, TabTypes, StreamTypes

LEMMA SyncTypes ==
    ASSUME OutputTypes, SyncRefs
    PROVE  OutputTypes'
<1>0. QuestionTypes /\ TabTypes
  BY DEF OutputTypes
<1>1. /\ UNCHANGED <<printed, taken, reader, events, tabs, mounted, batch, screen,
                     scrollback, arrived, seen, doubled, trusted, asked, answers, accepting>>
      /\ tabsRef' = tabs /\ trustedRef' = trusted
      /\ queue' = queue \/ queue' = OpenOnly(tabs)
  BY DEF SyncRefs, backend, terminals
<1>2. /\ DOMAIN queue' \subseteq Sessions
      /\ \A t \in DOMAIN queue' : queue'[t] \subseteq DOMAIN queue'
  BY <1>0, <1>1, FilterTypes DEF QuestionTypes
<1>3. QuestionTypes'
  BY <1>0, <1>1, <1>2 DEF QuestionTypes
<1> QED
  BY <1>0, <1>1, <1>3 DEF OutputTypes, ReaderTypes, TabTypes, StreamTypes

-----------------------------------------------------------------------------
(* Order                                                                   *)

LEMMA OneMore ==
    ASSUME NEW q \in Seq(Event), NEW given \in Seq(Number), NEW top \in Nat, NEW c \in Event,
           Ordered(q, given, top), top < c.first, c.first <= c.last
    PROVE  Ordered(Append(q, c), given, c.last)
<1> DEFINE r == Append(q, c)
<1>0. c.first \in Nat /\ c.last \in Nat /\ \A i \in 1..Len(q) : q[i].first \in Nat
      /\ q[i].last \in Nat
  <2>1. \A i \in 1..Len(q) : q[i] \in Event
    OBVIOUS
  <2> QED
    BY <2>1, EventIs
<1>1. /\ Len(r) = Len(q) + 1 /\ r[Len(q) + 1] = c
      /\ \A i \in 1..Len(q) : r[i] = q[i]
  OBVIOUS
<1>2. \A k \in 1..Len(given) : given[k] \in Nat
  BY OutputAssumption DEF Number
<1> HIDE DEF r
<1>3. \A i \in 1..Len(r) : r[i].first <= r[i].last /\ r[i].last <= c.last
  BY <1>0, <1>1 DEF Ordered
<1>4. ASSUME NEW i \in 1..Len(r), NEW j \in 1..Len(r), i < j
      PROVE  r[i].last < r[j].first
  <2>1. i \in 1..Len(q)
    BY <1>1, <1>4
  <2>2. CASE j \in 1..Len(q)
    BY <1>1, <1>4, <2>1, <2>2 DEF Ordered
  <2>3. CASE j = Len(q) + 1
    <3>1. r[j].first = c.first /\ r[i].last = q[i].last /\ q[i].last <= top
      BY <1>1, <2>1, <2>3 DEF Ordered
    <3> QED
      BY <1>0, <2>1, <3>1
  <2> QED
    BY <1>1, <2>2, <2>3
<1>5. ASSUME NEW k \in 1..Len(given)
      PROVE  given[k] <= c.last /\ \A i \in 1..Len(r) : given[k] < r[i].first
  <2>1. given[k] <= top /\ given[k] \in Nat /\ \A i \in 1..Len(q) : given[k] < q[i].first
    BY <1>2 DEF Ordered
  <2>2. given[k] <= c.last /\ given[k] < c.first
    BY <1>0, <2>1
  <2> QED
    BY <1>1, <2>1, <2>2
<1> QED
  BY <1>3, <1>4, <1>5 DEF Ordered, r

LEMMA TopGrows ==
    ASSUME NEW q \in Seq(Event), NEW given \in Seq(Number), NEW top \in Nat, NEW more \in Nat,
           Ordered(q, given, top), top <= more
    PROVE  Ordered(q, given, more)
<1>1. \A i \in 1..Len(q) : q[i].last \in Nat
  <2>1. \A i \in 1..Len(q) : q[i] \in Event
    OBVIOUS
  <2> QED
    BY <2>1, EventIs
<1>2. \A k \in 1..Len(given) : given[k] \in Nat
  BY OutputAssumption DEF Number
<1>3. \A i \in 1..Len(q) : q[i].first <= q[i].last /\ q[i].last <= more
  BY <1>1 DEF Ordered
<1>4. \A k \in 1..Len(given) : given[k] <= more /\ \A i \in 1..Len(q) : given[k] < q[i].first
  BY <1>2 DEF Ordered
<1> QED
  BY <1>3, <1>4 DEF Ordered

LEMMA Dispatched ==
    ASSUME NEW q \in Seq(Event), NEW given \in Seq(Number), NEW top \in Nat, q # <<>>,
           Ordered(q, given, top)
    PROVE  /\ Ordered(Tail(q), given, top)
           /\ Ordered(Tail(q), given \o Numbers(Head(q).first, Head(q).last), top)
           /\ Head(q).first <= Head(q).last
<1> DEFINE e == Head(q)
           t == Tail(q)
           ns == Numbers(e.first, e.last)
           all == given \o ns
<1>1. /\ e = q[1] /\ t \in Seq(Event) /\ Len(t) = Len(q) - 1 /\ Len(q) \in Nat \ {0}
      /\ \A i \in 1..Len(t) : t[i] = q[i + 1]
  BY HeadTailProperties, EmptySeq
<1>2. e \in Event /\ e.first \in Number /\ e.last \in Number
  BY <1>1, EventIs, HeadTailProperties
<1>3. e.first <= e.last /\ e.last <= top
  BY <1>1 DEF Ordered
<1>4. /\ ns \in Seq(Number) /\ Len(ns) = e.last + 1 - e.first
      /\ \A i \in 1..(e.last + 1 - e.first) : ns[i] = e.first + i - 1
  BY <1>2, <1>3, NumbersAre
<1>5. /\ Len(all) = Len(given) + Len(ns) /\ Len(given) \in Nat /\ Len(ns) \in Nat
      /\ \A i \in 1..Len(given) + Len(ns) :
           all[i] = IF i <= Len(given) THEN given[i] ELSE ns[i - Len(given)]
  BY <1>4, ConcatProperties
<1>6. /\ \A i \in 1..Len(t) : t[i].first \in Nat /\ t[i].last \in Nat
      /\ \A k \in 1..Len(given) : given[k] \in Nat
  <2>1. \A i \in 1..Len(t) : t[i] \in Event
    BY <1>1
  <2>2. \A k \in 1..Len(given) : given[k] \in Number
    OBVIOUS
  <2> QED
    BY <2>1, <2>2, EventIs
<1>7. e.first \in Nat /\ e.last \in Nat
  BY <1>2 DEF Number
<1>8. Ordered(t, given, top)
  BY <1>1 DEF Ordered
<1>9. /\ \A k \in 1..Len(given) : given[k] < e.first
      /\ \A i \in 1..Len(t) : e.last < t[i].first
  BY <1>1 DEF Ordered
<1> HIDE DEF ns, all, t, e
<1>10. ASSUME NEW k \in 1..Len(all)
       PROVE  all[k] <= top /\ \A i \in 1..Len(t) : all[k] < t[i].first
  <2>1. CASE k <= Len(given)
    BY <1>5, <1>8, <2>1 DEF Ordered
  <2>2. CASE ~(k <= Len(given))
    <3>1. k - Len(given) \in 1..(e.last + 1 - e.first)
      BY <1>4, <1>5, <1>7, <2>2
    <3>2. all[k] = e.first + (k - Len(given)) - 1
      BY <1>4, <1>5, <2>2, <3>1
    <3>3. all[k] <= e.last /\ all[k] \in Nat
      BY <1>7, <3>1, <3>2
    <3> QED
      BY <1>3, <1>6, <1>7, <1>9, <3>3
  <2> QED
    BY <2>1, <2>2
<1>11. ASSUME NEW i \in 1..Len(all), NEW j \in 1..Len(all), i < j
       PROVE  all[i] < all[j]
  <2>1. CASE j <= Len(given)
    BY <1>5, <1>8, <1>11, <2>1 DEF Ordered
  <2>2. CASE ~(j <= Len(given))
    <3>1. j - Len(given) \in 1..(e.last + 1 - e.first)
      BY <1>4, <1>5, <1>7, <2>2
    <3>2. all[j] = e.first + (j - Len(given)) - 1 /\ all[j] >= e.first
      BY <1>4, <1>5, <1>7, <2>2, <3>1
    <3>3. CASE i <= Len(given)
      BY <1>5, <1>6, <1>7, <1>9, <3>2, <3>3
    <3>4. CASE ~(i <= Len(given))
      <4>1. i - Len(given) \in 1..(e.last + 1 - e.first)
        BY <1>4, <1>5, <1>7, <3>4
      <4>2. all[i] = e.first + (i - Len(given)) - 1
        BY <1>4, <1>5, <3>4, <4>1
      <4> QED
        BY <1>5, <1>7, <1>11, <3>2, <4>2
    <3> QED
      BY <3>3, <3>4
  <2> QED
    BY <2>1, <2>2
<1>12. Ordered(t, all, top)
  BY <1>8, <1>10, <1>11 DEF Ordered
<1> QED
  BY <1>3, <1>8, <1>12 DEF t, all, ns, e

LEMMA ReadInOrder ==
    ASSUME OutputTypes, NEW s \in Sessions, NEW t \in Sessions, InOrder(t), ReadAndEmit(s)
    PROVE  InOrder(t)'
<1>0. /\ events \in [Sessions -> Seq(Event)] /\ taken \in [Sessions -> 0..MaxPrinted]
      /\ seen' = seen /\ seen[t] \in Seq(Number)
      /\ taken[t] \in Nat
  BY OutputAssumption DEF OutputTypes, StreamTypes, Streams, ReaderTypes, ReadAndEmit, terminals
<1>1. CASE t # s
  <2>1. taken'[t] = taken[t] /\ events'[t] = events[t]
    BY <1>0, <1>1 DEF ReadAndEmit
  <2> QED
    BY <1>0, <2>1 DEF InOrder
<1>2. CASE t = s
  <2>1. PICK b \in taken[s] + 1 .. printed[s] :
          /\ taken' = [taken EXCEPT ![s] = b]
          /\ \/ events' = [events EXCEPT ![s] = Append(@, Chunk(taken[s] + 1, b))]
             \/ \E cut \in taken[s] + 1 .. b - 1 :
                  events' = [events EXCEPT ![s] =
                               @ \o <<Chunk(taken[s] + 1, cut), Chunk(cut + 1, b)>>]
             \/ UNCHANGED events
    BY DEF ReadAndEmit
  <2>2. /\ b \in Number /\ taken[s] + 1 \in Number /\ b \in Nat /\ taken'[s] = b
        /\ taken[s] + 1 <= b /\ events[s] \in Seq(Event)
    BY <1>0, <2>1, OutputAssumption DEF OutputTypes, ReaderTypes, Number
  <2>3. /\ seen[s] \in Seq(Number) /\ taken[s] \in Nat /\ taken[s] < taken[s] + 1
        /\ Ordered(events[s], seen[s], taken[s])
    BY <1>0, <1>2 DEF InOrder
  <2>4. CASE events' = [events EXCEPT ![s] = Append(@, Chunk(taken[s] + 1, b))]
    <3> DEFINE c == Chunk(taken[s] + 1, b)
    <3>1. c \in Event /\ c.first = taken[s] + 1 /\ c.last = b
      BY <2>2, ChunkIs
    <3>2. events'[s] = Append(events[s], c)
      BY <1>0, <2>4
    <3> HIDE DEF c
    <3>3. Ordered(events'[s], seen[s], b)
      <4>1. Ordered(Append(events[s], c), seen[s], c.last)
        BY <2>2, <2>3, <3>1, OneMore
      <4> QED
        BY <3>1, <3>2, <4>1
    <3> QED
      BY <1>0, <1>2, <2>2, <3>3 DEF InOrder
  <2>5. ASSUME NEW cut \in taken[s] + 1 .. b - 1,
               events' = [events EXCEPT ![s] =
                            @ \o <<Chunk(taken[s] + 1, cut), Chunk(cut + 1, b)>>]
        PROVE  InOrder(t)'
    <3> DEFINE c == Chunk(taken[s] + 1, cut)
               d == Chunk(cut + 1, b)
    <3>1. cut \in Number /\ cut + 1 \in Number /\ cut \in Nat /\ taken[s] + 1 <= cut /\ cut + 1 <= b
      BY <1>0, <2>2, OutputAssumption DEF Number
    <3>2. /\ c \in Event /\ c.first = taken[s] + 1 /\ c.last = cut
          /\ d \in Event /\ d.first = cut + 1 /\ d.last = b
      BY <2>2, <3>1, ChunkIs
    <3>3. events'[s] = events[s] \o <<c, d>>
      BY <1>0, <2>5
    <3> HIDE DEF c, d
    <3>4. events[s] \o <<c, d>> = Append(Append(events[s], c), d)
      <4>1. <<c, d>> \in Seq(Event) /\ Len(<<c, d>>) = 2 /\ <<c, d>>[1] = c /\ <<c, d>>[2] = d
        BY <3>2
      <4>2. /\ events[s] \o <<c, d>> \in Seq(Event)
            /\ Len(events[s] \o <<c, d>>) = Len(events[s]) + 2
            /\ \A i \in 1..Len(events[s]) + 2 : (events[s] \o <<c, d>>)[i] =
                 IF i <= Len(events[s]) THEN events[s][i] ELSE <<c, d>>[i - Len(events[s])]
        BY <2>2, <4>1, ConcatProperties
      <4>3. /\ Append(events[s], c) \in Seq(Event) /\ Append(Append(events[s], c), d) \in Seq(Event)
            /\ Len(Append(events[s], c)) = Len(events[s]) + 1
            /\ Len(Append(Append(events[s], c), d)) = Len(events[s]) + 2
        BY <2>2, <3>2
      <4>4. ASSUME NEW i \in 1..Len(events[s]) + 2
            PROVE  (events[s] \o <<c, d>>)[i] = Append(Append(events[s], c), d)[i]
        <5>1. CASE i <= Len(events[s])
          BY <2>2, <3>2, <4>2, <4>3, <5>1
        <5>2. CASE i = Len(events[s]) + 1
          BY <2>2, <3>2, <4>1, <4>2, <4>3, <5>2
        <5>3. CASE i = Len(events[s]) + 2
          BY <2>2, <3>2, <4>1, <4>2, <4>3, <5>3
        <5> QED
          BY <2>2, <5>1, <5>2, <5>3
      <4> QED
        BY <4>2, <4>3, <4>4, SeqEqual
    <3>5. Ordered(Append(events[s], c), seen[s], cut)
      <4>1. Ordered(Append(events[s], c), seen[s], c.last)
        BY <2>2, <2>3, <3>1, <3>2, OneMore
      <4> QED
        BY <3>2, <4>1
    <3>6. Append(events[s], c) \in Seq(Event)
      BY <2>2, <3>2
    <3>7. Ordered(Append(Append(events[s], c), d), seen[s], b)
      <4>1. cut < d.first /\ d.first <= d.last
        BY <3>1, <3>2
      <4>2. Ordered(Append(Append(events[s], c), d), seen[s], d.last)
        BY <2>3, <3>1, <3>2, <3>5, <3>6, <4>1, OneMore
      <4> QED
        BY <3>2, <4>2
    <3> QED
      BY <1>0, <1>2, <2>2, <3>3, <3>4, <3>7 DEF InOrder
  <2>6. CASE UNCHANGED events
    <3>1. Ordered(events[s], seen[s], b)
      BY <1>0, <1>2, <2>2, TopGrows DEF InOrder
    <3> QED
      BY <1>0, <1>2, <2>2, <2>6, <3>1 DEF InOrder
  <2> QED
    BY <2>1, <2>4, <2>5, <2>6
<1> QED
  BY <1>1, <1>2

LEMMA DispatchInOrder ==
    ASSUME OutputTypes, NEW s \in Sessions, NEW t \in Sessions, InOrder(t), DispatchOutput(s)
    PROVE  InOrder(t)'
<1>0. /\ events \in [Sessions -> Seq(Event)] /\ seen \in [Sessions -> Seq(Number)]
      /\ taken' = taken /\ taken[t] \in Nat /\ events[s] # <<>>
      /\ events' = [events EXCEPT ![s] = Tail(events[s])]
      /\ \/ seen' = [seen EXCEPT ![s] =
                        seen[s] \o Numbers(Head(events[s]).first, Head(events[s]).last)]
         \/ seen' = seen
  <2>1. /\ events \in [Sessions -> Seq(Event)] /\ seen \in [Sessions -> Seq(Number)]
        /\ taken[t] \in Nat
    BY OutputAssumption DEF OutputTypes, StreamTypes, Streams, ReaderTypes
  <2>2. /\ taken' = taken /\ events[s] # <<>> /\ events' = [events EXCEPT ![s] = Tail(@)]
        /\ Enqueue(s, Head(events[s]))
    BY DEF DispatchOutput, backend
  <2>3. \/ seen' = [seen EXCEPT ![s] =
                       @ \o Numbers(Head(events[s]).first, Head(events[s]).last)]
        \/ seen' = seen
    BY <2>2, Zenon DEF Enqueue
  <2> QED
    BY <2>1, <2>2, <2>3
<1>1. CASE t # s
  <2>1. seen'[t] = seen[t] /\ events'[t] = events[t]
    BY <1>0, <1>1
  <2> QED
    BY <1>0, <2>1 DEF InOrder
<1>2. CASE t = s
  <2>1. /\ Ordered(Tail(events[s]), seen[s], taken[s])
        /\ Ordered(Tail(events[s]),
                   seen[s] \o Numbers(Head(events[s]).first, Head(events[s]).last), taken[s])
    <3>1. events[s] \in Seq(Event) /\ seen[s] \in Seq(Number) /\ taken[s] \in Nat
          /\ Ordered(events[s], seen[s], taken[s])
      BY <1>0, <1>2 DEF InOrder
    <3> QED
      BY <1>0, <3>1, Dispatched
  <2>2. events'[s] = Tail(events[s]) /\ taken'[s] = taken[s]
    BY <1>0
  <2>3. \/ seen'[s] = seen[s] \o Numbers(Head(events[s]).first, Head(events[s]).last)
        \/ seen'[s] = seen[s]
    BY <1>0
  <2> QED
    BY <1>2, <2>1, <2>2, <2>3 DEF InOrder
<1> QED
  BY <1>1, <1>2

-----------------------------------------------------------------------------
(* What a terminal shows                                                   *)

\* q is an end of the stream of s, and all of it while there is room.
InFull(q, s) ==
    /\ IsEnd(q, seen[s])
    /\ Len(scrollback[s]) < MaxScrollback => q = seen[s]

\* What is mounted has all that it was given, what is not holds nothing back.
Has(t) ==
    /\ t \in mounted => IsEnd(arrived[t], screen[t] \o batch[t])
    /\ t \notin mounted => batch[t] = <<>>

\* The screen, with the batch that waits, and the scrollback are ends of the stream.
ShowsEnd(s) ==
    s \notin doubled =>
        /\ \A t, u \in Showing(s) : t = u
        /\ \A t \in Showing(s) : IsEnd(screen[t] \o batch[t], seen[s]) /\ InFull(Flushed(t), s)
        /\ Showing(s) = {} => InFull(scrollback[s], s)

LEMMA Joined ==
    ASSUME NEW p \in Seq(Number), NEW q \in Seq(Number), NEW r \in Seq(Number)
    PROVE  /\ p \o q \in Seq(Number) /\ Len(p) \in Nat
           /\ Len(p) <= Len(p \o q)
           /\ p \o (q \o r) = (p \o q) \o r
<1>1. p \o q \in Seq(Number) /\ Len(p \o q) = Len(p) + Len(q)
  BY ConcatProperties
<1>2. Len(p) \in Nat /\ Len(q) \in Nat
  OBVIOUS
<1>3. p \o (q \o r) = (p \o q) \o r
  BY ConcatAssociative
<1> QED
  BY <1>1, <1>2, <1>3

LEMMA StreamsAre ==
    ASSUME OutputTypes, NEW t \in Terminal
    PROVE  /\ SessionOf[t] \in Sessions
           /\ batch[t] \in Seq(Number) /\ screen[t] \in Seq(Number) /\ arrived[t] \in Seq(Number)
           /\ scrollback[SessionOf[t]] \in Seq(Number) /\ seen[SessionOf[t]] \in Seq(Number)
           /\ Flushed(t) \in Seq(Number) /\ screen[t] \o batch[t] \in Seq(Number)
           /\ Flushed(t) = scrollback[SessionOf[t]] \o batch[t]
           /\ Len(scrollback[SessionOf[t]]) \in Nat /\ Len(scrollback[SessionOf[t]]) <= Len(Flushed(t))
<1>0. SessionOf[t] \in Sessions
  BY ShownBy
<1>1. /\ batch[t] \in Seq(Number) /\ screen[t] \in Seq(Number) /\ arrived[t] \in Seq(Number)
      /\ scrollback[SessionOf[t]] \in Seq(Number) /\ seen[SessionOf[t]] \in Seq(Number)
  BY <1>0 DEF OutputTypes, StreamTypes, Streams, TerminalStreams
<1>2. /\ Flushed(t) = scrollback[SessionOf[t]] \o batch[t]
  BY DEF Flushed
<1> QED
  BY <1>0, <1>1, <1>2, Joined

\* Of a session that was never shown twice, the only terminal.
LEMMA OnlyOne ==
    ASSUME NEW s \in Sessions, ShowsEnd(s), s \notin doubled, NEW t \in Showing(s)
    PROVE  Showing(s) = {t}
  BY DEF ShowsEnd

LEMMA SameShown ==
    ASSUME NEW s \in Sessions, ShowsEnd(s), s \in doubled' \/ s \notin doubled,
           Showing(s)' = Showing(s), seen'[s] = seen[s], scrollback'[s] = scrollback[s],
           \A t \in Showing(s) : screen'[t] = screen[t] /\ batch'[t] = batch[t] /\ SessionOf[t] = s
    PROVE  ShowsEnd(s)'
<1>1. \A t \in Showing(s) : Flushed(t)' = Flushed(t)
  BY DEF Flushed
<1> QED
  BY <1>1 DEF ShowsEnd, InFull

LEMMA DispatchShows ==
    ASSUME OutputTypes, NEW s \in Sessions, InOrder(s), DispatchOutput(s),
           \A t \in Terminal : Has(t), \A r \in Sessions : ShowsEnd(r)
    PROVE  (\A t \in Terminal : Has(t)') /\ (\A r \in Sessions : ShowsEnd(r)')
<1> DEFINE ns == Numbers(Head(events[s]).first, Head(events[s]).last)
<1>0. UNCHANGED <<screen, scrollback, mounted, doubled>> /\ Enqueue(s, Head(events[s]))
  BY DEF DispatchOutput
<1>1. /\ Head(events[s]) \in Event /\ Head(events[s]).first \in Number
      /\ Head(events[s]).last \in Number /\ Head(events[s]).first <= Head(events[s]).last
      /\ ns \in Seq(Number)
  <2>1. events[s] \in Seq(Event) /\ seen[s] \in Seq(Number) /\ taken[s] \in Nat
        /\ events[s] # <<>> /\ Ordered(events[s], seen[s], taken[s])
    BY OutputAssumption
       DEF InOrder, OutputTypes, StreamTypes, Streams, ReaderTypes, DispatchOutput
  <2>2. Head(events[s]).first <= Head(events[s]).last
    BY <2>1, Dispatched
  <2>3. Head(events[s]) \in Event
    BY <2>1, HeadTailProperties
  <2> QED
    BY <2>2, <2>3, EventIs, NumbersAre
<1>2. /\ \A t \in Terminal :
           IF t \in Showing(s)
           THEN batch'[t] = batch[t] \o ns /\ arrived'[t] = arrived[t] \o ns
           ELSE batch'[t] = batch[t] /\ arrived'[t] = arrived[t]
      /\ \A r \in Sessions : seen'[r] = IF r = s /\ Showing(s) # {} THEN seen[r] \o ns ELSE seen[r]
  BY <1>0, <1>1, EnqueueDoes DEF OutputTypes
<1> HIDE DEF ns
<1>3. \A r \in Sessions : Showing(r)' = Showing(r)
  BY <1>0 DEF Showing
<1>4. mounted \subseteq Terminal
  BY DEF OutputTypes, TabTypes
<1>5. ASSUME NEW t \in Showing(s)
      PROVE  /\ screen[t] \o (batch[t] \o ns) = (screen[t] \o batch[t]) \o ns
             /\ Flushed(t)' = Flushed(t) \o ns
             /\ t \in Terminal /\ SessionOf[t] = s
  <2>1. t \in Terminal /\ SessionOf[t] = s
    BY <1>4 DEF Showing
  <2>2. batch[t] \in Seq(Number) /\ screen[t] \in Seq(Number) /\ scrollback[s] \in Seq(Number)
    BY <2>1, StreamsAre
  <2>3. /\ screen[t] \o (batch[t] \o ns) = (screen[t] \o batch[t]) \o ns
        /\ scrollback[s] \o (batch[t] \o ns) = (scrollback[s] \o batch[t]) \o ns
    BY <1>1, <2>2, Joined
  <2> QED
    BY <1>0, <1>2, <2>1, <2>3 DEF Flushed
<1>6. ASSUME NEW t \in Terminal
      PROVE  Has(t)'
  <2>1. CASE t \in Showing(s)
    <3>1. IsEnd(arrived[t], screen[t] \o batch[t]) /\ t \in mounted
      BY <2>1 DEF Has, Showing
    <3>2. IsEnd(arrived[t] \o ns, (screen[t] \o batch[t]) \o ns)
      BY <1>1, <3>1, StreamsAre, EndGrows
    <3> QED
      BY <1>0, <1>2, <1>5, <2>1, <3>1, <3>2 DEF Has
  <2>2. CASE t \notin Showing(s)
    BY <1>0, <1>2, <2>2 DEF Has
  <2> QED
    BY <2>1, <2>2
<1>7. ASSUME NEW r \in Sessions, r # s \/ Showing(s) = {}
      PROVE  ShowsEnd(r)'
  <2>1. \A t \in Showing(r) : t \in Terminal /\ SessionOf[t] = r /\ batch'[t] = batch[t]
    BY <1>2, <1>4, <1>7 DEF Showing
  <2> QED
    BY <1>0, <1>2, <1>3, <1>7, <2>1, SameShown
<1>8. ASSUME Showing(s) # {}, s \notin doubled
      PROVE  ShowsEnd(s)'
  <2>1. PICK t \in Showing(s) : Showing(s) = {t}
    BY <1>8, OnlyOne
  <2>2. IsEnd(screen[t] \o batch[t], seen[s]) /\ InFull(Flushed(t), s) /\ SessionOf[t] = s
        /\ t \in Terminal
    BY <1>5, <1>8 DEF ShowsEnd
  <2>3. /\ IsEnd((screen[t] \o batch[t]) \o ns, seen[s] \o ns)
        /\ IsEnd(Flushed(t) \o ns, seen[s] \o ns)
    BY <1>1, <2>2, StreamsAre, EndGrows DEF InFull
  <2>4. seen'[s] = seen[s] \o ns
    BY <1>2, <1>8
  <2>5. IsEnd(screen'[t] \o batch'[t], seen'[s])
    BY <1>0, <1>2, <1>5, <2>2, <2>3, <2>4
  <2>6. InFull(Flushed(t), s)'
    <3>1. IsEnd(Flushed(t), seen[s])'
      BY <1>5, <2>3, <2>4
    <3>2. (Len(scrollback[s]) < MaxScrollback => Flushed(t) = seen[s])'
      BY <1>0, <1>5, <2>2, <2>4 DEF InFull
    <3> QED
      BY <3>1, <3>2 DEF InFull
  <2> QED
    BY <1>3, <2>1, <2>5, <2>6 DEF ShowsEnd
<1>9. s \in doubled => ShowsEnd(s)'
  BY <1>0 DEF ShowsEnd
<1> QED
  BY <1>6, <1>7, <1>8, <1>9

LEMMA FlushShows ==
    ASSUME OutputTypes, NEW t \in Terminal, InFull(Flushed(t), SessionOf[t]), Flush(t), seen' = seen
    PROVE  /\ batch'[t] = <<>> /\ scrollback'[SessionOf[t]] \in Seq(Number)
           /\ Flushed(t)' = scrollback'[SessionOf[t]]
           /\ IsEnd(scrollback'[SessionOf[t]], seen[SessionOf[t]])
           /\ Len(scrollback'[SessionOf[t]]) < MaxScrollback =>
                scrollback'[SessionOf[t]] = seen[SessionOf[t]]
<1> DEFINE s == SessionOf[t]
           kept == scrollback'[s]
<1>0. /\ s \in Sessions /\ Flushed(t) \in Seq(Number) /\ seen[s] \in Seq(Number)
      /\ Len(scrollback[s]) \in Nat /\ Len(scrollback[s]) <= Len(Flushed(t))
  BY StreamsAre
<1>1. batch'[t] = <<>> /\ kept = LastOf(Flushed(t), MaxScrollback)
  BY <1>0 DEF Flush, OutputTypes, StreamTypes, Streams, TerminalStreams
<1>2. MaxScrollback \in Nat
  BY OutputAssumption
<1>3. /\ kept \in Seq(Number)
      /\ Len(kept) = IF Len(Flushed(t)) <= MaxScrollback THEN Len(Flushed(t)) ELSE MaxScrollback
      /\ Len(Flushed(t)) <= MaxScrollback => kept = Flushed(t)
  <2>1. /\ LastOf(Flushed(t), MaxScrollback) \in Seq(Number)
        /\ Len(LastOf(Flushed(t), MaxScrollback)) =
             IF Len(Flushed(t)) <= MaxScrollback THEN Len(Flushed(t)) ELSE MaxScrollback
        /\ Len(Flushed(t)) <= MaxScrollback => LastOf(Flushed(t), MaxScrollback) = Flushed(t)
    BY <1>0, <1>2, LastOfIs
  <2> QED
    BY <1>1, <2>1
<1>4. Flushed(t)' = kept
  BY <1>1, <1>3, ConcatEmptySeq DEF Flushed
<1>5. IsEnd(kept, seen[s])
  BY <1>0, <1>1, <1>2, EndOfEnd DEF InFull
<1>6. ASSUME Len(kept) < MaxScrollback
      PROVE  kept = seen[s]
  <2>1. Len(Flushed(t)) \in Nat
    BY <1>0
  <2>2. Len(Flushed(t)) < MaxScrollback
    BY <1>2, <1>3, <1>6, <2>1
  <2>3. Len(scrollback[s]) < MaxScrollback
    BY <1>0, <1>2, <2>1, <2>2
  <2> QED
    BY <1>2, <1>3, <2>1, <2>2, <2>3 DEF InFull
<1> QED
  BY <1>1, <1>3, <1>4, <1>5, <1>6

\* A terminal's step leaves the other terminals, and the sessions they alone show.
LEMMA OthersShown ==
    ASSUME OutputTypes, NEW t \in Terminal, TerminalStep(t),
           \A u \in Terminal : Has(u), \A r \in Sessions : ShowsEnd(r)
    PROVE  /\ \A u \in Terminal \ {t} : Has(u)'
           /\ \A r \in Sessions \ {SessionOf[t]} : ShowsEnd(r)'
<1>0. /\ batch \in [Terminal -> Seq(Number)] /\ screen \in [Terminal -> Seq(Number)]
      /\ arrived \in [Terminal -> Seq(Number)] /\ scrollback \in [Sessions -> Seq(Number)]
      /\ SessionOf[t] \in Sessions
  BY ShownBy DEF OutputTypes, StreamTypes, Streams, TerminalStreams
<1>1. /\ \A u \in Terminal \ {t} : /\ batch'[u] = batch[u] /\ screen'[u] = screen[u]
                                   /\ arrived'[u] = arrived[u]
      /\ \A r \in Sessions \ {SessionOf[t]} : scrollback'[r] = scrollback[r]
      /\ \A r \in Sessions \ {SessionOf[t]} : r \in doubled' <=> r \in doubled
      /\ seen' = seen
      /\ \A u : u # t => (u \in mounted' <=> u \in mounted)
  BY <1>0 DEF TerminalStep, Frame, MountTerminal, UnmountTerminal, RemountTerminal,
     DisposeTerminal, Flush
<1>2. \A r \in Sessions \ {SessionOf[t]} : Showing(r)' = Showing(r)
  BY <1>1 DEF Showing
<1>3. ASSUME NEW r \in Sessions \ {SessionOf[t]}
      PROVE  ShowsEnd(r)'
  <2>1. \A u \in Showing(r) : u \in Terminal \ {t} /\ SessionOf[u] = r
    BY DEF Showing, OutputTypes, TabTypes
  <2>2. Showing(r)' = Showing(r)
    BY <1>2
  <2>3. seen'[r] = seen[r] /\ scrollback'[r] = scrollback[r] /\ r \in Sessions
    BY <1>1
  <2>4. (r \in doubled' \/ r \notin doubled) /\ ShowsEnd(r)
    BY <1>1
  <2>5. \A u \in Showing(r) : screen'[u] = screen[u] /\ batch'[u] = batch[u] /\ SessionOf[u] = r
    BY <1>1, <2>1
  <2> QED
    BY <2>1, <2>2, <2>3, <2>4, <2>5, SameShown
<1> QED
  BY <1>1, <1>3 DEF Has

LEMMA TerminalShows ==
    ASSUME OutputTypes, NEW t \in Terminal, TerminalStep(t),
           \A u \in Terminal : Has(u), \A r \in Sessions : ShowsEnd(r)
    PROVE  Has(t)' /\ ShowsEnd(SessionOf[t])'
<1> DEFINE s == SessionOf[t]
<1>0. /\ s \in Sessions /\ batch[t] \in Seq(Number) /\ screen[t] \in Seq(Number)
      /\ arrived[t] \in Seq(Number) /\ seen[s] \in Seq(Number) /\ scrollback[s] \in Seq(Number)
      /\ screen[t] \o batch[t] \in Seq(Number)
  BY StreamsAre
<1>1. /\ batch \in [Terminal -> Seq(Number)] /\ screen \in [Terminal -> Seq(Number)]
      /\ arrived \in [Terminal -> Seq(Number)] /\ scrollback \in [Sessions -> Seq(Number)]
  BY DEF OutputTypes, StreamTypes, Streams, TerminalStreams
<1>2. IsEnd(<<>>, screen'[t] \o batch'[t])
  <2>1. screen'[t] \in Seq(Number) /\ batch'[t] \in Seq(Number)
    BY TerminalTypesStep DEF OutputTypes, StreamTypes, TerminalStreams
  <2>2. ASSUME NEW p \in Seq(Number), NEW q \in Seq(Number)
        PROVE  IsEnd(<<>>, p \o q)
    <3>1. p \o q \in Seq(Number)
      BY Joined
    <3>2. Len(p \o q) \in Nat /\ Len(<<>>) = 0
      BY <3>1, EmptySeq, LenProperties
    <3> QED
      BY <3>2 DEF IsEnd
  <2> QED
    BY <2>1, <2>2
<1>3. CASE MountTerminal(t)
  <2>1. /\ UNCHANGED <<batch, scrollback, seen>> /\ t \in mounted' /\ batch[t] = <<>>
        /\ screen'[t] = scrollback[s] /\ arrived'[t] = <<>>
        /\ Showing(s)' = Showing(s) \cup {t}
    BY <1>1, <1>3 DEF MountTerminal, Showing, Has
  <2>2. Has(t)'
    BY <1>2, <2>1 DEF Has
  <2>3. ASSUME s \notin doubled'
        PROVE  ShowsEnd(s)'
    <3>1. s \notin doubled /\ Showing(s) = {}
      BY <1>3, <2>3 DEF MountTerminal
    <3>2. InFull(scrollback[s], s)
      BY <1>0, <3>1 DEF ShowsEnd
    <3>3. /\ screen'[t] \o batch'[t] = scrollback[s] /\ Flushed(t)' = scrollback[s]
      BY <1>0, <2>1, ConcatEmptySeq DEF Flushed
    <3>4. InFull(Flushed(t), s)' /\ IsEnd(screen'[t] \o batch'[t], seen'[s])
      BY <2>1, <3>2, <3>3 DEF InFull
    <3> QED
      BY <2>1, <3>1, <3>4 DEF ShowsEnd
  <2> QED
    BY <2>2, <2>3 DEF ShowsEnd
<1>4. CASE Frame(t) \/ UnmountTerminal(t) \/ RemountTerminal(t)
  <2>1. /\ Flush(t) /\ seen' = seen /\ doubled' = doubled /\ t \in mounted /\ t \in Showing(s)
        /\ batch'[t] = <<>>
    BY <1>1, <1>4 DEF Frame, UnmountTerminal, RemountTerminal, DisposeTerminal, Flush, Showing
  <2>2. \/ /\ t \notin mounted' /\ Showing(s)' = Showing(s) \ {t}
        \/ /\ mounted' = mounted /\ screen'[t] = screen[t] \o batch[t] /\ arrived' = arrived
        \/ /\ mounted' = mounted /\ screen'[t] = scrollback'[s] /\ arrived'[t] = <<>>
    BY <1>1, <1>4 DEF Frame, UnmountTerminal, RemountTerminal, Showing
  <2>3. ASSUME screen'[t] = screen[t] \o batch[t]
        PROVE  screen'[t] \o batch'[t] = screen[t] \o batch[t]
    BY <1>0, <2>1, <2>3, ConcatEmptySeq
  <2>4. Has(t)'
    <3>1. IsEnd(arrived[t], screen[t] \o batch[t])
      BY <2>1 DEF Has
    <3> QED
      BY <1>2, <2>1, <2>2, <2>3, <3>1 DEF Has
  <2>5. ASSUME s \notin doubled
        PROVE  ShowsEnd(s)'
    <3>1. /\ Showing(s) = {t} /\ InFull(Flushed(t), s) /\ IsEnd(screen[t] \o batch[t], seen[s])
      BY <1>0, <2>1, <2>5, OnlyOne DEF ShowsEnd
    <3>2. /\ scrollback'[s] \in Seq(Number) /\ Flushed(t)' = scrollback'[s]
          /\ IsEnd(scrollback'[s], seen'[s])
          /\ Len(scrollback'[s]) < MaxScrollback => scrollback'[s] = seen'[s]
      BY <2>1, <3>1, FlushShows
    <3>3. CASE Showing(s)' = Showing(s) \ {t}
      <4>1. InFull(scrollback[s], s)'
        BY <3>2 DEF InFull
      <4>2. Showing(s)' = {}
        BY <3>1, <3>3
      <4> QED
        BY <4>1, <4>2 DEF ShowsEnd
    <3>4. CASE mounted' = mounted /\ IsEnd(screen'[t] \o batch'[t], seen[s])
      <4>1. Showing(s)' = {t}
        BY <3>1, <3>4 DEF Showing
      <4>2. InFull(Flushed(t), s)'
        BY <3>2 DEF InFull
      <4> QED
        BY <2>1, <3>4, <4>1, <4>2 DEF ShowsEnd
    <3>5. screen'[t] = scrollback'[s] => IsEnd(screen'[t] \o batch'[t], seen[s])
      <4>1. scrollback'[s] \o <<>> = scrollback'[s]
        BY <3>2, ConcatEmptySeq
      <4> QED
        BY <2>1, <3>2, <4>1
    <3> QED
      BY <2>2, <2>3, <3>1, <3>3, <3>4, <3>5
  <2> QED
    BY <2>1, <2>4, <2>5 DEF ShowsEnd
<1> QED
  BY <1>3, <1>4 DEF TerminalStep

LEMMA OrderKept ==
    ASSUME NEW t \in Sessions, InOrder(t), UNCHANGED <<events, seen, taken>>
    PROVE  InOrder(t)'
  BY DEF InOrder

LEMMA ShowsKept ==
    ASSUME UNCHANGED <<batch, screen, scrollback, arrived, seen, mounted, doubled>>
    PROVE  /\ \A s \in Sessions : ShowsEnd(s) => ShowsEnd(s)'
           /\ \A t \in Terminal : Has(t) => Has(t)'
  BY DEF ShowsEnd, InFull, Has, Showing, Flushed

\* Whatever a step does, the streams stay in order and are shown.
StreamInv ==
    /\ OutputTypes
    /\ \A s \in Sessions : InOrder(s) /\ ShowsEnd(s)
    /\ \A t \in Terminal : Has(t)

LEMMA StreamStep ==
    ASSUME StreamInv, [OutputNext]_outputVars
    PROVE  StreamInv'
<1>0. OutputTypes
  BY DEF StreamInv
<1>1. CASE UNCHANGED outputVars
  <2>1. UNCHANGED <<events, seen, taken, batch, screen, scrollback, arrived, mounted, doubled>>
    BY <1>1 DEF outputVars
  <2>2. OutputTypes'
    BY <1>0, <1>1 DEF outputVars, OutputTypes, ReaderTypes, TabTypes, StreamTypes, QuestionTypes
  <2> QED
    BY <2>1, <2>2, OrderKept, ShowsKept DEF StreamInv
<1>2. CASE SyncRefs
  <2>1. UNCHANGED <<events, seen, taken, batch, screen, scrollback, arrived, mounted, doubled>>
    BY <1>2 DEF SyncRefs, backend, terminals
  <2> QED
    BY <1>0, <1>2, <2>1, SyncTypes, OrderKept, ShowsKept DEF StreamInv
<1>3. ASSUME NEW s \in Sessions, TrustStep(s)
      PROVE  StreamInv'
  <2>1. UNCHANGED <<events, seen, taken, batch, screen, scrollback, arrived, mounted, doubled>>
    BY <1>3 DEF TrustStep, AcceptTrustPrompt, MetadataSaved, AnswerSent, AcceptFails,
       DismissTrustPrompt, backend, terminals
  <2> QED
    BY <1>0, <1>3, <2>1, TrustTypesStep, OrderKept, ShowsKept DEF StreamInv
<1>4. ASSUME NEW t \in Terminal, TerminalStep(t)
      PROVE  StreamInv'
  <2>1. UNCHANGED <<events, seen, taken>>
    BY <1>4 DEF TerminalStep, Frame, MountTerminal, UnmountTerminal, RemountTerminal, backend
  <2>2. (\A s \in Sessions : ShowsEnd(s)') /\ (\A u \in Terminal : Has(u)')
    <3>1. /\ Has(t)' /\ ShowsEnd(SessionOf[t])'
          /\ \A u \in Terminal \ {t} : Has(u)'
          /\ \A r \in Sessions \ {SessionOf[t]} : ShowsEnd(r)'
      BY <1>0, <1>4, TerminalShows, OthersShown DEF StreamInv
    <3> QED
      BY <3>1
  <2> QED
    BY <1>0, <1>4, <2>1, <2>2, TerminalTypesStep, OrderKept DEF StreamInv
<1>5. ASSUME NEW s \in Sessions, OutputTabStep(s)
      PROVE  StreamInv'
  <2>1. UNCHANGED <<events, seen, taken, batch, screen, scrollback, arrived, mounted, doubled>>
    BY <1>5 DEF OutputTabStep, TabOpens, TabCloses, backend, terminals
  <2> QED
    BY <1>0, <1>5, <2>1, TabTypesStep, OrderKept, ShowsKept DEF StreamInv
<1>6. ASSUME NEW s \in Sessions, ReaderStep(s)
      PROVE  StreamInv'
  <2>1. CASE DispatchOutput(s)
    <3>1. /\ \A r \in Sessions : ShowsEnd(r)' /\ InOrder(r)'
          /\ \A t \in Terminal : Has(t)'
      BY <1>0, <2>1, DispatchShows, DispatchInOrder DEF StreamInv
    <3> QED
      BY <1>0, <2>1, <3>1, DispatchTypes DEF StreamInv
  <2>2. CASE SpawnReader(s) \/ ChildPrints(s) \/ ReadAndEmit(s) \/ ReaderEnds(s)
    <3>1. UNCHANGED <<batch, screen, scrollback, arrived, seen, mounted, doubled>>
      BY <2>2 DEF SpawnReader, ChildPrints, ReadAndEmit, ReaderEnds, terminals
    <3>2. (\A r \in Sessions : ShowsEnd(r)') /\ (\A t \in Terminal : Has(t)')
      BY <3>1, ShowsKept DEF StreamInv
    <3>3. \A r \in Sessions : InOrder(r)'
      <4>1. CASE ReadAndEmit(s)
        BY <1>0, <4>1, ReadInOrder DEF StreamInv
      <4>2. CASE SpawnReader(s) \/ ChildPrints(s) \/ ReaderEnds(s)
        <5>1. UNCHANGED <<events, seen, taken>>
          BY <4>2 DEF SpawnReader, ChildPrints, ReaderEnds, terminals
        <5> QED
          BY <5>1, OrderKept DEF StreamInv
      <4> QED
        BY <2>2, <4>1, <4>2
    <3> QED
      BY <1>0, <2>2, <3>2, <3>3, ReaderTypesStep DEF StreamInv
  <2> QED
    BY <1>6, <2>1, <2>2 DEF ReaderStep
<1> QED
  BY <1>1, <1>2, <1>3, <1>4, <1>5, <1>6 DEF OutputNext

LEMMA OutputStarts ==
    ASSUME OutputInit
    PROVE  StreamInv
<1>1. <<>> \in Seq(Number) /\ <<>> \in Seq(Event) /\ Len(<<>>) = 0 /\ <<>> \o <<>> = <<>>
  BY EmptySeq, ConcatEmptySeq
<1>2. OutputTypes
  <2>1. ReaderTypes /\ TabTypes
    BY OutputAssumption DEF OutputInit, ReaderTypes, TabTypes
  <2>2. StreamTypes
    BY <1>1 DEF OutputInit, StreamTypes, Streams, TerminalStreams
  <2>3. QuestionTypes
    BY DEF OutputInit, QuestionTypes
  <2> QED
    BY <2>1, <2>2, <2>3 DEF OutputTypes
<1>3. ASSUME NEW s \in Sessions
      PROVE  InOrder(s) /\ ShowsEnd(s)
  <2>1. events[s] = <<>> /\ seen[s] = <<>> /\ scrollback[s] = <<>> /\ Showing(s) = {}
    BY DEF OutputInit, Showing
  <2>2. InOrder(s)
    BY <1>1, <2>1 DEF InOrder, Ordered
  <2>3. IsEnd(<<>>, <<>>)
    BY <1>1 DEF IsEnd
  <2> QED
    BY <2>1, <2>2, <2>3 DEF ShowsEnd, InFull
<1>4. \A t \in Terminal : Has(t)
  BY DEF OutputInit, Has
<1> QED
  BY <1>2, <1>3, <1>4 DEF StreamInv

\* Every variable of the output of sessions keeps values of its kind.
THEOREM OutputTypesHold == OutputSpec => []OutputTypeOK
<1>1. StreamInv => OutputTypeOK
  BY DEF StreamInv, OutputTypes, ReaderTypes, TabTypes, StreamTypes, QuestionTypes, Streams,
     TerminalStreams, Number, OutputTypeOK
<1>2. OutputInit => StreamInv
  BY OutputStarts
<1>3. StreamInv /\ [OutputNext]_outputVars => StreamInv'
  BY StreamStep
<1> QED
  BY <1>1, <1>2, <1>3, PTL DEF OutputSpec

\* Through every flush, unmount, move and mount a terminal has all that reached it; and
\* of a session that no two terminals have shown at once it shows the last of what the
\* session's terminals were given, in order and each once, and the scrollback holds what
\* it may.
THEOREM StreamIsShown == OutputSpec => []ScreenShowsStream
<1>1. StreamInv => ScreenShowsStream
  <2> SUFFICES ASSUME StreamInv
               PROVE  ScreenShowsStream
    OBVIOUS
  <2>0. OutputTypes /\ mounted \subseteq Terminal
    BY DEF StreamInv, OutputTypes, TabTypes
  <2>1. \A t \in mounted : EndsWith(arrived[t], screen[t] \o batch[t])
    BY <2>0, StreamsAre, EndsWithIs DEF StreamInv, Has
  <2>2. ASSUME NEW s \in Sessions
        PROVE  \A i, j \in DOMAIN seen[s] : i < j => seen[s][i] < seen[s][j]
    <3>1. seen[s] \in Seq(Number) /\ InOrder(s)
      BY <2>0 DEF StreamInv, OutputTypes, StreamTypes, Streams
    <3>2. DOMAIN seen[s] = 1..Len(seen[s])
      BY <3>1, LenProperties
    <3> QED
      BY <3>1, <3>2 DEF InOrder, Ordered
  <2>3. ASSUME NEW s \in Sessions, s \notin doubled
        PROVE  /\ \A t \in Showing(s) :
                    EndsWith(screen[t] \o batch[t], seen[s]) /\ Keeps(Flushed(t), s)
               /\ Showing(s) = {} => Keeps(scrollback[s], s)
    <3>0. ShowsEnd(s) /\ seen[s] \in Seq(Number) /\ scrollback[s] \in Seq(Number)
      BY <2>0 DEF StreamInv, OutputTypes, StreamTypes, Streams
    <3>1. \A q \in Seq(Number) : Keeps(q, s) <=> InFull(q, s)
      BY <3>0, EndsWithIs DEF Keeps, InFull
    <3>2. ASSUME NEW t \in Showing(s)
          PROVE  EndsWith(screen[t] \o batch[t], seen[s]) /\ Keeps(Flushed(t), s)
      <4>1. t \in Terminal /\ SessionOf[t] = s
        BY <2>0 DEF Showing
      <4>2. screen[t] \o batch[t] \in Seq(Number) /\ Flushed(t) \in Seq(Number)
        BY <2>0, <4>1, StreamsAre
      <4> QED
        BY <2>3, <3>0, <3>1, <4>2, EndsWithIs DEF ShowsEnd
    <3> QED
      BY <2>3, <3>0, <3>1, <3>2 DEF ShowsEnd
  <2> QED
    BY <2>1, <2>2, <2>3 DEF ScreenShowsStream
<1>2. OutputInit => StreamInv
  BY OutputStarts
<1>3. StreamInv /\ [OutputNext]_outputVars => StreamInv'
  BY StreamStep
<1> QED
  BY <1>1, <1>2, <1>3, PTL DEF OutputSpec

-----------------------------------------------------------------------------
(* Answers                                                                 *)

\* Each question was answered, is being answered, or still stands in the window.
OutputAnswered(s) ==
    /\ answers[s] + Accepting(s) <= asked[s]
    /\ Listed(s) /\ Accepting(s) = 0 => answers[s] < asked[s]

TrustInv == StreamInv /\ \A s \in Sessions : OutputAnswered(s)

LEMMA AnsweredKept ==
    ASSUME NEW t \in Sessions, OutputAnswered(t), accepting'[t] = accepting[t],
        answers'[t] = answers[t],
           asked'[t] = asked[t], t \in DOMAIN queue' => t \in DOMAIN queue
    PROVE  OutputAnswered(t)'
  BY DEF OutputAnswered, Accepting, Listed

LEMMA CountsAre ==
    ASSUME QuestionTypes, NEW t \in Sessions
    PROVE  /\ Accepting(t) \in Nat /\ answers[t] \in Nat /\ asked[t] \in Nat
           /\ Accepting(t) = accepting[t].save + accepting[t].send
<1>1. accepting[t] \in [save : Nat, send : Nat]
  BY DEF QuestionTypes
<1>2. accepting[t].save \in Nat /\ accepting[t].send \in Nat
  BY <1>1
<1> QED
  BY <1>2 DEF QuestionTypes, Accepting

LEMMA DispatchAnswered ==
    ASSUME OutputTypes, NEW s \in Sessions, NEW t \in Sessions, OutputAnswered(t), DispatchOutput(s)
    PROVE  OutputAnswered(t)'
<1>0. accepting' = accepting /\ QuestionTypes
  BY DEF DispatchOutput, OutputTypes
<1>1. CASE UNCHANGED <<queue, asked, answers>>
  BY <1>0, <1>1, AnsweredKept
<1>2. CASE HandleHostKeyPrompt(s)
  <2>1. /\ asked' = [asked EXCEPT ![s] = @ + 1]
        /\ \/ answers' = [answers EXCEPT ![s] = @ + 1] /\ queue' = queue
           \/ answers' = answers /\ (queue' = queue \/ queue' = Queued(s))
    BY <1>2 DEF HandleHostKeyPrompt, AnswersItself
  <2>2. /\ Accepting(t) \in Nat /\ answers[t] \in Nat /\ asked[t] \in Nat
        /\ Accepting(t)' = Accepting(t)
    BY <1>0, CountsAre DEF Accepting
  <2>3. CASE t = s
    <3>1. /\ asked'[t] = asked[t] + 1
          /\ \/ answers'[t] = answers[t] + 1 /\ queue' = queue
             \/ answers'[t] = answers[t]
      BY <1>0, <2>1, <2>3 DEF QuestionTypes
    <3>2. CASE answers'[t] = answers[t] + 1 /\ queue' = queue
      BY <2>2, <3>1, <3>2 DEF OutputAnswered, Listed
    <3>3. CASE answers'[t] = answers[t]
      BY <2>2, <3>1, <3>3 DEF OutputAnswered
    <3> QED
      BY <3>1, <3>2, <3>3
  <2>4. CASE t # s
    <3>1. asked'[t] = asked[t] /\ answers'[t] = answers[t]
      BY <1>0, <2>1, <2>4 DEF QuestionTypes
    <3>2. t \in DOMAIN queue' => t \in DOMAIN queue
      BY <2>1, <2>4 DEF Queued
    <3> QED
      BY <1>0, <3>1, <3>2, AnsweredKept
  <2> QED
    BY <2>3, <2>4
<1> QED
  BY <1>1, <1>2 DEF DispatchOutput

LEMMA QuestionAnswered ==
    ASSUME MaxConfirms = 1, OutputTypes, NEW s \in Sessions, NEW t \in Sessions, OutputAnswered(t),
           TrustStep(s)
    PROVE  OutputAnswered(t)'
<1>0. QuestionTypes
  BY DEF OutputTypes
<1>1. /\ accepting' \in [Sessions -> [save : Nat, send : Nat]]
      /\ \A r \in Sessions : r # s => accepting'[r] = accepting[r]
      /\ AcceptTrustPrompt(s) => Accepting(s)' = Accepting(s) + 1
      /\ MetadataSaved(s) => Accepting(s)' = Accepting(s)
      /\ AnswerSent(s) \/ AcceptFails(s) => Accepting(s)' = Accepting(s) - 1
      /\ DismissTrustPrompt(s) => accepting' = accepting
  <2>1. /\ accepting' \in [Sessions -> [save : Nat, send : Nat]]
        /\ \A r \in Sessions : r # s => accepting'[r] = accepting[r]
        /\ AcceptTrustPrompt(s) =>
             accepting'[s].save + accepting'[s].send = accepting[s].save + accepting[s].send + 1
        /\ MetadataSaved(s) =>
             accepting'[s].save + accepting'[s].send = accepting[s].save + accepting[s].send
        /\ AnswerSent(s) \/ AcceptFails(s) =>
             accepting'[s].save + accepting'[s].send = accepting[s].save + accepting[s].send - 1
        /\ DismissTrustPrompt(s) => accepting' = accepting
    BY <1>0, AcceptingSteps, Zenon
  <2>2. /\ Accepting(s)' = accepting'[s].save + accepting'[s].send
        /\ Accepting(s) = accepting[s].save + accepting[s].send
    BY DEF Accepting
  <2>3. AcceptTrustPrompt(s) => Accepting(s)' = Accepting(s) + 1
    BY <2>1, <2>2, Zenon
  <2>4. MetadataSaved(s) => Accepting(s)' = Accepting(s)
    BY <2>1, <2>2, Zenon
  <2>5. ASSUME AnswerSent(s) \/ AcceptFails(s)
        PROVE  Accepting(s)' = Accepting(s) - 1
    <3>1. accepting'[s].save + accepting'[s].send = accepting[s].save + accepting[s].send - 1
      BY <2>1, <2>5, Zenon
    <3>2. accepting[s].save \in Nat /\ accepting[s].send \in Nat
      BY <1>0 DEF QuestionTypes
    <3> QED
      BY <2>2, <3>1, <3>2
  <2> QED
    BY <2>1, <2>3, <2>4, <2>5, Zenon
<1>2. /\ asked' = asked /\ (answers' = answers \/ AnswerSent(s))
      /\ queue' = queue \/ queue' = OpenOnly(Sessions \ {s})
  BY DEF TrustStep, AcceptTrustPrompt, MetadataSaved, AnswerSent, AcceptFails,
     DismissTrustPrompt, Dismissed
<1>3. \A r : r \in DOMAIN queue' => r \in DOMAIN queue
  BY <1>2 DEF OpenOnly
<1>4. CASE t # s
  <2>1. answers'[t] = answers[t]
    BY <1>0, <1>2, <1>4 DEF AnswerSent, QuestionTypes
  <2> QED
    BY <1>1, <1>2, <1>3, <1>4, <2>1, AnsweredKept
<1>5. CASE t = s
  <2>0. Accepting(t) \in Nat /\ answers[t] \in Nat /\ asked[t] \in Nat
    BY <1>0, CountsAre
  <2>1. CASE AcceptTrustPrompt(s)
    <3>1. Listed(s) /\ Accepting(s) < 1
      BY <2>1 DEF AcceptTrustPrompt, Asking, MayConfirm
    <3>2. answers' = answers
      BY <2>1 DEF AcceptTrustPrompt
    <3>3. Accepting(t) = 0 /\ answers[t] < asked[t] /\ Accepting(t)' = 1
      BY <1>1, <1>5, <2>0, <2>1, <3>1 DEF OutputAnswered
    <3> QED
      BY <1>2, <2>0, <3>2, <3>3 DEF OutputAnswered
  <2>2. CASE MetadataSaved(s)
    <3>1. answers' = answers /\ queue' = queue
      BY <2>2 DEF MetadataSaved
    <3> QED
      BY <1>1, <1>2, <1>5, <2>2, <3>1 DEF OutputAnswered, Listed
  <2>3. CASE AnswerSent(s)
    <3>1. answers'[t] = answers[t] + 1 /\ queue' = OpenOnly(Sessions \ {s})
      BY <1>0, <1>5, <2>3 DEF AnswerSent, QuestionTypes, Dismissed
    <3>2. ~Listed(t)'
      BY <1>5, <3>1 DEF Listed, OpenOnly
    <3>3. Accepting(t)' = Accepting(t) - 1 /\ asked'[t] = asked[t]
      BY <1>1, <1>2, <1>5, <2>3
    <3> QED
      BY <2>0, <3>1, <3>2, <3>3 DEF OutputAnswered
  <2>4. CASE AcceptFails(s)
    <3>1. answers' = answers
      BY <2>4 DEF AcceptFails
    <3>2. Accepting(t)' = Accepting(t) - 1 /\ asked'[t] = asked[t] /\ Accepting(t)' \in Nat
      BY <1>1, <1>2, <1>5, <2>4 DEF Accepting
    <3> QED
      BY <2>0, <3>1, <3>2 DEF OutputAnswered
  <2>5. CASE DismissTrustPrompt(s)
    <3>1. answers' = answers
      BY <2>5 DEF DismissTrustPrompt
    <3> QED
      BY <1>1, <1>2, <1>3, <2>5, <3>1, AnsweredKept
  <2> QED
    BY <2>1, <2>2, <2>3, <2>4, <2>5 DEF TrustStep
<1> QED
  BY <1>4, <1>5

\* "yes" is sent no more often than questions of the session arrived, for a user who does
\* not confirm a second time while an answer is on its way.
THEOREM YesIsAsked ==
    ASSUME MaxConfirms = 1
    PROVE  OutputSpec => []AnswersAreAsked
<1>1. OutputInit => TrustInv
  <2> SUFFICES ASSUME OutputInit
               PROVE  \A s \in Sessions : OutputAnswered(s)
    BY OutputStarts DEF TrustInv
  <2> QED
    BY DEF OutputInit, OutputAnswered, Accepting, Listed
<1>2. TrustInv /\ [OutputNext]_outputVars => TrustInv'
  <2> SUFFICES ASSUME TrustInv, [OutputNext]_outputVars, NEW t \in Sessions
               PROVE  OutputAnswered(t)'
    BY StreamStep DEF TrustInv
  <2>0. OutputTypes /\ OutputAnswered(t)
    BY DEF TrustInv, StreamInv
  <2>1. CASE SyncRefs \/ UNCHANGED outputVars
    <3>1. /\ UNCHANGED <<accepting, asked, answers>>
          /\ queue' = queue \/ queue' = OpenOnly(tabs)
      BY <2>1 DEF SyncRefs, outputVars
    <3>2. t \in DOMAIN queue' => t \in DOMAIN queue
      BY <3>1 DEF OpenOnly
    <3> QED
      BY <2>0, <3>1, <3>2, AnsweredKept
  <2>2. ASSUME NEW s \in Sessions, ReaderStep(s)
        PROVE  OutputAnswered(t)'
    <3>1. CASE DispatchOutput(s)
      BY <2>0, <3>1, DispatchAnswered
    <3>2. CASE SpawnReader(s) \/ ChildPrints(s) \/ ReadAndEmit(s) \/ ReaderEnds(s)
      <4>1. UNCHANGED <<accepting, asked, answers, queue>>
        BY <3>2 DEF SpawnReader, ChildPrints, ReadAndEmit, ReaderEnds, trust
      <4> QED
        BY <2>0, <4>1, AnsweredKept
    <3> QED
      BY <2>2, <3>1, <3>2 DEF ReaderStep
  <2>3. ASSUME (\E s \in Sessions : OutputTabStep(s)) \/ (\E u \in Terminal : TerminalStep(u))
        PROVE  OutputAnswered(t)'
    <3>1. /\ UNCHANGED <<accepting, asked, answers>>
          /\ queue' = queue \/ \E s \in Sessions : queue' = OpenOnly(Sessions \ {s})
      BY <2>3 DEF TerminalStep, Frame, MountTerminal, UnmountTerminal, RemountTerminal, OutputTabStep,
         TabOpens, TabCloses, Dismissed, trust
    <3>2. t \in DOMAIN queue' => t \in DOMAIN queue
      BY <3>1 DEF OpenOnly
    <3> QED
      BY <2>0, <3>1, <3>2, AnsweredKept
  <2>4. ASSUME NEW s \in Sessions, TrustStep(s)
        PROVE  OutputAnswered(t)'
    BY <2>0, <2>4, QuestionAnswered
  <2> QED
    BY <2>1, <2>2, <2>3, <2>4 DEF OutputNext
<1>3. TrustInv => AnswersAreAsked
  BY DEF TrustInv, OutputAnswered, AnswersAreAsked
<1> QED
  BY <1>1, <1>2, <1>3, PTL DEF OutputSpec

-----------------------------------------------------------------------------
(* File panes                                                              *)

LoadRecord ==
    {Idle} \cup [is : {"load"}, at : Folder, listed : (SUBSET Name) \cup {Unlisted},
                 after : {"nothing", "error"}]

Job ==
    {Idle} \cup [is : {"mkdir", "transfer", "read"}, at : Folder, name : Name]
           \cup [is : {"rename"}, at : Folder, name : Name, to : Name]
           \cup [is : {"delete", "bulk"}, at : Folder, names : SUBSET Name, of : Folder]
           \cup [is : {"recover"}, at : Folder, names : SUBSET Name, of : Folder,
                 mode : {"bestEffort", "chmod"}, ok : BOOLEAN]
           \cup [is : {"save"}, at : Folder, name : Name, new : BOOLEAN, of : Folder]
           \cup [is : {"export"}, at : Folder]

Dialogs ==
    {Closed} \cup [is : {"mkdir", "newFile", "rename"}]
             \cup [is : {"delete"}, name : Name, step : {1, 2}, of : Folder]
             \cup [is : {"bulk"}, names : SUBSET Name, of : Folder]

Editors == {Closed} \cup [is : {"open"}, name : Name, new : BOOLEAN, of : Folder]

DiskTypes ==
    /\ disk \subseteq Entry /\ strays \subseteq Entry /\ readOnly \subseteq Entry \cup {<<>>}
    /\ hostKey \in {"known", "unknown", "changed"}

ListTypes ==
    /\ rows \subseteq Name /\ fresh \in BOOLEAN /\ loading \in BOOLEAN /\ error \in BOOLEAN
    /\ keyDialog \in {"none", "unknown", "changed"}
    /\ loads \in [1..MaxLoads -> LoadRecord]

ChoiceTypes ==
    /\ path \in Folder /\ selected \subseteq Name /\ active \in Name \cup {NoName}
    /\ anchored \in BOOLEAN /\ showHidden \in BOOLEAN

DialogTypes ==
    /\ dialog \in Dialogs /\ recovery \in [names : SUBSET Name, of : Folder] /\ editor \in Editors

JobTypes == jobs \in [1..MaxJobs -> Job]

PaneTypes == DiskTypes /\ ListTypes /\ ChoiceTypes /\ DialogTypes /\ JobTypes

-----------------------------------------------------------------------------
LEMMA JobFields ==
    ASSUME NEW j \in Job
    PROVE  /\ j.is \in {"mkdir", "transfer", "read", "rename"} => j.at \in Folder /\ j.name \in Name
           /\ j.is = "rename" => j.to \in Name
           /\ j.is \in {"delete", "bulk", "recover"} =>
                j.at \in Folder /\ j.names \in SUBSET Name /\ j.of \in Folder
           /\ j.is = "save" => j.at \in Folder /\ j.name \in Name /\ j.of \in Folder
           /\ j.is = "export" => j.at \in Folder
           /\ j.is = "idle" <=> j = Idle
  BY DEF Job, Idle

LEMMA JobMade ==
    ASSUME NEW at \in Folder, NEW n \in Name, NEW m \in Name, NEW of \in Folder,
           NEW names \in SUBSET Name, NEW new \in BOOLEAN, NEW mode \in {"bestEffort", "chmod"}
    PROVE  /\ Idle \in Job
           /\ \A k \in {"mkdir", "transfer", "read"} : [is |-> k, at |-> at, name |-> n] \in Job
           /\ [is |-> "rename", at |-> at, name |-> n, to |-> m] \in Job
           /\ \A k \in {"delete", "bulk"} : [is |-> k, at |-> at, names |-> names,
                of |-> of] \in Job
           /\ [is |-> "recover", at |-> at, names |-> names, of |-> of, mode |-> mode,
               ok |-> TRUE] \in Job
           /\ [is |-> "save", at |-> at, name |-> n, new |-> new, of |-> of] \in Job
           /\ [is |-> "export", at |-> at] \in Job
  BY DEF Job, Idle

LEMMA JobGoesOn ==
    ASSUME NEW j \in Job, NEW names \in SUBSET Name,
           j.is \in {"delete", "bulk"}
    PROVE  /\ [j EXCEPT !.names = names] \in Job
           /\ [j EXCEPT !.names = names].is = j.is /\ [j EXCEPT !.names = names].at = j.at
           /\ [j EXCEPT !.names = names].of = j.of
           /\ [j EXCEPT !.names = names].names = names
  BY DEF Job, Idle

LEMMA RecoveryGoesOn ==
    ASSUME NEW j \in Job, NEW names \in SUBSET Name, NEW ok \in BOOLEAN, j.is = "recover"
    PROVE  /\ [j EXCEPT !.names = names, !.ok = ok] \in Job
           /\ [j EXCEPT !.names = names, !.ok = ok].is = j.is
           /\ [j EXCEPT !.names = names, !.ok = ok].at = j.at
           /\ [j EXCEPT !.names = names, !.ok = ok].of = j.of
           /\ j.ok \in BOOLEAN
<1> DEFINE Recoveries == [is : {"recover"}, at : Folder, names : SUBSET Name, of : Folder,
                          mode : {"bestEffort", "chmod"}, ok : BOOLEAN]
           h == [j EXCEPT !.names = names, !.ok = ok]
<1>1. j \in Recoveries
  BY DEF Job, Idle
<1>2. Recoveries \subseteq Job
  BY DEF Job
<1>3. h \in Recoveries
  BY <1>1
<1>4. h.is = j.is /\ h.at = j.at /\ h.of = j.of /\ j.ok \in BOOLEAN
  BY <1>1
<1> QED
  BY <1>2, <1>3, <1>4

LEMMA LoadFields ==
    ASSUME NEW l \in LoadRecord
    PROVE  /\ l # Idle => l.at \in Folder /\ l.listed \in (SUBSET Name) \cup {Unlisted}
           /\ Idle \in LoadRecord
           /\ \A names \in SUBSET Name : l # Idle =>
                /\ [l EXCEPT !.listed = names] \in LoadRecord \ {Idle}
                /\ [l EXCEPT !.listed = names].at = l.at
                /\ [l EXCEPT !.listed = names].listed = names
  BY DEF LoadRecord, Idle

LEMMA LoadMade ==
    ASSUME NEW at \in Folder, NEW after \in {"nothing", "error"}
    PROVE  [is |-> "load", at |-> at, listed |-> Unlisted, after |-> after] \in LoadRecord \ {Idle}
<1> DEFINE l == [is |-> "load", at |-> at, listed |-> Unlisted, after |-> after]
<1>1. l \in [is : {"load"}, at : Folder, listed : (SUBSET Name) \cup {Unlisted},
              after : {"nothing", "error"}]
  OBVIOUS
<1>2. l.is # Idle.is
  BY DEF Idle
<1> QED
  BY <1>1, <1>2 DEF LoadRecord

LEMMA DialogFields ==
    ASSUME NEW d \in Dialogs
    PROVE  /\ d.is = "delete" => d.name \in Name /\ d.of \in Folder
           /\ d.is = "bulk" => d.names \in SUBSET Name /\ d.of \in Folder
           /\ Closed \in Dialogs
           /\ \A k \in {"mkdir", "newFile", "rename"} : [is |-> k] \in Dialogs
           /\ \A n \in Name, of \in Folder :
                [is |-> "delete", name |-> n, step |-> 1, of |-> of] \in Dialogs
           /\ \A names \in SUBSET Name, of \in Folder :
                [is |-> "bulk", names |-> names, of |-> of] \in Dialogs
           /\ d.is = "delete" => /\ [d EXCEPT !.step = 2] \in Dialogs
                                 /\ [d EXCEPT !.step = 2].is = "delete"
                                 /\ [d EXCEPT !.step = 2].of = d.of
  BY DEF Dialogs, Closed

LEMMA EditorFields ==
    ASSUME NEW e \in Editors
    PROVE  /\ e # Closed => e.name \in Name /\ e.of \in Folder /\ e.new \in BOOLEAN
           /\ Closed \in Editors
           /\ \A n \in Name, new \in BOOLEAN, of \in Folder :
                [is |-> "open", name |-> n, new |-> new, of |-> of] \in Editors \ {Closed}
  BY DEF Editors, Closed

-----------------------------------------------------------------------------
(* The steps a handler is made of                                          *)

LEMMA LoadTypes ==
    ASSUME ListTypes, NEW at \in Folder, NEW after \in {"nothing", "error"}, Load(at, after)
    PROVE  ListTypes'
<1>1. PICK i \in 1..MaxLoads :
        loads' = [loads EXCEPT ![i] = [is |-> "load", at |-> at, listed |-> Unlisted,
            after |-> after]]
  BY DEF Load
<1>2. [is |-> "load", at |-> at, listed |-> Unlisted, after |-> after] \in LoadRecord
  BY LoadMade
<1>3. loads' \in [1..MaxLoads -> LoadRecord]
  BY <1>1, <1>2 DEF ListTypes
<1> QED
  BY <1>3 DEF Load, ListTypes

LEMMA StartTypes ==
    ASSUME JobTypes, NEW job \in Job, Start(job)
    PROVE  JobTypes'
  BY DEF JobTypes, Start

LEMMA EndTypes ==
    ASSUME JobTypes, NEW i, EndJob(i)
    PROVE  JobTypes'
  BY JobMade DEF JobTypes, EndJob, Job

LEMMA NamesAndFolders ==
    /\ \A e \in Entry : Last(e) \in Name
    /\ <<>> \in Folder
  BY DEF Name, Folder

LEMMA RemoveTypes ==
    ASSUME disk \subseteq Entry, strays \subseteq Entry, NEW gone, gone \subseteq disk, NEW chosen,
           RemoveEntries(gone, chosen)
    PROVE  disk' \subseteq Entry /\ strays' \subseteq Entry
  BY DEF RemoveEntries

LEMMA StrictTypes ==
    ASSUME disk \subseteq Entry, strays \subseteq Entry, NEW e, NEW chosen, NEW ok,
           DeleteStrict(e, chosen, ok)
    PROVE  disk' \subseteq Entry /\ strays' \subseteq Entry
  BY RemoveTypes DEF DeleteStrict

LEMMA BestEffortTypes ==
    ASSUME disk \subseteq Entry, strays \subseteq Entry, NEW e, NEW chosen, NEW ok,
           DeleteBestEffort(e, chosen, ok)
    PROVE  disk' \subseteq Entry /\ strays' \subseteq Entry
  BY RemoveTypes DEF DeleteBestEffort

LEMMA ChmodTypes ==
    ASSUME DiskTypes, NEW e, NEW chosen, NEW ok, DeleteChmod(e, chosen, ok), hostKey' = hostKey
    PROVE  DiskTypes'
<1>1. disk' \subseteq Entry /\ strays' \subseteq Entry
  BY RemoveTypes DEF DeleteChmod, DiskTypes
<1>2. readOnly' \subseteq readOnly
  BY DEF DeleteChmod
<1> QED
  BY <1>1, <1>2 DEF DiskTypes

-----------------------------------------------------------------------------
(* Every handler keeps the types                                           *)

LEMMA SetPathTypes ==
    ASSUME PaneTypes, NEW f \in Folder, SetPath(f)
    PROVE  PaneTypes'
<1>1. DiskTypes' /\ JobTypes' /\ path' \in Folder /\ showHidden' = showHidden /\ editor' = editor
  BY DEF SetPath, PaneTypes, DiskTypes, JobTypes, remoteVars
<1>2. CASE f = path
  BY <1>1, <1>2 DEF SetPath, PaneTypes, ListTypes, ChoiceTypes, DialogTypes, listVars, selectionVars
<1>3. CASE f # path
  <2>1. ListTypes'
    BY <1>3, LoadTypes DEF SetPath, PaneTypes
  <2>2. ChoiceTypes'
    BY <1>1, <1>3 DEF SetPath, PaneTypes, ChoiceTypes, NoName
  <2>3. DialogTypes'
    <3>1. NoRecovery \in [names : SUBSET Name, of : Folder]
      BY NamesAndFolders DEF NoRecovery
    <3>2. dialog \in Dialogs /\ editor \in Editors /\ Closed \in Dialogs
      BY DialogFields DEF PaneTypes, DialogTypes
    <3>3. recovery' = NoRecovery /\ dialog' = IF dialog.is = "bulk" THEN Closed ELSE dialog
      BY <1>3 DEF SetPath
    <3> QED
      BY <1>1, <3>1, <3>2, <3>3 DEF DialogTypes
  <2> QED
    BY <1>1, <2>1, <2>2, <2>3 DEF PaneTypes
<1> QED
  BY <1>2, <1>3

LEMMA ClickTypes ==
    ASSUME PaneTypes, PaneClick
    PROVE  PaneTypes'
<1>1. CASE Refresh \/ ReloadAll
  <2>1. ListTypes'
    BY <1>1, LoadTypes DEF Refresh, ReloadAll, PaneTypes, ChoiceTypes
  <2> QED
    BY <1>1, <2>1 DEF Refresh, ReloadAll, PaneTypes, DiskTypes, ChoiceTypes, DialogTypes, JobTypes,
       remoteVars, selectionVars, dialogVars
<1>2. CASE ToggleHidden
  <2>1. ChoiceTypes'
    BY <1>2 DEF ToggleHidden, PaneTypes, ChoiceTypes, selectionVars
  <2> QED
    BY <1>2, <2>1 DEF ToggleHidden, PaneTypes, DiskTypes, ListTypes, DialogTypes, JobTypes,
       remoteVars, listVars, dialogVars
<1>3. CASE StartDelete \/ NssDelete
  <2>1. dialog' \in Dialogs
    <3>1. CASE StartDelete
      BY <1>3, <3>1, DialogFields DEF StartDelete, PaneTypes, DialogTypes, ListTypes, ChoiceTypes
    <3>2. CASE NssDelete
      <4>1. selected # {} /\ selected \subseteq Name /\ path \in Folder /\ dialog \in Dialogs
        BY <3>2 DEF NssDelete, PaneTypes, ChoiceTypes, DialogTypes
      <4>2. (CHOOSE n \in selected : TRUE) \in Name
        BY <4>1
      <4>3. \/ dialog' = [is |-> "bulk", names |-> selected, of |-> path]
            \/ dialog' = [is |-> "delete", name |-> CHOOSE n \in selected : TRUE, step |-> 1,
                          of |-> path]
        BY <3>2 DEF NssDelete
      <4>4. CASE dialog' = [is |-> "bulk", names |-> selected, of |-> path]
        BY <4>1, <4>4, DialogFields
      <4>5. CASE dialog' = [is |-> "delete", name |-> CHOOSE n \in selected : TRUE, step |-> 1,
                            of |-> path]
        <5> DEFINE n == CHOOSE n \in selected : TRUE
        <5>1. n \in Name /\ dialog' = [is |-> "delete", name |-> n, step |-> 1, of |-> path]
          BY <4>2, <4>5
        <5> HIDE DEF n
        <5> QED
          BY <4>1, <5>1, DialogFields
      <4> QED
        BY <4>3, <4>4, <4>5
    <3> QED
      BY <1>3, <3>1, <3>2
  <2> QED
    BY <1>3, <2>1 DEF StartDelete, NssDelete, PaneTypes, DiskTypes, ListTypes, DialogTypes,
       ChoiceTypes, JobTypes, remoteVars, listVars, selectionVars
<1>4. CASE StartExport \/ \E n \in Name : StartTransfer(n)
  <2>1. JobTypes'
    <3>1. CASE StartExport
      BY <3>1, JobMade, StartTypes DEF StartExport, PaneTypes, ChoiceTypes, Job
    <3>2. ASSUME NEW n \in Name, StartTransfer(n)
          PROVE  JobTypes'
      BY <3>2, JobMade, StartTypes DEF StartTransfer, PaneTypes, ChoiceTypes, Job
    <3> QED
      BY <1>4, <3>1, <3>2
  <2> QED
    BY <1>4, <2>1 DEF StartExport, StartTransfer, PaneTypes, DiskTypes, ListTypes, DialogTypes,
       ChoiceTypes, remoteVars, selectionVars, dialogVars
<1>5. CASE SaveEditor
  <2>1. JobTypes'
    BY <1>5, EditorFields, StartTypes DEF SaveEditor, PaneTypes, ChoiceTypes, DialogTypes, Job
  <2> QED
    BY <1>5, <2>1 DEF SaveEditor, PaneTypes, DiskTypes, ListTypes, DialogTypes,
       ChoiceTypes, remoteVars, listVars, selectionVars, dialogVars
<1>6. CASE CloseEditor
  BY <1>6, EditorFields DEF CloseEditor, PaneTypes, DiskTypes, ListTypes, DialogTypes, JobTypes,
     ChoiceTypes, remoteVars, listVars, selectionVars
<1>7. ASSUME NEW f \in Folder, GoTo(f) \/ SyncPath(f)
      PROVE  PaneTypes'
  BY <1>7, SetPathTypes DEF GoTo, SyncPath
<1>8. ASSUME NEW n \in Name, OpenDir(n)
      PROVE  PaneTypes'
  BY <1>8, SetPathTypes DEF OpenDir
<1>9. ASSUME NEW n \in Name, RowClick(n)
      PROVE  PaneTypes'
  <2>1. selected' \subseteq Name
    BY <1>9 DEF RowClick, PaneTypes, ChoiceTypes, ListTypes, Shown
  <2> QED
    BY <1>9, <2>1 DEF RowClick, PaneTypes, DiskTypes, ListTypes, DialogTypes, JobTypes,
       ChoiceTypes, remoteVars, listVars, dialogVars
<1>10. ASSUME NEW n \in Name, OpenEditor(n)
       PROVE  PaneTypes'
  <2>1. JobTypes' /\ error' \in BOOLEAN
    <3>1. CASE IsDir(n)
      BY <1>10, <3>1 DEF OpenEditor, PaneTypes, JobTypes
    <3>2. CASE ~IsDir(n)
      BY <1>10, <3>2, StartTypes DEF OpenEditor, PaneTypes, ChoiceTypes, Job
    <3> QED
      BY <3>1, <3>2
  <2> QED
    BY <1>10, <2>1 DEF OpenEditor, PaneTypes, DiskTypes, ListTypes, DialogTypes,
       ChoiceTypes, remoteVars, selectionVars, dialogVars
<1>11. ASSUME NEW k \in {"mkdir", "newFile", "rename"}, OpenPrompt(k)
       PROVE  PaneTypes'
  BY <1>11, DialogFields DEF OpenPrompt, PaneTypes, DiskTypes, ListTypes, DialogTypes, JobTypes,
     ChoiceTypes, remoteVars, listVars, selectionVars
<1> QED
  BY <1>1, <1>2, <1>3, <1>4, <1>5, <1>6, <1>7, <1>8, <1>9, <1>10, <1>11, Zenon DEF PaneClick

LEMMA ConfirmedTypes ==
    ASSUME PaneTypes, NEW job \in Job, Confirmed(job)
    PROVE  PaneTypes'
<1>1. JobTypes'
  BY StartTypes DEF Confirmed, PaneTypes
<1>2. dialog' \in Dialogs
  BY DialogFields DEF Confirmed, PaneTypes, DialogTypes
<1> QED
  BY <1>1, <1>2 DEF Confirmed, PaneTypes, DiskTypes, ListTypes, DialogTypes,
     ChoiceTypes, remoteVars, selectionVars

LEMMA DialogStepTypes ==
    ASSUME PaneTypes, PaneDialog
    PROVE  PaneTypes'
<1>0. /\ path \in Folder /\ dialog \in Dialogs /\ active \in Name \cup {NoName}
      /\ recovery.names \in SUBSET Name /\ recovery.of \in Folder
      /\ NoRecovery \in [names : SUBSET Name, of : Folder]
  BY NamesAndFolders DEF PaneTypes, ChoiceTypes, DialogTypes, NoRecovery
<1>1. CASE AdvanceDelete \/ CancelDialog
  <2>1. dialog' \in Dialogs
    BY <1>0, <1>1, DialogFields DEF AdvanceDelete, CancelDialog
  <2> QED
    BY <1>1, <2>1 DEF AdvanceDelete, CancelDialog, PaneTypes, DiskTypes, ListTypes, DialogTypes,
       JobTypes, ChoiceTypes, remoteVars, listVars, selectionVars
<1>2. CASE ConfirmDelete
  <2>1. {dialog.name} \in SUBSET Name /\ dialog.of \in Folder
    BY <1>0, <1>2, DialogFields DEF ConfirmDelete
  <2>2. [is |-> "delete", at |-> path, names |-> {dialog.name}, of |-> dialog.of] \in Job
    BY <1>0, <2>1 DEF Job
  <2> QED
    BY <1>2, <2>2, ConfirmedTypes DEF ConfirmDelete
<1>3. CASE ConfirmBulk
  <2>1. dialog.names \in SUBSET Name /\ dialog.of \in Folder
    BY <1>0, <1>3, DialogFields DEF ConfirmBulk
  <2>2. [is |-> "bulk", at |-> path, names |-> dialog.names, of |-> dialog.of] \in Job
    BY <1>0, <2>1 DEF Job
  <2> QED
    BY <1>3, <2>2, ConfirmedTypes DEF ConfirmBulk
<1>4. CASE CancelRecovery
  BY <1>0, <1>4 DEF CancelRecovery, PaneTypes, DiskTypes, ListTypes, DialogTypes,
     JobTypes, ChoiceTypes, remoteVars, listVars, selectionVars
<1>5. CASE ConfirmKey
  <2>1. CASE Load(path, "nothing")
    <3>1. ListTypes'
      BY <1>0, <1>5, <2>1, LoadTypes DEF ConfirmKey, PaneTypes
    <3>2. hostKey' \in {"known", "unknown", "changed"}
      BY <1>5, <2>1 DEF ConfirmKey, PaneTypes, DiskTypes, ListTypes, DialogTypes, ChoiceTypes
    <3> QED
      BY <1>5, <2>1, <3>1 DEF ConfirmKey, PaneTypes, DiskTypes, DialogTypes,
         JobTypes, ChoiceTypes, selectionVars, dialogVars
  <2>2. CASE /\ keyDialog' = "none" /\ error' = TRUE
             /\ UNCHANGED <<hostKey, rows, fresh, loads, loading>>
    BY <1>5, <2>2 DEF ConfirmKey, PaneTypes, DiskTypes, ListTypes, DialogTypes,
       JobTypes, ChoiceTypes, selectionVars, dialogVars
  <2> QED
    BY <1>5, <2>1, <2>2 DEF ConfirmKey
<1>6. CASE CancelKey
  BY <1>6 DEF CancelKey, PaneTypes, DiskTypes, ListTypes, DialogTypes,
     JobTypes, ChoiceTypes, remoteVars, selectionVars, dialogVars
<1>7. ASSUME NEW n \in Name, ConfirmMkdir(n)
      PROVE  PaneTypes'
  <2>1. [is |-> "mkdir", at |-> path, name |-> n] \in Job
    BY <1>0, <1>7 DEF Job
  <2> QED
    BY <1>7, <2>1, ConfirmedTypes DEF ConfirmMkdir
<1>8. ASSUME NEW n \in Name, ConfirmRename(n)
      PROVE  PaneTypes'
  <2>1. active \in Name
    BY <1>0, <1>8 DEF ConfirmRename
  <2>2. [is |-> "rename", at |-> path, name |-> active, to |-> n] \in Job
    BY <1>0, <1>8, <2>1 DEF Job
  <2> QED
    BY <1>8, <2>2, ConfirmedTypes DEF ConfirmRename
<1>9. ASSUME NEW n \in Name, ConfirmNewFile(n)
      PROVE  PaneTypes'
  <2>1. dialog' \in Dialogs /\ editor' \in Editors
    BY <1>0, <1>9, DialogFields DEF ConfirmNewFile, Editors
  <2> QED
    BY <1>9, <2>1 DEF ConfirmNewFile, PaneTypes, DiskTypes, ListTypes, DialogTypes,
       JobTypes, ChoiceTypes, remoteVars, listVars, selectionVars
<1>10. ASSUME NEW m \in {"bestEffort", "chmod"}, ConfirmRecovery(m)
       PROVE  PaneTypes'
  <2>1. [is |-> "recover", at |-> path, names |-> recovery.names, of |-> recovery.of,
         mode |-> m, ok |-> TRUE] \in Job
    BY <1>0 DEF Job
  <2>2. JobTypes'
    BY <1>10, <2>1, StartTypes DEF ConfirmRecovery, PaneTypes
  <2> QED
    BY <1>0, <1>10, <2>2 DEF ConfirmRecovery, PaneTypes, DiskTypes, ListTypes, DialogTypes,
       ChoiceTypes, remoteVars, selectionVars
<1> QED
  BY <1>1, <1>2, <1>3, <1>4, <1>5, <1>6, <1>7, <1>8, <1>9, <1>10, Zenon DEF PaneDialog

LEMMA ListStepTypes ==
    ASSUME PaneTypes, NEW i \in 1..MaxLoads, ListDir(i) \/ ListAnswer(i) \/ ListFails(i)
    PROVE  PaneTypes'
<1>0. loads[i] \in LoadRecord /\ loads \in [1..MaxLoads -> LoadRecord] /\ Idle \in LoadRecord
  BY LoadFields DEF PaneTypes, ListTypes
<1>1. ListTypes'
  <2>1. CASE ListDir(i)
    <3>1. Listing(loads[i].at) \in SUBSET Name
      BY DEF Listing
    <3>2. [loads[i] EXCEPT !.listed = Listing(loads[i].at)] \in LoadRecord
      BY <1>0, <2>1, <3>1, LoadFields DEF ListDir
    <3>3. loads' \in [1..MaxLoads -> LoadRecord]
      BY <1>0, <2>1, <3>2 DEF ListDir
    <3> QED
      BY <2>1, <3>3 DEF ListDir, PaneTypes, ListTypes
  <2>2. CASE ListAnswer(i)
    <3>1. rows' \subseteq Name
      BY <1>0, <2>2, LoadFields DEF ListAnswer
    <3>2. loads' \in [1..MaxLoads -> LoadRecord]
      BY <1>0, <2>2 DEF ListAnswer
    <3> QED
      BY <2>2, <3>1, <3>2 DEF ListAnswer, PaneTypes, ListTypes
  <2>3. CASE ListFails(i)
    <3>1. loads' \in [1..MaxLoads -> LoadRecord]
      BY <1>0, <2>3 DEF ListFails
    <3> QED
      BY <2>3, <3>1 DEF ListFails, PaneTypes, ListTypes, DiskTypes
  <2> QED
    BY <2>1, <2>2, <2>3
<1> QED
  BY <1>1 DEF ListDir, ListAnswer, ListFails, PaneTypes, DiskTypes, DialogTypes,
     JobTypes, ChoiceTypes, remoteVars, selectionVars, dialogVars

LEMMA ReadTypes ==
    ASSUME PaneTypes, NEW i \in 1..MaxJobs, ReadDone(i)
    PROVE  PaneTypes'
<1>1. JobTypes'
  BY EndTypes DEF ReadDone, EndJob, PaneTypes
<1>2. jobs[i].at \in Folder /\ jobs[i].name \in Name
  BY JobFields DEF ReadDone, PaneTypes, JobTypes
<1>3. editor' \in Editors /\ error' \in BOOLEAN
  <2>1. [is |-> "open", name |-> jobs[i].name, new |-> FALSE, of |-> jobs[i].at] \in Editors
    BY <1>2 DEF Editors
  <2> QED
    BY <2>1 DEF ReadDone, PaneTypes, DialogTypes, ListTypes
<1> QED
  BY <1>1, <1>3 DEF ReadDone, PaneTypes, DiskTypes, ListTypes, DialogTypes,
     ChoiceTypes, remoteVars, selectionVars

LEMMA SaveTypes ==
    ASSUME PaneTypes, NEW i \in 1..MaxJobs, SaveDone(i)
    PROVE  PaneTypes'
<1>1. JobTypes'
  BY EndTypes DEF SaveDone, EndJob, PaneTypes
<1>2. jobs[i].at \in Folder
  BY JobFields DEF SaveDone, PaneTypes, JobTypes
<1>3. CASE /\ Save(jobs[i].at, jobs[i].name, jobs[i].new, jobs[i].of)
           /\ Load(jobs[i].at, "nothing") /\ editor' = Closed
  <2>1. ListTypes'
    BY <1>2, <1>3, LoadTypes DEF PaneTypes
  <2>2. disk' \subseteq Entry /\ strays' \subseteq Entry
    BY <1>3 DEF Save, PaneTypes, DiskTypes
  <2>3. editor' \in Editors
    BY <1>3 DEF Editors
  <2> QED
    BY <1>1, <2>1, <2>2, <2>3 DEF SaveDone, PaneTypes, DiskTypes, DialogTypes,
       ChoiceTypes, selectionVars
<1>4. CASE UNCHANGED <<disk, strays, listVars, editor>>
  BY <1>1, <1>4 DEF SaveDone, PaneTypes, DiskTypes, ListTypes, DialogTypes,
     ChoiceTypes, selectionVars, listVars
<1> QED
  BY <1>3, <1>4 DEF SaveDone

LEMMA SmallJobTypes ==
    ASSUME PaneTypes, NEW i \in 1..MaxJobs,
           JobFails(i) \/ MkdirDone(i) \/ TransferDone(i) \/ ExportDone(i)
    PROVE  PaneTypes'
<1>1. JobTypes'
  BY EndTypes DEF JobFails, MkdirDone, TransferDone, ExportDone, PaneTypes
<1>2. jobs[i].is \in {"mkdir", "transfer"} => jobs[i].at \in Folder
  BY JobFields DEF PaneTypes, JobTypes
<1>3. ListTypes'
  BY <1>2, LoadTypes DEF JobFails, MkdirDone, TransferDone, ExportDone, PaneTypes, ListTypes,
     listVars
<1>4. disk' \subseteq Entry
  BY DEF JobFails, MkdirDone, TransferDone, ExportDone, PaneTypes, DiskTypes, remoteVars
<1> QED
  BY <1>1, <1>3, <1>4 DEF JobFails, MkdirDone, TransferDone, ExportDone, PaneTypes, DiskTypes,
     DialogTypes, ChoiceTypes, remoteVars, selectionVars, dialogVars

LEMMA RenameTypes ==
    ASSUME PaneTypes, NEW i \in 1..MaxJobs, RenameDone(i)
    PROVE  PaneTypes'
<1>1. JobTypes'
  BY EndTypes DEF RenameDone, PaneTypes
<1>2. jobs[i].at \in Folder /\ jobs[i].to \in Name
  BY JobFields DEF RenameDone, PaneTypes, JobTypes
<1>3. ListTypes'
  BY <1>2, LoadTypes DEF RenameDone, PaneTypes
<1>4. disk' \subseteq Entry
  BY DEF RenameDone
<1>5. selected' \subseteq Name /\ active' \in Name
  BY <1>2 DEF RenameDone, PaneTypes, ChoiceTypes
<1> QED
  BY <1>1, <1>3, <1>4, <1>5 DEF RenameDone, PaneTypes, DiskTypes, DialogTypes, ChoiceTypes,
     dialogVars

LEMMA DeleteTypes ==
    ASSUME PaneTypes, NEW i \in 1..MaxJobs, DeleteDone(i)
    PROVE  PaneTypes'
<1>0. /\ jobs[i] \in Job /\ jobs[i].is \in {"delete", "bulk"}
      /\ disk \subseteq Entry /\ strays \subseteq Entry
  BY DEF DeleteDone, PaneTypes, JobTypes, DiskTypes
<1>1. jobs[i].at \in Folder /\ jobs[i].names \in SUBSET Name /\ jobs[i].of \in Folder
  BY <1>0, JobFields
<1>2. PICK n \in jobs[i].names :
        \/ /\ DeleteStrict(Resolve(jobs[i].at, n), Under(Append(jobs[i].of, n)), TRUE)
           /\ \/ /\ jobs' = [jobs EXCEPT ![i].names = jobs[i].names \ {n}]
                 /\ UNCHANGED <<listVars, selected, active>>
              \/ /\ selected' = IF jobs[i].is = "bulk" THEN {} ELSE selected \ {n}
                 /\ active' = IF jobs[i].is = "bulk" \/ active = n THEN NoName ELSE active
                 /\ Load(jobs[i].at, "nothing")
                 /\ EndJob(i)
           /\ UNCHANGED recovery
        \/ /\ DeleteStrict(Resolve(jobs[i].at, n), Under(Append(jobs[i].of, n)), FALSE)
           /\ recovery' = [names |-> jobs[i].names, of |-> jobs[i].of]
           /\ Load(jobs[i].at, "nothing")
           /\ EndJob(i)
           /\ UNCHANGED <<selected, active>>
  BY Zenon DEF DeleteDone
<1>3. disk' \subseteq Entry /\ strays' \subseteq Entry
  BY <1>0, <1>2, StrictTypes
<1>4. DiskTypes'
  BY <1>3 DEF DeleteDone, PaneTypes, DiskTypes
<1>5. JobTypes'
  <2>1. CASE EndJob(i)
    BY <2>1, EndTypes DEF PaneTypes
  <2>2. CASE jobs' = [jobs EXCEPT ![i].names = jobs[i].names \ {n}]
    <3>1. [jobs[i] EXCEPT !.names = jobs[i].names \ {n}] \in Job
      BY <1>0, <1>1, JobGoesOn
    <3> QED
      BY <2>2, <3>1 DEF PaneTypes, JobTypes
  <2> QED
    BY <1>2, <2>1, <2>2
<1>6. ListTypes'
  <2>1. CASE Load(jobs[i].at, "nothing")
    BY <1>1, <2>1, LoadTypes DEF PaneTypes
  <2>2. CASE UNCHANGED listVars
    BY <2>2 DEF PaneTypes, ListTypes, listVars
  <2> QED
    BY <1>2, <2>1, <2>2
<1>7. selected' \subseteq Name /\ active' \in Name \cup {NoName}
  BY <1>2 DEF PaneTypes, ChoiceTypes
<1>8. recovery' \in [names : SUBSET Name, of : Folder]
  <2>1. [names |-> jobs[i].names, of |-> jobs[i].of] \in [names : SUBSET Name, of : Folder]
    BY <1>1
  <2>2. recovery' = recovery \/ recovery' = [names |-> jobs[i].names, of |-> jobs[i].of]
    BY <1>2
  <2> QED
    BY <2>1, <2>2 DEF PaneTypes, DialogTypes
<1> QED
  BY <1>4, <1>5, <1>6, <1>7, <1>8 DEF DeleteDone, PaneTypes, DialogTypes, ChoiceTypes

\* What a step of a retry does with its name: the deletion, or an error before it.
RecoverEnds(i, after) ==
    selected' = {} /\ active' = NoName /\ Load(jobs[i].at, after) /\ EndJob(i)

LEMMA RecoverCases ==
    ASSUME NEW i \in 1..MaxJobs, RecoverDone(i), jobs[i].ok \in BOOLEAN
    PROVE  \E n \in jobs[i].names :
             /\ \/ \E ok \in BOOLEAN :
                     \/ /\ UNCHANGED readOnly
                        /\ DeleteBestEffort(Resolve(jobs[i].at, n), Under(Append(jobs[i].of, n)),
                             ok)
                     \/ DeleteChmod(Resolve(jobs[i].at, n), Under(Append(jobs[i].of, n)), ok)
                \/ readOnly' \subseteq readOnly /\ UNCHANGED <<disk, strays>>
             /\ \/ /\ \E ok \in BOOLEAN :
                        jobs' = [jobs EXCEPT ![i].names = jobs[i].names \ {n}, ![i].ok = @ /\ ok]
                   /\ UNCHANGED <<listVars, selected, active>>
                \/ \E after \in {"nothing", "error"} : RecoverEnds(i, after)
<1>1. PICK n \in jobs[i].names :
        \/ \E ok \in BOOLEAN :
             /\ IF jobs[i].mode = "bestEffort"
                THEN /\ DeleteBestEffort(Resolve(jobs[i].at, n), Under(Append(jobs[i].of, n)), ok)
                     /\ UNCHANGED readOnly
                ELSE DeleteChmod(Resolve(jobs[i].at, n), Under(Append(jobs[i].of, n)), ok)
             /\ \/ /\ jobs' = [jobs EXCEPT ![i].names = jobs[i].names \ {n}, ![i].ok = @ /\ ok]
                   /\ UNCHANGED <<listVars, selected, active>>
                \/ /\ selected' = {} /\ active' = NoName
                   /\ Load(jobs[i].at, IF ok /\ jobs[i].ok THEN "nothing" ELSE "error")
                   /\ EndJob(i)
        \/ /\ selected' = {} /\ active' = NoName
           /\ Load(jobs[i].at, IF FALSE THEN "nothing" ELSE "error")
           /\ EndJob(i)
           /\ readOnly' = readOnly
                \/ (jobs[i].mode = "chmod"
                    /\ readOnly' = readOnly \ (Under(Resolve(jobs[i].at,
                         n)) \ {Resolve(jobs[i].at, n)}))
           /\ UNCHANGED <<disk, strays>>
  BY Zenon DEF RecoverDone
<1>2. CASE \E ok \in BOOLEAN :
             /\ IF jobs[i].mode = "bestEffort"
                THEN /\ DeleteBestEffort(Resolve(jobs[i].at, n), Under(Append(jobs[i].of, n)), ok)
                     /\ UNCHANGED readOnly
                ELSE DeleteChmod(Resolve(jobs[i].at, n), Under(Append(jobs[i].of, n)), ok)
             /\ \/ /\ jobs' = [jobs EXCEPT ![i].names = jobs[i].names \ {n}, ![i].ok = @ /\ ok]
                   /\ UNCHANGED <<listVars, selected, active>>
                \/ /\ selected' = {} /\ active' = NoName
                   /\ Load(jobs[i].at, IF ok /\ jobs[i].ok THEN "nothing" ELSE "error")
                   /\ EndJob(i)
  <2>1. PICK ok \in BOOLEAN :
             /\ IF jobs[i].mode = "bestEffort"
                THEN /\ DeleteBestEffort(Resolve(jobs[i].at, n), Under(Append(jobs[i].of, n)), ok)
                     /\ UNCHANGED readOnly
                ELSE DeleteChmod(Resolve(jobs[i].at, n), Under(Append(jobs[i].of, n)), ok)
             /\ \/ /\ jobs' = [jobs EXCEPT ![i].names = jobs[i].names \ {n}, ![i].ok = @ /\ ok]
                   /\ UNCHANGED <<listVars, selected, active>>
                \/ /\ selected' = {} /\ active' = NoName
                   /\ Load(jobs[i].at, IF ok /\ jobs[i].ok THEN "nothing" ELSE "error")
                   /\ EndJob(i)
    BY <1>2
  <2> DEFINE after == IF ok /\ jobs[i].ok THEN "nothing" ELSE "error"
  <2>2. after \in {"nothing", "error"}
    OBVIOUS
  <2> HIDE DEF after
  <2>3. \/ /\ UNCHANGED readOnly
           /\ DeleteBestEffort(Resolve(jobs[i].at, n), Under(Append(jobs[i].of, n)), ok)
        \/ DeleteChmod(Resolve(jobs[i].at, n), Under(Append(jobs[i].of, n)), ok)
    BY <2>1, Zenon
  <2>4. \/ /\ jobs' = [jobs EXCEPT ![i].names = jobs[i].names \ {n}, ![i].ok = @ /\ ok]
           /\ UNCHANGED <<listVars, selected, active>>
        \/ RecoverEnds(i, after)
    BY <2>1, Zenon DEF RecoverEnds, after
  <2> QED
    BY <2>2, <2>3, <2>4, Zenon
<1>3. CASE /\ selected' = {} /\ active' = NoName
           /\ Load(jobs[i].at, IF FALSE THEN "nothing" ELSE "error")
           /\ EndJob(i)
           /\ readOnly' = readOnly
                \/ (jobs[i].mode = "chmod"
                    /\ readOnly' = readOnly \ (Under(Resolve(jobs[i].at,
                         n)) \ {Resolve(jobs[i].at, n)}))
           /\ UNCHANGED <<disk, strays>>
  <2>1. readOnly' \subseteq readOnly
    BY <1>3
  <2>2. RecoverEnds(i, "error")
    BY <1>3 DEF RecoverEnds
  <2> QED
    BY <1>3, <2>1, <2>2
<1> QED
  BY <1>1, <1>2, <1>3, Zenon

LEMMA RecoverTypes ==
    ASSUME PaneTypes, NEW i \in 1..MaxJobs, RecoverDone(i)
    PROVE  PaneTypes'
<1>0. /\ jobs[i] \in Job /\ jobs[i].is = "recover" /\ DiskTypes /\ hostKey' = hostKey
  BY DEF RecoverDone, PaneTypes, JobTypes
<1>1. /\ jobs[i].at \in Folder /\ jobs[i].names \in SUBSET Name /\ jobs[i].of \in Folder
      /\ jobs[i].ok \in BOOLEAN
  BY <1>0, JobFields, RecoveryGoesOn
<1>2. PICK n \in jobs[i].names :
        /\ \/ \E ok \in BOOLEAN :
                \/ /\ UNCHANGED readOnly
                   /\ DeleteBestEffort(Resolve(jobs[i].at, n), Under(Append(jobs[i].of, n)), ok)
                \/ DeleteChmod(Resolve(jobs[i].at, n), Under(Append(jobs[i].of, n)), ok)
           \/ readOnly' \subseteq readOnly /\ UNCHANGED <<disk, strays>>
        /\ \/ /\ \E ok \in BOOLEAN :
                   jobs' = [jobs EXCEPT ![i].names = jobs[i].names \ {n}, ![i].ok = @ /\ ok]
              /\ UNCHANGED <<listVars, selected, active>>
           \/ \E after \in {"nothing", "error"} : RecoverEnds(i, after)
  BY <1>1, RecoverCases
<1>3. DiskTypes'
  BY <1>0, <1>2, BestEffortTypes, ChmodTypes DEF DiskTypes
<1>4. CASE /\ \E ok \in BOOLEAN :
                jobs' = [jobs EXCEPT ![i].names = jobs[i].names \ {n}, ![i].ok = @ /\ ok]
           /\ UNCHANGED <<listVars, selected, active>>
  <2>1. PICK ok \in BOOLEAN :
          jobs' = [jobs EXCEPT ![i].names = jobs[i].names \ {n}, ![i].ok = @ /\ ok]
    BY <1>4
  <2> DEFINE both == jobs[i].ok /\ ok
             h == [jobs[i] EXCEPT !.names = jobs[i].names \ {n}, !.ok = both]
  <2>2. both \in BOOLEAN
    OBVIOUS
  <2>3. jobs' = [jobs EXCEPT ![i] = h]
    BY <1>0, <2>1 DEF PaneTypes, JobTypes
  <2> HIDE DEF both
  <2>4. h \in Job
    BY <1>0, <1>1, <2>2, RecoveryGoesOn
  <2> HIDE DEF h
  <2>5. JobTypes'
    BY <2>3, <2>4 DEF PaneTypes, JobTypes
  <2> QED
    BY <1>3, <1>4, <2>5 DEF RecoverDone, PaneTypes, ListTypes, DialogTypes, ChoiceTypes, listVars,
       dialogVars
<1>5. ASSUME NEW after \in {"nothing", "error"}, RecoverEnds(i, after)
      PROVE  PaneTypes'
  <2>1. JobTypes'
    BY <1>5, EndTypes DEF RecoverEnds, PaneTypes
  <2>2. ListTypes'
    BY <1>1, <1>5, LoadTypes DEF RecoverEnds, PaneTypes
  <2> QED
    BY <1>3, <1>5, <2>1, <2>2 DEF RecoverDone, RecoverEnds, PaneTypes, DialogTypes, ChoiceTypes,
       dialogVars
<1> QED
  BY <1>2, <1>4, <1>5

LEMMA PaneInitTypes ==
    ASSUME FilePaneInit
    PROVE  PaneTypes
<1>1. loads \in [1..MaxLoads -> LoadRecord]
  <2>1. [is |-> "load", at |-> <<>>, listed |-> Unlisted, after |-> "nothing"] \in LoadRecord
    BY LoadMade, NamesAndFolders
  <2>2. Idle \in LoadRecord
    BY DEF LoadRecord
  <2> QED
    BY <2>1, <2>2 DEF FilePaneInit
<1>2. jobs \in [1..MaxJobs -> Job]
  BY DEF FilePaneInit, Job
<1>3. dialog \in Dialogs /\ editor \in Editors /\ recovery \in [names : SUBSET Name, of : Folder]
  BY NamesAndFolders DEF FilePaneInit, Dialogs, Editors, NoRecovery
<1>4. hostKey \in {"known", "unknown", "changed"}
  BY DEF FilePaneInit
<1> QED
  BY <1>1, <1>2, <1>3, <1>4, FilePaneAssumption, NamesAndFolders
     DEF FilePaneInit, PaneTypes, DiskTypes, ListTypes, ChoiceTypes, DialogTypes, JobTypes

LEMMA PaneTypesStep ==
    ASSUME PaneTypes, [FilePaneNext]_filePaneVars
    PROVE  PaneTypes'
<1>1. CASE PaneAnswer
  BY <1>1, ListStepTypes, ReadTypes, SaveTypes, SmallJobTypes, RenameTypes, DeleteTypes,
     RecoverTypes, Zenon DEF PaneAnswer
<1>2. CASE UNCHANGED filePaneVars
  BY <1>2 DEF filePaneVars, remoteVars, listVars, selectionVars, dialogVars,
     PaneTypes, DiskTypes, ListTypes, ChoiceTypes, DialogTypes, JobTypes
<1> QED
  BY <1>1, <1>2, ClickTypes, DialogStepTypes DEF FilePaneNext

\* Every variable of a file pane keeps values of its kind.
THEOREM FilePaneTypesHold == FilePaneSpec => []FilePaneTypeOK
<1>1. FilePaneInit => PaneTypes
  BY PaneInitTypes
<1>2. PaneTypes /\ [FilePaneNext]_filePaneVars => PaneTypes'
  BY PaneTypesStep
<1>3. PaneTypes => FilePaneTypeOK
  BY DEF PaneTypes, DiskTypes, ListTypes, ChoiceTypes, DialogTypes, JobTypes, FilePaneTypeOK
<1> QED
  BY <1>1, <1>2, <1>3, PTL DEF FilePaneSpec

-----------------------------------------------------------------------------
(* A patient user's handlers act where they were asked to                  *)

Running(i) == jobs[i] # Idle
PaneListed(i) == loads[i] # Idle

OneAtATime ==
    /\ \A i, j \in 1..MaxLoads : i = j \/ ~PaneListed(i) \/ ~PaneListed(j)
    /\ \A i, j \in 1..MaxJobs : i = j \/ ~Running(i) \/ ~Running(j)
    /\ \A i \in 1..MaxLoads, j \in 1..MaxJobs : ~PaneListed(i) \/ ~Running(j)

\* A double delete has one name; a handler deletes in the folder of its choice.
JobHere(j) ==
    /\ j # Idle => j.at = path
    /\ j.is \in {"delete", "bulk", "recover", "save"} => j.of = path
    /\ j.is = "delete" => \A n, m \in j.names : n = m

LoadHere(l) == l # Idle => l.at = path /\ l.listed \in {Unlisted, Listing(path)}

DialogsHere ==
    /\ dialog.is \in {"delete", "bulk"} => dialog.of = path
    /\ recovery # NoRecovery => recovery.of = path
    /\ editor # Closed => editor.of = path

\* The rows are those of the folder until something changes it; then a listing
\* follows, or fresh is taken back.
RowsOK == fresh =>
    \/ rows = Listing(path)
    \/ \E i \in 1..MaxLoads : PaneListed(i)
    \/ \E i \in 1..MaxJobs : jobs[i].is \in {"bulk", "recover"}

\* One handler at a time for a patient user, so that its folder is the one still shown.
PatientInv ==
    /\ PaneTypes /\ OneAtATime /\ DialogsHere /\ RowsOK
    /\ \A i \in 1..MaxLoads : LoadHere(loads[i])
    /\ \A i \in 1..MaxJobs : JobHere(jobs[i])
    /\ Remote => strays = {}

LEMMA IdleFields == Idle.is = "idle" /\ Closed.is = "closed" /\ NoRecovery.of = <<>>
  BY DEF Idle, Closed, NoRecovery

\* Steps that only open, answer or close a dialog.
LEMMA DialogInv ==
    ASSUME PatientInv, PaneTypes', UNCHANGED <<disk, path, rows, fresh, loads, jobs, strays>>,
           DialogsHere'
    PROVE  PatientInv'
<1>1. Listing(path)' = Listing(path)
  BY DEF Listing
<1>2. OneAtATime' /\ RowsOK'
  BY <1>1 DEF PatientInv, OneAtATime, RowsOK, PaneListed, Running
<1>3. \A i \in 1..MaxLoads : LoadHere(loads[i])'
  BY <1>1 DEF PatientInv, LoadHere
<1>4. \A i \in 1..MaxJobs : JobHere(jobs[i])'
  BY DEF PatientInv, JobHere
<1> QED
  BY <1>2, <1>3, <1>4 DEF PatientInv

\* A listing begins where nothing else is under way.
LEMMA LoadInv ==
    ASSUME PatientInv, PaneTypes', \A i \in 1..MaxLoads : ~PaneListed(i),
           \A i \in 1..MaxJobs : jobs'[i] = Idle, NEW after, Load(path', after),
           Remote => strays' = {}, DialogsHere'
    PROVE  PatientInv'
<1>1. PICK i \in 1..MaxLoads :
        loads' = [loads EXCEPT ![i] =
                    [is |-> "load", at |-> path', listed |-> Unlisted, after |-> after]]
  BY DEF Load
<1>2. loads \in [1..MaxLoads -> LoadRecord]
  BY DEF PatientInv, PaneTypes, ListTypes
<1> DEFINE l == [is |-> "load", at |-> path', listed |-> Unlisted, after |-> after]
<1>3. loads'[i] = l /\ \A j \in 1..MaxLoads : j # i => loads'[j] = Idle
  BY <1>1, <1>2 DEF PaneListed
<1>4. l # Idle /\ l.at = path' /\ l.listed = Unlisted
  <2>1. l.is # Idle.is
    BY IdleFields
  <2> QED
    BY <2>1
<1> HIDE DEF l
<1>5. OneAtATime'
  BY <1>3 DEF OneAtATime, PaneListed, Running
<1>6. RowsOK'
  BY <1>3, <1>4 DEF RowsOK, PaneListed
<1>7. \A j \in 1..MaxLoads : LoadHere(loads[j])'
  BY <1>3, <1>4 DEF LoadHere
<1>8. \A j \in 1..MaxJobs : JobHere(jobs[j])'
  BY IdleFields DEF JobHere
<1> QED
  BY <1>5, <1>6, <1>7, <1>8 DEF PatientInv

\* A handler begins in the folder that is shown, where nothing else is under way.
LEMMA StartInv ==
    ASSUME PatientInv, PaneTypes', Quiet, NEW job, job # Idle, JobHere(job), Start(job),
           UNCHANGED <<disk, path, rows, fresh, loads, strays>>, DialogsHere'
    PROVE  PatientInv'
<1>1. PICK i \in 1..MaxJobs : jobs' = [jobs EXCEPT ![i] = job]
  BY DEF Start
<1>2. jobs'[i] = job /\ \A j \in 1..MaxJobs : j # i => jobs'[j] = Idle
  BY <1>1 DEF PatientInv, PaneTypes, JobTypes, Quiet
<1>3. \A j \in 1..MaxLoads : loads'[j] = Idle
  BY DEF Quiet
<1>4. OneAtATime'
  BY <1>2, <1>3 DEF OneAtATime, PaneListed, Running
<1>5. RowsOK'
  <2>1. fresh => rows = Listing(path)
    BY IdleFields DEF PatientInv, RowsOK, Quiet, PaneListed
  <2> QED
    BY <2>1 DEF RowsOK, Listing
<1>6. \A j \in 1..MaxLoads : LoadHere(loads[j])'
  BY <1>3 DEF LoadHere
<1>7. \A j \in 1..MaxJobs : JobHere(jobs[j])'
  BY <1>2, IdleFields DEF JobHere
<1> QED
  BY <1>4, <1>5, <1>6, <1>7 DEF PatientInv

\* A handler ends and lists nothing: the rows are as good as before, or no longer
\* taken for fresh.
LEMMA EndInv ==
    ASSUME PatientInv, PaneTypes', NEW i \in 1..MaxJobs, Running(i), EndJob(i),
           UNCHANGED <<path, rows, loads, strays>>, DialogsHere',
           \/ fresh' = FALSE
           \/ fresh' = fresh /\ disk' = disk /\ jobs[i].is \notin {"bulk", "recover"}
    PROVE  PatientInv'
<1>1. /\ jobs'[i] = Idle /\ \A j \in 1..MaxJobs : j # i => jobs[j] = Idle /\ jobs'[j] = Idle
      /\ \A j \in 1..MaxLoads : loads'[j] = Idle /\ loads[j] = Idle
  BY DEF PatientInv, PaneTypes, JobTypes, EndJob, OneAtATime, Running, PaneListed
<1>2. OneAtATime'
  BY <1>1 DEF OneAtATime, PaneListed, Running
<1>3. RowsOK'
  <2>1. CASE fresh' = FALSE
    BY <2>1 DEF RowsOK
  <2>2. CASE fresh' = fresh /\ disk' = disk /\ jobs[i].is \notin {"bulk", "recover"}
    <3>1. \A j \in 1..MaxJobs : jobs[j].is \notin {"bulk", "recover"}
      BY <1>1, <2>2, IdleFields
    <3>2. fresh => rows = Listing(path)
      BY <1>1, <3>1 DEF PatientInv, RowsOK, PaneListed
    <3> QED
      BY <2>2, <3>2 DEF RowsOK, Listing
  <2> QED
    BY <2>1, <2>2
<1>4. \A j \in 1..MaxLoads : LoadHere(loads[j])'
  BY <1>1 DEF LoadHere
<1>5. \A j \in 1..MaxJobs : JobHere(jobs[j])'
  BY <1>1, IdleFields DEF JobHere
<1> QED
  BY <1>2, <1>3, <1>4, <1>5 DEF PatientInv

\* A handler that ends with a listing.
LEMMA EndLoadInv ==
    ASSUME PatientInv, PaneTypes', NEW i \in 1..MaxJobs, Running(i), EndJob(i), path' = path,
           NEW after, Load(jobs[i].at, after), Remote => strays' = {}, DialogsHere'
    PROVE  PatientInv'
<1>1. \A j \in 1..MaxJobs : jobs'[j] = Idle
  BY DEF PatientInv, PaneTypes, JobTypes, EndJob, OneAtATime, Running
<1>2. \A j \in 1..MaxLoads : ~PaneListed(j)
  BY DEF PatientInv, OneAtATime
<1>3. jobs[i].at = path'
  BY DEF PatientInv, JobHere, Running
<1> QED
  BY <1>1, <1>2, <1>3, LoadInv

\* A handler of several names goes on.
LEMMA GoesOnInv ==
    ASSUME PatientInv, PaneTypes', NEW i \in 1..MaxJobs, jobs[i].is \in {"bulk", "recover"},
           NEW j \in Job, j.is = jobs[i].is, j.at = jobs[i].at, j.of = jobs[i].of,
           jobs' = [jobs EXCEPT ![i] = j], UNCHANGED <<path, rows, fresh, loads>>,
           Remote => strays' = {}, DialogsHere'
    PROVE  PatientInv'
<1>1. Running(i) /\ j # Idle
  BY IdleFields DEF Running
<1>2. /\ jobs'[i] = j /\ \A k \in 1..MaxJobs : k # i => jobs[k] = Idle /\ jobs'[k] = Idle
      /\ \A k \in 1..MaxLoads : loads'[k] = Idle /\ loads[k] = Idle
  BY <1>1 DEF PatientInv, PaneTypes, JobTypes, OneAtATime, Running, PaneListed
<1>3. OneAtATime'
  BY <1>2 DEF OneAtATime, PaneListed, Running
<1>4. RowsOK'
  BY <1>2 DEF RowsOK
<1>5. \A k \in 1..MaxLoads : LoadHere(loads[k])'
  BY <1>2 DEF LoadHere
<1>6. JobHere(jobs[i])
  BY DEF PatientInv
<1>7. JobHere(jobs[i])'
  BY <1>1, <1>2, <1>6 DEF JobHere, Running
<1>8. \A k \in 1..MaxJobs : JobHere(jobs[k])'
  BY <1>2, <1>7, IdleFields DEF JobHere
<1> QED
  BY <1>3, <1>4, <1>5, <1>8 DEF PatientInv

\* A new folder is shown to a user with no dialog open.
LEMMA SetPathInv ==
    ASSUME PatientInv, PaneTypes', NEW f, SetPath(f), Quiet, ~Modal, editor = Closed
    PROVE  PatientInv'
<1>1. /\ dialog = Closed /\ recovery = NoRecovery
      /\ UNCHANGED <<disk, jobs, strays, editor>> /\ path' = f
  BY DEF Modal, SetPath, remoteVars
<1>2. CASE f = path
  <2>1. UNCHANGED <<rows, fresh, loads, dialog, recovery, path>>
    BY <1>1, <1>2 DEF SetPath, listVars
  <2>2. DialogsHere'
    BY <1>1, <2>1 DEF DialogsHere, PatientInv
  <2> QED
    BY <1>1, <2>1, <2>2, DialogInv
<1>3. CASE f # path
  <2>1. dialog' = Closed /\ recovery' = NoRecovery /\ Load(f, "nothing")
    BY <1>1, <1>3, IdleFields DEF SetPath
  <2>2. DialogsHere'
    BY <1>1, <2>1, IdleFields DEF DialogsHere
  <2>3. \A i \in 1..MaxLoads : ~PaneListed(i)
    BY DEF Quiet, PaneListed
  <2>4. \A i \in 1..MaxJobs : jobs'[i] = Idle
    BY <1>1 DEF Quiet
  <2>5. Remote => strays' = {}
    BY <1>1 DEF PatientInv
  <2> QED
    BY <1>1, <2>1, <2>2, <2>3, <2>4, <2>5, LoadInv
<1> QED
  BY <1>2, <1>3

LEMMA ClickInv ==
    ASSUME Patient, PatientInv, PaneClick
    PROVE  PatientInv'
<1>0. PaneTypes'
  BY ClickTypes DEF PatientInv
<1>1. ASSUME MayAct
      PROVE  Quiet /\ ~Modal /\ editor = Closed
  BY <1>1 DEF MayAct
<1>2. CASE Refresh \/ ReloadAll
  <2>1. /\ MayAct /\ Load(path, "nothing") /\ UNCHANGED <<path, jobs, strays, dialog, recovery,
           editor>>
    BY <1>2 DEF Refresh, ReloadAll, dialogVars
  <2>2. DialogsHere' /\ (Remote => strays' = {})
    BY <2>1 DEF PatientInv, DialogsHere
  <2>3. /\ \A i \in 1..MaxLoads : ~PaneListed(i)
        /\ \A i \in 1..MaxJobs : jobs'[i] = Idle
    BY <1>1, <2>1 DEF Quiet, PaneListed
  <2> QED
    BY <1>0, <2>1, <2>2, <2>3, LoadInv
<1>3. CASE ToggleHidden \/ \E n \in Name : RowClick(n)
  <2>1. UNCHANGED <<disk, path, rows, fresh, loads, jobs, strays, dialog, recovery, editor>>
    BY <1>3 DEF ToggleHidden, RowClick, dialogVars, listVars, remoteVars
  <2>2. DialogsHere'
    BY <2>1 DEF PatientInv, DialogsHere
  <2> QED
    BY <1>0, <2>1, <2>2, DialogInv
<1>4. CASE StartDelete \/ NssDelete \/ CloseEditor \/ \E k \in {"mkdir", "newFile", "rename"} :
           OpenPrompt(k)
  <2>1. UNCHANGED <<disk, path, rows, fresh, loads, jobs, strays>>
    BY <1>4 DEF StartDelete, NssDelete, CloseEditor, OpenPrompt, listVars, remoteVars
  <2>2. CASE StartDelete \/ NssDelete
    <3>1. dialog'.of = path /\ UNCHANGED <<recovery, editor>>
      BY <2>2 DEF StartDelete, NssDelete
    <3> QED
      BY <1>0, <2>1, <3>1, DialogInv DEF PatientInv, DialogsHere
  <2>3. CASE CloseEditor
    BY <1>0, <2>1, <2>3, DialogInv DEF PatientInv, DialogsHere, CloseEditor
  <2>4. ASSUME NEW k \in {"mkdir", "newFile", "rename"}, OpenPrompt(k)
        PROVE  PatientInv'
    <3>1. dialog'.is \notin {"delete", "bulk"} /\ UNCHANGED <<recovery, editor>>
      BY <2>4 DEF OpenPrompt
    <3> QED
      BY <1>0, <2>1, <3>1, DialogInv DEF PatientInv, DialogsHere
  <2> QED
    BY <1>4, <2>2, <2>3, <2>4
<1>5. CASE StartExport \/ SaveEditor \/ \E n \in Name : StartTransfer(n)
  <2>1. UNCHANGED <<disk, path, rows, fresh, loads, strays, dialog, recovery, editor>>
    BY <1>5 DEF StartExport, SaveEditor, StartTransfer, listVars, remoteVars, dialogVars
  <2>2. DialogsHere'
    BY <2>1 DEF PatientInv, DialogsHere
  <2>3. Quiet
    BY <1>1, <1>5 DEF StartExport, SaveEditor, StartTransfer, MayAnswer
  <2>4. CASE StartExport
    <3> DEFINE job == [is |-> "export", at |-> path]
    <3>1. job # Idle /\ JobHere(job)
      BY IdleFields DEF JobHere
    <3>2. Start(job)
      BY <2>4 DEF StartExport
    <3> QED
      BY <1>0, <2>1, <2>2, <2>3, <3>1, <3>2, StartInv
  <2>5. CASE SaveEditor
    <3> DEFINE job == [is |-> "save", at |-> path, name |-> editor.name, new |-> editor.new,
                       of |-> editor.of]
    <3>1. editor.of = path
      BY <2>5 DEF SaveEditor, PatientInv, DialogsHere
    <3>2. job # Idle /\ JobHere(job)
      BY <3>1, IdleFields DEF JobHere
    <3>3. Start(job)
      BY <2>5 DEF SaveEditor
    <3> QED
      BY <1>0, <2>1, <2>2, <2>3, <3>2, <3>3, StartInv
  <2>6. ASSUME NEW n \in Name, StartTransfer(n)
        PROVE  PatientInv'
    <3> DEFINE job == [is |-> "transfer", at |-> path, name |-> n]
    <3>1. job # Idle /\ JobHere(job)
      BY IdleFields DEF JobHere
    <3>2. Start(job)
      BY <2>6 DEF StartTransfer
    <3> QED
      BY <1>0, <2>1, <2>2, <2>3, <3>1, <3>2, StartInv
  <2> QED
    BY <1>5, <2>4, <2>5, <2>6
<1>6. ASSUME NEW f \in Folder, GoTo(f) \/ SyncPath(f)
      PROVE  PatientInv'
  BY <1>0, <1>1, <1>6, SetPathInv DEF GoTo, SyncPath
<1>7. ASSUME NEW n \in Name, OpenDir(n)
      PROVE  PatientInv'
  BY <1>0, <1>1, <1>7, SetPathInv DEF OpenDir, MayClick
<1>8. ASSUME NEW n \in Name, OpenEditor(n)
      PROVE  PatientInv'
  <2>1. UNCHANGED <<disk, path, rows, fresh, loads, strays, dialog, recovery, editor>>
    BY <1>8 DEF OpenEditor, remoteVars, dialogVars
  <2>2. DialogsHere'
    BY <2>1 DEF PatientInv, DialogsHere
  <2>3. Quiet
    BY <1>1, <1>8 DEF OpenEditor, MayClick
  <2>4. CASE IsDir(n)
    BY <1>0, <1>8, <2>1, <2>2, <2>4, DialogInv DEF OpenEditor
  <2>5. CASE ~IsDir(n)
    <3> DEFINE job == [is |-> "read", at |-> path, name |-> n]
    <3>1. job # Idle /\ JobHere(job)
      BY IdleFields DEF JobHere
    <3>2. Start(job)
      BY <1>8, <2>5 DEF OpenEditor
    <3> QED
      BY <1>0, <2>1, <2>2, <2>3, <3>1, <3>2, StartInv
  <2> QED
    BY <2>4, <2>5
<1> QED
  BY <1>2, <1>3, <1>4, <1>5, <1>6, <1>7, <1>8 DEF PaneClick

\* A confirm handler begins; its dialog is closed.
LEMMA ConfirmedInv ==
    ASSUME Patient, PatientInv, PaneTypes', NEW job, job # Idle, JobHere(job), Confirmed(job)
    PROVE  PatientInv'
<1>1. /\ UNCHANGED <<disk, path, rows, fresh, loads, strays, recovery, editor>>
      /\ dialog' = Closed /\ Start(job) /\ Quiet
  BY DEF Confirmed, MayAnswer, remoteVars
<1>2. DialogsHere'
  BY <1>1, IdleFields DEF PatientInv, DialogsHere
<1> QED
  BY <1>1, <1>2, StartInv

LEMMA DialogStepInv ==
    ASSUME Patient, PatientInv, PaneDialog
    PROVE  PatientInv'
<1>0. PaneTypes' /\ DialogsHere /\ dialog \in Dialogs
  BY DialogStepTypes DEF PatientInv, PaneTypes, DialogTypes
<1>1. CASE AdvanceDelete \/ CancelDialog \/ CancelRecovery \/ CancelKey
  <2>1. UNCHANGED <<disk, path, rows, fresh, loads, jobs, strays, editor>>
    BY <1>1 DEF AdvanceDelete, CancelDialog, CancelRecovery, CancelKey, listVars, remoteVars,
       dialogVars
  <2>2. CASE AdvanceDelete
    <3>1. dialog.is = "delete" /\ dialog' = [dialog EXCEPT !.step = 2] /\ recovery' = recovery
      BY <2>2 DEF AdvanceDelete
    <3>2. dialog'.of = dialog.of
      BY <1>0, <3>1, DialogFields
    <3>3. DialogsHere'
      BY <1>0, <2>1, <3>1, <3>2 DEF DialogsHere
    <3> QED
      BY <1>0, <2>1, <3>3, DialogInv
  <2>3. CASE CancelDialog \/ CancelRecovery \/ CancelKey
    <3>1. /\ dialog' \in {dialog, Closed}
          /\ recovery' \in {recovery, NoRecovery}
      BY <2>3 DEF CancelDialog, CancelRecovery, CancelKey, dialogVars
    <3>2. DialogsHere'
      BY <1>0, <2>1, <3>1, IdleFields DEF DialogsHere
    <3> QED
      BY <1>0, <2>1, <3>2, DialogInv
  <2> QED
    BY <1>1, <2>2, <2>3
<1>2. CASE ConfirmDelete
  <2> DEFINE job == [is |-> "delete", at |-> path, names |-> {dialog.name}, of |-> dialog.of]
  <2>1. dialog.of = path /\ Confirmed(job)
    BY <1>0, <1>2 DEF ConfirmDelete, DialogsHere
  <2>2. job # Idle /\ JobHere(job)
    BY <2>1, IdleFields DEF JobHere
  <2> QED
    BY <1>0, <2>1, <2>2, ConfirmedInv
<1>3. CASE ConfirmBulk
  <2> DEFINE job == [is |-> "bulk", at |-> path, names |-> dialog.names, of |-> dialog.of]
  <2>1. dialog.of = path /\ Confirmed(job)
    BY <1>0, <1>3 DEF ConfirmBulk, DialogsHere
  <2>2. job # Idle /\ JobHere(job)
    BY <2>1, IdleFields DEF JobHere
  <2> QED
    BY <1>0, <2>1, <2>2, ConfirmedInv
<1>4. CASE ConfirmKey
  <2>1. Quiet /\ UNCHANGED <<disk, path, jobs, strays, dialog, recovery, editor>>
    BY <1>4 DEF ConfirmKey, MayAnswer, dialogVars
  <2>2. DialogsHere' /\ (Remote => strays' = {})
    BY <2>1 DEF PatientInv, DialogsHere
  <2>3. /\ \A i \in 1..MaxLoads : ~PaneListed(i)
        /\ \A i \in 1..MaxJobs : jobs'[i] = Idle
    BY <2>1 DEF Quiet, PaneListed
  <2>4. CASE Load(path, "nothing")
    BY <1>0, <2>1, <2>2, <2>3, <2>4, LoadInv
  <2>5. CASE UNCHANGED <<rows, fresh, loads>>
    BY <1>0, <2>1, <2>2, <2>5, DialogInv
  <2> QED
    BY <1>4, <2>4, <2>5 DEF ConfirmKey
<1>5. ASSUME NEW n \in Name, ConfirmMkdir(n)
      PROVE  PatientInv'
  <2> DEFINE job == [is |-> "mkdir", at |-> path, name |-> n]
  <2>1. job # Idle /\ JobHere(job) /\ Confirmed(job)
    BY <1>5, IdleFields DEF JobHere, ConfirmMkdir
  <2> QED
    BY <1>0, <2>1, ConfirmedInv
<1>6. ASSUME NEW n \in Name, ConfirmRename(n)
      PROVE  PatientInv'
  <2> DEFINE job == [is |-> "rename", at |-> path, name |-> active, to |-> n]
  <2>1. job # Idle /\ JobHere(job) /\ Confirmed(job)
    BY <1>6, IdleFields DEF JobHere, ConfirmRename
  <2> QED
    BY <1>0, <2>1, ConfirmedInv
<1>7. ASSUME NEW n \in Name, ConfirmNewFile(n)
      PROVE  PatientInv'
  <2>1. /\ UNCHANGED <<disk, path, rows, fresh, loads, jobs, strays, recovery>>
        /\ dialog' = Closed /\ editor'.of = path
    BY <1>7 DEF ConfirmNewFile, listVars, remoteVars
  <2>2. DialogsHere'
    BY <1>0, <2>1, IdleFields DEF DialogsHere
  <2> QED
    BY <1>0, <2>1, <2>2, DialogInv
<1>8. ASSUME NEW m \in {"bestEffort", "chmod"}, ConfirmRecovery(m)
      PROVE  PatientInv'
  <2> DEFINE job == [is |-> "recover", at |-> path, names |-> recovery.names, of |-> recovery.of,
                     mode |-> m, ok |-> TRUE]
  <2>1. /\ recovery.of = path /\ Start(job) /\ Quiet /\ recovery' = NoRecovery
        /\ UNCHANGED <<disk, path, rows, fresh, loads, strays, dialog, editor>>
    BY <1>0, <1>8 DEF ConfirmRecovery, DialogsHere, MayAnswer, remoteVars
  <2>2. job # Idle /\ JobHere(job)
    BY <2>1, IdleFields DEF JobHere
  <2>3. DialogsHere'
    BY <1>0, <2>1 DEF DialogsHere
  <2> QED
    BY <1>0, <2>1, <2>2, <2>3, StartInv
<1> QED
  BY <1>1, <1>2, <1>3, <1>4, <1>5, <1>6, <1>7, <1>8 DEF PaneDialog

LEMMA ListStepInv ==
    ASSUME PatientInv, NEW i \in 1..MaxLoads, ListDir(i) \/ ListAnswer(i) \/ ListFails(i)
    PROVE  PatientInv'
<1>0. /\ PaneTypes' /\ PaneListed(i) /\ loads[i] \in LoadRecord /\ loads[i] # Idle
      /\ UNCHANGED <<disk, path, jobs, strays, dialog, recovery, editor>>
      /\ Listing(path)' = Listing(path)
  BY ListStepTypes DEF PatientInv, PaneTypes, ListTypes, ListDir, ListAnswer, ListFails, PaneListed,
     remoteVars, dialogVars, Listing
<1>1. /\ \A j \in 1..MaxLoads : j # i => loads[j] = Idle
      /\ \A j \in 1..MaxJobs : jobs'[j] = Idle
      /\ loads[i].at = path /\ loads[i].listed \in {Unlisted, Listing(path)}
  BY <1>0 DEF PatientInv, OneAtATime, PaneListed, Running, LoadHere
<1>2. DialogsHere' /\ \A j \in 1..MaxJobs : JobHere(jobs[j])'
  BY <1>0, <1>1, IdleFields DEF PatientInv, DialogsHere, JobHere
<1>3. /\ \A j \in 1..MaxLoads : j # i => loads'[j] = Idle
      /\ ListDir(i) => loads'[i] # Idle
      /\ \/ loads'[i] = Idle
         \/ /\ loads'[i] # Idle /\ loads'[i].at = path /\ loads'[i].listed = Listing(path)
            /\ UNCHANGED <<rows, fresh>>
  <2>1. CASE ListDir(i)
    <3>1. loads' = [loads EXCEPT ![i].listed = Listing(path)] /\ Listing(path) \in SUBSET Name
      BY <1>1, <2>1 DEF ListDir, Listing
    <3>2. loads'[i] = [loads[i] EXCEPT !.listed = Listing(path)]
      BY <3>1 DEF PatientInv, PaneTypes, ListTypes
    <3>3. loads'[i] # Idle /\ loads'[i].at = path /\ loads'[i].listed = Listing(path)
      BY <1>0, <1>1, <3>1, <3>2, LoadFields
    <3> QED
      BY <1>1, <2>1, <3>1, <3>3 DEF PatientInv, PaneTypes, ListTypes, ListDir
  <2>2. CASE ListAnswer(i) \/ ListFails(i)
    <3>1. loads' = [loads EXCEPT ![i] = Idle]
      BY <2>2 DEF ListAnswer, ListFails
    <3>2. ~ListDir(i)
      <4>1. ASSUME ListDir(i), loads[i].listed = Unlisted
            PROVE  FALSE
        <5>1. loads'[i] = [loads[i] EXCEPT !.listed = Listing(path)]
          BY <1>1, <4>1 DEF ListDir, PatientInv, PaneTypes, ListTypes
        <5>2. Listing(path) \in SUBSET Name
          BY DEF Listing
        <5>3. loads'[i] # Idle
          BY <1>0, <5>1, <5>2, LoadFields
        <5> QED
          BY <3>1, <5>3 DEF PatientInv, PaneTypes, ListTypes
      <4> QED
        BY <4>1 DEF ListDir
    <3> QED
      BY <1>1, <3>1, <3>2 DEF PatientInv, PaneTypes, ListTypes
  <2> QED
    BY <2>1, <2>2
<1>4. OneAtATime'
  BY <1>1, <1>3 DEF OneAtATime, PaneListed, Running
<1>5. \A j \in 1..MaxLoads : LoadHere(loads[j])'
  BY <1>0, <1>3 DEF LoadHere
<1>6. RowsOK'
  <2>1. CASE ListDir(i)
    BY <1>3, <2>1 DEF RowsOK, PaneListed
  <2>2. CASE ListAnswer(i)
    BY <1>0, <1>1, <2>2 DEF RowsOK, ListAnswer
  <2>3. CASE ListFails(i)
    BY <2>3 DEF RowsOK, ListFails
  <2> QED
    BY <2>1, <2>2, <2>3
<1> QED
  BY <1>0, <1>2, <1>4, <1>5, <1>6 DEF PatientInv

\* The folder a handler works in is the one shown, and for the handlers that remove or
\* write over something it is the one where the user chose.
LEMMA WorksHere ==
    ASSUME PatientInv, NEW i \in 1..MaxJobs, Running(i)
    PROVE  /\ jobs[i].at = path
           /\ jobs[i].is \in {"delete", "bulk", "recover", "save"} => jobs[i].of = path
           /\ jobs[i].is = "delete" => \A n, m \in jobs[i].names : n = m
  BY DEF PatientInv, JobHere, Running

LEMMA ReadSaveInv ==
    ASSUME PatientInv, NEW i \in 1..MaxJobs, ReadDone(i) \/ SaveDone(i)
    PROVE  PatientInv'
<1>0. PaneTypes' /\ Running(i) /\ jobs[i].at = path /\ path' = path /\ EndJob(i) /\ DialogsHere
  BY ReadTypes, SaveTypes, WorksHere, IdleFields
     DEF PatientInv, ReadDone, SaveDone, Running, EndJob
<1>1. CASE ReadDone(i)
  <2>1. /\ UNCHANGED <<disk, rows, fresh, loads, strays, dialog, recovery>> /\ jobs[i].is = "read"
        /\ editor' = editor \/ editor'.of = path
    BY <1>0, <1>1 DEF ReadDone, remoteVars
  <2>2. DialogsHere'
    BY <1>0, <2>1 DEF DialogsHere
  <2> QED
    BY <1>0, <2>1, <2>2, EndInv
<1>2. CASE SaveDone(i) /\ UNCHANGED <<disk, strays, listVars, editor>>
  <2>1. UNCHANGED <<disk, rows, fresh, loads, strays, dialog, recovery, editor>>
        /\ jobs[i].is = "save"
    BY <1>2 DEF SaveDone, listVars
  <2>2. DialogsHere'
    BY <1>0, <2>1 DEF DialogsHere
  <2> QED
    BY <1>0, <2>1, <2>2, EndInv
<1>3. CASE /\ Save(jobs[i].at, jobs[i].name, jobs[i].new, jobs[i].of)
           /\ Load(jobs[i].at, "nothing") /\ editor' = Closed /\ SaveDone(i)
  <2>1. UNCHANGED <<dialog, recovery>> /\ jobs[i].of = path
    BY <1>0, <1>3, WorksHere DEF SaveDone
  <2>2. strays' = strays
    BY <1>0, <1>3, <2>1 DEF Save
  <2>3. DialogsHere' /\ (Remote => strays' = {})
    BY <1>0, <1>3, <2>1, <2>2 DEF DialogsHere, PatientInv
  <2> QED
    BY <1>0, <1>3, <2>3, EndLoadInv
<1> QED
  BY <1>1, <1>2, <1>3 DEF SaveDone

LEMMA SmallJobInv ==
    ASSUME PatientInv, NEW i \in 1..MaxJobs,
           \/ JobFails(i) \/ MkdirDone(i) \/ RenameDone(i)
           \/ TransferDone(i) \/ ExportDone(i)
    PROVE  PatientInv'
<1>0. PaneTypes' /\ Running(i)
  BY SmallJobTypes, RenameTypes, IdleFields
     DEF PatientInv, JobFails, MkdirDone, RenameDone, TransferDone, ExportDone, Running
<1>1. /\ UNCHANGED <<path, strays, dialog, recovery, editor>> /\ EndJob(i)
  BY DEF JobFails, MkdirDone, RenameDone, TransferDone, ExportDone, dialogVars
<1>2. DialogsHere' /\ (Remote => strays' = {})
  BY <1>1 DEF DialogsHere, PatientInv
<1>3. CASE JobFails(i)
  <2>1. UNCHANGED <<rows, loads>> /\ fresh' = (fresh /\ jobs[i].is \notin {"bulk", "transfer"})
    BY <1>3 DEF JobFails
  <2>2. CASE jobs[i].is \in {"bulk", "transfer"}
    <3>1. fresh' = FALSE
      BY <2>1, <2>2
    <3> QED
      BY <1>0, <1>1, <1>2, <2>1, <3>1, EndInv
  <2>3. CASE jobs[i].is \notin {"bulk", "transfer"}
    <3>1. fresh' = fresh
      BY <2>1, <2>3 DEF PatientInv, PaneTypes, ListTypes
    <3>2. disk' = disk /\ jobs[i].is # "recover"
      BY <1>3, <2>3 DEF JobFails
    <3> QED
      BY <1>0, <1>1, <1>2, <2>1, <2>3, <3>1, <3>2, EndInv
  <2> QED
    BY <2>2, <2>3
<1>4. CASE ExportDone(i) \/ (TransferDone(i) /\ UNCHANGED <<disk, listVars>>)
  <2>1. UNCHANGED <<disk, rows, fresh, loads>> /\ jobs[i].is \in {"export", "transfer"}
    BY <1>4 DEF ExportDone, TransferDone, listVars, remoteVars
  <2> QED
    BY <1>0, <1>1, <1>2, <2>1, EndInv
<1>5. CASE Load(jobs[i].at, "nothing")
  BY <1>0, <1>1, <1>2, <1>5, EndLoadInv
<1> QED
  BY <1>3, <1>4, <1>5 DEF MkdirDone, RenameDone, TransferDone

\* On the server a name leads to the entry that was chosen: nothing else goes.
LEMMA NoStrays ==
    ASSUME Remote, NEW f, NEW n, NEW gone, gone \subseteq Under(Resolve(f, n)),
           RemoveEntries(gone, Under(Append(f, n)))
    PROVE  strays' = strays
  BY DEF Resolve, RemoveEntries

LEMMA DeleteNoStrays ==
    ASSUME Remote, NEW f, NEW n, NEW ok,
           \/ DeleteStrict(Resolve(f, n), Under(Append(f, n)), ok)
           \/ DeleteBestEffort(Resolve(f, n), Under(Append(f, n)), ok)
           \/ DeleteChmod(Resolve(f, n), Under(Append(f, n)), ok)
    PROVE  strays' = strays
<1> DEFINE e == Resolve(f, n)
           chosen == Under(Append(f, n))
<1>1. CASE DeleteStrict(e, chosen, ok)
  <2>1. \E gone : gone \subseteq Under(e) /\ RemoveEntries(gone, chosen)
    BY <1>1 DEF DeleteStrict
  <2> QED
    BY <2>1, NoStrays
<1>2. CASE DeleteBestEffort(e, chosen, ok)
  <2>1. \E gone : gone \subseteq Under(e) /\ RemoveEntries(gone, chosen)
    BY <1>2 DEF DeleteBestEffort
  <2> QED
    BY <2>1, NoStrays
<1>3. CASE DeleteChmod(e, chosen, ok)
  <2>1. \E gone : gone \subseteq Under(e) /\ RemoveEntries(gone, chosen)
    BY <1>3 DEF DeleteChmod
  <2> QED
    BY <2>1, NoStrays
<1> QED
  BY <1>1, <1>2, <1>3

LEMMA DeleteInv ==
    ASSUME PatientInv, NEW i \in 1..MaxJobs, DeleteDone(i)
    PROVE  PatientInv'
<1>0. /\ PaneTypes' /\ Running(i) /\ path' = path /\ UNCHANGED <<dialog, editor>>
      /\ jobs[i].is \in {"delete", "bulk"} /\ DialogsHere /\ jobs[i] \in Job
  BY DeleteTypes, IdleFields DEF DeleteDone, Running, PatientInv, PaneTypes, JobTypes
<1>1. /\ jobs[i].at = path /\ jobs[i].of = path
      /\ jobs[i].is = "delete" => \A n, m \in jobs[i].names : n = m
  BY <1>0, WorksHere
<1>2. PICK n \in jobs[i].names :
        \/ /\ DeleteStrict(Resolve(jobs[i].at, n), Under(Append(jobs[i].of, n)), TRUE)
           /\ \/ /\ jobs[i].names \ {n} # {}
                 /\ jobs' = [jobs EXCEPT ![i].names = jobs[i].names \ {n}]
                 /\ UNCHANGED listVars
              \/ Load(jobs[i].at, "nothing") /\ EndJob(i)
           /\ UNCHANGED recovery
        \/ /\ DeleteStrict(Resolve(jobs[i].at, n), Under(Append(jobs[i].of, n)), FALSE)
           /\ recovery' = [names |-> jobs[i].names, of |-> jobs[i].of]
           /\ Load(jobs[i].at, "nothing")
           /\ EndJob(i)
  BY Zenon DEF DeleteDone
<1>3. Remote => strays' = {}
  BY <1>1, <1>2, DeleteNoStrays DEF PatientInv
<1>4. recovery' = recovery \/ recovery'.of = path
  <2>1. recovery' = recovery \/ recovery' = [names |-> jobs[i].names, of |-> jobs[i].of]
    BY <1>2, Zenon
  <2> QED
    BY <1>1, <2>1
<1>5. DialogsHere'
  BY <1>0, <1>4 DEF DialogsHere
<1>6. CASE Load(jobs[i].at, "nothing") /\ EndJob(i)
  BY <1>0, <1>3, <1>5, <1>6, EndLoadInv
<1>7. CASE /\ jobs[i].names \ {n} # {} /\ UNCHANGED listVars
           /\ jobs' = [jobs EXCEPT ![i].names = jobs[i].names \ {n}]
  <2>1. jobs[i].is = "bulk"
    BY <1>0, <1>1, <1>2, <1>7
  <2> DEFINE j == [jobs[i] EXCEPT !.names = jobs[i].names \ {n}]
  <2>2. jobs[i].names \ {n} \in SUBSET Name
    BY <1>0, JobFields
  <2>3. j \in Job /\ j.is = jobs[i].is /\ j.at = jobs[i].at /\ j.of = jobs[i].of
    BY <1>0, <2>2, JobGoesOn
  <2>4. jobs' = [jobs EXCEPT ![i] = j]
    BY <1>7 DEF PatientInv, PaneTypes, JobTypes
  <2>5. UNCHANGED <<rows, fresh, loads>>
    BY <1>7 DEF listVars
  <2> HIDE DEF j
  <2> QED
    BY <1>0, <1>3, <1>5, <2>1, <2>3, <2>4, <2>5, GoesOnInv
<1> QED
  BY <1>2, <1>6, <1>7

LEMMA RecoverInv ==
    ASSUME PatientInv, NEW i \in 1..MaxJobs, RecoverDone(i)
    PROVE  PatientInv'
<1>0. /\ PaneTypes' /\ Running(i) /\ UNCHANGED <<path, dialog, recovery, editor>>
      /\ jobs[i].is = "recover" /\ DialogsHere /\ jobs[i] \in Job
  BY RecoverTypes, IdleFields DEF RecoverDone, Running, PatientInv, PaneTypes, JobTypes, dialogVars
<1>1. /\ jobs[i].at = path /\ jobs[i].of = path /\ jobs[i].names \in SUBSET Name
      /\ jobs[i].ok \in BOOLEAN
  BY <1>0, WorksHere, JobFields, RecoveryGoesOn
<1>2. PICK n \in jobs[i].names :
        /\ \/ \E ok \in BOOLEAN :
                \/ /\ UNCHANGED readOnly
                   /\ DeleteBestEffort(Resolve(jobs[i].at, n), Under(Append(jobs[i].of, n)), ok)
                \/ DeleteChmod(Resolve(jobs[i].at, n), Under(Append(jobs[i].of, n)), ok)
           \/ readOnly' \subseteq readOnly /\ UNCHANGED <<disk, strays>>
        /\ \/ /\ \E ok \in BOOLEAN :
                   jobs' = [jobs EXCEPT ![i].names = jobs[i].names \ {n}, ![i].ok = @ /\ ok]
              /\ UNCHANGED <<listVars, selected, active>>
           \/ \E after \in {"nothing", "error"} : RecoverEnds(i, after)
  BY <1>1, RecoverCases
<1>3. Remote => strays' = {}
  BY <1>1, <1>2, DeleteNoStrays DEF PatientInv
<1>4. DialogsHere'
  BY <1>0 DEF DialogsHere
<1>5. CASE /\ \E ok \in BOOLEAN :
                jobs' = [jobs EXCEPT ![i].names = jobs[i].names \ {n}, ![i].ok = @ /\ ok]
           /\ UNCHANGED <<listVars, selected, active>>
  <2>1. PICK ok \in BOOLEAN :
          jobs' = [jobs EXCEPT ![i].names = jobs[i].names \ {n}, ![i].ok = @ /\ ok]
    BY <1>5
  <2> DEFINE both == jobs[i].ok /\ ok
             j == [jobs[i] EXCEPT !.names = jobs[i].names \ {n}, !.ok = both]
  <2>2. both \in BOOLEAN
    OBVIOUS
  <2>3. jobs' = [jobs EXCEPT ![i] = j]
    BY <2>1 DEF PatientInv, PaneTypes, JobTypes
  <2> HIDE DEF both
  <2>4. j \in Job /\ j.is = jobs[i].is /\ j.at = jobs[i].at /\ j.of = jobs[i].of
    BY <1>0, <1>1, <2>2, RecoveryGoesOn
  <2>5. UNCHANGED <<rows, fresh, loads>>
    BY <1>5 DEF listVars
  <2> HIDE DEF j
  <2> QED
    BY <1>0, <1>3, <1>4, <2>3, <2>4, <2>5, GoesOnInv
<1>6. ASSUME NEW after \in {"nothing", "error"}, RecoverEnds(i, after)
      PROVE  PatientInv'
  BY <1>0, <1>3, <1>4, <1>6, EndLoadInv DEF RecoverEnds
<1> QED
  BY <1>2, <1>5, <1>6

LEMMA PaneInitInv ==
    ASSUME FilePaneInit
    PROVE  PatientInv
<1>1. PaneTypes
  BY PaneInitTypes
<1> DEFINE l == [is |-> "load", at |-> <<>>, listed |-> Unlisted, after |-> "nothing"]
<1>2. /\ \A i \in 1..MaxLoads : loads[i] = IF i = 1 THEN l ELSE Idle
      /\ \A i \in 1..MaxJobs : jobs[i] = Idle
      /\ path = <<>> /\ fresh = FALSE /\ strays = {}
      /\ dialog = Closed /\ recovery = NoRecovery /\ editor = Closed
  BY DEF FilePaneInit
<1>3. l.at = <<>> /\ l.listed = Unlisted
  OBVIOUS
<1> HIDE DEF l
<1>4. OneAtATime
  BY <1>2 DEF OneAtATime, PaneListed, Running
<1>5. DialogsHere /\ RowsOK
  BY <1>2, IdleFields DEF DialogsHere, RowsOK
<1>6. \A i \in 1..MaxLoads : LoadHere(loads[i])
  BY <1>2, <1>3 DEF LoadHere
<1>7. \A i \in 1..MaxJobs : JobHere(jobs[i])
  BY <1>2, IdleFields DEF JobHere
<1> QED
  BY <1>1, <1>2, <1>4, <1>5, <1>6, <1>7 DEF PatientInv

LEMMA PatientStep ==
    ASSUME Patient, PatientInv, [FilePaneNext]_filePaneVars
    PROVE  PatientInv'
<1>1. CASE PaneAnswer
  BY <1>1, ListStepInv, ReadSaveInv, SmallJobInv, DeleteInv, RecoverInv, Zenon DEF PaneAnswer
<1>2. CASE UNCHANGED filePaneVars
  <2>1. UNCHANGED <<disk, path, rows, fresh, loads, jobs, strays, dialog, recovery, editor>>
    BY <1>2 DEF filePaneVars, remoteVars, listVars, dialogVars
  <2>2. PaneTypes' /\ DialogsHere'
    BY <1>2, <2>1, PaneTypesStep DEF PatientInv, DialogsHere
  <2> QED
    BY <2>1, <2>2, DialogInv
<1> QED
  BY <1>1, <1>2, ClickInv, DialogStepInv DEF FilePaneNext

\* Where a user waits for an answer before the next click, what the pane of a server
\* deletes or writes over is what its user chose: the handlers that go on after an await
\* with the folder of their render still find it shown.
THEOREM ChosenOnly ==
    ASSUME Patient, Remote
    PROVE  FilePaneSpec => []ActsOnTheChosen
<1>1. FilePaneInit => PatientInv
  BY PaneInitInv
<1>2. PatientInv /\ [FilePaneNext]_filePaneVars => PatientInv'
  BY PatientStep
<1>3. PatientInv => ActsOnTheChosen
  BY DEF PatientInv, ActsOnTheChosen
<1> QED
  BY <1>1, <1>2, <1>3, PTL DEF FilePaneSpec

\* For such a user the rows at rest are the folder's entries, on a server and on the own
\* machine: every handler that changes the folder lists it again, or an error stays.
THEOREM RowsAreTheFolder ==
    ASSUME Patient
    PROVE  FilePaneSpec => []ShowsItsFolder
<1>1. FilePaneInit => PatientInv
  BY PaneInitInv
<1>2. PatientInv /\ [FilePaneNext]_filePaneVars => PatientInv'
  BY PatientStep
<1>3. PatientInv => ShowsItsFolder
  <2> SUFFICES ASSUME PatientInv, Quiet, fresh
               PROVE  rows = Listing(path)
    BY DEF ShowsItsFolder
  <2>1. \A i \in 1..MaxJobs : jobs[i].is \notin {"bulk", "recover"}
    BY IdleFields DEF Quiet
  <2> QED
    BY <2>1 DEF PatientInv, RowsOK, Quiet, PaneListed
<1> QED
  BY <1>1, <1>2, <1>3, PTL DEF FilePaneSpec

-----------------------------------------------------------------------------
(* Transfers between panes                                                 *)

Value == Folders \cup {"none", "half"}
AnyPart == {"."} \cup UNION {Inside[d] : d \in DOMAIN Inside}
\* The handlers at work on an item, from the call that registers it to its release.
Registering == {"ask", "start", "look", "remove", "mkdir", "list", "copy", "bytes", "release"}

ContentOK ==
    /\ DOMAIN content = Folders
    /\ \A f \in Folders : DOMAIN content[f] = Item
    /\ \A f \in Folders, n \in Item : content[f][n] \in [Parts(n) -> Value]

Record ==
    [pc : {"idle", "confirm", "listing", "prefetch", "loop", "begin", "moved", "delete", "ended"}
            \cup Registering,
     next : {"loop", "moved", "ended"}, move : BOOLEAN, rest : SUBSET Item, item : Item \cup {""},
     existing : SUBSET Item, all : BOOLEAN, spec : BOOLEAN,
     from : Folders \cup {""}, to : Folders \cup {""},
     todo : SUBSET AnyPart, part : AnyPart, done : SUBSET Item]

\* What a handler has of its item, when it has one.
PlaceOK(h) ==
    /\ h.pc \in {"begin"} \cup Registering => h.item \in Item
    /\ h.pc \in {"look", "remove", "mkdir", "list", "copy", "bytes"} =>
            h.from \in FromFolders /\ h.to \in ToFolders
    /\ h.pc \in {"copy", "bytes"} => h.todo \subseteq Parts(h.item)
    /\ h.pc = "bytes" => h.part \in h.todo
    /\ h.pc = "delete" => h.from \in FromFolders

HandlersOK == handler \in [Batches -> Record] /\ \A b \in Batches : PlaceOK(handler[b])

WindowOK ==
    /\ kind \in Kinds
    /\ DOMAIN folderOf = {"from", "to"}
    /\ folderOf["from"] \in FromFolders /\ folderOf["to"] \in ToFolders
    /\ asking \in {"none", "pre", "overwrite"}
    /\ DOMAIN resolver = {"pre", "overwrite"}
    /\ resolver["pre"] # NoBatch =>
            resolver["pre"] \in Batches /\ At(resolver["pre"], "confirm")
    /\ resolver["overwrite"] # NoBatch =>
            resolver["overwrite"] \in Batches /\ At(resolver["overwrite"], "ask")
    /\ opening \in Seq(ToFolders)

HandlesOK ==
    DOMAIN handles \subseteq {Id(b) : b \in {c \in Batches : handler[c].pc \in Registering}}

TransferTypes == ContentOK /\ WindowOK /\ HandlersOK /\ HandlesOK

-----------------------------------------------------------------------------
From == folderOf["from"]
To == folderOf["to"]

\* May be written over: there is nothing, a part of a file, or what the user gave up.
Loose(f, n, p) ==
    content[f][n][p] \in {"none", "half"} \/ <<content[f][n][p], n, p>> \in givenUp

Copied(n, p) == content[From][n][p] \in {"none", content[To][n][p]}

\* An entry that was not listed in the destination is not there.
Unseen(h, n) ==
    /\ n \notin h.existing => ~Here(To, n)
    /\ h.all /\ n \in h.existing => \A p \in Parts(n) : Loose(To, n, p)

Early == {"idle", "confirm", "listing"}

\* What the place of a handler says of its item: which parts are copied, what may go.
RunOK(h) ==
    /\ h.pc \in Early => h.done = {} /\ ~h.all
    /\ h.pc \notin Early \cup {"ended"} =>
        /\ \A n \in h.rest : Unseen(h, n)
        /\ \A n \in h.done : n \notin h.rest /\ \A p \in Parts(n) : Copied(n, p)
    /\ h.pc \in {"begin", "ask", "start", "look", "remove", "mkdir", "list", "copy", "bytes"} =>
        h.item \notin h.rest \cup h.done
    /\ h.pc \in {"begin", "ask"} => Unseen(h, h.item)
    /\ h.pc \in {"look", "remove", "mkdir", "list", "copy", "bytes"} => h.from = From /\ h.to = To
    /\ h.pc \in {"start", "look"} /\ h.item \notin h.existing => ~Here(To, h.item)
    /\ h.pc \in {"start", "look", "remove"} => \A p \in Parts(h.item) : Loose(To, h.item, p)
    /\ h.pc \in {"remove", "mkdir", "list"} => IsTree(h.item) /\ Here(From, h.item)
    /\ h.pc = "mkdir" => ~Here(To, h.item)
    /\ h.pc = "list" =>
        /\ content[To][h.item]["."] = From
        /\ \A p \in Parts(h.item) \ {"."} : content[To][h.item][p] = "none"
    /\ h.pc \in {"copy", "bytes"} =>
        /\ \A p \in h.todo : Loose(To, h.item, p)
        /\ \A p \in Parts(h.item) \ h.todo : Copied(h.item, p)
        /\ IsTree(h.item) /\ Here(From, h.item) => "." \notin h.todo /\ Here(To, h.item)
    /\ h.pc = "bytes" =>
        content[To][h.item][h.part] = "half" /\ content[From][h.item][h.part] # "none"
    /\ h.pc = "delete" => h.from = From

\* The source folders hold what they held at first; a directory that is not there
\* has no files.
SourcesOwn == \A f \in FromFolders, n \in Item : \A p \in Parts(n) : content[f][n][p] \in {f,
    "none"}
Rooted == \A f \in Folders, n \in Item :
    ~Here(f, n) => \A p \in Parts(n) : content[f][n][p] = "none"

\* One batch at a time, and its destination is confirmed before it goes on.
OneBatch ==
    /\ \A b, c \in Batches : b = c \/ Ended(b) \/ Ended(c)
    /\ Len(opening) <= 1
    /\ asking = "pre" \/ opening # <<>> =>
            \A b \in Batches : handler[b].pc \in {"idle", "confirm", "ended"}

\* Nothing is lost: a source stays where it is until the batch has copied it whole.
TransferInv ==
    /\ TransferTypes /\ SourcesOwn /\ Rooted /\ OneBatch /\ NothingLost
    /\ \A b \in Batches : RunOK(handler[b])
-----------------------------------------------------------------------------
(* The disk                                                                *)

LEMMA FolderTypes ==
    /\ FromFolders \subseteq Folders /\ ToFolders \subseteq Folders
    /\ "none" \notin Folders /\ "half" \notin Folders
  BY NssTransferAssumption DEF Folders

LEMMA PartTypes ==
    /\ \A n \in Item : "." \in Parts(n) /\ Parts(n) \subseteq AnyPart
    /\ \A n \in Item : ~IsTree(n) => Parts(n) = {"."}
  BY DEF Parts, IsTree, AnyPart

\* Only entry n of folder f changes.
OnlyEntry(f, n) ==
    \A g \in Folders, m \in Item : g # f \/ m # n => content'[g][m] = content[g][m]

LEMMA WriteEntry ==
    ASSUME ContentOK, NEW f \in Folders, NEW n \in Item, NEW x \in [Parts(n) -> Value],
           content' = [content EXCEPT ![f][n] = x]
    PROVE  ContentOK' /\ content'[f][n] = x /\ OnlyEntry(f, n)
<1>1. /\ DOMAIN content' = Folders /\ \A g \in Folders : DOMAIN content'[g] = Item
      /\ content'[f][n] = x
  BY DEF ContentOK
<1>2. OnlyEntry(f, n)
  BY DEF ContentOK, OnlyEntry
<1>3. \A g \in Folders, m \in Item : content'[g][m] \in [Parts(m) -> Value]
  BY <1>1, <1>2 DEF ContentOK, OnlyEntry
<1> QED
  BY <1>1, <1>2, <1>3 DEF ContentOK

TransferWritten(f, n, p, v) == content' = [content EXCEPT ![f][n][p] = v]

LEMMA WritePart ==
    ASSUME ContentOK, NEW f \in Folders, NEW n \in Item, NEW p \in Parts(n), NEW v \in Value,
           TransferWritten(f, n, p, v)
    PROVE  /\ ContentOK' /\ OnlyEntry(f, n) /\ content'[f][n][p] = v
           /\ \A q \in Parts(n) : q # p => content'[f][n][q] = content[f][n][q]
<1> DEFINE x == [content[f][n] EXCEPT ![p] = v]
<1>1. content[f][n] \in [Parts(n) -> Value]
  BY DEF ContentOK
<1>2. x \in [Parts(n) -> Value] /\ x[p] = v /\ \A q \in Parts(n) : q # p => x[q] = content[f][n][q]
  BY <1>1
<1>3. content' = [content EXCEPT ![f][n] = x]
  BY DEF TransferWritten
<1> HIDE DEF x
<1>4. ContentOK' /\ content'[f][n] = x /\ OnlyEntry(f, n)
  BY <1>2, <1>3, WriteEntry
<1> QED
  BY <1>2, <1>4

-----------------------------------------------------------------------------
(* The types                                                               *)

\* Another batch keeps its place.
OnlyBatch(b) == \A c \in Batches : c # b => handler'[c] = handler[c]

LEMMA OneHandler ==
    ASSUME HandlersOK, NEW b \in Batches, NEW h \in Record, PlaceOK(h),
           handler' = [handler EXCEPT ![b] = h]
    PROVE  HandlersOK' /\ handler'[b] = h /\ OnlyBatch(b)
  BY DEF HandlersOK, OnlyBatch

LEMMA HandlesKept ==
    ASSUME HandlesOK, HandlersOK, NEW b \in Batches, OnlyBatch(b),
           handler[b].pc \in Registering =>
               handler'[b].pc \in Registering /\ handler'[b].item = handler[b].item,
           \A id \in DOMAIN handles' :
               id \in DOMAIN handles \/ (id = Id(b)' /\ handler'[b].pc \in Registering)
    PROVE  HandlesOK'
<1>1. ASSUME NEW id \in DOMAIN handles'
      PROVE  \E c \in Batches : handler'[c].pc \in Registering /\ id = <<c, handler'[c].item>>
  <2>1. CASE id \in DOMAIN handles
    <3>1. PICK c \in Batches : handler[c].pc \in Registering /\ id = <<c, handler[c].item>>
      BY <2>1 DEF HandlesOK, Id
    <3> QED
      BY <3>1 DEF OnlyBatch
  <2>2. CASE id = Id(b)' /\ handler'[b].pc \in Registering
    BY <2>2 DEF Id
  <2> QED
    BY <1>1, <2>1, <2>2
<1> QED
  BY <1>1 DEF HandlesOK, Id

\* What a handler keeps through a step: its plan, and the item it is at.
KeepsPlan(b) ==
    /\ handler'[b].rest = handler[b].rest /\ handler'[b].done = handler[b].done
    /\ handler'[b].existing = handler[b].existing /\ handler'[b].all = handler[b].all
    /\ handler'[b].spec = handler[b].spec

KeepsTask(b) ==
    /\ handler'[b].item = handler[b].item
    /\ handler'[b].from = handler[b].from /\ handler'[b].to = handler[b].to

LEMMA ContentStays ==
    ASSUME ContentOK, content' = content
    PROVE  ContentOK'
  BY DEF ContentOK

\* A step that gives handler b the record h while the window stays as it is.
LEMMA StepTypes ==
    ASSUME TransferTypes, NEW b \in Batches, handler[b].pc \notin {"ask", "confirm"},
           NEW h \in Record, PlaceOK(h), handler' = [handler EXCEPT ![b] = h],
           ContentOK', UNCHANGED <<kind, folderOf, asking, resolver, opening>>,
           handler[b].pc \in Registering => h.pc \in Registering /\ h.item = handler[b].item,
           \A id \in DOMAIN handles' :
               id \in DOMAIN handles \/ (id = <<b, h.item>> /\ h.pc \in Registering)
    PROVE  TransferTypes' /\ OnlyBatch(b) /\ handler'[b] = h
<1>1. HandlersOK' /\ OnlyBatch(b) /\ handler'[b] = h
  BY OneHandler DEF TransferTypes
<1>2. HandlesOK'
  BY <1>1, HandlesKept DEF TransferTypes, Id
<1>3. WindowOK'
  BY <1>1 DEF TransferTypes, WindowOK, At, OnlyBatch
<1> QED
  BY <1>1, <1>2, <1>3 DEF TransferTypes

LEMMA GoTypes ==
    ASSUME TransferTypes, NEW b \in Batches, handler[b].pc \notin Registering \cup {"confirm"},
           NEW pc \in {"listing", "loop", "moved", "ended"}, Go(b, pc),
           UNCHANGED <<kind, folderOf, asking, resolver, opening, handles>>, ContentOK'
    PROVE  /\ TransferTypes' /\ OnlyBatch(b) /\ handler'[b].pc = pc
           /\ KeepsPlan(b) /\ KeepsTask(b)
<1> DEFINE h == [handler[b] EXCEPT !.pc = pc]
<1>0. handler[b] \in Record
  BY DEF TransferTypes, HandlersOK
<1>1. h \in Record /\ h.pc = pc
  BY <1>0 DEF Record
<1>2. PlaceOK(h)
  BY <1>1 DEF PlaceOK, Registering
<1>3. handler' = [handler EXCEPT ![b] = h]
  BY DEF Go
<1>4. /\ h.rest = handler[b].rest /\ h.done = handler[b].done /\ h.all = handler[b].all
      /\ h.spec = handler[b].spec
      /\ h.existing = handler[b].existing /\ h.item = handler[b].item
      /\ h.from = handler[b].from /\ h.to = handler[b].to
  BY <1>0 DEF Record
<1> HIDE DEF h
<1>5. TransferTypes' /\ OnlyBatch(b) /\ handler'[b] = h
  BY <1>1, <1>2, <1>3, StepTypes DEF Registering
<1> QED
  BY <1>1, <1>4, <1>5 DEF KeepsPlan, KeepsTask

\* The places that a handler keeps its item and its folders through.
Working == {"look", "remove", "mkdir", "list"}

LEMMA GoWorking ==
    ASSUME TransferTypes, NEW b \in Batches, handler[b].pc \in Working, NEW pc \in Working,
           Go(b, pc), UNCHANGED <<kind, folderOf, asking, resolver, opening, handles>>, ContentOK'
    PROVE  /\ TransferTypes' /\ OnlyBatch(b) /\ handler'[b].pc = pc
           /\ KeepsPlan(b) /\ KeepsTask(b)
<1> DEFINE h == [handler[b] EXCEPT !.pc = pc]
<1>0. handler[b] \in Record /\ PlaceOK(handler[b])
  BY DEF TransferTypes, HandlersOK
<1>1. h \in Record /\ h.pc = pc
  BY <1>0 DEF Record, Working, Registering
<1>2. handler' = [handler EXCEPT ![b] = h]
  BY DEF Go
<1>3. /\ h.rest = handler[b].rest /\ h.done = handler[b].done /\ h.all = handler[b].all
      /\ h.spec = handler[b].spec
      /\ h.existing = handler[b].existing /\ h.item = handler[b].item
      /\ h.from = handler[b].from /\ h.to = handler[b].to
  BY <1>0 DEF Record
<1> HIDE DEF h
<1>4. PlaceOK(h)
  BY <1>0, <1>1, <1>3 DEF PlaceOK, Registering, Working
<1>5. TransferTypes' /\ OnlyBatch(b) /\ handler'[b] = h
  BY <1>1, <1>2, <1>3, <1>4, StepTypes DEF Registering, Working
<1> QED
  BY <1>1, <1>3, <1>5 DEF KeepsPlan, KeepsTask

LEMMA FailTypes ==
    ASSUME TransferTypes, NEW b \in Batches,
           handler[b].pc \in Registering, handler[b].pc # "ask", Fail(b),
           UNCHANGED <<kind, folderOf, asking, resolver, opening, handles>>, ContentOK'
    PROVE  /\ TransferTypes' /\ OnlyBatch(b) /\ handler'[b].pc = "release"
           /\ handler'[b].next = "moved" /\ KeepsPlan(b) /\ KeepsTask(b)
<1> DEFINE h == [handler[b] EXCEPT !.pc = "release", !.next = "moved"]
<1>0. handler[b] \in Record /\ PlaceOK(handler[b])
  BY DEF TransferTypes, HandlersOK
<1>1. h \in Record /\ h.pc = "release" /\ h.next = "moved"
  BY <1>0 DEF Record, Registering
<1>2. handler' = [handler EXCEPT ![b] = h]
  BY <1>0 DEF Fail, Record
<1>3. /\ h.rest = handler[b].rest /\ h.done = handler[b].done /\ h.all = handler[b].all
      /\ h.spec = handler[b].spec
      /\ h.existing = handler[b].existing /\ h.item = handler[b].item
      /\ h.from = handler[b].from /\ h.to = handler[b].to
  BY <1>0 DEF Record
<1> HIDE DEF h
<1>4. PlaceOK(h)
  BY <1>0, <1>1, <1>3 DEF PlaceOK, Registering
<1>5. TransferTypes' /\ OnlyBatch(b) /\ handler'[b] = h
  BY <1>1, <1>2, <1>3, <1>4, StepTypes DEF Registering
<1> QED
  BY <1>1, <1>3, <1>5 DEF KeepsPlan, KeepsTask

LEMMA ListDestinationTypes ==
    ASSUME TransferTypes, NEW b \in Batches, ListDestination(b)
    PROVE  /\ TransferTypes' /\ OnlyBatch(b)
           /\ handler'[b].spec = handler[b].spec
           /\ \/ handler'[b].pc = "ended"
              \/ /\ handler'[b].pc = "prefetch"
                 /\ handler'[b].rest = handler[b].rest /\ handler'[b].done = handler[b].done
                 /\ handler'[b].all = handler[b].all /\ handler'[b].spec = handler[b].spec
                 /\ handler'[b].existing = {n \in Item : handler[b].spec /\ Here(To, n)}
<1>0. /\ handler[b] \in Record /\ handler[b].pc = "listing" /\ ContentOK'
      /\ UNCHANGED <<kind, folderOf, asking, resolver, opening, handles>>
  BY ContentStays DEF TransferTypes, HandlersOK, ListDestination, At, windowVars
<1>1. CASE handler' = [handler EXCEPT ![b].pc = "prefetch",
                  ![b].existing = {n \in Item : handler[b].spec /\ Here(folderOf["to"], n)}]
  <2> DEFINE listed == {n \in Item : handler[b].spec /\ Here(folderOf["to"], n)}
             h == [handler[b] EXCEPT !.pc = "prefetch", !.existing = listed]
  <2>1. h \in Record
    BY <1>0 DEF Record
  <2>2. /\ h.pc = "prefetch" /\ h.existing = listed
        /\ h.done = handler[b].done /\ h.all = handler[b].all
        /\ h.spec = handler[b].spec /\ h.rest = handler[b].rest
    BY <1>0 DEF Record
  <2>3. handler' = [handler EXCEPT ![b] = h]
    BY <1>0, <1>1 DEF TransferTypes, HandlersOK, Record
  <2> HIDE DEF h
  <2>4. PlaceOK(h)
    BY <2>2 DEF PlaceOK, Registering
  <2>5. TransferTypes' /\ OnlyBatch(b) /\ handler'[b] = h
    BY <1>0, <2>1, <2>2, <2>3, <2>4, StepTypes DEF Registering
  <2> QED
    BY <2>2, <2>5 DEF To
<1>2. CASE Go(b, "ended")
  BY <1>0, <1>2, GoTypes DEF Registering, KeepsPlan
<1> QED
  BY <1>1, <1>2 DEF ListDestination

LEMMA PrefetchedTypes ==
    ASSUME TransferTypes, NEW b \in Batches, Prefetched(b)
    PROVE  TransferTypes' /\ OnlyBatch(b) /\ handler'[b].pc = "loop" /\ KeepsPlan(b)
<1>1. /\ handler[b].pc = "prefetch" /\ ContentOK'
      /\ UNCHANGED <<kind, folderOf, asking, resolver, opening, handles>>
  BY ContentStays DEF TransferTypes, Prefetched, At, windowVars
<1> QED
  BY <1>1, GoTypes DEF Prefetched, Registering

LEMMA NextItemTypes ==
    ASSUME TransferTypes, NEW b \in Batches, NextItem(b)
    PROVE  /\ TransferTypes' /\ OnlyBatch(b)
           /\ \/ handler'[b].pc = "moved" /\ KeepsPlan(b)
              \/ /\ handler'[b].pc = "begin" /\ handler'[b].item \in handler[b].rest
                 /\ handler'[b].rest = handler[b].rest \ {handler'[b].item}
                 /\ handler'[b].done = handler[b].done /\ handler'[b].all = handler[b].all
                 /\ handler'[b].spec = handler[b].spec
                 /\ handler'[b].existing = handler[b].existing
<1>0. /\ handler[b] \in Record /\ handler[b].pc = "loop" /\ ContentOK'
      /\ UNCHANGED <<kind, folderOf, asking, resolver, opening, handles>>
  BY ContentStays DEF TransferTypes, HandlersOK, NextItem, At, windowVars
<1>1. ASSUME NEW n \in handler[b].rest,
             handler' = [handler EXCEPT ![b].pc = "begin", ![b].item = n, ![b].rest = @ \ {n}]
      PROVE  /\ TransferTypes' /\ OnlyBatch(b) /\ handler'[b].pc = "begin"
             /\ handler'[b].item = n /\ handler'[b].rest = handler[b].rest \ {n}
             /\ handler'[b].done = handler[b].done /\ handler'[b].all = handler[b].all
             /\ handler'[b].spec = handler[b].spec
             /\ handler'[b].existing = handler[b].existing
  <2> DEFINE h == [handler[b] EXCEPT !.pc = "begin", !.item = n, !.rest = handler[b].rest \ {n}]
  <2>1. h \in Record /\ n \in Item
    BY <1>0 DEF Record
  <2>2. /\ h.pc = "begin" /\ h.item = n /\ h.rest = handler[b].rest \ {n}
        /\ h.done = handler[b].done /\ h.all = handler[b].all /\ h.spec = handler[b].spec
        /\ h.existing = handler[b].existing
    BY <1>0 DEF Record
  <2>3. handler' = [handler EXCEPT ![b] = h]
    BY <1>0, <1>1 DEF TransferTypes, HandlersOK, Record
  <2> HIDE DEF h
  <2>4. PlaceOK(h)
    BY <2>1, <2>2 DEF PlaceOK, Registering
  <2>5. TransferTypes' /\ OnlyBatch(b) /\ handler'[b] = h
    BY <1>0, <2>1, <2>2, <2>3, <2>4, StepTypes DEF Registering
  <2> QED
    BY <2>2, <2>5
<1>2. CASE Go(b, "moved")
  BY <1>0, <1>2, GoTypes DEF Registering
<1> QED
  BY <1>1, <1>2 DEF NextItem

\* The same where the window's questions change.
LEMMA AskTypes ==
    ASSUME TransferTypes, NEW b \in Batches, handler[b].pc # "confirm", NEW h \in Record,
        PlaceOK(h),
           handler' = [handler EXCEPT ![b] = h], ContentOK',
           handler[b].pc \in Registering => h.pc \in Registering /\ h.item = handler[b].item,
           \A id \in DOMAIN handles' :
               id \in DOMAIN handles \/ (id = <<b, h.item>> /\ h.pc \in Registering),
           UNCHANGED <<kind, folderOf, opening>>, asking' \in {"none", "pre", "overwrite"},
           NEW c \in {b, NoBatch}, c = b => h.pc = "ask",
           resolver' = [resolver EXCEPT !["overwrite"] = c]
    PROVE  TransferTypes' /\ OnlyBatch(b) /\ handler'[b] = h
<1>1. HandlersOK' /\ OnlyBatch(b) /\ handler'[b] = h
  BY OneHandler DEF TransferTypes
<1>2. HandlesOK'
  BY <1>1, HandlesKept DEF TransferTypes, Id
<1>3. /\ DOMAIN resolver' = {"pre", "overwrite"} /\ resolver'["overwrite"] = c
      /\ resolver'["pre"] = resolver["pre"]
  BY DEF TransferTypes, WindowOK
<1>4. WindowOK'
  BY <1>1, <1>3 DEF TransferTypes, WindowOK, At
<1> QED
  BY <1>1, <1>2, <1>4 DEF TransferTypes

LEMMA RegisterAdds ==
    ASSUME NEW id, Register(id)
    PROVE  \A j \in DOMAIN handles' : j \in DOMAIN handles \/ j = id
  BY DEF Register

LEMMA BeginItemTypes ==
    ASSUME TransferTypes, NEW b \in Batches, BeginItem(b)
    PROVE  /\ TransferTypes' /\ OnlyBatch(b) /\ KeepsPlan(b) /\ KeepsTask(b)
           /\ \/ handler'[b].pc = "ask"
              \/ /\ handler'[b].pc = "start" /\ UNCHANGED <<asking, resolver>>
                 /\ handler[b].item \in handler[b].existing => handler[b].all
<1>0. /\ handler[b] \in Record /\ PlaceOK(handler[b]) /\ handler[b].pc = "begin" /\ ContentOK'
      /\ UNCHANGED <<kind, folderOf, opening>>
  BY ContentStays DEF TransferTypes, HandlersOK, BeginItem, At, windowVars
<1>1. \A j \in DOMAIN handles' : j \in DOMAIN handles \/ j = <<b, handler[b].item>>
  BY RegisterAdds DEF BeginItem, Id
<1>2. ASSUME NEW pc \in {"ask", "start"}, Go(b, pc),
             pc = "start" => UNCHANGED <<asking, resolver>>,
             pc = "ask" => asking' = "overwrite" /\ resolver' = [resolver EXCEPT !["overwrite"] = b]
      PROVE  TransferTypes' /\ OnlyBatch(b) /\ KeepsPlan(b) /\ KeepsTask(b) /\ handler'[b].pc = pc
  <2> DEFINE h == [handler[b] EXCEPT !.pc = pc]
  <2>1. h \in Record
    BY <1>0 DEF Record, Registering
  <2>2. /\ h.pc = pc
        /\ h.rest = handler[b].rest /\ h.done = handler[b].done /\ h.all = handler[b].all
        /\ h.spec = handler[b].spec
        /\ h.existing = handler[b].existing /\ h.item = handler[b].item
        /\ h.from = handler[b].from /\ h.to = handler[b].to
    BY <1>0 DEF Record
  <2>3. handler' = [handler EXCEPT ![b] = h]
    BY <1>2 DEF Go
  <2> HIDE DEF h
  <2>4. PlaceOK(h)
    BY <1>0, <2>2 DEF PlaceOK, Registering
  <2>5. TransferTypes' /\ OnlyBatch(b) /\ handler'[b] = h
    <3>1. CASE pc = "start"
      <4>1. UNCHANGED <<kind, folderOf, asking, resolver, opening>> /\ handler[b].pc # "ask"
        BY <1>0, <1>2, <3>1
      <4>2. h.pc \in Registering
        BY <2>2, <3>1 DEF Registering
      <4> QED
        BY <1>0, <1>1, <2>1, <2>2, <2>3, <2>4, <4>1, <4>2, StepTypes
    <3>2. CASE pc = "ask"
      BY <1>0, <1>1, <1>2, <2>1, <2>2, <2>3, <2>4, <3>2, AskTypes DEF Registering
    <3> QED
      BY <3>1, <3>2
  <2> QED
    BY <2>2, <2>5 DEF KeepsPlan, KeepsTask
<1>3. CASE handler[b].item \in handler[b].existing /\ ~handler[b].all
  BY <1>2, <1>3 DEF BeginItem
<1>4. CASE ~(handler[b].item \in handler[b].existing /\ ~handler[b].all)
  <2>1. handler[b].item \in handler[b].existing => handler[b].all
    BY <1>4
  <2>2. Go(b, "start") /\ UNCHANGED <<asking, resolver>>
    BY <1>4 DEF BeginItem
  <2> QED
    BY <1>2, <2>1, <2>2
<1> QED
  BY <1>3, <1>4

LEMMA AnsweredRecord ==
    ASSUME NEW r \in Record, NEW pc \in {"release", "start"}, NEW next \in {"ended", "loop"},
           NEW all \in BOOLEAN
    PROVE  [r EXCEPT !.pc = pc, !.next = next, !.all = all] \in Record
  BY DEF Record, Registering

LEMMA AnswerConflictTypes ==
    ASSUME TransferTypes, NEW choice \in {"replace", "skip", "all", "cancel"},
           AnswerConflict(choice), NEW b, b = resolver["overwrite"]
    PROVE  /\ TransferTypes' /\ b \in Batches /\ OnlyBatch(b) /\ handler[b].pc = "ask"
           /\ handler'[b].pc = AfterChoice(choice).pc /\ KeepsTask(b)
           /\ handler'[b].spec = handler[b].spec
           /\ handler'[b].rest = handler[b].rest /\ handler'[b].done = handler[b].done
           /\ handler'[b].existing = handler[b].existing
           /\ handler'[b].all => handler[b].all \/ choice = "all"
<1>0. /\ b \in Batches /\ b # NoBatch
      /\ handler[b] \in Record /\ PlaceOK(handler[b]) /\ handler[b].pc = "ask" /\ ContentOK'
      /\ UNCHANGED <<kind, folderOf, opening>> /\ handles' = handles /\ asking' = "none"
      /\ resolver' = [resolver EXCEPT !["overwrite"] = NoBatch]
  BY ContentStays DEF TransferTypes, WindowOK, HandlersOK, AnswerConflict, At, windowVars
<1> DEFINE next == AfterChoice(choice).next
           pc == AfterChoice(choice).pc
           all == handler[b].all \/ choice = "all"
           h == [handler[b] EXCEPT !.pc = pc, !.next = next, !.all = all]
<1>1. pc \in {"release", "start"} /\ next \in {"ended", "loop"}
  BY DEF AfterChoice
<1>2. all \in BOOLEAN
  BY <1>0 DEF Record
<1>3. handler' = [handler EXCEPT ![b] = h]
  BY <1>0 DEF AnswerConflict, Record, TransferTypes, HandlersOK
<1> HIDE DEF pc, next, all
<1>4. h \in Record
  BY <1>0, <1>1, <1>2, AnsweredRecord
<1>5. /\ h.pc = pc /\ h.all = all /\ h.spec = handler[b].spec
      /\ h.rest = handler[b].rest /\ h.done = handler[b].done
      /\ h.existing = handler[b].existing /\ h.item = handler[b].item
      /\ h.from = handler[b].from /\ h.to = handler[b].to
  BY <1>0 DEF Record
<1> HIDE DEF h
<1>6. PlaceOK(h)
  BY <1>0, <1>1, <1>5 DEF PlaceOK, Registering
<1>7. TransferTypes' /\ OnlyBatch(b) /\ handler'[b] = h
  BY <1>0, <1>1, <1>3, <1>4, <1>5, <1>6, AskTypes DEF Registering
<1> QED
  BY <1>0, <1>5, <1>7 DEF KeepsTask, pc, all

\* The item counts as transferred.
LEMMA CountsTypes ==
    ASSUME TransferTypes, NEW b \in Batches, CountsAsDone(b), ContentOK',
           handler[b].pc \in Registering, handler[b].pc # "ask",
           UNCHANGED <<kind, folderOf, asking, resolver, opening, handles>>
    PROVE  /\ TransferTypes' /\ OnlyBatch(b) /\ handler'[b].pc = "release"
           /\ handler'[b].rest = handler[b].rest /\ handler'[b].all = handler[b].all
           /\ handler'[b].spec = handler[b].spec
           /\ handler'[b].existing = handler[b].existing
           /\ handler'[b].done = handler[b].done \cup {handler[b].item}
<1>0. handler[b] \in Record /\ PlaceOK(handler[b])
  BY DEF TransferTypes, HandlersOK
<1>1. handler[b].item \in Item
  BY <1>0 DEF PlaceOK
<1> DEFINE h == [handler[b] EXCEPT !.pc = "release", !.next = "loop",
                                   !.done = handler[b].done \cup {handler[b].item}]
<1>2. h \in Record
  BY <1>0, <1>1 DEF Record, Registering
<1>3. /\ h.pc = "release" /\ h.done = handler[b].done \cup {handler[b].item}
      /\ h.item = handler[b].item
      /\ h.rest = handler[b].rest /\ h.all = handler[b].all /\ h.spec = handler[b].spec
      /\ h.existing = handler[b].existing
  BY <1>0 DEF Record
<1>4. handler' = [handler EXCEPT ![b] = h]
  BY <1>0 DEF TransferTypes, HandlersOK, Record, CountsAsDone
<1> HIDE DEF h
<1>5. PlaceOK(h)
  BY <1>1, <1>3 DEF PlaceOK, Registering
<1>6. TransferTypes' /\ OnlyBatch(b) /\ handler'[b] = h
  BY <1>2, <1>3, <1>4, <1>5, StepTypes DEF Registering
<1> QED
  BY <1>3, <1>6

LEMMA StartItemTypes ==
    ASSUME TransferTypes, NEW b \in Batches, StartItem(b)
    PROVE  /\ TransferTypes' /\ OnlyBatch(b) /\ handler'[b].spec = handler[b].spec
           /\ handler[b].spec =>
                /\ KeepsPlan(b)
                /\ \/ handler'[b].pc = "release"
                   \/ /\ handler'[b].pc = "look" /\ handler'[b].item = handler[b].item
                      /\ handler'[b].from = From /\ handler'[b].to = To
<1>0. /\ handler[b] \in Record /\ PlaceOK(handler[b]) /\ handler[b].pc = "start" /\ ContentOK'
      /\ UNCHANGED <<kind, folderOf, asking, resolver, opening, handles>>
  BY ContentStays DEF TransferTypes, HandlersOK, StartItem, At, windowVars
<1>1. CASE Fail(b)
  BY <1>0, <1>1, FailTypes DEF Registering, KeepsPlan
<1>2. CASE handler' = [handler EXCEPT ![b].pc = "look", ![b].from = folderOf["from"],
                              ![b].to = folderOf["to"]]
  <2> DEFINE h == [handler[b] EXCEPT !.pc = "look", !.from = folderOf["from"],
                                     !.to = folderOf["to"]]
  <2>0. From \in FromFolders /\ To \in ToFolders /\ From \in Folders /\ To \in Folders
    BY FolderTypes DEF TransferTypes, WindowOK, From, To
  <2>1. h \in Record
    BY <1>0, <2>0 DEF Record, Registering, From, To
  <2>2. /\ h.pc = "look" /\ h.from = From /\ h.to = To /\ h.item = handler[b].item
        /\ h.rest = handler[b].rest /\ h.done = handler[b].done /\ h.all = handler[b].all
        /\ h.spec = handler[b].spec
        /\ h.existing = handler[b].existing
    BY <1>0 DEF Record, From, To
  <2>3. handler' = [handler EXCEPT ![b] = h]
    BY <1>0, <1>2 DEF TransferTypes, HandlersOK, Record
  <2> HIDE DEF h
  <2>4. PlaceOK(h)
    BY <1>0, <2>0, <2>2 DEF PlaceOK, Registering
  <2>5. TransferTypes' /\ OnlyBatch(b) /\ handler'[b] = h
    BY <1>0, <2>1, <2>2, <2>3, <2>4, StepTypes DEF Registering
  <2> QED
    BY <2>2, <2>5 DEF KeepsPlan
<1>3. CASE ~handler[b].spec /\ CountsAsDone(b)
  BY <1>0, <1>3, CountsTypes DEF Registering
<1> QED
  BY <1>1, <1>2, <1>3 DEF StartItem

LEMMA LookAtSourceTypes ==
    ASSUME TransferTypes, NEW b \in Batches, LookAtSource(b), NEW n, n = handler[b].item
    PROVE  /\ TransferTypes' /\ OnlyBatch(b) /\ KeepsPlan(b) /\ KeepsTask(b)
           /\ \/ handler'[b].pc = "release"
              \/ /\ handler'[b].pc = IF n \in handler[b].existing THEN "remove" ELSE "mkdir"
                 /\ IsTree(n) /\ Here(handler[b].from, n)
              \/ /\ handler'[b].pc = "copy" /\ handler'[b].todo = {"."}
                 /\ ~(IsTree(n) /\ Here(handler[b].from, n))
<1>0. /\ handler[b] \in Record /\ PlaceOK(handler[b]) /\ handler[b].pc = "look" /\ ContentOK'
      /\ UNCHANGED <<kind, folderOf, asking, resolver, opening, handles>>
  BY ContentStays DEF TransferTypes, HandlersOK, LookAtSource, At, windowVars
<1>1. CASE userCancelled
  <2>1. Fail(b)
    BY <1>1 DEF LookAtSource
  <2> QED
    BY <1>0, <2>1, FailTypes DEF Registering
<1>2. CASE ~userCancelled /\ IsTree(n) /\ Here(handler[b].from, n)
  <2>1. Go(b, IF n \in handler[b].existing THEN "remove" ELSE "mkdir")
    BY <1>2 DEF LookAtSource
  <2> QED
    BY <1>0, <1>2, <2>1, GoWorking DEF Working
<1>3. CASE ~userCancelled /\ ~(IsTree(n) /\ Here(handler[b].from, n))
  <2> DEFINE h == [handler[b] EXCEPT !.pc = "copy", !.todo = {"."}]
  <2>1. h \in Record
    BY <1>0 DEF Record, Registering, AnyPart
  <2>2. /\ h.pc = "copy" /\ h.todo = {"."} /\ h.item = handler[b].item
        /\ h.rest = handler[b].rest /\ h.done = handler[b].done /\ h.all = handler[b].all
        /\ h.spec = handler[b].spec
        /\ h.existing = handler[b].existing
        /\ h.from = handler[b].from /\ h.to = handler[b].to
    BY <1>0 DEF Record
  <2>3. handler' = [handler EXCEPT ![b] = h]
    BY <1>0, <1>3 DEF LookAtSource, TransferTypes, HandlersOK, Record
  <2> HIDE DEF h
  <2>4. PlaceOK(h)
    BY <1>0, <2>2, PartTypes DEF PlaceOK, Registering
  <2>5. TransferTypes' /\ OnlyBatch(b) /\ handler'[b] = h
    BY <1>0, <2>1, <2>2, <2>3, <2>4, StepTypes DEF Registering
  <2> QED
    BY <1>3, <2>2, <2>5 DEF KeepsPlan, KeepsTask
<1> QED
  BY <1>1, <1>2, <1>3

\* What a delete leaves of entry n of folder f: nothing, or all but some of its files.
Erased(f, n) == content' = [content EXCEPT ![f][n] = Nothing(n)]
PartlyErased(f, n) == \E gone \in SUBSET (Parts(n) \ {"."}) :
    content' = [content EXCEPT ![f][n] = [p \in Parts(n) |-> IF p \in gone THEN "none" ELSE @[p]]]

LEMMA ErasedTypes ==
    ASSUME ContentOK, NEW f \in Folders, NEW n \in Item, Erased(f, n)
    PROVE  ContentOK' /\ OnlyEntry(f, n) /\ \A p \in Parts(n) : content'[f][n][p] = "none"
<1>1. Nothing(n) \in [Parts(n) -> Value]
  BY DEF Nothing, Value
<1>2. ContentOK' /\ content'[f][n] = Nothing(n) /\ OnlyEntry(f, n)
  BY <1>1, WriteEntry DEF Erased
<1> QED
  BY <1>2 DEF Nothing

LEMMA PartlyErasedTypes ==
    ASSUME ContentOK, NEW f \in Folders, NEW n \in Item, PartlyErased(f, n)
    PROVE  /\ ContentOK' /\ OnlyEntry(f, n)
           /\ \A p \in Parts(n) : content'[f][n][p] \in {"none", content[f][n][p]}
           /\ content'[f][n]["."] = content[f][n]["."]
<1>1. PICK gone \in SUBSET (Parts(n) \ {"."}) :
        content' = [content EXCEPT ![f][n] =
                        [p \in Parts(n) |-> IF p \in gone THEN "none" ELSE @[p]]]
  BY DEF PartlyErased
<1> DEFINE x == [p \in Parts(n) |-> IF p \in gone THEN "none" ELSE content[f][n][p]]
<1>2. x \in [Parts(n) -> Value]
  BY DEF ContentOK, Value
<1>3. content' = [content EXCEPT ![f][n] = x]
  BY <1>1
<1>4. \A p \in Parts(n) : x[p] \in {"none", content[f][n][p]}
  OBVIOUS
<1>5. x["."] = content[f][n]["."]
  BY PartTypes
<1> HIDE DEF x
<1>6. ContentOK' /\ content'[f][n] = x /\ OnlyEntry(f, n)
  BY <1>2, <1>3, WriteEntry
<1> QED
  BY <1>4, <1>5, <1>6

LEMMA RemoveDestinationTypes ==
    ASSUME TransferTypes, NEW b \in Batches, RemoveDestination(b),
           NEW n, n = handler[b].item, NEW f, f = handler[b].to
    PROVE  /\ TransferTypes' /\ OnlyBatch(b) /\ KeepsPlan(b) /\ KeepsTask(b)
           /\ n \in Item /\ f \in Folders /\ OnlyEntry(f, n)
           /\ \/ handler'[b].pc = "mkdir" /\ \A p \in Parts(n) : content'[f][n][p] = "none"
              \/ /\ handler'[b].pc = "release"
                 /\ \A p \in Parts(n) : content'[f][n][p] \in {"none", content[f][n][p]}
                 /\ content'[f][n]["."] = content[f][n]["."]
<1>0. /\ handler[b] \in Record /\ PlaceOK(handler[b]) /\ handler[b].pc = "remove" /\ ContentOK
      /\ UNCHANGED <<kind, folderOf, asking, resolver, opening, handles>>
  BY DEF TransferTypes, HandlersOK, RemoveDestination, At, windowVars
<1>1. n \in Item /\ f \in Folders
  BY <1>0, FolderTypes DEF PlaceOK, Registering
<1>2. CASE Erased(f, n) /\ Go(b, "mkdir")
  <2>1. ContentOK' /\ OnlyEntry(f, n) /\ \A p \in Parts(n) : content'[f][n][p] = "none"
    BY <1>0, <1>1, <1>2, ErasedTypes
  <2>2. /\ TransferTypes' /\ OnlyBatch(b) /\ handler'[b].pc = "mkdir"
        /\ KeepsPlan(b) /\ KeepsTask(b)
    BY <1>0, <1>2, <2>1, GoWorking DEF Working
  <2> QED
    BY <1>1, <2>1, <2>2
<1>3. CASE PartlyErased(f, n) /\ Fail(b)
  <2>1. /\ ContentOK' /\ OnlyEntry(f, n)
        /\ \A p \in Parts(n) : content'[f][n][p] \in {"none", content[f][n][p]}
        /\ content'[f][n]["."] = content[f][n]["."]
    BY <1>0, <1>1, <1>3, PartlyErasedTypes
  <2>2. /\ TransferTypes' /\ OnlyBatch(b) /\ handler'[b].pc = "release"
        /\ KeepsPlan(b) /\ KeepsTask(b)
    BY <1>0, <1>3, <2>1, FailTypes DEF Registering
  <2> QED
    BY <1>1, <2>1, <2>2
<1>4. \/ Erased(handler[b].to, handler[b].item) /\ Go(b, "mkdir")
      \/ PartlyErased(handler[b].to, handler[b].item) /\ Fail(b)
  BY Zenon DEF RemoveDestination, Erased, PartlyErased
<1> QED
  BY <1>1, <1>2, <1>3, <1>4

LEMMA MakeDirectoryTypes ==
    ASSUME TransferTypes, NEW b \in Batches, MakeDirectory(b),
           NEW n, n = handler[b].item, NEW f, f = handler[b].to
    PROVE  /\ TransferTypes' /\ OnlyBatch(b) /\ KeepsPlan(b) /\ KeepsTask(b)
           /\ n \in Item /\ f \in Folders
           /\ \/ handler'[b].pc = "list" /\ Here(f, n) /\ content' = content
              \/ /\ handler'[b].pc = "list" /\ ~Here(f, n) /\ OnlyEntry(f, n)
                 /\ content'[f][n]["."] = handler[b].from
                 /\ \A p \in Parts(n) : p # "." => content'[f][n][p] = content[f][n][p]
              \/ handler'[b].pc = "release" /\ content' = content
<1>0. /\ handler[b] \in Record /\ PlaceOK(handler[b]) /\ handler[b].pc = "mkdir" /\ ContentOK
      /\ UNCHANGED <<kind, folderOf, asking, resolver, opening, handles>>
  BY DEF TransferTypes, HandlersOK, MakeDirectory, At, windowVars
<1>1. n \in Item /\ f \in Folders /\ handler[b].from \in Value /\ "." \in Parts(n)
  BY <1>0, FolderTypes, PartTypes DEF PlaceOK, Registering, Value
<1>2. CASE Fail(b) /\ content' = content
  BY <1>0, <1>1, <1>2, ContentStays, FailTypes DEF Registering
<1>3. CASE Go(b, "list") /\ Here(f, n) /\ content' = content
  <2>1. ContentOK'
    BY <1>0, <1>3, ContentStays
  <2> QED
    BY <1>0, <1>1, <1>3, <2>1, GoWorking DEF Working
<1>4. CASE Go(b, "list") /\ ~Here(f, n)
           /\ content' = [content EXCEPT ![f][n]["."] = handler[b].from]
  <2>1. /\ ContentOK' /\ OnlyEntry(f, n) /\ content'[f][n]["."] = handler[b].from
        /\ \A p \in Parts(n) : p # "." => content'[f][n][p] = content[f][n][p]
    <3>1. ContentOK /\ "." \in Parts(n) /\ handler[b].from \in Value
      BY <1>0, <1>1
    <3>2. TransferWritten(f, n, ".", handler[b].from)
      BY <1>4 DEF TransferWritten
    <3> QED
      BY <1>1, <3>1, <3>2, WritePart
  <2>2. /\ TransferTypes' /\ OnlyBatch(b) /\ handler'[b].pc = "list"
        /\ KeepsPlan(b) /\ KeepsTask(b)
    BY <1>0, <1>4, <2>1, GoWorking DEF Working
  <2> QED
    BY <1>1, <1>4, <2>1, <2>2
<1> QED
  BY <1>2, <1>3, <1>4 DEF MakeDirectory

LEMMA ListSourceTypes ==
    ASSUME TransferTypes, NEW b \in Batches, ListSource(b),
           NEW n, n = handler[b].item
    PROVE  /\ TransferTypes' /\ OnlyBatch(b) /\ KeepsPlan(b) /\ KeepsTask(b)
           /\ \/ handler'[b].pc = "release"
              \/ /\ handler'[b].pc = "copy"
                 /\ handler'[b].todo =
                        {p \in Parts(n) \ {"."} : content[handler[b].from][n][p] # "none"}
<1>0. /\ handler[b] \in Record /\ PlaceOK(handler[b]) /\ handler[b].pc = "list" /\ ContentOK'
      /\ UNCHANGED <<kind, folderOf, asking, resolver, opening, handles>>
  BY ContentStays DEF TransferTypes, HandlersOK, ListSource, At, windowVars
<1> DEFINE listed == {p \in Parts(n) \ {"."} : content[handler[b].from][n][p] # "none"}
<1>1. CASE Fail(b)
  BY <1>0, <1>1, FailTypes DEF Registering
<1>2. CASE handler' = [handler EXCEPT ![b].pc = "copy", ![b].todo = listed]
  <2> DEFINE h == [handler[b] EXCEPT !.pc = "copy", !.todo = listed]
  <2>0. listed \subseteq Parts(n) /\ listed \subseteq AnyPart
    BY <1>0, PartTypes DEF PlaceOK, Registering
  <2> HIDE DEF listed
  <2>1. h \in Record
    BY <1>0, <2>0 DEF Record, Registering
  <2>2. /\ h.pc = "copy" /\ h.todo = listed /\ h.item = handler[b].item
        /\ h.rest = handler[b].rest /\ h.done = handler[b].done /\ h.all = handler[b].all
        /\ h.spec = handler[b].spec
        /\ h.existing = handler[b].existing
        /\ h.from = handler[b].from /\ h.to = handler[b].to
    BY <1>0 DEF Record
  <2>3. handler' = [handler EXCEPT ![b] = h]
    BY <1>0, <1>2 DEF TransferTypes, HandlersOK, Record
  <2> HIDE DEF h
  <2>4. PlaceOK(h)
    BY <1>0, <2>0, <2>2 DEF PlaceOK, Registering
  <2>5. TransferTypes' /\ OnlyBatch(b) /\ handler'[b] = h
    BY <1>0, <2>1, <2>2, <2>3, <2>4, StepTypes DEF Registering
  <2> QED
    BY <2>2, <2>5 DEF KeepsPlan, KeepsTask, listed
<1> QED
  BY <1>1, <1>2 DEF ListSource

\* The failed copy of a file has removed what was in its place.
OpenDropped(b, f, n) ==
    \E p \in handler[b].todo :
        /\ content[handler[b].from][n][p] # "none"
        /\ OnlyEntry(f, n) /\ content'[f][n][p] = "none"
        /\ \A q \in Parts(n) : q # p => content'[f][n][q] = content[f][n][q]

LEMMA OpenFileTypes ==
    ASSUME TransferTypes, NEW b \in Batches, OpenFile(b),
           NEW n, n = handler[b].item, NEW f, f = handler[b].to
    PROVE  /\ TransferTypes' /\ OnlyBatch(b) /\ KeepsPlan(b) /\ KeepsTask(b)
           /\ n \in Item /\ f \in Folders
           /\ \/ handler'[b].pc = "release" /\ content' = content
              \/ handler'[b].pc = "release" /\ OpenDropped(b, f, n)
              \/ /\ handler'[b].pc = "bytes" /\ handler'[b].todo = handler[b].todo
                 /\ handler'[b].part \in handler[b].todo
                 /\ content[handler[b].from][n][handler'[b].part] # "none"
                 /\ OnlyEntry(f, n) /\ content'[f][n][handler'[b].part] = "half"
                 /\ \A p \in Parts(n) : p # handler'[b].part => content'[f][n][p] = content[f][n][p]
<1>0. /\ handler[b] \in Record /\ PlaceOK(handler[b]) /\ handler[b].pc = "copy" /\ ContentOK
      /\ UNCHANGED <<kind, folderOf, asking, resolver, opening>>
  BY DEF TransferTypes, HandlersOK, OpenFile, At, windowVars
<1>1. n \in Item /\ f \in Folders /\ handler[b].todo \subseteq Parts(n)
  BY <1>0, FolderTypes DEF PlaceOK, Registering
<1>2. CASE Fail(b) /\ UNCHANGED <<content, handles>>
  BY <1>0, <1>1, <1>2, ContentStays, FailTypes DEF Registering
<1>3. ASSUME NEW p \in handler[b].todo, content[handler[b].from][n][p] # "none",
             content' = [content EXCEPT ![f][n][p] = "half"], Register(Id(b)),
             handler' = [handler EXCEPT ![b].pc = "bytes", ![b].part = p]
      PROVE  /\ TransferTypes' /\ OnlyBatch(b) /\ KeepsPlan(b) /\ KeepsTask(b)
             /\ handler'[b].pc = "bytes" /\ handler'[b].todo = handler[b].todo
             /\ handler'[b].part = p
             /\ OnlyEntry(f, n) /\ content'[f][n][p] = "half"
             /\ \A q \in Parts(n) : q # p => content'[f][n][q] = content[f][n][q]
  <2> DEFINE h == [handler[b] EXCEPT !.pc = "bytes", !.part = p]
  <2>0. p \in AnyPart /\ p \in Parts(n) /\ "half" \in Value
    BY <1>1, PartTypes DEF Value
  <2>1. h \in Record
    BY <1>0, <2>0 DEF Record, Registering
  <2>2. /\ h.pc = "bytes" /\ h.part = p /\ h.todo = handler[b].todo /\ h.item = handler[b].item
        /\ h.rest = handler[b].rest /\ h.done = handler[b].done /\ h.all = handler[b].all
        /\ h.spec = handler[b].spec
        /\ h.existing = handler[b].existing
        /\ h.from = handler[b].from /\ h.to = handler[b].to
    BY <1>0 DEF Record
  <2>3. handler' = [handler EXCEPT ![b] = h]
    BY <1>0, <1>3 DEF TransferTypes, HandlersOK, Record
  <2> HIDE DEF h
  <2>4. PlaceOK(h)
    BY <1>0, <2>2 DEF PlaceOK, Registering
  <2>5. \A j \in DOMAIN handles' : j \in DOMAIN handles \/ j = <<b, h.item>>
    BY <1>3, <2>2, RegisterAdds DEF Id
  <2>6. /\ ContentOK' /\ OnlyEntry(f, n) /\ content'[f][n][p] = "half"
        /\ \A q \in Parts(n) : q # p => content'[f][n][q] = content[f][n][q]
    <3>1. ContentOK /\ TransferWritten(f, n, p, "half")
      BY <1>0, <1>3 DEF TransferWritten
    <3> QED
      BY <1>1, <2>0, <3>1, WritePart
  <2>7. TransferTypes' /\ OnlyBatch(b) /\ handler'[b] = h
    BY <1>0, <2>1, <2>2, <2>3, <2>4, <2>5, <2>6, StepTypes DEF Registering
  <2> QED
    BY <2>2, <2>6, <2>7 DEF KeepsPlan, KeepsTask
<1>4. ASSUME Fail(b), UNCHANGED handles, NEW p \in Unopened(b),
             content' = [content EXCEPT ![f][n][p] = "none"]
      PROVE  /\ TransferTypes' /\ OnlyBatch(b) /\ KeepsPlan(b) /\ KeepsTask(b)
             /\ handler'[b].pc = "release" /\ OpenDropped(b, f, n)
  <2>1. /\ p \in handler[b].todo /\ content[handler[b].from][n][p] # "none"
        /\ p \in Parts(n) /\ "none" \in Value
    BY <1>1 DEF Unopened, Value
  <2>2. ContentOK /\ TransferWritten(f, n, p, "none")
    BY <1>0, <1>4 DEF TransferWritten
  <2>3. /\ ContentOK' /\ OnlyEntry(f, n) /\ content'[f][n][p] = "none"
        /\ \A q \in Parts(n) : q # p => content'[f][n][q] = content[f][n][q]
    BY <1>1, <2>1, <2>2, WritePart
  <2>4. OpenDropped(b, f, n)
    BY <2>1, <2>3 DEF OpenDropped
  <2> QED
    BY <1>0, <1>4, <2>3, <2>4, FailTypes DEF Registering
<1>5. \/ Fail(b) /\ UNCHANGED <<content, handles>>
      \/ /\ Fail(b) /\ UNCHANGED handles
         /\ \E p \in Unopened(b) : content' = [content EXCEPT ![f][n][p] = "none"]
      \/ \E p \in handler[b].todo :
            /\ content[handler[b].from][n][p] # "none"
            /\ content' = [content EXCEPT ![f][n][p] = "half"]
            /\ Register(Id(b))
            /\ handler' = [handler EXCEPT ![b].pc = "bytes", ![b].part = p]
  BY DEF OpenFile, NotOpened
<1> QED
  BY <1>1, <1>2, <1>3, <1>4, <1>5

LEMMA CopyBytesTypes ==
    ASSUME TransferTypes, NEW b \in Batches, CopyBytes(b),
           NEW n, n = handler[b].item, NEW f, f = handler[b].to, NEW p, p = handler[b].part
    PROVE  /\ TransferTypes' /\ OnlyBatch(b) /\ KeepsPlan(b) /\ KeepsTask(b)
           /\ n \in Item /\ f \in Folders /\ p \in Parts(n)
           /\ handler'[b].pc = "copy" /\ handler'[b].todo = handler[b].todo \ {p}
           /\ OnlyEntry(f, n) /\ content'[f][n][p] = content[handler[b].from][n][p]
           /\ \A q \in Parts(n) : q # p => content'[f][n][q] = content[f][n][q]
<1>0. /\ handler[b] \in Record /\ PlaceOK(handler[b]) /\ handler[b].pc = "bytes" /\ ContentOK
      /\ UNCHANGED <<kind, folderOf, asking, resolver, opening, handles>>
  BY DEF TransferTypes, HandlersOK, CopyBytes, At, windowVars
<1>1. /\ n \in Item /\ f \in Folders /\ handler[b].from \in Folders
      /\ p \in Parts(n) /\ handler[b].todo \subseteq Parts(n)
  BY <1>0, FolderTypes DEF PlaceOK, Registering
<1> DEFINE v == content[handler[b].from][n][p]
           h == [handler[b] EXCEPT !.pc = "copy", !.todo = handler[b].todo \ {p}]
<1>2. v \in Value
  BY <1>0, <1>1 DEF ContentOK
<1>3. TransferWritten(f, n, p, v)
  BY DEF CopyBytes, TransferWritten
<1> HIDE DEF v
<1>4. /\ ContentOK' /\ OnlyEntry(f, n) /\ content'[f][n][p] = v
      /\ \A q \in Parts(n) : q # p => content'[f][n][q] = content[f][n][q]
  BY <1>0, <1>1, <1>2, <1>3, WritePart
<1>5. h \in Record
  BY <1>0 DEF Record, Registering
<1>6. /\ h.pc = "copy" /\ h.todo = handler[b].todo \ {p} /\ h.item = handler[b].item
      /\ h.rest = handler[b].rest /\ h.done = handler[b].done /\ h.all = handler[b].all
      /\ h.spec = handler[b].spec
      /\ h.existing = handler[b].existing
      /\ h.from = handler[b].from /\ h.to = handler[b].to
  BY <1>0 DEF Record
<1>7. handler' = [handler EXCEPT ![b] = h]
  BY <1>0 DEF TransferTypes, HandlersOK, Record, CopyBytes
<1> HIDE DEF h
<1>8. PlaceOK(h)
  BY <1>0, <1>1, <1>6 DEF PlaceOK, Registering
<1>9. TransferTypes' /\ OnlyBatch(b) /\ handler'[b] = h
  BY <1>0, <1>4, <1>5, <1>6, <1>7, <1>8, StepTypes DEF Registering
<1> QED
  BY <1>1, <1>4, <1>6, <1>9 DEF KeepsPlan, KeepsTask, v

LEMMA CopyStopsTypes ==
    ASSUME TransferTypes, NEW b \in Batches, CopyStops(b),
           NEW n, n = handler[b].item, NEW f, f = handler[b].to, NEW p, p = handler[b].part
    PROVE  /\ TransferTypes' /\ OnlyBatch(b) /\ KeepsPlan(b) /\ KeepsTask(b)
           /\ n \in Item /\ f \in Folders /\ p \in Parts(n) /\ handler'[b].pc = "release"
           /\ \/ content' = content
              \/ /\ OnlyEntry(f, n) /\ content'[f][n][p] = "none"
                 /\ \A q \in Parts(n) : q # p => content'[f][n][q] = content[f][n][q]
<1>0. /\ handler[b] \in Record /\ PlaceOK(handler[b]) /\ handler[b].pc = "bytes" /\ ContentOK
      /\ UNCHANGED <<kind, folderOf, asking, resolver, opening, handles>> /\ Fail(b)
  BY DEF TransferTypes, HandlersOK, CopyStops, At, windowVars
<1>1. n \in Item /\ f \in Folders /\ p \in Parts(n) /\ "none" \in Value
  BY <1>0, FolderTypes DEF PlaceOK, Registering, Value
<1>2. content' = content \/ TransferWritten(f, n, p, "none")
  BY DEF CopyStops, TransferWritten
<1>3. /\ ContentOK'
      /\ \/ content' = content
         \/ /\ OnlyEntry(f, n) /\ content'[f][n][p] = "none"
            /\ \A q \in Parts(n) : q # p => content'[f][n][q] = content[f][n][q]
  <2>1. CASE content' = content
    BY <1>0, <2>1, ContentStays
  <2>2. CASE TransferWritten(f, n, p, "none")
    BY <1>0, <1>1, <2>2, WritePart
  <2> QED
    BY <1>2, <2>1, <2>2
<1>4. /\ TransferTypes' /\ OnlyBatch(b) /\ handler'[b].pc = "release"
      /\ KeepsPlan(b) /\ KeepsTask(b)
  BY <1>0, <1>3, FailTypes DEF Registering
<1> QED
  BY <1>1, <1>3, <1>4

LEMMA ItemDoneTypes ==
    ASSUME TransferTypes, NEW b \in Batches, ItemDone(b)
    PROVE  /\ TransferTypes' /\ OnlyBatch(b) /\ handler'[b].pc = "release"
           /\ handler'[b].rest = handler[b].rest /\ handler'[b].all = handler[b].all
           /\ handler'[b].spec = handler[b].spec
           /\ handler'[b].existing = handler[b].existing
           /\ handler'[b].done = handler[b].done \cup {handler[b].item}
<1>1. /\ handler[b].pc = "copy" /\ ContentOK' /\ CountsAsDone(b)
      /\ UNCHANGED <<kind, folderOf, asking, resolver, opening, handles>>
  BY ContentStays DEF TransferTypes, ItemDone, At, windowVars
<1> QED
  BY <1>1, CountsTypes DEF Registering

LEMMA ReleaseItemTypes ==
    ASSUME TransferTypes, NEW b \in Batches, ReleaseItem(b)
    PROVE  /\ TransferTypes' /\ OnlyBatch(b) /\ KeepsPlan(b)
           /\ handler'[b].pc \in {"loop", "moved", "ended"}
<1>0. /\ handler[b] \in Record /\ PlaceOK(handler[b]) /\ handler[b].pc = "release" /\ ContentOK'
      /\ UNCHANGED <<kind, folderOf, asking, resolver, opening>>
  BY ContentStays DEF TransferTypes, HandlersOK, ReleaseItem, At
<1> DEFINE pc == handler[b].next
           h == [handler[b] EXCEPT !.pc = pc]
<1>1. pc \in {"loop", "moved", "ended"}
  BY <1>0 DEF Record
<1>2. handler' = [handler EXCEPT ![b] = h]
  BY DEF ReleaseItem, Go
<1> HIDE DEF pc
<1>3. h \in Record
  BY <1>0, <1>1 DEF Record
<1>4. /\ h.pc = pc /\ h.done = handler[b].done /\ h.rest = handler[b].rest
      /\ h.all = handler[b].all /\ h.spec = handler[b].spec /\ h.existing = handler[b].existing
  BY <1>0 DEF Record
<1> HIDE DEF h
<1>5. PlaceOK(h)
  BY <1>1, <1>4 DEF PlaceOK, Registering
<1>6. HandlersOK' /\ OnlyBatch(b) /\ handler'[b] = h
  BY <1>2, <1>3, <1>5, OneHandler DEF TransferTypes
<1>7. HandlesOK'
  <2>1. DOMAIN handles' = DOMAIN handles \ {<<b, handler[b].item>>}
    BY DEF ReleaseItem, Id
  <2>2. ASSUME NEW id \in DOMAIN handles'
        PROVE  \E c \in Batches : handler'[c].pc \in Registering /\ id = <<c, handler'[c].item>>
    <3>1. PICK c \in Batches : handler[c].pc \in Registering /\ id = <<c, handler[c].item>>
      BY <2>1 DEF TransferTypes, HandlesOK, Id
    <3>2. c # b
      BY <2>1, <3>1
    <3> QED
      BY <1>6, <3>1, <3>2 DEF OnlyBatch
  <2> QED
    BY <2>2 DEF HandlesOK, Id
<1>8. WindowOK'
  BY <1>0, <1>6 DEF TransferTypes, WindowOK, At, OnlyBatch
<1> QED
  BY <1>0, <1>1, <1>4, <1>6, <1>7, <1>8 DEF TransferTypes, KeepsPlan

LEMMA StartDeletingTypes ==
    ASSUME TransferTypes, NEW b \in Batches, StartDeleting(b)
    PROVE  /\ TransferTypes' /\ OnlyBatch(b) /\ KeepsPlan(b)
           /\ \/ handler'[b].pc = "ended"
              \/ handler'[b].pc = "delete" /\ handler'[b].from = From
<1>0. /\ handler[b] \in Record /\ handler[b].pc = "moved" /\ ContentOK'
      /\ UNCHANGED <<kind, folderOf, asking, resolver, opening, handles>>
  BY ContentStays DEF TransferTypes, HandlersOK, StartDeleting, At
<1>1. CASE handler' = [handler EXCEPT ![b].pc = "delete", ![b].from = folderOf["from"]]
  <2> DEFINE h == [handler[b] EXCEPT !.pc = "delete", !.from = folderOf["from"]]
  <2>0. From \in FromFolders /\ From \in Folders
    BY FolderTypes DEF TransferTypes, WindowOK, From
  <2>1. h \in Record
    BY <1>0, <2>0 DEF Record, From
  <2>2. /\ h.pc = "delete" /\ h.from = From
        /\ h.rest = handler[b].rest /\ h.done = handler[b].done /\ h.all = handler[b].all
        /\ h.spec = handler[b].spec
        /\ h.existing = handler[b].existing
    BY <1>0 DEF Record, From
  <2>3. handler' = [handler EXCEPT ![b] = h]
    BY <1>0, <1>1 DEF TransferTypes, HandlersOK, Record
  <2> HIDE DEF h
  <2>4. PlaceOK(h)
    BY <2>0, <2>2 DEF PlaceOK, Registering
  <2>5. TransferTypes' /\ OnlyBatch(b) /\ handler'[b] = h
    BY <1>0, <2>1, <2>2, <2>3, <2>4, StepTypes DEF Registering
  <2> QED
    BY <2>2, <2>5 DEF KeepsPlan
<1>2. CASE Go(b, "ended")
  BY <1>0, <1>2, GoTypes DEF Registering
<1> QED
  BY <1>1, <1>2 DEF StartDeleting

LEMMA DeleteMovedTypes ==
    ASSUME TransferTypes, NEW b \in Batches, DeleteMoved(b), NEW f, f = handler[b].from
    PROVE  /\ TransferTypes' /\ OnlyBatch(b) /\ f \in Folders
           /\ \E n \in handler[b].done \cap Item :
                /\ OnlyEntry(f, n)
                /\ \/ /\ \A p \in Parts(n) : content'[f][n][p] = "none"
                      /\ handler'[b].pc = "delete" /\ handler'[b].from = f
                      /\ handler'[b].rest = handler[b].rest
                      /\ handler'[b].done = handler[b].done \ {n}
                      /\ handler'[b].existing = handler[b].existing
                      /\ handler'[b].all = handler[b].all /\ handler'[b].spec = handler[b].spec
                   \/ /\ \A p \in Parts(n) : content'[f][n][p] \in {"none", content[f][n][p]}
                      /\ content'[f][n]["."] = content[f][n]["."]
                      /\ handler'[b].pc = "ended"
<1>0. /\ handler[b] \in Record /\ PlaceOK(handler[b]) /\ handler[b].pc = "delete" /\ ContentOK
      /\ UNCHANGED <<kind, folderOf, asking, resolver, opening, handles>>
  BY DEF TransferTypes, HandlersOK, DeleteMoved, At
<1>1. f \in Folders /\ handler[b].done \subseteq Item
  BY <1>0, FolderTypes DEF PlaceOK, Record
<1>2. ASSUME NEW n \in handler[b].done, Erased(f, n),
             handler' = [handler EXCEPT ![b].done = @ \ {n}]
      PROVE  /\ TransferTypes' /\ OnlyBatch(b) /\ OnlyEntry(f, n)
             /\ \A p \in Parts(n) : content'[f][n][p] = "none"
             /\ handler'[b].pc = "delete" /\ handler'[b].from = f
             /\ handler'[b].rest = handler[b].rest
             /\ handler'[b].done = handler[b].done \ {n}
             /\ handler'[b].existing = handler[b].existing
             /\ handler'[b].all = handler[b].all /\ handler'[b].spec = handler[b].spec
  <2> DEFINE h == [handler[b] EXCEPT !.done = handler[b].done \ {n}]
  <2>1. h \in Record
    BY <1>0 DEF Record
  <2>2. /\ h.pc = "delete" /\ h.from = f
        /\ h.rest = handler[b].rest /\ h.done = handler[b].done \ {n} /\ h.all = handler[b].all
        /\ h.spec = handler[b].spec
        /\ h.existing = handler[b].existing
    BY <1>0 DEF Record
  <2>3. handler' = [handler EXCEPT ![b] = h]
    BY <1>0, <1>2 DEF TransferTypes, HandlersOK, Record
  <2> HIDE DEF h
  <2>4. PlaceOK(h)
    BY <1>0, <2>2 DEF PlaceOK, Registering
  <2>5. ContentOK' /\ OnlyEntry(f, n) /\ \A p \in Parts(n) : content'[f][n][p] = "none"
    BY <1>0, <1>1, <1>2, ErasedTypes
  <2>6. TransferTypes' /\ OnlyBatch(b) /\ handler'[b] = h
    BY <1>0, <2>1, <2>2, <2>3, <2>4, <2>5, StepTypes DEF Registering
  <2> QED
    BY <2>2, <2>5, <2>6
<1>3. ASSUME NEW n \in handler[b].done, PartlyErased(f, n), Go(b, "ended")
      PROVE  /\ TransferTypes' /\ OnlyBatch(b) /\ OnlyEntry(f, n)
             /\ \A p \in Parts(n) : content'[f][n][p] \in {"none", content[f][n][p]}
             /\ content'[f][n]["."] = content[f][n]["."]
             /\ handler'[b].pc = "ended"
  <2>1. /\ ContentOK' /\ OnlyEntry(f, n)
        /\ \A p \in Parts(n) : content'[f][n][p] \in {"none", content[f][n][p]}
        /\ content'[f][n]["."] = content[f][n]["."]
    BY <1>0, <1>1, <1>3, PartlyErasedTypes
  <2>2. TransferTypes' /\ OnlyBatch(b) /\ handler'[b].pc = "ended"
    BY <1>0, <1>3, <2>1, GoTypes DEF Registering
  <2> QED
    BY <2>1, <2>2
<1>4. \E n \in handler[b].done :
        \/ /\ Erased(handler[b].from, n)
           /\ handler' = [handler EXCEPT ![b].done = @ \ {n}]
        \/ PartlyErased(handler[b].from, n) /\ Go(b, "ended")
  BY Zenon DEF DeleteMoved, Erased, PartlyErased
<1> QED
  BY <1>1, <1>2, <1>3, <1>4

LEMMA EndMoveTypes ==
    ASSUME TransferTypes, NEW b \in Batches, EndMove(b)
    PROVE  TransferTypes' /\ OnlyBatch(b) /\ handler'[b].pc = "ended"
<1>1. /\ handler[b].pc = "delete" /\ ContentOK'
      /\ UNCHANGED <<kind, folderOf, asking, resolver, opening, handles>>
  BY ContentStays DEF TransferTypes, EndMove, At
<1> QED
  BY <1>1, GoTypes DEF EndMove, Registering

\* Steps of the window that leave the handlers alone.
LEMMA QuietTypes ==
    ASSUME TransferTypes, UNCHANGED <<kind, content, handler, resolver>>,
           DOMAIN folderOf' = {"from", "to"},
           folderOf'["from"] \in FromFolders, folderOf'["to"] \in ToFolders,
           asking' \in {"none", "pre", "overwrite"}, opening' \in Seq(ToFolders),
           DOMAIN handles' \subseteq DOMAIN handles
    PROVE  TransferTypes'
<1>1. ContentOK' /\ HandlersOK'
  BY ContentStays DEF TransferTypes, HandlersOK
<1>2. WindowOK'
  BY DEF TransferTypes, WindowOK, At
<1>3. HandlesOK'
  BY DEF TransferTypes, HandlesOK, Id
<1> QED
  BY <1>1, <1>2, <1>3 DEF TransferTypes

LEMMA NavigateTypes ==
    ASSUME TransferTypes, NEW side \in {"from", "to"}, NEW f \in Folders, Navigate(side, f)
    PROVE  TransferTypes'
<1>1. /\ DOMAIN folderOf' = {"from", "to"}
      /\ folderOf'["from"] \in FromFolders /\ folderOf'["to"] \in ToFolders
  BY DEF Navigate, TransferTypes, WindowOK
<1>2. /\ UNCHANGED <<kind, content, handler, resolver, asking, opening, handles>>
      /\ asking \in {"none", "pre", "overwrite"} /\ opening \in Seq(ToFolders)
  BY DEF Navigate, TransferTypes, WindowOK
<1> QED
  BY <1>1, <1>2, QuietTypes

LEMMA ConfirmPreTypes ==
    ASSUME TransferTypes, NEW f, ConfirmPre(f)
    PROVE  TransferTypes'
<1>1. /\ UNCHANGED <<kind, content, handler, resolver, asking, folderOf, handles>>
      /\ asking \in {"none", "pre", "overwrite"} /\ DOMAIN folderOf = {"from", "to"}
      /\ folderOf["from"] \in FromFolders /\ folderOf["to"] \in ToFolders
      /\ opening \in Seq(ToFolders) /\ f \in ToFolders /\ opening' = Append(opening, f)
  BY DEF ConfirmPre, TransferTypes, WindowOK
<1>2. opening' \in Seq(ToFolders)
  BY <1>1
<1> QED
  BY <1>1, <1>2, QuietTypes

LEMMA DestinationFailsTypes ==
    ASSUME TransferTypes, DestinationFails
    PROVE  TransferTypes'
<1>1. /\ UNCHANGED <<kind, content, handler, resolver, asking, folderOf, handles>>
      /\ asking \in {"none", "pre", "overwrite"} /\ DOMAIN folderOf = {"from", "to"}
      /\ folderOf["from"] \in FromFolders /\ folderOf["to"] \in ToFolders
      /\ opening \in Seq(ToFolders) /\ opening # <<>> /\ opening' = Tail(opening)
  BY DEF DestinationFails, TransferTypes, WindowOK
<1>2. opening' \in Seq(ToFolders)
  BY <1>1
<1> QED
  BY <1>1, <1>2, QuietTypes

LEMMA CallTypes ==
    ASSUME TransferTypes, TogglePause \/ DeliverCall \/ \E closes \in BOOLEAN : CancelBatch(closes)
    PROVE  TransferTypes' /\ UNCHANGED <<content, folderOf, asking, resolver, opening, handler,
        givenUp>>
<1>1. /\ UNCHANGED <<kind, content, handler, resolver, asking, folderOf, opening, givenUp>>
      /\ asking \in {"none", "pre", "overwrite"} /\ DOMAIN folderOf = {"from", "to"}
      /\ folderOf["from"] \in FromFolders /\ folderOf["to"] \in ToFolders
      /\ opening \in Seq(ToFolders)
  BY DEF TogglePause, DeliverCall, CancelBatch, windowVars, TransferTypes, WindowOK
<1>2. DOMAIN handles' = DOMAIN handles
  <2>1. CASE DeliverCall
    BY <2>1 DEF DeliverCall
  <2>2. CASE TogglePause \/ \E closes \in BOOLEAN : CancelBatch(closes)
    BY <2>2 DEF TogglePause, CancelBatch
  <2> QED
    BY <2>1, <2>2
<1>3. TransferTypes'
  BY <1>1, <1>2, QuietTypes
<1> QED
  BY <1>1, <1>3

LEMMA StartBatchTypes ==
    ASSUME TransferTypes, NEW b \in Batches, NEW names \in SUBSET Item, NEW move \in BOOLEAN,
           StartBatch(b, names, move)
    PROVE  /\ TransferTypes' /\ OnlyBatch(b) /\ handler'[b].pc = "confirm"
           /\ handler'[b].done = handler[b].done /\ handler'[b].all = handler[b].all
           /\ Attentive /\ opening # <<>> => handler'[b].spec
<1>0. /\ handler[b] \in Record /\ handler[b].pc = "idle" /\ ContentOK'
      /\ UNCHANGED <<kind, folderOf, opening, handles>> /\ asking' = "pre"
      /\ resolver' = [resolver EXCEPT !["pre"] = b]
  BY ContentStays DEF TransferTypes, HandlersOK, StartBatch, At
<1> PICK spec \in BOOLEAN :
        /\ Attentive /\ opening # <<>> => spec
        /\ handler' = [handler EXCEPT ![b].pc = "confirm", ![b].rest = names, ![b].move = move,
                                     ![b].spec = spec]
  BY DEF StartBatch, Specs
<1> DEFINE h == [handler[b] EXCEPT !.pc = "confirm", !.rest = names, !.move = move,
                                   !.spec = spec]
<1>1. h \in Record
  BY <1>0 DEF Record
<1>2. h.pc = "confirm" /\ h.done = handler[b].done /\ h.all = handler[b].all
                       /\ h.spec = spec
  BY <1>0 DEF Record
<1>3. handler' = [handler EXCEPT ![b] = h]
  BY <1>0 DEF TransferTypes, HandlersOK, Record
<1> HIDE DEF h
<1>4. PlaceOK(h)
  BY <1>2 DEF PlaceOK, Registering
<1>5. HandlersOK' /\ handler'[b] = h /\ OnlyBatch(b)
  BY <1>1, <1>3, <1>4, OneHandler DEF TransferTypes
<1>6. HandlesOK'
  BY <1>0, <1>5, HandlesKept DEF TransferTypes, Registering
<1>7. /\ DOMAIN resolver' = {"pre", "overwrite"} /\ resolver'["pre"] = b
      /\ resolver'["overwrite"] = resolver["overwrite"]
  BY <1>0 DEF TransferTypes, WindowOK
<1>8. WindowOK'
  BY <1>0, <1>2, <1>5, <1>7 DEF TransferTypes, WindowOK, At, OnlyBatch
<1> QED
  BY <1>0, <1>2, <1>5, <1>6, <1>8 DEF TransferTypes

\* The question before is answered: whoever waits for it goes to pc.
TransferAnswered(pc) == IF resolver["pre"] # NoBatch THEN Go(resolver["pre"],
    pc) ELSE UNCHANGED handler

LEMMA AnsweredTypes ==
    ASSUME TransferTypes, NEW pc \in {"listing", "ended"}, TransferAnswered(pc),
           UNCHANGED <<kind, content, handles>>, asking' = "none",
           resolver' = [resolver EXCEPT !["pre"] = NoBatch],
           DOMAIN folderOf' = {"from", "to"},
           folderOf'["from"] \in FromFolders, folderOf'["to"] \in ToFolders,
           opening' \in Seq(ToFolders)
    PROVE  /\ TransferTypes'
           /\ \A c \in Batches : \/ handler'[c] = handler[c]
                                 \/ /\ handler[c].pc = "confirm" /\ handler'[c].pc = pc
                                    /\ c = resolver["pre"]
                                    /\ handler'[c].done = handler[c].done
                                    /\ handler'[c].all = handler[c].all
                                    /\ handler'[c].spec = handler[c].spec
<1>0. /\ DOMAIN resolver' = {"pre", "overwrite"} /\ resolver'["pre"] = NoBatch
      /\ resolver'["overwrite"] = resolver["overwrite"] /\ ContentOK' /\ kind' \in Kinds
  BY ContentStays DEF TransferTypes, WindowOK
<1>1. CASE resolver["pre"] = NoBatch
  <2>1. handler' = handler
    BY <1>1 DEF TransferAnswered
  <2>2. WindowOK'
    BY <1>0, <2>1 DEF TransferTypes, WindowOK, At
  <2> QED
    BY <1>0, <2>1, <2>2 DEF TransferTypes, HandlersOK, HandlesOK, Id
<1>2. CASE resolver["pre"] # NoBatch
  <2> DEFINE b == resolver["pre"]
             h == [handler[b] EXCEPT !.pc = pc]
  <2>1. b \in Batches /\ handler[b].pc = "confirm" /\ handler[b] \in Record
    BY <1>2 DEF TransferTypes, WindowOK, At, HandlersOK
  <2>2. handler' = [handler EXCEPT ![b] = h]
    BY <1>2 DEF TransferAnswered, Go
  <2> HIDE DEF b
  <2>3. h \in Record
    BY <2>1 DEF Record
  <2>4. h.pc = pc /\ h.done = handler[b].done /\ h.all = handler[b].all /\ h.spec = handler[b].spec
    BY <2>1 DEF Record
  <2> HIDE DEF h
  <2>5. PlaceOK(h)
    BY <2>4 DEF PlaceOK, Registering
  <2>6. HandlersOK' /\ handler'[b] = h /\ OnlyBatch(b)
    BY <2>1, <2>2, <2>3, <2>5, OneHandler DEF TransferTypes
  <2>7. HandlesOK'
    BY <2>1, <2>6, HandlesKept DEF TransferTypes, Registering
  <2>8. WindowOK'
    BY <1>0, <2>1, <2>6 DEF TransferTypes, WindowOK, At, OnlyBatch
  <2> QED
    BY <1>0, <2>1, <2>4, <2>6, <2>7, <2>8 DEF TransferTypes, OnlyBatch, b
<1> QED
  BY <1>1, <1>2

LEMMA DestinationOpensTypes ==
    ASSUME TransferTypes, DestinationOpens
    PROVE  /\ TransferTypes'
           /\ \A c \in Batches : \/ handler'[c] = handler[c]
                                 \/ /\ handler[c].pc = "confirm" /\ handler'[c].pc = "listing"
                                    /\ handler'[c].done = handler[c].done
                                    /\ handler'[c].all = handler[c].all
                                    /\ handler'[c].spec = handler[c].spec
<1>1. opening \in Seq(ToFolders) /\ opening # <<>> /\ opening' = Tail(opening)
  BY DEF DestinationOpens, TransferTypes, WindowOK
<1>2. opening' \in Seq(ToFolders) /\ Head(opening) \in ToFolders
  BY <1>1
<1>3. /\ DOMAIN folderOf' = {"from", "to"}
      /\ folderOf'["from"] \in FromFolders /\ folderOf'["to"] \in ToFolders
  BY <1>2 DEF DestinationOpens, TransferTypes, WindowOK
<1>4. /\ UNCHANGED <<kind, content, handles>> /\ asking' = "none" /\ TransferAnswered("listing")
      /\ resolver' = [resolver EXCEPT !["pre"] = NoBatch]
  BY Zenon DEF DestinationOpens, TransferAnswered
<1> QED
  BY <1>2, <1>3, <1>4, AnsweredTypes

LEMMA CancelPreTypes ==
    ASSUME TransferTypes, CancelPre
    PROVE  /\ TransferTypes'
           /\ \A c \in Batches : \/ handler'[c] = handler[c]
                                 \/ handler[c].pc = "confirm" /\ handler'[c].pc = "ended"
<1>1. /\ UNCHANGED <<kind, content, handles>> /\ asking' = "none" /\ TransferAnswered("ended")
      /\ resolver' = [resolver EXCEPT !["pre"] = NoBatch]
  BY Zenon DEF CancelPre, TransferAnswered
<1>2. /\ DOMAIN folderOf' = {"from", "to"} /\ opening' \in Seq(ToFolders)
      /\ folderOf'["from"] \in FromFolders /\ folderOf'["to"] \in ToFolders
  BY DEF CancelPre, TransferTypes, WindowOK
<1> QED
  BY <1>1, <1>2, AnsweredTypes

LEMMA TransferInitTypes ==
    ASSUME TransferInit
    PROVE  TransferTypes /\ \A b \in Batches : handler[b].pc = "idle" /\ handler[b].done = {}
                                               /\ ~handler[b].all
<1>1. ContentOK
  <2>1. ASSUME NEW f \in Folders, NEW n \in Item
        PROVE  content[f][n] \in [Parts(n) -> Value]
    BY <2>1 DEF TransferInit, Nothing, Value
  <2> QED
    BY <2>1 DEF TransferInit, ContentOK
<1>2. HandlersOK /\ \A b \in Batches : handler[b].pc = "idle" /\ handler[b].done = {}
                                               /\ ~handler[b].all
  <2>1. NewHandler \in Record
    BY DEF NewHandler, Record, AnyPart, Registering
  <2>2. /\ PlaceOK(NewHandler) /\ NewHandler.pc = "idle" /\ NewHandler.done = {}
        /\ ~NewHandler.all
    BY DEF NewHandler, PlaceOK, Registering
  <2>3. handler = [b \in Batches |-> NewHandler]
    BY DEF TransferInit
  <2> QED
    BY <2>1, <2>2, <2>3 DEF HandlersOK
<1>3. WindowOK
  <2>1. /\ kind \in Kinds /\ asking = "none" /\ opening = <<>>
        /\ resolver = [d \in {"pre", "overwrite"} |-> NoBatch]
    BY DEF TransferInit
  <2>2. PICK f \in FromFolders, g \in ToFolders :
            folderOf = [s \in {"from", "to"} |-> IF s = "from" THEN f ELSE g]
    BY DEF TransferInit
  <2>3. /\ DOMAIN folderOf = {"from", "to"}
        /\ folderOf["from"] \in FromFolders /\ folderOf["to"] \in ToFolders
    BY <2>2
  <2> QED
    BY <2>1, <2>3 DEF WindowOK
<1>4. HandlesOK
  <2>1. handles = <<>>
    BY DEF TransferInit
  <2>2. DOMAIN handles = {}
    BY <2>1
  <2> QED
    BY <2>2 DEF HandlesOK
<1> QED
  BY <1>1, <1>2, <1>3, <1>4 DEF TransferTypes

LEMMA TransferTypesStep ==
    ASSUME TransferTypes, [TransferNext]_transferVars
    PROVE  TransferTypes'
<1>1. ASSUME NEW b \in Batches, BatchStep(b)
      PROVE  TransferTypes'
  BY <1>1, ListDestinationTypes, PrefetchedTypes, NextItemTypes, BeginItemTypes, StartItemTypes,
     LookAtSourceTypes, RemoveDestinationTypes, MakeDirectoryTypes, ListSourceTypes,
     OpenFileTypes, CopyBytesTypes, CopyStopsTypes, ItemDoneTypes, ReleaseItemTypes,
     StartDeletingTypes, DeleteMovedTypes, EndMoveTypes, Zenon DEF BatchStep
<1>2. CASE WindowStep
  BY <1>2, DestinationOpensTypes, DestinationFailsTypes, CancelPreTypes, CallTypes,
     NavigateTypes, ConfirmPreTypes, StartBatchTypes, AnswerConflictTypes, Zenon DEF WindowStep
<1>3. CASE UNCHANGED transferVars
  BY <1>3, QuietTypes DEF transferVars, TransferTypes, WindowOK
<1> QED
  BY <1>1, <1>2, <1>3 DEF TransferNext

LEMMA TypesImply == TransferTypes => TransferTypeOK
<1> SUFFICES ASSUME TransferTypes PROVE TransferTypeOK
  OBVIOUS
<1>1. \A f \in Folders, n \in Item :
        /\ DOMAIN content[f][n] = Parts(n)
        /\ \A p \in Parts(n) : content[f][n][p] \in Folders \cup {"none", "half"}
  BY DEF TransferTypes, ContentOK, Value
<1>2. \A b \in Batches : handler[b].rest \subseteq Item /\ handler[b].done \subseteq Item
  BY DEF TransferTypes, HandlersOK, Record
<1> QED
  BY <1>1, <1>2 DEF TransferTypes, TransferTypeOK, WindowOK, HandlesOK, Registering

\* Every variable of the transfers keeps values of its kind, and an id is registered
\* in the backend only while its item is under way.
THEOREM TransferTypesHold == TransferSpec => []TransferTypeOK
<1>1. TransferInit => TransferTypes
  BY TransferInitTypes
<1>2. TransferTypes /\ [TransferNext]_transferVars => TransferTypes'
  BY TransferTypesStep
<1> QED
  BY <1>1, <1>2, TypesImply, PTL DEF TransferSpec

-----------------------------------------------------------------------------
(* Nothing is lost                                                         *)

Places == TransferTypes /\ SourcesOwn /\ Rooted /\ NothingLost
Apart == FromFolders \cap ToFolders = {}

LEMMA FoldersApart ==
    ASSUME Apart, TransferTypes
    PROVE  From \in FromFolders /\ To \in ToFolders /\ From # To /\ To \notin FromFolders
           /\ From \in Folders /\ To \in Folders /\ From \notin {"none", "half"}
  BY FolderTypes DEF Apart, TransferTypes, WindowOK, From, To

\* A change to one entry loses nothing where each part may be written over or is
\* somewhere else.
LEMMA NothingLostThere ==
    ASSUME NothingLost, NEW f \in Folders, NEW n \in Item, OnlyEntry(f, n),
           givenUp \subseteq givenUp',
           \A p \in Parts(n) : \/ content'[f][n][p] = content[f][n][p]
                               \/ Loose(f, n, p)
                               \/ \E g \in Folders \ {f} : content[g][n][p] = content[f][n][p]
    PROVE  NothingLost'
<1>1. ASSUME NEW o \in Original, NEW p \in Parts(o[2])
      PROVE  \/ \E g \in Folders : content'[g][o[2]][p] = o[1]
             \/ <<o[1], o[2], p>> \in givenUp'
  <2>0. o[1] \in Folders /\ o[2] \in Item
    BY NssTransferAssumption DEF Folders
  <2>1. CASE <<o[1], o[2], p>> \in givenUp
    BY <2>1
  <2>2. ASSUME NEW g \in Folders, content[g][o[2]][p] = o[1]
        PROVE  \/ \E h \in Folders : content'[h][o[2]][p] = o[1]
               \/ <<o[1], o[2], p>> \in givenUp'
    <3>1. CASE g # f \/ o[2] # n
      BY <2>0, <2>2, <3>1 DEF OnlyEntry
    <3>2. CASE g = f /\ o[2] = n
      <4>1. CASE content'[f][n][p] = content[f][n][p]
        BY <2>2, <3>2, <4>1
      <4>2. CASE Loose(f, n, p)
        BY <2>0, <2>2, <3>2, <4>2, FolderTypes DEF Loose
      <4>3. CASE \E h \in Folders \ {f} : content[h][n][p] = content[f][n][p]
        BY <2>2, <3>2, <4>3 DEF OnlyEntry
      <4> QED
        BY <1>1, <3>2, <4>1, <4>2, <4>3
    <3> QED
      BY <3>1, <3>2
  <2> QED
    BY <1>1, <2>1, <2>2 DEF NothingLost
<1> QED
  BY <1>1 DEF NothingLost

\* The destination gets parts of entry n of which none was the only copy.
LEMMA DestinationPlaces ==
    ASSUME Apart, Places, TransferTypes', NEW n \in Item, OnlyEntry(To, n),
           givenUp \subseteq givenUp', folderOf' = folderOf,
           \A p \in Parts(n) : content'[To][n][p] = content[To][n][p] \/ Loose(To, n, p),
           content'[To][n]["."] # "none" \/ \A p \in Parts(n) : content'[To][n][p] = "none"
    PROVE  Places'
<1>1. To \in Folders /\ To \notin FromFolders
  BY FoldersApart DEF Places
<1>2. NothingLost'
  BY <1>1, NothingLostThere DEF Places
<1>3. SourcesOwn'
  BY <1>1, FolderTypes DEF Places, SourcesOwn, OnlyEntry
<1>4. Rooted'
  <2>1. ASSUME NEW g \in Folders, NEW m \in Item, content'[g][m]["."] = "none",
               NEW p \in Parts(m)
        PROVE  content'[g][m][p] = "none"
    BY <2>1 DEF Places, Rooted, OnlyEntry, Here
  <2> QED
    BY <2>1 DEF Rooted, Here
<1> QED
  BY <1>2, <1>3, <1>4 DEF Places

LEMMA SamePlaces ==
    ASSUME Places, TransferTypes', content' = content, givenUp \subseteq givenUp'
    PROVE  Places'
<1>1. NothingLost'
  BY DEF Places, NothingLost
<1>2. SourcesOwn' /\ Rooted'
  BY DEF Places, SourcesOwn, Rooted, Here
<1> QED
  BY <1>1, <1>2 DEF Places

\* A batch that is under way is the only one, and nothing is asked before it.
UnderWay(b) == handler[b].pc \notin {"idle", "confirm", "ended"}

\* A batch that goes on knows the host of its destination.
Informed ==
    /\ \A b \in Batches : UnderWay(b) => handler[b].spec
    /\ opening # <<>> => \A b \in Batches : Ended(b) \/ handler[b].spec

SpecStays(b) ==
    OnlyBatch(b) /\ (handler'[b].spec = handler[b].spec \/ handler'[b].pc = "ended")

\* A handler takes its spec once, when it begins.
LEMMA SpecKept ==
    ASSUME TransferTypes, NEW b \in Batches, BatchStep(b)
    PROVE  SpecStays(b) /\ UnderWay(b) /\ opening' = opening
<1>1. CASE \/ ListDestination(b) \/ Prefetched(b) \/ NextItem(b) \/ BeginItem(b)
           \/ StartItem(b) \/ LookAtSource(b) \/ RemoveDestination(b) \/ MakeDirectory(b)
           \/ ListSource(b)
  <2>1. UnderWay(b) /\ opening' = opening
    BY <1>1 DEF ListDestination, Prefetched, NextItem, BeginItem, StartItem, LookAtSource,
       RemoveDestination, MakeDirectory, ListSource, At, UnderWay, windowVars
  <2>2. SpecStays(b)
    BY <1>1, ListDestinationTypes, PrefetchedTypes, NextItemTypes, BeginItemTypes,
       StartItemTypes, LookAtSourceTypes, RemoveDestinationTypes, MakeDirectoryTypes,
       ListSourceTypes DEF SpecStays, KeepsPlan
  <2> QED
    BY <2>1, <2>2
<1>2. CASE \/ OpenFile(b) \/ CopyBytes(b) \/ CopyStops(b) \/ ItemDone(b) \/ ReleaseItem(b)
           \/ StartDeleting(b) \/ DeleteMoved(b) \/ EndMove(b)
  <2>1. UnderWay(b) /\ opening' = opening
    BY <1>2 DEF OpenFile, CopyBytes, CopyStops, ItemDone, ReleaseItem, StartDeleting,
       DeleteMoved, EndMove, At, UnderWay, windowVars
  <2>2. SpecStays(b)
    BY <1>2, OpenFileTypes, CopyBytesTypes, CopyStopsTypes, ItemDoneTypes, ReleaseItemTypes,
       StartDeletingTypes, DeleteMovedTypes, EndMoveTypes DEF SpecStays, KeepsPlan
  <2> QED
    BY <2>1, <2>2
<1> QED
  BY <1>1, <1>2 DEF BatchStep

LEMMA InformedStep ==
    ASSUME Attentive, TransferTypes, Informed, [TransferNext]_transferVars
    PROVE  Informed'
<1>1. ASSUME NEW b \in Batches, BatchStep(b)
      PROVE  Informed'
  <2>1. SpecStays(b) /\ UnderWay(b) /\ opening' = opening /\ handler[b].spec
    BY <1>1, SpecKept DEF Informed
  <2> QED
    BY <2>1 DEF Informed, SpecStays, OnlyBatch, UnderWay, Ended
<1>2. CASE UNCHANGED <<handler, opening>>
  BY <1>2 DEF Informed, UnderWay, Ended
<1>3. CASE \E f \in Folders : ConfirmPre(f)
  BY <1>3 DEF ConfirmPre, Informed, UnderWay, Ended
<1>4. CASE DestinationFails
  BY <1>4 DEF DestinationFails, Informed, UnderWay, Ended
<1>5. CASE DestinationOpens
  <2>1. opening # <<>> /\ \A b \in Batches : Ended(b) \/ handler[b].spec
    BY <1>5 DEF DestinationOpens, Informed
  <2>2. \A c \in Batches : \/ handler'[c] = handler[c]
                           \/ handler[c].pc = "confirm" /\ handler'[c].spec = handler[c].spec
    BY <1>5, DestinationOpensTypes
  <2>3. \A c \in Batches : Ended(c)' \/ handler'[c].spec
    BY <2>1, <2>2 DEF Ended
  <2> QED
    BY <2>3 DEF Informed, UnderWay, Ended
<1>6. CASE CancelPre
  <2>1. \A c \in Batches : handler'[c] = handler[c] \/ handler'[c].pc = "ended"
    BY <1>6, CancelPreTypes
  <2>2. opening' = opening
    BY <1>6 DEF CancelPre
  <2> QED
    BY <2>1, <2>2 DEF Informed, UnderWay, Ended
<1>7. ASSUME NEW c \in {"replace", "skip", "all", "cancel"}, AnswerConflict(c)
      PROVE  Informed'
  <2> DEFINE b == resolver["overwrite"]
  <2>1. /\ b \in Batches /\ OnlyBatch(b) /\ handler[b].pc = "ask"
        /\ handler'[b].spec = handler[b].spec
    BY <1>7, AnswerConflictTypes
  <2>2. opening' = opening
    BY <1>7 DEF AnswerConflict
  <2> HIDE DEF b
  <2> QED
    BY <2>1, <2>2 DEF Informed, OnlyBatch, UnderWay, Ended
<1>8. ASSUME NEW b \in Batches, NEW names \in SUBSET Item, NEW move \in BOOLEAN,
             StartBatch(b, names, move)
      PROVE  Informed'
  <2>1. /\ handler'[b].pc = "confirm" /\ OnlyBatch(b)
        /\ opening # <<>> => handler'[b].spec
    BY <1>8, StartBatchTypes
  <2>2. opening' = opening /\ \A c \in Batches : Ended(c)
    BY <1>8 DEF StartBatch, MayStart
  <2> QED
    BY <2>1, <2>2 DEF Informed, OnlyBatch, UnderWay, Ended
<1> QED
  <2>1. CASE \/ TogglePause \/ DeliverCall
             \/ \E f \in Folders : Navigate("from", f) \/ Navigate("to", f)
             \/ \E closes \in BOOLEAN : CancelBatch(closes)
             \/ UNCHANGED transferVars
    BY <1>2, <2>1 DEF TogglePause, DeliverCall, Navigate, CancelBatch, windowVars, transferVars
  <2> QED
    BY <1>1, <1>3, <1>4, <1>5, <1>6, <1>7, <1>8, <2>1, Zenon DEF TransferNext, WindowStep

LEMMA BatchKeepsInv ==
    ASSUME TransferInv, NEW b \in Batches, UnderWay(b), OnlyBatch(b), Places', RunOK(handler[b])',
           UNCHANGED <<folderOf, opening>>, asking' # "pre" \/ asking' = asking
    PROVE  TransferInv'
<1>1. asking # "pre" /\ opening = <<>>
  BY DEF TransferInv, OneBatch, UnderWay
<1>2. \A c \in Batches : c # b => handler[c].pc \in {"idle", "ended"}
  BY DEF TransferInv, OneBatch, UnderWay, Ended
<1>3. \A c \in Batches : c # b => handler'[c] = handler[c] /\ RunOK(handler[c])'
  <2>1. ASSUME NEW c \in Batches, c # b
        PROVE  handler'[c] = handler[c] /\ RunOK(handler[c])'
    <3>1. handler'[c] = handler[c] /\ handler[c].pc \in {"idle", "ended"} /\ RunOK(handler[c])
      BY <1>2, <2>1 DEF OnlyBatch, TransferInv
    <3> QED
      BY <3>1 DEF RunOK, Early
  <2> QED
    BY <2>1
<1>4. OneBatch'
  BY <1>1, <1>2, <1>3 DEF TransferInv, OneBatch, Ended
<1> QED
  BY <1>3, <1>4 DEF TransferInv, Places

PlanOK(h) ==
    /\ \A m \in h.rest : Unseen(h, m)
    /\ \A m \in h.done : m \notin h.rest /\ \A p \in Parts(m) : Copied(m, p)

\* What a step leaves alone leaves a handler's plan as good as it was.
LEMMA PlanStays ==
    ASSUME NEW b \in Batches, TransferTypes, RunOK(handler[b]), folderOf' = folderOf,
           givenUp \subseteq givenUp',
           handler[b].pc \notin Early \cup {"ended"}, handler'[b].pc \notin Early \cup {"ended"},
           handler'[b].rest \subseteq handler[b].rest, handler'[b].done \subseteq handler[b].done,
           handler'[b].existing = handler[b].existing, handler'[b].all = handler[b].all,
           NEW f \in Folders, NEW n \in Item, n \notin handler[b].rest, n \notin handler'[b].done,
           content' = content \/ OnlyEntry(f, n)
    PROVE  PlanOK(handler[b])'
<1>0. /\ handler[b].rest \subseteq Item /\ handler[b].done \subseteq Item
      /\ From \in Folders /\ To \in Folders /\ From' = From /\ To' = To
  BY FolderTypes DEF TransferTypes, HandlersOK, Record, WindowOK, From, To
<1>1. \A m \in Item : m # n =>
        content'[From][m] = content[From][m] /\ content'[To][m] = content[To][m]
  BY <1>0 DEF OnlyEntry
<1>2. \A m \in handler'[b].rest : Unseen(handler[b], m)'
  <2>1. ASSUME NEW m \in handler'[b].rest
        PROVE  Unseen(handler[b], m)'
    <3>1. m \in Item /\ m # n /\ Unseen(handler[b], m)
      BY <1>0 DEF RunOK
    <3>2. content'[To][m] = content[To][m]
      BY <1>1, <3>1
    <3> QED
      BY <1>0, <3>1, <3>2 DEF Unseen, Here, Loose
  <2> QED
    BY <2>1
<1>3. \A m \in handler'[b].done : m \notin handler'[b].rest /\ \A p \in Parts(m) : Copied(m, p)'
  <2>1. ASSUME NEW m \in handler'[b].done
        PROVE  m \notin handler'[b].rest /\ \A p \in Parts(m) : Copied(m, p)'
    <3>1. m \in Item /\ m # n /\ m \notin handler[b].rest /\ \A p \in Parts(m) : Copied(m, p)
      BY <1>0 DEF RunOK
    <3>2. content'[To][m] = content[To][m] /\ content'[From][m] = content[From][m]
      BY <1>1, <3>1
    <3> QED
      BY <1>0, <3>1, <3>2 DEF Copied
  <2> QED
    BY <2>1
<1> QED
  BY <1>2, <1>3 DEF PlanOK

\* Before the items are handled the plan is empty but for the names.
LEMMA ListDestinationInv ==
    ASSUME Apart, TransferInv, NEW b \in Batches, handler[b].spec, ListDestination(b)
    PROVE  TransferInv'
<1>1. /\ TransferTypes /\ TransferTypes' /\ OnlyBatch(b)
      /\ \/ handler'[b].pc = "ended"
         \/ /\ handler'[b].pc = "prefetch"
            /\ handler'[b].rest = handler[b].rest /\ handler'[b].done = handler[b].done
            /\ handler'[b].all = handler[b].all
            /\ handler'[b].existing = {n \in Item : Here(To, n)}
  BY ListDestinationTypes DEF TransferInv
<1>2. /\ handler[b].pc = "listing" /\ RunOK(handler[b])
      /\ UNCHANGED <<content, folderOf, asking, opening, givenUp>>
  BY DEF ListDestination, At, windowVars, TransferInv
<1>3. Places'
  BY <1>1, <1>2, SamePlaces DEF TransferInv, Places
<1>4. CASE handler'[b].pc = "ended"
  <2>1. RunOK(handler[b])'
    BY <1>4 DEF RunOK, Early
  <2> QED
    BY <1>1, <1>2, <1>3, <2>1, BatchKeepsInv DEF UnderWay
<1>5. CASE /\ handler'[b].pc = "prefetch"
           /\ handler'[b].rest = handler[b].rest /\ handler'[b].done = handler[b].done
           /\ handler'[b].all = handler[b].all
           /\ handler'[b].existing = {n \in Item : Here(To, n)}
  <2>1. handler'[b].done = {} /\ ~handler'[b].all
    BY <1>2, <1>5 DEF RunOK, Early
  <2>2. \A n \in handler'[b].rest : n \in Item
    BY <1>1 DEF TransferTypes, HandlersOK, Record
  <2>3. To' = To /\ content' = content
    BY <1>2 DEF To
  <2>4. \A n \in handler'[b].rest : Unseen(handler[b], n)'
    BY <1>5, <2>1, <2>2, <2>3 DEF Unseen, Here
  <2>5. RunOK(handler[b])'
    BY <1>5, <2>1, <2>4 DEF RunOK, Early
  <2> QED
    BY <1>1, <1>2, <1>3, <2>5, BatchKeepsInv DEF UnderWay
<1> QED
  BY <1>1, <1>4, <1>5

\* The steps that only take a batch from one place in its loop to another.
LEMMA LoopInv ==
    ASSUME Apart, TransferInv, NEW b \in Batches, TransferTypes', OnlyBatch(b), KeepsPlan(b),
           handler[b].pc \notin Early \cup {"ended"},
           handler'[b].pc \in {"loop", "moved", "release", "ended"},
           UNCHANGED <<content, folderOf, opening, givenUp>>, asking' = asking
    PROVE  TransferInv'
<1>1. TransferTypes /\ RunOK(handler[b]) /\ Places
  BY DEF TransferInv, Places
<1>2. Places'
  BY <1>1, SamePlaces
<1>3. RunOK(handler[b])'
  <2>1. CASE handler'[b].pc = "ended"
    BY <2>1 DEF RunOK, Early
  <2>2. CASE handler'[b].pc \in {"loop", "moved", "release"}
    <3>1. handler'[b].pc \notin Early \cup {"ended"}
      BY <2>2 DEF Early
    <3>2. From' = From /\ To' = To
      BY DEF From, To
    <3>3. /\ \A m \in handler'[b].rest : Unseen(handler[b], m)'
          /\ \A m \in handler'[b].done : m \notin handler'[b].rest
               /\ \A p \in Parts(m) : Copied(m, p)'
      BY <1>1, <3>2 DEF RunOK, Unseen, Here, Loose, Copied, KeepsPlan
    <3> QED
      BY <2>2, <3>3 DEF RunOK, Early
  <2> QED
    BY <2>1, <2>2
<1> QED
  BY <1>2, <1>3, BatchKeepsInv DEF UnderWay, Early

LEMMA NextItemInv ==
    ASSUME Apart, TransferInv, NEW b \in Batches, NextItem(b)
    PROVE  TransferInv'
<1>1. /\ TransferTypes /\ TransferTypes' /\ OnlyBatch(b)
      /\ \/ handler'[b].pc = "moved" /\ KeepsPlan(b)
         \/ /\ handler'[b].pc = "begin" /\ handler'[b].item \in handler[b].rest
            /\ handler'[b].rest = handler[b].rest \ {handler'[b].item}
            /\ handler'[b].done = handler[b].done /\ handler'[b].all = handler[b].all
            /\ handler'[b].existing = handler[b].existing
  BY NextItemTypes DEF TransferInv
<1>2. /\ handler[b].pc = "loop" /\ RunOK(handler[b]) /\ Places
      /\ UNCHANGED <<content, folderOf, asking, opening, givenUp>>
  BY DEF NextItem, At, windowVars, TransferInv, Places
<1>3. CASE handler'[b].pc = "moved" /\ KeepsPlan(b)
  BY <1>1, <1>2, <1>3, LoopInv DEF Early
<1>4. CASE /\ handler'[b].pc = "begin" /\ handler'[b].item \in handler[b].rest
           /\ handler'[b].rest = handler[b].rest \ {handler'[b].item}
           /\ handler'[b].done = handler[b].done /\ handler'[b].all = handler[b].all
           /\ handler'[b].existing = handler[b].existing
  <2>1. Places'
    BY <1>1, <1>2, SamePlaces
  <2>2. From' = From /\ To' = To
    BY <1>2 DEF From, To
  <2>3. /\ \A m \in handler'[b].rest : Unseen(handler[b], m)'
        /\ Unseen(handler[b], handler[b].item)'
        /\ \A m \in handler'[b].done : m \notin handler'[b].rest
             /\ \A p \in Parts(m) : Copied(m, p)'
        /\ handler'[b].item \notin handler'[b].rest \cup handler'[b].done
    BY <1>2, <1>4, <2>2 DEF RunOK, Unseen, Here, Loose, Copied, Early
  <2>4. RunOK(handler[b])'
    BY <1>4, <2>3 DEF RunOK, Early
  <2> QED
    BY <1>1, <1>2, <2>1, <2>4, BatchKeepsInv DEF UnderWay
<1> QED
  BY <1>1, <1>3, <1>4

\* Where there is nothing, everything may be written.
LEMMA AbsentIsLoose ==
    ASSUME Places, NEW n \in Item, ~Here(To, n), To \in Folders
    PROVE  \A p \in Parts(n) : Loose(To, n, p)
  BY DEF Places, Rooted, Loose

LEMMA BeginItemInv ==
    ASSUME Apart, TransferInv, NEW b \in Batches, BeginItem(b)
    PROVE  TransferInv'
<1>1. /\ TransferTypes /\ TransferTypes' /\ OnlyBatch(b) /\ KeepsPlan(b) /\ KeepsTask(b)
      /\ \/ handler'[b].pc = "ask"
         \/ /\ handler'[b].pc = "start" /\ UNCHANGED <<asking, resolver>>
            /\ handler[b].item \in handler[b].existing => handler[b].all
  BY BeginItemTypes DEF TransferInv
<1>2. /\ handler[b].pc = "begin" /\ RunOK(handler[b]) /\ Places /\ PlaceOK(handler[b])
      /\ UNCHANGED <<content, folderOf, opening, givenUp>>
      /\ asking' # "pre" \/ asking' = asking
  BY DEF BeginItem, At, windowVars, TransferInv, Places, TransferTypes, HandlersOK
<1>3. Places'
  BY <1>1, <1>2, SamePlaces
<1>4. From' = From /\ To' = To /\ handler[b].item \in Item
  BY <1>2 DEF From, To, PlaceOK
<1>5. /\ \A m \in handler'[b].rest : Unseen(handler[b], m)'
      /\ Unseen(handler[b], handler[b].item)'
      /\ \A m \in handler'[b].done : m \notin handler'[b].rest
           /\ \A p \in Parts(m) : Copied(m, p)'
      /\ handler'[b].item \notin handler'[b].rest \cup handler'[b].done
  BY <1>1, <1>2, <1>4 DEF RunOK, Unseen, Here, Loose, Copied, Early, KeepsPlan, KeepsTask
<1>6. CASE handler'[b].pc = "ask"
  <2>1. RunOK(handler[b])'
    BY <1>5, <1>6 DEF RunOK, Early
  <2> QED
    BY <1>1, <1>2, <1>3, <2>1, BatchKeepsInv DEF UnderWay
<1>7. CASE /\ handler'[b].pc = "start"
           /\ handler[b].item \in handler[b].existing => handler[b].all
  <2>1. handler[b].item \notin handler[b].existing => ~Here(To, handler[b].item)
    BY <1>2 DEF RunOK, Unseen
  <2>2. \A p \in Parts(handler[b].item) : Loose(To, handler[b].item, p)
    <3>1. CASE handler[b].item \in handler[b].existing
      BY <1>2, <1>7, <3>1 DEF RunOK, Unseen
    <3>2. CASE handler[b].item \notin handler[b].existing
      BY <1>1, <1>2, <1>4, <2>1, <3>2, AbsentIsLoose, FoldersApart
    <3> QED
      BY <3>1, <3>2
  <2>3. /\ handler'[b].item \notin handler'[b].existing => ~Here(To, handler[b].item)'
        /\ \A p \in Parts(handler'[b].item) : Loose(To, handler[b].item, p)'
    BY <1>1, <1>2, <1>4, <2>1, <2>2 DEF KeepsTask, KeepsPlan, Here, Loose
  <2>4. RunOK(handler[b])'
    BY <1>5, <1>7, <2>3 DEF RunOK, Early
  <2> QED
    BY <1>1, <1>2, <1>3, <2>4, BatchKeepsInv DEF UnderWay
<1> QED
  BY <1>1, <1>6, <1>7

AtItem == {"start", "look", "remove", "mkdir", "list", "copy", "bytes"}

\* What every step on an item has in common: it writes to that entry of the
\* destination only, over parts that may be written over.
LEMMA ItemStep ==
    ASSUME Apart, TransferInv, NEW b \in Batches, TransferTypes', OnlyBatch(b), KeepsPlan(b),
           handler[b].pc \in AtItem, NEW n \in Item, n = handler[b].item,
           UNCHANGED <<folderOf, asking, opening, givenUp>>,
           \/ content' = content
           \/ /\ OnlyEntry(To, n)
              /\ \A p \in Parts(n) : content'[To][n][p] = content[To][n][p] \/ Loose(To, n, p)
              /\ \/ content'[To][n]["."] # "none"
                 \/ \A p \in Parts(n) : content'[To][n][p] = "none",
           handler'[b].pc \in AtItem \cup {"release"}
    PROVE  /\ Places' /\ PlanOK(handler[b])' /\ n \notin handler'[b].rest \cup handler'[b].done
           /\ RunOK(handler[b])' => TransferInv'
           /\ handler'[b].pc = "release" => TransferInv'
<1>1. TransferTypes /\ RunOK(handler[b]) /\ Places
  BY DEF TransferInv, Places
<1>2. Places'
  BY <1>1, SamePlaces, DestinationPlaces
<1>3. n \notin handler[b].rest \cup handler[b].done
  BY <1>1 DEF RunOK, AtItem
<1>4. PlanOK(handler[b])'
  <2>1. /\ handler[b].pc \notin Early \cup {"ended"} /\ handler'[b].pc \notin Early \cup {"ended"}
        /\ handler'[b].rest \subseteq handler[b].rest /\ handler'[b].done \subseteq handler[b].done
        /\ handler'[b].existing = handler[b].existing /\ handler'[b].all = handler[b].all
        /\ n \notin handler[b].rest /\ n \notin handler'[b].done
        /\ content' = content \/ OnlyEntry(To, n)
        /\ folderOf' = folderOf /\ givenUp \subseteq givenUp'
    BY <1>3 DEF Early, AtItem, KeepsPlan
  <2>2. To \in Folders
    BY <1>1, FoldersApart
  <2> QED
    BY <1>1, <2>1, <2>2, PlanStays
<1>5. RunOK(handler[b])' => TransferInv'
  BY <1>2, BatchKeepsInv DEF UnderWay, AtItem
<1>6. handler'[b].pc = "release" => RunOK(handler[b])'
  BY <1>4 DEF RunOK, PlanOK, Early
<1> QED
  BY <1>2, <1>3, <1>4, <1>5, <1>6 DEF KeepsPlan

LEMMA StartItemInv ==
    ASSUME Apart, TransferInv, NEW b \in Batches, handler[b].spec, StartItem(b)
    PROVE  TransferInv'
<1> DEFINE n == handler[b].item
<1>1. /\ TransferTypes' /\ OnlyBatch(b) /\ KeepsPlan(b)
      /\ \/ handler'[b].pc = "release"
         \/ /\ handler'[b].pc = "look" /\ handler'[b].item = n
            /\ handler'[b].from = From /\ handler'[b].to = To
  BY StartItemTypes DEF TransferInv
<1>2. /\ handler[b].pc = "start" /\ RunOK(handler[b]) /\ n \in Item
      /\ UNCHANGED <<content, folderOf, asking, opening, givenUp>>
  BY DEF StartItem, At, windowVars, TransferInv, TransferTypes, HandlersOK, PlaceOK, Registering
<1>3. /\ PlanOK(handler[b])' /\ n \notin handler'[b].rest \cup handler'[b].done
      /\ RunOK(handler[b])' => TransferInv'
      /\ handler'[b].pc = "release" => TransferInv'
  BY <1>1, <1>2, ItemStep DEF AtItem
<1>4. CASE handler'[b].pc = "look" /\ handler'[b].item = n
           /\ handler'[b].from = From /\ handler'[b].to = To
  <2>1. From' = From /\ To' = To
    BY <1>2 DEF From, To
  <2>2. /\ n \notin handler[b].existing => ~Here(To, n)
        /\ \A p \in Parts(n) : Loose(To, n, p)
    BY <1>2 DEF RunOK
  <2>3. /\ n \notin handler'[b].existing => ~Here(To, n)'
        /\ \A p \in Parts(n) : Loose(To, n, p)'
    BY <1>1, <1>2, <1>4, <2>1, <2>2 DEF KeepsPlan, Here, Loose
  <2>4. RunOK(handler[b])'
    BY <1>3, <1>4, <2>1, <2>3 DEF RunOK, PlanOK, Early
  <2> QED
    BY <1>3, <2>4
<1> QED
  BY <1>1, <1>3, <1>4

LEMMA LookAtSourceInv ==
    ASSUME Apart, TransferInv, NEW b \in Batches, LookAtSource(b)
    PROVE  TransferInv'
<1> DEFINE n == handler[b].item
<1>1. /\ TransferTypes /\ TransferTypes' /\ OnlyBatch(b) /\ KeepsPlan(b) /\ KeepsTask(b)
      /\ \/ handler'[b].pc = "release"
         \/ /\ handler'[b].pc = IF n \in handler[b].existing THEN "remove" ELSE "mkdir"
            /\ IsTree(n) /\ Here(handler[b].from, n)
         \/ /\ handler'[b].pc = "copy" /\ handler'[b].todo = {"."}
            /\ ~(IsTree(n) /\ Here(handler[b].from, n))
  BY LookAtSourceTypes DEF TransferInv
<1>2. /\ handler[b].pc = "look" /\ RunOK(handler[b]) /\ n \in Item /\ Places
      /\ UNCHANGED <<content, folderOf, asking, opening, givenUp>>
  BY DEF LookAtSource, At, windowVars, TransferInv, TransferTypes, HandlersOK, PlaceOK,
         Registering, Places
<1>3. /\ PlanOK(handler[b])' /\ n \notin handler'[b].rest \cup handler'[b].done
      /\ RunOK(handler[b])' => TransferInv'
      /\ handler'[b].pc = "release" => TransferInv'
  BY <1>1, <1>2, ItemStep DEF AtItem
<1>4. /\ handler[b].from = From /\ handler[b].to = To
      /\ handler'[b].item = n /\ handler'[b].from = From' /\ handler'[b].to = To'
      /\ From' = From /\ To' = To
  BY <1>1, <1>2 DEF RunOK, KeepsTask, From, To
<1>5. /\ n \notin handler[b].existing => ~Here(To, n)
      /\ \A p \in Parts(n) : Loose(To, n, p)
  BY <1>2 DEF RunOK
<1>6. /\ n \notin handler[b].existing => ~Here(To, n)'
      /\ \A p \in Parts(n) : Loose(To, n, p)'
  BY <1>2, <1>4, <1>5 DEF Here, Loose
<1>7. CASE /\ handler'[b].pc = IF n \in handler[b].existing THEN "remove" ELSE "mkdir"
           /\ IsTree(n) /\ Here(handler[b].from, n)
  <2>1. IsTree(n) /\ Here(From, n)'
    BY <1>2, <1>4, <1>7 DEF Here
  <2>2. RunOK(handler[b])'
    BY <1>3, <1>4, <1>6, <1>7, <2>1 DEF RunOK, PlanOK, Early
  <2> QED
    BY <1>3, <2>2
<1>8. CASE /\ handler'[b].pc = "copy" /\ handler'[b].todo = {"."}
           /\ ~(IsTree(n) /\ Here(handler[b].from, n))
  <2>1. ~(IsTree(n) /\ Here(From, n)')
    BY <1>2, <1>4, <1>8 DEF Here
  <2>2. \A p \in Parts(n) \ {"."} : Copied(n, p)'
    BY <1>1, <1>2, <1>4, <1>8, PartTypes, FoldersApart DEF Places, Rooted, Copied
  <2>3. RunOK(handler[b])'
    BY <1>2, <1>3, <1>4, <1>6, <1>8, <2>1, <2>2, PartTypes DEF RunOK, PlanOK, Early
  <2> QED
    BY <1>3, <2>3
<1> QED
  BY <1>1, <1>3, <1>7, <1>8

LEMMA RemoveDestinationInv ==
    ASSUME Apart, TransferInv, NEW b \in Batches, RemoveDestination(b)
    PROVE  TransferInv'
<1> DEFINE n == handler[b].item
           f == handler[b].to
<1>1. /\ TransferTypes /\ TransferTypes' /\ OnlyBatch(b) /\ KeepsPlan(b) /\ KeepsTask(b)
      /\ n \in Item /\ f \in Folders /\ OnlyEntry(f, n)
      /\ \/ handler'[b].pc = "mkdir" /\ \A p \in Parts(n) : content'[f][n][p] = "none"
         \/ /\ handler'[b].pc = "release"
            /\ \A p \in Parts(n) : content'[f][n][p] \in {"none", content[f][n][p]}
            /\ content'[f][n]["."] = content[f][n]["."]
  BY RemoveDestinationTypes DEF TransferInv
<1>2. /\ handler[b].pc = "remove" /\ RunOK(handler[b]) /\ Places
      /\ UNCHANGED <<folderOf, asking, opening, givenUp>>
  BY DEF RemoveDestination, At, windowVars, TransferInv, Places
<1>3. /\ From' = From /\ To' = To /\ f = To
      /\ handler'[b].item = n /\ handler'[b].from = From' /\ handler'[b].to = To'
  BY <1>1, <1>2 DEF RunOK, KeepsTask, From, To
<1>4. /\ \A p \in Parts(n) : Loose(To, n, p)
      /\ \/ content'[To][n]["."] # "none"
         \/ \A p \in Parts(n) : content'[To][n][p] = "none"
  <2>1. \A p \in Parts(n) : Loose(To, n, p)
    BY <1>2 DEF RunOK
  <2>2. CASE content'[To][n]["."] = content[To][n]["."]
             /\ \A p \in Parts(n) : content'[To][n][p] \in {"none", content[To][n][p]}
    <3>1. content[To][n]["."] = "none" => \A p \in Parts(n) : content[To][n][p] = "none"
      BY <1>1, <1>2, <1>3 DEF Places, Rooted, Here
    <3> QED
      BY <2>1, <2>2, <3>1
  <2> QED
    BY <1>1, <1>3, <2>1, <2>2
<1>5. /\ PlanOK(handler[b])' /\ n \notin handler'[b].rest \cup handler'[b].done
      /\ RunOK(handler[b])' => TransferInv'
      /\ handler'[b].pc = "release" => TransferInv'
  BY <1>1, <1>2, <1>3, <1>4, ItemStep DEF AtItem
<1>6. CASE handler'[b].pc = "mkdir" /\ \A p \in Parts(n) : content'[f][n][p] = "none"
  <2>1. IsTree(n) /\ Here(From, n)' /\ ~Here(To, n)'
    BY <1>1, <1>2, <1>3, <1>6, FoldersApart, PartTypes DEF RunOK, Here, OnlyEntry
  <2>2. RunOK(handler[b])'
    BY <1>3, <1>5, <1>6, <2>1 DEF RunOK, PlanOK, Early
  <2> QED
    BY <1>5, <2>2
<1> QED
  BY <1>1, <1>5, <1>6

LEMMA MakeDirectoryInv ==
    ASSUME Apart, TransferInv, NEW b \in Batches, MakeDirectory(b)
    PROVE  TransferInv'
<1> DEFINE n == handler[b].item
           f == handler[b].to
<1>1. /\ TransferTypes /\ TransferTypes' /\ OnlyBatch(b) /\ KeepsPlan(b) /\ KeepsTask(b)
      /\ n \in Item /\ f \in Folders
      /\ \/ handler'[b].pc = "list" /\ Here(f, n) /\ content' = content
         \/ /\ handler'[b].pc = "list" /\ ~Here(f, n) /\ OnlyEntry(f, n)
            /\ content'[f][n]["."] = handler[b].from
            /\ \A p \in Parts(n) : p # "." => content'[f][n][p] = content[f][n][p]
         \/ handler'[b].pc = "release" /\ content' = content
  BY MakeDirectoryTypes DEF TransferInv
<1>2. /\ handler[b].pc = "mkdir" /\ RunOK(handler[b]) /\ Places
      /\ UNCHANGED <<folderOf, asking, opening, givenUp>>
  BY DEF MakeDirectory, At, windowVars, TransferInv, Places
<1>3. /\ From' = From /\ To' = To /\ f = To /\ handler[b].from = From
      /\ handler'[b].item = n /\ handler'[b].from = From' /\ handler'[b].to = To'
      /\ IsTree(n) /\ Here(From, n) /\ ~Here(To, n)
  BY <1>1, <1>2 DEF RunOK, KeepsTask, From, To
<1>4. \A p \in Parts(n) : Loose(To, n, p) /\ content[To][n][p] = "none"
  BY <1>1, <1>2, <1>3 DEF Loose, Places, Rooted
<1>5. CASE handler'[b].pc = "release" /\ content' = content
  BY <1>1, <1>2, <1>5, ItemStep DEF AtItem
<1>6. CASE /\ handler'[b].pc = "list" /\ OnlyEntry(f, n)
           /\ content'[f][n]["."] = handler[b].from
           /\ \A p \in Parts(n) : p # "." => content'[f][n][p] = content[f][n][p]
  <2>1. From \notin {"none", "half"} /\ From # To /\ From \in Folders
    BY <1>1, FoldersApart
  <2>2. content'[To][n]["."] = From /\ \A p \in Parts(n) \ {"."} : content'[To][n][p] = "none"
    BY <1>3, <1>4, <1>6
  <2>3. /\ PlanOK(handler[b])' /\ n \notin handler'[b].rest \cup handler'[b].done
        /\ RunOK(handler[b])' => TransferInv'
    BY <1>1, <1>2, <1>3, <1>4, <1>6, <2>1, <2>2, ItemStep DEF AtItem
  <2>4. Here(From, n)'
    BY <1>1, <1>3, <1>6, <2>1 DEF Here, OnlyEntry
  <2>5. RunOK(handler[b])'
    BY <1>3, <1>6, <2>2, <2>3, <2>4 DEF RunOK, PlanOK, Early
  <2> QED
    BY <2>3, <2>5
<1> QED
  BY <1>1, <1>3, <1>5, <1>6

LEMMA ListSourceInv ==
    ASSUME Apart, TransferInv, NEW b \in Batches, ListSource(b)
    PROVE  TransferInv'
<1> DEFINE n == handler[b].item
<1>1. /\ TransferTypes /\ TransferTypes' /\ OnlyBatch(b) /\ KeepsPlan(b) /\ KeepsTask(b)
      /\ \/ handler'[b].pc = "release"
         \/ /\ handler'[b].pc = "copy"
            /\ handler'[b].todo = {p \in Parts(n) \ {"."} : content[handler[b].from][n][p] # "none"}
  BY ListSourceTypes DEF TransferInv
<1>2. /\ handler[b].pc = "list" /\ RunOK(handler[b]) /\ Places /\ n \in Item
      /\ UNCHANGED <<content, folderOf, asking, opening, givenUp>>
  BY DEF ListSource, At, windowVars, TransferInv, TransferTypes, HandlersOK, PlaceOK,
         Registering, Places
<1>3. /\ PlanOK(handler[b])' /\ n \notin handler'[b].rest \cup handler'[b].done
      /\ RunOK(handler[b])' => TransferInv'
      /\ handler'[b].pc = "release" => TransferInv'
  BY <1>1, <1>2, ItemStep DEF AtItem
<1>4. /\ handler[b].from = From /\ handler[b].to = To
      /\ handler'[b].item = n /\ handler'[b].from = From' /\ handler'[b].to = To'
      /\ From' = From /\ To' = To
  BY <1>1, <1>2 DEF RunOK, KeepsTask, From, To
<1>5. CASE /\ handler'[b].pc = "copy"
           /\ handler'[b].todo = {p \in Parts(n) \ {"."} : content[handler[b].from][n][p] # "none"}
  <2>0. From \in FromFolders /\ From \notin {"none", "half"}
    BY <1>1, FoldersApart
  <2>1. /\ IsTree(n) /\ Here(From, n) /\ content[To][n]["."] = From
        /\ \A p \in Parts(n) \ {"."} : content[To][n][p] = "none"
    BY <1>2 DEF RunOK
  <2>2. content[From][n]["."] = From
    BY <1>2, <2>0, <2>1, PartTypes DEF Places, SourcesOwn, Here
  <2>3. \A p \in handler'[b].todo : Loose(To, n, p)'
    BY <1>2, <1>4, <1>5, <2>1 DEF Loose
  <2>4. \A p \in Parts(n) \ handler'[b].todo : Copied(n, p)'
    BY <1>2, <1>4, <1>5, <2>1, <2>2 DEF Copied
  <2>5. "." \notin handler'[b].todo /\ Here(To, n)'
    BY <1>2, <1>4, <1>5, <2>0, <2>1 DEF Here
  <2>6. RunOK(handler[b])'
    BY <1>3, <1>4, <1>5, <2>3, <2>4, <2>5 DEF RunOK, PlanOK, Early
  <2> QED
    BY <1>3, <2>6
<1> QED
  BY <1>1, <1>3, <1>5

\* A file that is in the source has its directory in the destination.
LEMMA FileHasItsRoot ==
    ASSUME Apart, TransferInv, NEW b \in Batches, handler[b].pc \in {"copy", "bytes"},
           NEW n, n = handler[b].item, n \in Item, NEW p \in handler[b].todo, p \in Parts(n),
           content[From][n][p] # "none"
    PROVE  p # "." => IsTree(n) /\ Here(From, n) /\ Here(To, n)
<1>1. From \in Folders /\ Rooted /\ RunOK(handler[b])
  BY FoldersApart DEF TransferInv
<1>2. Here(From, n)
  BY <1>1 DEF Rooted
<1>3. p # "." => IsTree(n)
  BY PartTypes
<1> QED
  BY <1>1, <1>2, <1>3 DEF RunOK

LEMMA OpenFileInv ==
    ASSUME Apart, TransferInv, NEW b \in Batches, OpenFile(b)
    PROVE  TransferInv'
<1> DEFINE n == handler[b].item
           f == handler[b].to
           p == handler'[b].part
<1>1. /\ TransferTypes /\ TransferTypes' /\ OnlyBatch(b) /\ KeepsPlan(b) /\ KeepsTask(b)
      /\ n \in Item /\ f \in Folders
      /\ \/ handler'[b].pc = "release" /\ content' = content
         \/ handler'[b].pc = "release" /\ OpenDropped(b, f, n)
         \/ /\ handler'[b].pc = "bytes" /\ handler'[b].todo = handler[b].todo
            /\ p \in handler[b].todo
            /\ content[handler[b].from][n][p] # "none"
            /\ OnlyEntry(f, n) /\ content'[f][n][p] = "half"
            /\ \A q \in Parts(n) : q # p => content'[f][n][q] = content[f][n][q]
  BY OpenFileTypes DEF TransferInv
<1>2. /\ handler[b].pc = "copy" /\ RunOK(handler[b]) /\ Places /\ PlaceOK(handler[b])
      /\ UNCHANGED <<folderOf, asking, opening, givenUp>>
  BY DEF OpenFile, At, windowVars, TransferInv, TransferTypes, HandlersOK, Places
<1>3. /\ From' = From /\ To' = To /\ f = To /\ handler[b].from = From
      /\ handler'[b].item = n /\ handler'[b].from = From' /\ handler'[b].to = To'
      /\ handler[b].todo \subseteq Parts(n)
  BY <1>1, <1>2 DEF RunOK, KeepsTask, From, To, PlaceOK
<1>4. CASE handler'[b].pc = "release" /\ content' = content
  BY <1>1, <1>2, <1>4, ItemStep DEF AtItem
<1>5. CASE /\ handler'[b].pc = "bytes" /\ handler'[b].todo = handler[b].todo
           /\ p \in handler[b].todo
           /\ content[handler[b].from][n][p] # "none"
           /\ OnlyEntry(f, n) /\ content'[f][n][p] = "half"
           /\ \A q \in Parts(n) : q # p => content'[f][n][q] = content[f][n][q]
  <2>0. From \in Folders /\ From # To /\ From \notin {"none", "half"}
    BY <1>1, FoldersApart
  <2>1. /\ \A q \in handler[b].todo : Loose(To, n, q)
        /\ \A q \in Parts(n) \ handler[b].todo : Copied(n, q)
        /\ IsTree(n) /\ Here(From, n) => "." \notin handler[b].todo /\ Here(To, n)
    BY <1>2 DEF RunOK
  <2>2. p # "." => IsTree(n) /\ Here(From, n) /\ Here(To, n)
    BY <1>1, <1>2, <1>3, <1>5, FileHasItsRoot
  <2>3. content'[To][n]["."] # "none"
    BY <1>1, <1>3, <1>5, <2>2, PartTypes DEF Here
  <2>4. /\ PlanOK(handler[b])' /\ n \notin handler'[b].rest \cup handler'[b].done
        /\ RunOK(handler[b])' => TransferInv'
    <3>1. \A q \in Parts(n) : content'[To][n][q] = content[To][n][q] \/ Loose(To, n, q)
      BY <1>3, <1>5, <2>1
    <3> QED
      BY <1>1, <1>2, <1>3, <1>5, <2>3, <3>1, ItemStep DEF AtItem
  <2>5. content'[From][n] = content[From][n]
    BY <1>1, <1>3, <1>5, <2>0 DEF OnlyEntry
  <2>6. \A q \in handler'[b].todo : Loose(To, n, q)'
    BY <1>2, <1>3, <1>5, <2>1 DEF Loose
  <2>7. \A q \in Parts(n) \ handler'[b].todo : Copied(n, q)'
    BY <1>3, <1>5, <2>1, <2>5 DEF Copied
  <2>8. IsTree(n) /\ Here(From, n)' => "." \notin handler'[b].todo /\ Here(To, n)'
    BY <1>3, <1>5, <2>1, <2>3, <2>5 DEF Here
  <2>9. content'[To][n][p] = "half" /\ content'[From][n][p] # "none"
    BY <1>3, <1>5, <2>5
  <2>10. RunOK(handler[b])'
    BY <1>3, <1>5, <2>4, <2>6, <2>7, <2>8, <2>9 DEF RunOK, PlanOK, Early
  <2> QED
    BY <2>4, <2>10
<1>6. CASE handler'[b].pc = "release" /\ OpenDropped(b, f, n)
  <2> PICK q \in handler[b].todo :
        /\ content[handler[b].from][n][q] # "none"
        /\ OnlyEntry(f, n) /\ content'[f][n][q] = "none"
        /\ \A r \in Parts(n) : r # q => content'[f][n][r] = content[f][n][r]
    BY <1>6 DEF OpenDropped
  <2>1. /\ Loose(To, n, q) /\ content[From][n][q] # "none"
        /\ IsTree(n) /\ Here(From, n) => "." \notin handler[b].todo
    BY <1>2, <1>3 DEF RunOK
  <2>2. q # "." => Here(To, n)
    BY <1>1, <1>2, <1>3, <2>1, FileHasItsRoot
  <2>3. q = "." => Parts(n) = {"."}
    <3>1. q = "." => ~IsTree(n)
      BY <1>3, <2>1 DEF Here
    <3> QED
      BY <1>1, <3>1, PartTypes
  <2>4. content'[To][n]["."] # "none" \/ \A r \in Parts(n) : content'[To][n][r] = "none"
    BY <1>1, <1>3, <2>2, <2>3, PartTypes DEF Here
  <2>5. \A r \in Parts(n) : content'[To][n][r] = content[To][n][r] \/ Loose(To, n, r)
    BY <1>3, <2>1
  <2> QED
    BY <1>1, <1>2, <1>3, <1>6, <2>4, <2>5, ItemStep DEF AtItem
<1> QED
  BY <1>1, <1>4, <1>5, <1>6

LEMMA CopyBytesInv ==
    ASSUME Apart, TransferInv, NEW b \in Batches, CopyBytes(b)
    PROVE  TransferInv'
<1> DEFINE n == handler[b].item
           f == handler[b].to
           p == handler[b].part
<1>1. /\ TransferTypes /\ TransferTypes' /\ OnlyBatch(b) /\ KeepsPlan(b) /\ KeepsTask(b)
      /\ n \in Item /\ f \in Folders /\ p \in Parts(n)
      /\ handler'[b].pc = "copy" /\ handler'[b].todo = handler[b].todo \ {p}
      /\ OnlyEntry(f, n) /\ content'[f][n][p] = content[handler[b].from][n][p]
      /\ \A q \in Parts(n) : q # p => content'[f][n][q] = content[f][n][q]
  BY CopyBytesTypes DEF TransferInv
<1>2. /\ handler[b].pc = "bytes" /\ RunOK(handler[b]) /\ Places /\ PlaceOK(handler[b])
      /\ UNCHANGED <<folderOf, asking, opening, givenUp>>
  BY DEF CopyBytes, At, windowVars, TransferInv, TransferTypes, HandlersOK, Places
<1>3. /\ From' = From /\ To' = To /\ f = To /\ handler[b].from = From
      /\ handler'[b].item = n /\ handler'[b].from = From' /\ handler'[b].to = To'
      /\ handler[b].todo \subseteq Parts(n) /\ p \in handler[b].todo
  BY <1>1, <1>2 DEF RunOK, KeepsTask, From, To, PlaceOK
<1>4. From \in Folders /\ From # To /\ From \notin {"none", "half"}
  BY <1>1, FoldersApart
<1>5. /\ \A q \in handler[b].todo : Loose(To, n, q)
      /\ \A q \in Parts(n) \ handler[b].todo : Copied(n, q)
      /\ IsTree(n) /\ Here(From, n) => "." \notin handler[b].todo /\ Here(To, n)
      /\ content[To][n][p] = "half" /\ content[From][n][p] # "none"
  BY <1>2 DEF RunOK
<1>6. p # "." => IsTree(n) /\ Here(From, n) /\ Here(To, n)
  BY <1>1, <1>2, <1>3, <1>5, FileHasItsRoot
<1>7. content'[To][n]["."] # "none"
  BY <1>1, <1>3, <1>5, <1>6, PartTypes DEF Here
<1>8. /\ PlanOK(handler[b])' /\ n \notin handler'[b].rest \cup handler'[b].done
      /\ RunOK(handler[b])' => TransferInv'
  <2>1. \A q \in Parts(n) : content'[To][n][q] = content[To][n][q] \/ Loose(To, n, q)
    BY <1>1, <1>3, <1>5
  <2> QED
    BY <1>1, <1>2, <1>3, <1>7, <2>1, ItemStep DEF AtItem
<1>9. content'[From][n] = content[From][n]
  BY <1>1, <1>3, <1>4 DEF OnlyEntry
<1>10. \A q \in handler'[b].todo : Loose(To, n, q)'
  BY <1>1, <1>2, <1>3, <1>5 DEF Loose
<1>11. \A q \in Parts(n) \ handler'[b].todo : Copied(n, q)'
  BY <1>1, <1>3, <1>5, <1>9 DEF Copied
<1>12. IsTree(n) /\ Here(From, n)' => "." \notin handler'[b].todo /\ Here(To, n)'
  BY <1>1, <1>3, <1>5, <1>7, <1>9 DEF Here
<1>13. RunOK(handler[b])'
  BY <1>1, <1>3, <1>8, <1>10, <1>11, <1>12 DEF RunOK, PlanOK, Early
<1> QED
  BY <1>8, <1>13

LEMMA CopyStopsInv ==
    ASSUME Apart, TransferInv, NEW b \in Batches, CopyStops(b)
    PROVE  TransferInv'
<1> DEFINE n == handler[b].item
           f == handler[b].to
           p == handler[b].part
<1>1. /\ TransferTypes /\ TransferTypes' /\ OnlyBatch(b) /\ KeepsPlan(b) /\ KeepsTask(b)
      /\ n \in Item /\ f \in Folders /\ p \in Parts(n) /\ handler'[b].pc = "release"
      /\ \/ content' = content
         \/ /\ OnlyEntry(f, n) /\ content'[f][n][p] = "none"
            /\ \A q \in Parts(n) : q # p => content'[f][n][q] = content[f][n][q]
  BY CopyStopsTypes DEF TransferInv
<1>2. /\ handler[b].pc = "bytes" /\ RunOK(handler[b]) /\ Places /\ PlaceOK(handler[b])
      /\ UNCHANGED <<folderOf, asking, opening, givenUp>>
  BY DEF CopyStops, At, windowVars, TransferInv, TransferTypes, HandlersOK, Places
<1>3. f = To /\ handler[b].from = From /\ p \in handler[b].todo
  BY <1>2 DEF RunOK, PlaceOK
<1>4. CASE content' = content
  BY <1>1, <1>2, <1>4, ItemStep DEF AtItem
<1>5. CASE /\ OnlyEntry(f, n) /\ content'[f][n][p] = "none"
           /\ \A q \in Parts(n) : q # p => content'[f][n][q] = content[f][n][q]
  <2>1. /\ Loose(To, n, p) /\ content[From][n][p] # "none"
        /\ IsTree(n) /\ Here(From, n) => "." \notin handler[b].todo
    BY <1>2, <1>3 DEF RunOK
  <2>2. p # "." => Here(To, n)
    BY <1>1, <1>2, <1>3, <2>1, FileHasItsRoot
  <2>3. p = "." => Parts(n) = {"."}
    <3>1. p = "." => ~IsTree(n)
      BY <1>3, <2>1 DEF Here
    <3> QED
      BY <1>1, <3>1, PartTypes
  <2>4. content'[To][n]["."] # "none" \/ \A q \in Parts(n) : content'[To][n][q] = "none"
    BY <1>1, <1>3, <1>5, <2>2, <2>3, PartTypes DEF Here
  <2>5. \A q \in Parts(n) : content'[To][n][q] = content[To][n][q] \/ Loose(To, n, q)
    BY <1>3, <1>5, <2>1
  <2> QED
    BY <1>1, <1>2, <1>3, <1>5, <2>4, <2>5, ItemStep DEF AtItem
<1> QED
  BY <1>1, <1>4, <1>5

LEMMA ItemDoneInv ==
    ASSUME Apart, TransferInv, NEW b \in Batches, ItemDone(b)
    PROVE  TransferInv'
<1> DEFINE n == handler[b].item
<1>1. /\ TransferTypes /\ TransferTypes' /\ OnlyBatch(b) /\ handler'[b].pc = "release"
      /\ handler'[b].rest = handler[b].rest /\ handler'[b].all = handler[b].all
      /\ handler'[b].existing = handler[b].existing
      /\ handler'[b].done = handler[b].done \cup {n}
  BY ItemDoneTypes DEF TransferInv
<1>2. /\ handler[b].pc = "copy" /\ handler[b].todo = {} /\ RunOK(handler[b]) /\ Places
      /\ UNCHANGED <<content, folderOf, asking, opening, givenUp>>
  BY DEF ItemDone, At, windowVars, TransferInv, Places
<1>3. Places'
  BY <1>1, <1>2, SamePlaces
<1>4. From' = From /\ To' = To
  BY <1>2 DEF From, To
<1>5. /\ \A m \in handler[b].rest : Unseen(handler[b], m)
      /\ \A m \in handler[b].done : m \notin handler[b].rest /\ \A p \in Parts(m) : Copied(m, p)
      /\ n \notin handler[b].rest /\ \A p \in Parts(n) : Copied(n, p)
  BY <1>2 DEF RunOK, Early
<1>6. \A m \in handler'[b].rest : Unseen(handler[b], m)'
  BY <1>1, <1>2, <1>4, <1>5 DEF Unseen, Here, Loose
<1>7. \A m \in handler'[b].done : m \notin handler'[b].rest /\ \A p \in Parts(m) : Copied(m, p)'
  BY <1>1, <1>2, <1>4, <1>5 DEF Copied
<1>8. RunOK(handler[b])'
  BY <1>1, <1>6, <1>7 DEF RunOK, Early
<1> QED
  BY <1>1, <1>2, <1>3, <1>8, BatchKeepsInv DEF UnderWay

LEMMA StartDeletingInv ==
    ASSUME Apart, TransferInv, NEW b \in Batches, StartDeleting(b)
    PROVE  TransferInv'
<1>1. /\ TransferTypes /\ TransferTypes' /\ OnlyBatch(b) /\ KeepsPlan(b)
      /\ \/ handler'[b].pc = "ended"
         \/ handler'[b].pc = "delete" /\ handler'[b].from = From
  BY StartDeletingTypes DEF TransferInv
<1>2. /\ handler[b].pc = "moved" /\ RunOK(handler[b]) /\ Places
      /\ UNCHANGED <<content, folderOf, asking, opening, givenUp>>
  BY DEF StartDeleting, At, TransferInv, Places
<1>3. CASE handler'[b].pc = "ended"
  BY <1>1, <1>2, <1>3, LoopInv DEF Early
<1>4. CASE handler'[b].pc = "delete" /\ handler'[b].from = From
  <2>1. Places'
    BY <1>1, <1>2, SamePlaces
  <2>2. From' = From /\ To' = To
    BY <1>2 DEF From, To
  <2>3. /\ \A m \in handler'[b].rest : Unseen(handler[b], m)'
        /\ \A m \in handler'[b].done : m \notin handler'[b].rest
             /\ \A p \in Parts(m) : Copied(m, p)'
    BY <1>1, <1>2, <2>2 DEF RunOK, Unseen, Here, Loose, Copied, KeepsPlan, Early
  <2>4. RunOK(handler[b])'
    BY <1>4, <2>2, <2>3 DEF RunOK, Early
  <2> QED
    BY <1>1, <1>2, <2>1, <2>4, BatchKeepsInv DEF UnderWay
<1> QED
  BY <1>1, <1>3, <1>4

\* A source that is deleted has arrived in the destination, part for part.
LEMMA SourcePlaces ==
    ASSUME Apart, Places, TransferTypes', NEW n \in Item, OnlyEntry(From, n),
           givenUp' = givenUp,
           \A p \in Parts(n) : Copied(n, p) /\ content'[From][n][p] \in {"none",
               content[From][n][p]},
           content'[From][n]["."] # "none" \/ \A p \in Parts(n) : content'[From][n][p] = "none"
    PROVE  Places'
<1>1. From \in Folders /\ From \in FromFolders /\ To \in Folders /\ From # To
  BY FoldersApart DEF Places
<1>2. NothingLost'
  <2>1. \A p \in Parts(n) : \/ content'[From][n][p] = content[From][n][p]
                            \/ Loose(From, n, p)
                            \/ \E g \in Folders \ {From} : content[g][n][p] = content[From][n][p]
    BY <1>1 DEF Copied, Loose
  <2> QED
    BY <1>1, <2>1, NothingLostThere DEF Places
<1>3. SourcesOwn'
  BY <1>1, FolderTypes DEF Places, SourcesOwn, OnlyEntry
<1>4. Rooted'
  <2>1. ASSUME NEW g \in Folders, NEW m \in Item, content'[g][m]["."] = "none",
               NEW p \in Parts(m)
        PROVE  content'[g][m][p] = "none"
    BY <2>1 DEF Places, Rooted, OnlyEntry, Here
  <2> QED
    BY <2>1 DEF Rooted, Here
<1> QED
  BY <1>2, <1>3, <1>4 DEF Places

LEMMA DeleteMovedInv ==
    ASSUME Apart, TransferInv, NEW b \in Batches, DeleteMoved(b)
    PROVE  TransferInv'
<1> DEFINE f == handler[b].from
<1>1. PICK n \in handler[b].done \cap Item :
        /\ OnlyEntry(f, n)
        /\ \/ /\ \A p \in Parts(n) : content'[f][n][p] = "none"
              /\ handler'[b].pc = "delete" /\ handler'[b].from = f
              /\ handler'[b].rest = handler[b].rest
              /\ handler'[b].done = handler[b].done \ {n}
              /\ handler'[b].existing = handler[b].existing
              /\ handler'[b].all = handler[b].all
           \/ /\ \A p \in Parts(n) : content'[f][n][p] \in {"none", content[f][n][p]}
              /\ content'[f][n]["."] = content[f][n]["."]
              /\ handler'[b].pc = "ended"
  BY DeleteMovedTypes DEF TransferInv
<1>2. /\ handler[b].pc = "delete" /\ RunOK(handler[b]) /\ Places /\ TransferTypes
      /\ UNCHANGED <<folderOf, asking, opening, givenUp>>
  BY DEF DeleteMoved, At, TransferInv, Places
<1>3. TransferTypes' /\ OnlyBatch(b)
  BY DeleteMovedTypes DEF TransferInv
<1>4. f = From /\ From' = From /\ To' = To /\ From \in Folders
  BY <1>2, FoldersApart DEF RunOK, From, To
<1>5. \A p \in Parts(n) : Copied(n, p) /\ n \notin handler[b].rest
  BY <1>2 DEF RunOK, Early
<1>6. /\ \A p \in Parts(n) : content'[From][n][p] \in {"none", content[From][n][p]}
      /\ content'[From][n]["."] # "none" \/ \A p \in Parts(n) : content'[From][n][p] = "none"
  <2>1. CASE \A p \in Parts(n) : content'[f][n][p] = "none"
    BY <1>4, <2>1
  <2>2. CASE /\ \A p \in Parts(n) : content'[f][n][p] \in {"none", content[f][n][p]}
             /\ content'[f][n]["."] = content[f][n]["."]
    <3>1. content[From][n]["."] = "none" => \A p \in Parts(n) : content[From][n][p] = "none"
      BY <1>2, <1>4 DEF Places, Rooted, Here
    <3> QED
      BY <1>4, <2>2, <3>1
  <2> QED
    BY <1>1, <2>1, <2>2
<1>7. Places'
  BY <1>1, <1>2, <1>3, <1>4, <1>5, <1>6, SourcePlaces
<1>8. CASE handler'[b].pc = "ended"
  <2>1. RunOK(handler[b])'
    BY <1>8 DEF RunOK, Early
  <2> QED
    BY <1>2, <1>3, <1>7, <2>1, BatchKeepsInv DEF UnderWay
<1>9. CASE /\ handler'[b].pc = "delete" /\ handler'[b].from = f
           /\ handler'[b].rest = handler[b].rest
           /\ handler'[b].done = handler[b].done \ {n}
           /\ handler'[b].existing = handler[b].existing
           /\ handler'[b].all = handler[b].all
  <2>1. n \notin handler[b].rest
    BY <1>2 DEF RunOK, Early
  <2>2. PlanOK(handler[b])'
    BY <1>1, <1>2, <1>4, <1>9, <2>1, PlanStays DEF Early
  <2>3. RunOK(handler[b])'
    BY <1>4, <1>9, <2>2 DEF RunOK, PlanOK, Early
  <2> QED
    BY <1>2, <1>3, <1>7, <2>3, BatchKeepsInv DEF UnderWay
<1> QED
  BY <1>1, <1>8, <1>9

\* An answer that replaces is the user's word for what is at the destination.
LEMMA AgreedIsLoose ==
    ASSUME Apart, Places, NEW names, Agreed(names) \subseteq givenUp', content' = content,
           folderOf' = folderOf, NEW n \in names, NEW p \in Parts(n)
    PROVE  Loose(To, n, p)'
<1>1. From # To
  BY FoldersApart DEF Places
<1>2. <<content[To][n][p], n, p>> \in Agreed(names)
  BY <1>1 DEF Agreed, From, To
<1>3. <<content[To][n][p], n, p>> \in givenUp'
  BY <1>2
<1> QED
  BY <1>3 DEF Loose, To

LEMMA AnswerConflictInv ==
    ASSUME Apart, TransferInv, NEW choice \in {"replace", "skip", "all", "cancel"},
           AnswerConflict(choice)
    PROVE  TransferInv'
<1>0. PICK b, n : b = resolver["overwrite"] /\ n = handler[b].item
  OBVIOUS
<1>1. /\ TransferTypes' /\ b \in Batches /\ OnlyBatch(b) /\ handler[b].pc = "ask"
      /\ handler'[b].pc = AfterChoice(choice).pc /\ KeepsTask(b)
      /\ handler'[b].rest = handler[b].rest /\ handler'[b].done = handler[b].done
      /\ handler'[b].existing = handler[b].existing
      /\ handler'[b].all => handler[b].all \/ choice = "all"
  BY <1>0, AnswerConflictTypes DEF TransferInv
<1>2. /\ RunOK(handler[b]) /\ Places /\ PlaceOK(handler[b]) /\ TransferTypes
      /\ UNCHANGED <<content, folderOf, opening>> /\ asking' # "pre"
  BY <1>1 DEF AnswerConflict, TransferInv, TransferTypes, HandlersOK, Places
<1>3. /\ givenUp \subseteq givenUp'
      /\ choice = "replace" => Agreed({n}) \subseteq givenUp'
      /\ choice = "all" => Agreed(handler[b].existing) \subseteq givenUp'
  BY <1>0 DEF AnswerConflict
<1>4. Places' /\ From' = From /\ To' = To /\ n \in Item /\ n \in {n} /\ handler'[b].item = n
  BY <1>0, <1>1, <1>2, <1>3, SamePlaces DEF From, To, PlaceOK, Registering, KeepsTask
<1>5. \A m \in handler[b].rest \cup {n} : Unseen(handler[b], m)
  BY <1>0, <1>1, <1>2 DEF RunOK, Early
<1>6. \A m \in handler'[b].rest \cup {n} : Unseen(handler[b], m)'
  <2>1. ASSUME NEW m \in handler'[b].rest \cup {n}, m \in handler'[b].existing, handler'[b].all,
               NEW p \in Parts(m)
        PROVE  Loose(To, m, p)'
    <3>1. CASE choice = "all"
      BY <1>1, <1>2, <1>3, <2>1, <3>1, AgreedIsLoose
    <3>2. CASE choice # "all"
      <4>1. Loose(To, m, p)
        BY <1>1, <1>5, <2>1, <3>2 DEF Unseen
      <4> QED
        BY <1>2, <1>3, <1>4, <4>1 DEF Loose
    <3> QED
      BY <3>1, <3>2
  <2>2. ASSUME NEW m \in handler'[b].rest \cup {n}, m \notin handler'[b].existing
        PROVE  ~Here(To, m)'
    <3>1. ~Here(To, m)
      BY <1>1, <1>5, <2>2 DEF Unseen
    <3> QED
      BY <1>2, <1>4, <3>1 DEF Here
  <2> QED
    BY <2>1, <2>2 DEF Unseen
<1>7. /\ n \notin handler'[b].rest \cup handler'[b].done
      /\ \A m \in handler'[b].done : m \notin handler'[b].rest
           /\ \A p \in Parts(m) : Copied(m, p)'
  BY <1>0, <1>1, <1>2, <1>4 DEF RunOK, Copied, Early
<1>8. CASE choice \in {"skip", "cancel"}
  <2>1. handler'[b].pc = "release"
    BY <1>1, <1>8 DEF AfterChoice
  <2>2. RunOK(handler[b])'
    BY <1>6, <1>7, <2>1 DEF RunOK, Early
  <2> QED
    BY <1>1, <1>2, <1>4, <2>2, BatchKeepsInv DEF UnderWay
<1>9. CASE choice \in {"replace", "all"}
  <2>1. handler'[b].pc = "start"
    BY <1>1, <1>9 DEF AfterChoice
  <2>2. n \notin handler'[b].existing => ~Here(To, n)'
    BY <1>6 DEF Unseen
  <2>3. \A p \in Parts(n) : Loose(To, n, p)'
    <3>1. CASE choice = "replace"
      BY <1>2, <1>3, <1>4, <3>1, AgreedIsLoose
    <3>2. CASE choice = "all" /\ n \in handler[b].existing
      BY <1>2, <1>3, <1>4, <3>2, AgreedIsLoose
    <3>3. CASE n \notin handler[b].existing
      <4>1. ~Here(To, n) /\ To \in Folders
        BY <1>2, <1>5, <3>3, FoldersApart DEF Unseen
      <4>2. \A p \in Parts(n) : Loose(To, n, p)
        BY <1>2, <1>4, <4>1, AbsentIsLoose
      <4> QED
        BY <1>2, <1>3, <1>4, <4>2 DEF Loose
    <3> QED
      BY <1>9, <3>1, <3>2, <3>3
  <2>4. RunOK(handler[b])'
    BY <1>4, <1>6, <1>7, <2>1, <2>2, <2>3 DEF RunOK, Early
  <2> QED
    BY <1>1, <1>2, <1>4, <2>4, BatchKeepsInv DEF UnderWay
<1> QED
  BY <1>8, <1>9

\* Steps of the window while nothing is copied.
LEMMA QuietInv ==
    ASSUME TransferInv, TransferTypes', UNCHANGED <<content, givenUp>>, OneBatch',
           \A c \in Batches : /\ handler'[c].pc \in Early \cup {"ended"}
                              /\ handler'[c].pc \in Early => handler'[c].done = {}
                                   /\ ~handler'[c].all
    PROVE  TransferInv'
<1>1. Places'
  BY SamePlaces DEF TransferInv, Places
<1>2. \A c \in Batches : RunOK(handler[c])'
  BY DEF RunOK, Early
<1> QED
  BY <1>1, <1>2 DEF TransferInv, Places

LEMMA SameInv ==
    ASSUME TransferInv, TransferTypes',
           UNCHANGED <<content, folderOf, asking, resolver, opening, handler, givenUp>>
    PROVE  TransferInv'
<1>1. Places'
  BY SamePlaces DEF TransferInv, Places
<1>2. OneBatch'
  BY DEF TransferInv, OneBatch, Ended
<1>3. \A c \in Batches : RunOK(handler[c])'
  <2>1. ASSUME NEW c \in Batches
        PROVE  RunOK(handler[c])'
    <3>1. RunOK(handler[c])
      BY DEF TransferInv
    <3> QED
      BY <3>1 DEF RunOK, Unseen, Copied, Loose, Here, From, To
  <2> QED
    BY <2>1
<1> QED
  BY <1>1, <1>2, <1>3 DEF TransferInv, Places

\* While a batch waits for its destination none is under way.
Waiting == \A b \in Batches : handler[b].pc \in {"idle", "confirm", "ended"}

LEMMA WaitingIsEarly ==
    ASSUME TransferInv, Waiting
    PROVE  \A c \in Batches : /\ handler[c].pc \in Early \cup {"ended"}
                              /\ handler[c].pc \in Early => handler[c].done = {} /\ ~handler[c].all
  BY DEF TransferInv, RunOK, Waiting, Early

LEMMA WindowInv ==
    ASSUME Attentive, Apart, TransferInv, WindowStep
    PROVE  TransferInv'
<1>0. /\ TransferTypes /\ OneBatch /\ opening \in Seq(ToFolders)
      /\ asking = "pre" \/ opening # <<>> => Waiting
      /\ opening # <<>> => Tail(opening) = <<>>
  BY DEF TransferInv, TransferTypes, WindowOK, OneBatch, Waiting
<1>1. ASSUME NEW side \in {"from", "to"}, NEW f \in Folders, Navigate(side, f)
      PROVE  TransferInv'
  <2>1. TransferTypes' /\ UNCHANGED <<content, givenUp, handler, asking, opening>> /\ Waiting
    BY <1>0, <1>1, NavigateTypes DEF Navigate, MayStart, Ended, Waiting
  <2>2. OneBatch'
    BY <1>0, <2>1 DEF OneBatch, Ended
  <2> QED
    BY <2>1, <2>2, WaitingIsEarly, QuietInv
<1>2. ASSUME NEW f \in Folders, ConfirmPre(f)
      PROVE  TransferInv'
  <2>1. /\ TransferTypes' /\ UNCHANGED <<content, givenUp, handler>> /\ Waiting
        /\ opening' = Append(opening, f) /\ opening = <<>>
    BY <1>0, <1>2, ConfirmPreTypes DEF ConfirmPre
  <2>2. Len(opening') <= 1
    BY <1>0, <2>1
  <2>3. OneBatch'
    BY <1>0, <2>1, <2>2 DEF OneBatch, Ended, Waiting
  <2> QED
    BY <2>1, <2>3, WaitingIsEarly, QuietInv
<1>3. CASE DestinationOpens
  <2>1. /\ TransferTypes' /\ UNCHANGED <<content, givenUp>> /\ Waiting
        /\ asking' = "none" /\ opening' = <<>>
    BY <1>0, <1>3, DestinationOpensTypes DEF DestinationOpens
  <2>2. \A c \in Batches : \/ handler'[c] = handler[c]
                           \/ /\ handler[c].pc = "confirm" /\ handler'[c].pc = "listing"
                              /\ handler'[c].done = handler[c].done
                              /\ handler'[c].all = handler[c].all
    BY <1>0, <1>3, DestinationOpensTypes
  <2>3. OneBatch'
    <3>1. \A c \in Batches : Ended(c) => Ended(c)'
      BY <2>2 DEF Ended
    <3>2. \A b, c \in Batches : b = c \/ Ended(b)' \/ Ended(c)'
      BY <1>0, <3>1 DEF OneBatch
    <3> QED
      BY <2>1, <3>2 DEF OneBatch
  <2>4. \A c \in Batches : /\ handler'[c].pc \in Early \cup {"ended"}
                           /\ handler'[c].pc \in Early => handler'[c].done = {} /\ ~handler'[c].all
    BY <2>1, <2>2, WaitingIsEarly DEF Early
  <2> QED
    BY <2>1, <2>3, <2>4, QuietInv
<1>4. CASE DestinationFails
  <2>1. /\ TransferTypes' /\ UNCHANGED <<content, givenUp, handler>> /\ Waiting
        /\ opening' = <<>>
    BY <1>0, <1>4, DestinationFailsTypes DEF DestinationFails
  <2>2. OneBatch'
    BY <1>0, <2>1 DEF OneBatch, Ended, Waiting
  <2> QED
    BY <2>1, <2>2, WaitingIsEarly, QuietInv
<1>5. CASE CancelPre
  <2>1. TransferTypes' /\ UNCHANGED <<content, givenUp, opening>> /\ Waiting /\ asking' = "none"
    BY <1>0, <1>5, CancelPreTypes DEF CancelPre
  <2>2. \A c \in Batches : \/ handler'[c] = handler[c]
                           \/ handler[c].pc = "confirm" /\ handler'[c].pc = "ended"
    BY <1>0, <1>5, CancelPreTypes
  <2>3. OneBatch'
    <3>1. \A c \in Batches : Ended(c) => Ended(c)'
      BY <2>2 DEF Ended
    <3>2. \A b, c \in Batches : b = c \/ Ended(b)' \/ Ended(c)'
      BY <1>0, <3>1 DEF OneBatch
    <3>3. \A b \in Batches : handler'[b].pc \in {"idle", "confirm", "ended"}
      BY <2>1, <2>2 DEF Waiting
    <3> QED
      BY <1>0, <2>1, <3>2, <3>3 DEF OneBatch
  <2>4. \A c \in Batches : /\ handler'[c].pc \in Early \cup {"ended"}
                           /\ handler'[c].pc \in Early => handler'[c].done = {} /\ ~handler'[c].all
    BY <2>1, <2>2, WaitingIsEarly DEF Early
  <2> QED
    BY <2>1, <2>3, <2>4, QuietInv
<1>6. ASSUME NEW b \in Batches, NEW names \in SUBSET Item, NEW move \in BOOLEAN,
             StartBatch(b, names, move)
      PROVE  TransferInv'
  <2>1. /\ TransferTypes' /\ OnlyBatch(b) /\ handler'[b].pc = "confirm"
        /\ handler'[b].done = handler[b].done /\ handler'[b].all = handler[b].all
    BY <1>0, <1>6, StartBatchTypes
  <2>2. /\ UNCHANGED <<content, givenUp, opening>> /\ handler[b].pc = "idle"
        /\ \A c \in Batches : handler[c].pc \in {"idle", "ended"}
    BY <1>6 DEF StartBatch, At, MayStart, Ended
  <2>3. \A c \in Batches : c # b => handler'[c].pc \in {"idle", "ended"}
    BY <2>1, <2>2 DEF OnlyBatch
  <2>4. OneBatch'
    BY <1>0, <2>1, <2>2, <2>3 DEF OneBatch, Ended
  <2>5. \A c \in Batches : /\ handler'[c].pc \in Early \cup {"ended"}
                           /\ handler'[c].pc \in Early => handler'[c].done = {} /\ ~handler'[c].all
    BY <2>1, <2>2, WaitingIsEarly DEF Early, OnlyBatch, Waiting
  <2> QED
    BY <2>2, <2>1, <2>4, <2>5, QuietInv
<1>7. CASE TogglePause \/ DeliverCall \/ \E closes \in BOOLEAN : CancelBatch(closes)
  BY <1>0, <1>7, CallTypes, SameInv
<1>8. ASSUME NEW c \in {"replace", "skip", "all", "cancel"}, AnswerConflict(c)
      PROVE  TransferInv'
  BY <1>8, AnswerConflictInv
<1> QED
  BY <1>1, <1>2, <1>3, <1>4, <1>5, <1>6, <1>7, <1>8 DEF WindowStep

LEMMA BatchInv ==
    ASSUME Apart, TransferInv, Informed, NEW b \in Batches, BatchStep(b)
    PROVE  TransferInv'
<1>0. TransferTypes /\ (handler[b].pc \in {"listing", "start"} => handler[b].spec)
  BY DEF TransferInv, Informed, UnderWay
<1>1. CASE Prefetched(b)
  <2>1. TransferTypes' /\ OnlyBatch(b) /\ handler'[b].pc = "loop" /\ KeepsPlan(b)
    BY <1>0, <1>1, PrefetchedTypes
  <2>2. /\ handler[b].pc = "prefetch"
        /\ UNCHANGED <<content, folderOf, asking, opening, givenUp>>
    BY <1>1 DEF Prefetched, At, windowVars
  <2> QED
    BY <2>1, <2>2, LoopInv DEF Early
<1>2. CASE ReleaseItem(b)
  <2>1. TransferTypes' /\ OnlyBatch(b) /\ KeepsPlan(b) /\ handler'[b].pc \in {"loop", "moved",
        "ended"}
    BY <1>0, <1>2, ReleaseItemTypes
  <2>2. /\ handler[b].pc = "release"
        /\ UNCHANGED <<content, folderOf, asking, opening, givenUp>>
    BY <1>2 DEF ReleaseItem, At
  <2> QED
    BY <2>1, <2>2, LoopInv DEF Early
<1>3. CASE EndMove(b)
  <2>1. TransferTypes' /\ OnlyBatch(b) /\ handler'[b].pc = "ended"
    BY <1>0, <1>3, EndMoveTypes
  <2>2. /\ handler[b].pc = "delete"
        /\ UNCHANGED <<content, folderOf, asking, opening, givenUp>>
    BY <1>3 DEF EndMove, At
  <2>3. Places' /\ RunOK(handler[b])'
    BY <2>1, <2>2, SamePlaces DEF TransferInv, Places, RunOK, Early
  <2> QED
    BY <2>1, <2>2, <2>3, BatchKeepsInv DEF UnderWay
<1>4. CASE ListDestination(b) \/ NextItem(b) \/ BeginItem(b) \/ StartItem(b) \/ LookAtSource(b)
  <2>1. ListDestination(b) \/ StartItem(b) => handler[b].spec
    BY <1>0 DEF ListDestination, StartItem, At
  <2> QED
    BY <1>4, <2>1, ListDestinationInv, NextItemInv, BeginItemInv, StartItemInv, LookAtSourceInv
<1>5. CASE RemoveDestination(b) \/ MakeDirectory(b) \/ ListSource(b) \/ OpenFile(b)
  BY <1>5, RemoveDestinationInv, MakeDirectoryInv, ListSourceInv, OpenFileInv
<1>6. CASE CopyBytes(b) \/ CopyStops(b) \/ ItemDone(b) \/ StartDeleting(b) \/ DeleteMoved(b)
  BY <1>6, CopyBytesInv, CopyStopsInv, ItemDoneInv, StartDeletingInv, DeleteMovedInv
<1> QED
  BY <1>1, <1>2, <1>3, <1>4, <1>5, <1>6 DEF BatchStep

LEMMA TransferInitInv ==
    ASSUME Apart, TransferInit
    PROVE  TransferInv
<1>1. TransferTypes /\ \A b \in Batches : handler[b].pc = "idle" /\ handler[b].done = {}
                                          /\ ~handler[b].all
  BY TransferInitTypes
<1>2. \A b \in Batches : RunOK(handler[b])
  BY <1>1 DEF RunOK, Early
<1>3. OneBatch
  BY <1>1 DEF OneBatch, Ended, TransferInit
<1>4. ASSUME NEW f \in Folders, NEW n \in Item, NEW p \in Parts(n)
      PROVE  content[f][n][p] = IF <<f, n>> \in Original THEN f ELSE "none"
  BY DEF TransferInit, Nothing
<1>5. SourcesOwn
  BY <1>4, FolderTypes DEF SourcesOwn
<1>6. Rooted
  <2>1. ASSUME NEW f \in Folders, NEW n \in Item, content[f][n]["."] = "none"
        PROVE  \A p \in Parts(n) : content[f][n][p] = "none"
    <3>1. "." \in Parts(n) /\ f # "none"
      BY PartTypes, FolderTypes
    <3>2. <<f, n>> \notin Original
      BY <1>4, <2>1, <3>1
    <3> QED
      BY <1>4, <3>2
  <2> QED
    BY <2>1 DEF Rooted, Here
<1>7. NothingLost
  <2>1. ASSUME NEW o \in Original, NEW p \in Parts(o[2])
        PROVE  \E f \in Folders : content[f][o[2]][p] = o[1]
    <3>1. o[1] \in Folders /\ o[2] \in Item /\ <<o[1], o[2]>> \in Original
      BY NssTransferAssumption DEF Folders
    <3> QED
      BY <1>4, <3>1
  <2> QED
    BY <2>1 DEF NothingLost
<1> QED
  BY <1>1, <1>2, <1>3, <1>5, <1>6, <1>7 DEF TransferInv

\* Whatever the disks hold and whatever fails, is cancelled or is answered, a copy or
\* a move loses nothing.  Attentive: the panes stay where they are while a batch runs
\* (the handler reads their folders anew), and the destination is confirmed once.  And
\* the panes show different folders: a directory copied onto itself is lost.
THEOREM NothingIsLost ==
    ASSUME Attentive, FromFolders \cap ToFolders = {}
    PROVE  TransferSpec => []NothingLost
<1>0. Apart
  BY DEF Apart
<1>1. TransferInit => TransferInv /\ Informed
  <2> SUFFICES ASSUME TransferInit PROVE TransferInv /\ Informed
    OBVIOUS
  <2>1. TransferInv
    BY <1>0, TransferInitInv
  <2>2. opening = <<>> /\ \A b \in Batches : handler[b].pc = "idle"
    <3>1. opening = <<>>
      BY DEF TransferInit
    <3>2. \A b \in Batches : handler[b].pc = "idle"
      BY TransferInitTypes
    <3> QED
      BY <3>1, <3>2
  <2> QED
    BY <2>1, <2>2 DEF Informed, UnderWay
<1>2. TransferInv /\ Informed /\ [TransferNext]_transferVars => TransferInv' /\ Informed'
  <2> SUFFICES ASSUME TransferInv, Informed, [TransferNext]_transferVars
               PROVE  TransferInv' /\ Informed'
    OBVIOUS
  <2>0. Informed'
    BY InformedStep DEF TransferInv
  <2>1. CASE WindowStep
    BY <1>0, <2>0, <2>1, WindowInv
  <2>2. CASE \E b \in Batches : BatchStep(b)
    BY <1>0, <2>0, <2>2, BatchInv
  <2>3. CASE UNCHANGED transferVars
    <3>1. TransferTypes'
      BY <2>3, TransferTypesStep DEF TransferInv
    <3> QED
      BY <2>0, <2>3, <3>1, SameInv DEF transferVars
  <2> QED
    BY <2>0, <2>1, <2>2, <2>3 DEF TransferNext
<1>3. TransferInv => NothingLost
  BY DEF TransferInv
<1> QED
  BY <1>1, <1>2, <1>3, PTL DEF TransferSpec

-----------------------------------------------------------------------------
(* The keys of an NSS-Commander                                            *)

Pick == SUBSET RowName
FileBrowser == [of : Host \cup {Own, NoFiles}, chosen : Pick,
                served : 0 .. MaxOrders, asks : BOOLEAN]
Request == [id : 0 .. MaxOrders, pane : PaneNumber \cup {NoPane},
            op : PaneOp \cup {"none"}, names : Pick]

WhereTypes ==
    /\ onTop \in BOOLEAN /\ filesOn \in BOOLEAN
    /\ within \in [PaneNumber -> Session \cup {Absent, Empty}]
    /\ viewIn \in [PaneNumber -> Views]

BrowserTypes ==
    /\ activePane \in PaneNumber
    /\ browser \in [PaneNumber -> FileBrowser]
    /\ picked \in [PaneNumber -> Pick]
    /\ opRequest \in Request

OrderTypes ==
    lastOrder \in [op : PaneOp \cup {"copy", "move", "none"}, from : PaneNumber \cup {NoPane},
                   to : PaneNumber \cup {NoPane}, names : Pick]

\* A session without host shows no remote files, and consoles are elsewhere.
ViewsFit ==
    \A i \in PaneNumber :
        /\ viewIn[i] = "remote" => within[i] \in Host
        /\ within[i] # Console

\* What is mounted is what the pane is to show.
MountedIsShown == \A i \in PaneNumber : browser[i].of = Browses(i)

\* The copy is right where a browser is; without one nothing is selected.
CopyIsTold ==
    \A i \in PaneNumber :
        IF browser[i].of = NoFiles THEN browser[i].chosen = {}
        ELSE picked[i] = browser[i].chosen

CommanderInv ==
    /\ WhereTypes /\ BrowserTypes /\ OrderTypes
    /\ ViewsFit /\ MountedIsShown /\ CopyIsTold /\ OrdersNameTheShown

LEMMA TypesAre == WhereTypes /\ BrowserTypes /\ OrderTypes <=> CommanderTypeOK
BY DEF WhereTypes, BrowserTypes, OrderTypes, CommanderTypeOK, FileBrowser, Request, Pick

\* Of a set of panes one comes first.
LEMMA FirstIs ==
    ASSUME NEW T \in SUBSET PaneNumber, T # {}
    PROVE  \E i \in T : \A j \in T : i <= j
<1> DEFINE Below == OpToRel(<, Nat)
<1>0. PaneNumber \subseteq Nat
  BY CommanderAssumption
<1>1. IsWellFoundedOn(Below, Nat)
  BY NatLessThanWellFounded
<1>2. \A m, n \in Nat : m < n => <<m, n>> \in Below
  BY DEF OpToRel
<1> HIDE DEF Below
<1>3. \E n \in T : \A m \in T : ~ (<<m, n>> \in Below)
  BY <1>0, <1>1, WFMin, Zenon
<1>4. PICK n \in T : \A m \in T : ~ (<<m, n>> \in Below)
  BY <1>3
<1>5. \A m \in T : ~ (m < n)
  BY <1>0, <1>2, <1>4, Zenon
<1> QED
  BY <1>0, <1>5

LEMMA FirstOtherIs ==
    ASSUME NEW i \in PaneNumber, OtherFilePane(i) # {}
    PROVE  FirstOther(i) \in PaneNumber /\ FirstOther(i) # i /\ HasFiles(FirstOther(i))
<1>1. OtherFilePane(i) \in SUBSET PaneNumber
  BY DEF OtherFilePane
<1>2. \E j \in OtherFilePane(i) : \A k \in OtherFilePane(i) : j <= k
  BY <1>1, FirstIs
<1>3. FirstOther(i) \in OtherFilePane(i)
  BY <1>2 DEF FirstOther
<1> QED
  BY <1>3 DEF OtherFilePane

\* The pane across from one of the two is the other one.
LEMMA AcrossIs ==
    ASSUME TwoPanes, NEW i \in CommanderPanes
    PROVE  Across(i) \in CommanderPanes /\ Across(i) # i
<1>1. PICK a, b \in PaneNumber : a < b /\ CommanderPanes = {a, b}
  BY DEF TwoPanes
<1>2. a \in Nat /\ b \in Nat
  BY CommanderAssumption
<1>3. LeftPane = a
  BY <1>1, <1>2 DEF LeftPane
<1>4. RightPane = b
  BY <1>1, <1>2 DEF RightPane
<1> QED
  BY <1>1, <1>2, <1>3, <1>4 DEF Across

LEMMA CommanderPaneIs ==
    ASSUME NEW i \in CommanderPanes
    PROVE  i \in PaneNumber /\ onTop /\ filesOn /\ within[i] \in Session /\ viewIn[i] # "terminal"
BY DEF CommanderPanes, FilePanes, FileViewOf

\* A pane of the commander that shows files has a browser of them.
LEMMA FilesAreShown ==
    ASSUME WhereTypes, ViewsFit, MountedIsShown, NEW i \in PaneNumber, onTop, filesOn,
           within[i] \in Session, viewIn[i] # "terminal"
    PROVE  /\ browser[i].of # NoFiles
           /\ viewIn[i] = "local" => browser[i].of = Own
<1>1. viewIn[i] \in {"local", "remote"}
  BY DEF WhereTypes, Views
<1>2. FileViewOf(i) = viewIn[i] /\ within[i] # Console
  BY DEF FileViewOf, ViewsFit
<1>3. CASE viewIn[i] = "local"
  BY <1>2, <1>3 DEF MountedIsShown, Browses, Own, NoFiles
<1>4. CASE viewIn[i] = "remote"
  <2>1. within[i] \in Host /\ within[i] # NoFiles
    BY <1>4, CommanderAssumption DEF ViewsFit
  <2> QED
    BY <1>2, <1>4, <2>1 DEF MountedIsShown, Browses
<1> QED
  BY <1>1, <1>3, <1>4

LEMMA BrowserIsThere ==
    ASSUME MountedIsShown, NEW i \in PaneNumber, browser[i].of # NoFiles
    PROVE  onTop /\ filesOn /\ within[i] \in Session /\ viewIn[i] # "terminal"
<1>1. browser[i].of = Browses(i)
  BY DEF MountedIsShown
<1> QED
  BY <1>1 DEF Browses, FileViewOf

\* What a render leaves of a browser.
LEMMA RenderedIs ==
    ASSUME NEW b \in FileBrowser, NEW files \in Host \cup {Own, NoFiles}
    PROVE  /\ Rendered(b, files) \in FileBrowser /\ Rendered(b, files).of = files
           /\ files = NoFiles => Rendered(b, files).chosen = {}
           /\ b.of = files /\ files # NoFiles => Rendered(b, files) = b
<1>1. NoFiles # Own
  BY DEF NoFiles, Own
<1>2. Mounts(files) \in FileBrowser /\ Mounts(files).of = files /\ Mounts(files).chosen = {}
  <2>1. 0 \in 0 .. MaxOrders
    BY CommanderAssumption
  <2>2. NoBrowser \in FileBrowser /\ NoBrowser.chosen = {}
    BY <2>1 DEF NoBrowser, FileBrowser, Pick
  <2>3. \A c \in FileBrowser :
           /\ [c EXCEPT !.of = files] \in FileBrowser
           /\ [c EXCEPT !.of = files].of = files /\ [c EXCEPT !.of = files].chosen = c.chosen
    BY DEF FileBrowser
  <2> QED
    BY <2>2, <2>3 DEF Mounts
<1>3. CASE ~SameKind(b.of, files)
  BY <1>1, <1>2, <1>3 DEF Rendered, SameKind
<1>4. CASE SameKind(b.of, files) /\ b.of = files
  BY <1>4 DEF Rendered, SameKind
<1>5. CASE SameKind(b.of, files) /\ b.of # files
  <2>1. Rendered(b, files) = [b EXCEPT !.of = files, !.chosen = {}]
    BY <1>5 DEF Rendered
  <2> QED
    BY <1>5, <2>1 DEF FileBrowser, Pick, SameKind
<1> QED
  BY <1>3, <1>4, <1>5

LEMMA ServesIs ==
    ASSUME NEW i \in PaneNumber, NEW b \in FileBrowser, NEW req \in Request, NEW asks \in BOOLEAN,
           b.of = NoFiles => b.chosen = {}
    PROVE  LET c == Serves(i, b, req, asks)
           IN  /\ c \in FileBrowser /\ c.of = b.of
               /\ c.of = NoFiles => c.chosen = {}
               /\ b.of # NoFiles /\ req.pane = i => c.served = req.id
               /\ b.of # NoFiles /\ req.names \subseteq b.chosen => req.names \subseteq c.chosen
<1> DEFINE c == Serves(i, b, req, asks)
<1>1. CASE b.of = NoFiles \/ req.pane # i \/ req.id = b.served
  BY <1>1 DEF Serves
<1>2. CASE ~ (b.of = NoFiles \/ req.pane # i \/ req.id = b.served)
  <2> DEFINE next == [of |-> b.of, chosen |-> IF req.op = "rename" THEN req.names ELSE b.chosen,
                      served |-> req.id, asks |-> b.asks \/ asks]
  <2>1. c = next
    BY <1>2 DEF Serves, FileBrowser
  <2>2. next \in FileBrowser
    <3>1. b.asks \in BOOLEAN
      BY DEF FileBrowser
    <3>2. (b.asks \/ asks) \in BOOLEAN
      BY <3>1, Zenon
    <3> QED
      BY <3>2 DEF FileBrowser, Request, Pick
  <2> QED
    BY <1>2, <2>1, <2>2
<1> QED
  BY <1>1, <1>2

LEMMA BrowsesType ==
    ASSUME NEW i \in PaneNumber
    PROVE  Browses(i) \in Host \cup {Own, NoFiles}
BY DEF Browses

\* A render brings the browsers that belong on the screen and tells their selections.
LEMMA RenderInv ==
    ASSUME NEW b \in [PaneNumber -> FileBrowser], opRequest' \in Request,
           picked \in [PaneNumber -> Pick], Render(b)
    PROVE  /\ browser' \in [PaneNumber -> FileBrowser] /\ picked' \in [PaneNumber -> Pick]
           /\ MountedIsShown' /\ CopyIsTold'
<1>1. PICK asks \in BOOLEAN :
        browser' = [i \in PaneNumber |->
                       Serves(i, Rendered(b[i], Browses(i)'), opRequest', asks)]
  BY DEF Render
<1>2. ASSUME NEW i \in PaneNumber
      PROVE  /\ browser'[i] \in FileBrowser /\ browser'[i].of = Browses(i)'
             /\ browser'[i].of = NoFiles => browser'[i].chosen = {}
  <2>1. Browses(i)' \in Host \cup {Own, NoFiles}
    BY BrowsesType DEF Browses
  <2> DEFINE r == Rendered(b[i], Browses(i)')
  <2>2. r \in FileBrowser /\ r.of = Browses(i)' /\ (r.of = NoFiles => r.chosen = {})
    BY <2>1, RenderedIs
  <2>3. browser'[i] = Serves(i, r, opRequest', asks)
    BY <1>1
  <2> HIDE DEF r
  <2> QED
    BY <2>2, <2>3, ServesIs
<1>3. browser' \in [PaneNumber -> FileBrowser]
  BY <1>1, <1>2
<1>4. picked' = [i \in PaneNumber |->
                    IF browser'[i].of # NoFiles THEN browser'[i].chosen ELSE picked[i]]
  BY DEF Render, Tells
<1>5. picked' \in [PaneNumber -> Pick]
  <2>1. \A i \in PaneNumber : picked[i] \in Pick /\ browser'[i].chosen \in Pick
    BY <1>2 DEF FileBrowser
  <2> QED
    BY <1>4, <2>1
<1>6. MountedIsShown'
  BY <1>2 DEF MountedIsShown
<1>7. CopyIsTold'
  BY <1>2, <1>4 DEF CopyIsTold
<1> QED
  BY <1>3, <1>5, <1>6, <1>7

LEMMA NoOrderIs ==
    ASSUME lastOrder' = NoPress
    PROVE  OrderTypes' /\ OrdersNameTheShown'
BY DEF NoPress, OrderTypes, OrdersNameTheShown, Pick

\* A selection in one browser.
LEMMA BrowserWith ==
    ASSUME BrowserTypes, NEW i \in PaneNumber, NEW names \in Pick, NEW asks \in BOOLEAN
    PROVE  /\ [browser EXCEPT ![i].chosen = names] \in [PaneNumber -> FileBrowser]
           /\ [browser EXCEPT ![i].asks = asks] \in [PaneNumber -> FileBrowser]
           /\ [browser EXCEPT ![i].asks = asks, ![i].chosen = names]
                  \in [PaneNumber -> FileBrowser]
<1> DEFINE one == [browser[i] EXCEPT !.chosen = names]
           two == [browser[i] EXCEPT !.asks = asks]
           both == [two EXCEPT !.chosen = names]
<1>1. browser[i] \in FileBrowser
  BY DEF BrowserTypes
<1>2. one \in FileBrowser
  BY <1>1 DEF FileBrowser
<1>3. two \in FileBrowser
  BY <1>1 DEF FileBrowser
<1>4. both \in FileBrowser
  BY <1>3 DEF FileBrowser
<1>5. [browser EXCEPT ![i].chosen = names] = [browser EXCEPT ![i] = one]
  BY DEF BrowserTypes
<1>6. [browser EXCEPT ![i].asks = asks] = [browser EXCEPT ![i] = two]
  BY DEF BrowserTypes
<1>7. [browser EXCEPT ![i].asks = asks, ![i].chosen = names] = [browser EXCEPT ![i] = both]
  BY DEF BrowserTypes
<1> HIDE DEF one, two, both
<1> QED
  BY <1>2, <1>3, <1>4, <1>5, <1>6, <1>7 DEF BrowserTypes

\* What a step in a browser comes to.
LEMMA RenderedStep ==
    ASSUME CommanderInv, lastOrder' = NoPress, WhereTypes', ViewsFit',
           opRequest' = opRequest, activePane' \in PaneNumber,
           NEW b \in [PaneNumber -> FileBrowser], Render(b)
    PROVE  CommanderInv'
<1>1. opRequest' \in Request /\ picked \in [PaneNumber -> Pick]
  BY DEF CommanderInv, BrowserTypes
<1>2. browser' \in [PaneNumber -> FileBrowser] /\ picked' \in [PaneNumber -> Pick]
      /\ MountedIsShown' /\ CopyIsTold'
  BY <1>1, RenderInv
<1>3. BrowserTypes'
  BY <1>1, <1>2 DEF BrowserTypes
<1> QED
  BY <1>2, <1>3, NoOrderIs DEF CommanderInv

LEMMA SamePanes ==
    ASSUME WhereTypes, ViewsFit, UNCHANGED whereVars
    PROVE  WhereTypes' /\ ViewsFit'
BY DEF WhereTypes, ViewsFit, whereVars

LEMMA ChoosesInv ==
    ASSUME CommanderInv, NEW i \in PaneNumber, NEW names \in Pick, NEW focus \in PaneNumber,
           Chooses(i, names, focus)
    PROVE  CommanderInv'
<1>1. [browser EXCEPT ![i].chosen = names] \in [PaneNumber -> FileBrowser]
  BY BrowserWith DEF CommanderInv
<1>2. WhereTypes' /\ ViewsFit'
  BY SamePanes DEF CommanderInv, Chooses
<1> QED
  BY <1>1, <1>2, RenderedStep DEF Chooses

LEMMA InBrowserInv ==
    ASSUME CommanderInv, NEW i \in PaneNumber,
           (\E n \in RowName : ClickRow(i, n)) \/ EnterFolder(i) \/ HideDotFiles(i)
    PROVE  CommanderInv'
<1>1. activePane \in PaneNumber /\ browser[i].chosen \in Pick
  BY DEF CommanderInv, BrowserTypes, FileBrowser
<1>2. ASSUME NEW n \in RowName, ClickRow(i, n)  PROVE CommanderInv'
  <2>1. \A S \in SUBSET (RowName \ (browser[i].chosen \cup {n})) :
           {n} \in Pick /\ browser[i].chosen \cup S \cup {n} \in Pick
           /\ (browser[i].chosen \cup {n}) \ (browser[i].chosen \cap {n}) \in Pick
    BY <1>1 DEF Pick
  <2> QED
    BY <1>1, <1>2, <2>1, ChoosesInv DEF ClickRow
<1>3. CASE EnterFolder(i)
  <2>1. {} \in Pick
    BY DEF Pick
  <2> QED
    BY <1>1, <1>3, <2>1, ChoosesInv DEF EnterFolder
<1>4. CASE HideDotFiles(i)
  <2>1. \A S \in SUBSET browser[i].chosen : S \in Pick
    BY <1>1 DEF Pick
  <2> QED
    BY <1>4, <2>1, ChoosesInv DEF HideDotFiles
<1> QED
  BY <1>2, <1>3, <1>4

\* Steps that leave the browsers and the panes alone.
LEMMA QuietStep ==
    ASSUME CommanderInv, activePane' \in PaneNumber, OrderTypes', OrdersNameTheShown',
           UNCHANGED <<whereVars, browser, picked, opRequest>>
    PROVE  CommanderInv'
<1>1. WhereTypes' /\ ViewsFit'
  BY SamePanes DEF CommanderInv
<1>2. BrowserTypes' /\ CopyIsTold'
  BY DEF CommanderInv, BrowserTypes, CopyIsTold
<1>3. MountedIsShown'
  <2>1. \A i \in PaneNumber : Browses(i)' = Browses(i)
    BY DEF whereVars, Browses, FileViewOf
  <2> QED
    BY <2>1 DEF CommanderInv, MountedIsShown
<1> QED
  BY <1>1, <1>2, <1>3 DEF CommanderInv

LEMMA OpenDialogInv ==
    ASSUME CommanderInv, NEW i \in PaneNumber, OpenDialog(i)
    PROVE  CommanderInv'
<1> DEFINE open == [browser EXCEPT ![i].asks = TRUE]
<1>1. open \in [PaneNumber -> FileBrowser]
  BY BrowserWith DEF CommanderInv, Pick
<1>2. \A j \in PaneNumber : open[j].of = browser[j].of /\ open[j].chosen = browser[j].chosen
  BY DEF CommanderInv, BrowserTypes, FileBrowser
<1>3. browser' = open /\ lastOrder' = NoPress
      /\ UNCHANGED <<whereVars, activePane, picked, opRequest>>
  BY DEF OpenDialog
<1> HIDE DEF open
<1>4. BrowserTypes'
  BY <1>1, <1>3 DEF CommanderInv, BrowserTypes
<1>5. CopyIsTold'
  BY <1>2, <1>3 DEF CommanderInv, CopyIsTold
<1>6. MountedIsShown'
  <2>1. \A j \in PaneNumber : Browses(j)' = Browses(j)
    BY <1>3 DEF whereVars, Browses, FileViewOf
  <2> QED
    BY <1>2, <1>3, <2>1 DEF CommanderInv, MountedIsShown
<1>7. WhereTypes' /\ ViewsFit'
  BY <1>3, SamePanes DEF CommanderInv
<1> QED
  BY <1>3, <1>4, <1>5, <1>6, <1>7, NoOrderIs DEF CommanderInv

LEMMA AnswerDialogInv ==
    ASSUME CommanderInv, NEW i \in PaneNumber, AnswerDialog(i)
    PROVE  CommanderInv'
<1>1. PICK S \in SUBSET RowName : Render([browser EXCEPT ![i].asks = FALSE, ![i].chosen = S])
  BY DEF AnswerDialog
<1>2. [browser EXCEPT ![i].asks = FALSE, ![i].chosen = S] \in [PaneNumber -> FileBrowser]
  BY BrowserWith DEF CommanderInv, Pick
<1>3. WhereTypes' /\ ViewsFit' /\ activePane' \in PaneNumber
  BY SamePanes DEF CommanderInv, BrowserTypes, AnswerDialog
<1> QED
  BY <1>1, <1>2, <1>3, RenderedStep DEF AnswerDialog

LEMMA FocusInv ==
    ASSUME CommanderInv, NEW i \in PaneNumber, FocusPane(i) \/ TabSwitch(i)
    PROVE  CommanderInv'
<1>1. activePane' \in PaneNumber
  BY FirstOtherIs DEF FocusPane, TabSwitch
<1>2. lastOrder' = NoPress /\ UNCHANGED <<whereVars, browser, picked, opRequest>>
  BY DEF FocusPane, TabSwitch
<1> QED
  BY <1>1, <1>2, NoOrderIs, QuietStep

\* A transfer of what the copy says is selected in one pane, to another pane.
LEMMA TransferNamesShown ==
    ASSUME CommanderInv, NEW op \in {"copy", "move"},
           NEW i \in PaneNumber, NEW j \in PaneNumber, i # j,
           browser[i].of # NoFiles, browser[j].of # NoFiles,
           Own \in {browser[i].of, browser[j].of}, browser[i].chosen # {},
           Orders(op, i, j, browser[i].chosen)
    PROVE  CommanderInv'
<1> DEFINE given == [op |-> op, from |-> i, to |-> j, names |-> browser[i].chosen]
<1>1. lastOrder' = given /\ UNCHANGED <<whereVars, activePane, browser, picked, opRequest>>
  BY DEF Orders
<1>2. browser[i].chosen \in Pick /\ activePane \in PaneNumber
  BY DEF CommanderInv, BrowserTypes, FileBrowser
<1>3. OrderTypes'
  BY <1>1, <1>2 DEF OrderTypes
<1>4. op \notin PaneOp
  BY DEF PaneOp
<1>5. OrdersNameTheShown'
  BY <1>1, <1>4 DEF OrdersNameTheShown
<1> QED
  BY <1>1, <1>2, <1>3, <1>5, QuietStep

LEMMA OneOwn ==
    ASSUME CommanderInv, NEW i \in CommanderPanes, NEW j \in CommanderPanes, CanTransfer(i, j)
    PROVE  /\ i \in PaneNumber /\ j \in PaneNumber
           /\ browser[i].of # NoFiles /\ browser[j].of # NoFiles
           /\ Own \in {browser[i].of, browser[j].of}
           /\ picked[i] = browser[i].chosen /\ picked[i] # {}
<1>1. /\ i \in PaneNumber /\ j \in PaneNumber /\ onTop /\ filesOn
      /\ within[i] \in Session /\ within[j] \in Session
      /\ viewIn[i] # "terminal" /\ viewIn[j] # "terminal"
  BY CommanderPaneIs
<1>2. FileViewOf(i) = viewIn[i] /\ FileViewOf(j) = viewIn[j]
  BY <1>1 DEF FileViewOf
<1>3. /\ browser[i].of # NoFiles /\ browser[j].of # NoFiles
      /\ viewIn[i] = "local" => browser[i].of = Own
      /\ viewIn[j] = "local" => browser[j].of = Own
  BY <1>1, FilesAreShown DEF CommanderInv
<1>4. picked[i] = browser[i].chosen
  BY <1>1, <1>3 DEF CommanderInv, CopyIsTold
<1> QED
  BY <1>1, <1>2, <1>3, <1>4 DEF CanTransfer

LEMMA BarTransferInv ==
    ASSUME CommanderInv, NEW op \in {"copy", "move"}, TwoPanes, NEW i \in CommanderPanes,
           CanTransfer(i, Across(i)), Orders(op, i, Across(i), picked[i])
    PROVE  CommanderInv'
<1>1. Across(i) \in CommanderPanes /\ Across(i) # i
  BY AcrossIs
<1> QED
  BY <1>1, OneOwn, TransferNamesShown

\* The pane the keys take for their source is one of the two.
LEMMA BaseSourceIs ==
    ASSUME TwoPanes, BaseSource # NoPane
    PROVE  BaseSource \in CommanderPanes
<1>1. PICK a, b \in PaneNumber : a < b /\ CommanderPanes = {a, b}
  BY DEF TwoPanes
<1>2. a \in Nat /\ b \in Nat
  BY CommanderAssumption
<1>3. LeftPane \in CommanderPanes
  BY <1>1, <1>2 DEF LeftPane
<1>4. RightPane \in CommanderPanes
  BY <1>1, <1>2 DEF RightPane
<1>5. {i \in CommanderPanes : picked[i] # {}} # {} =>
        (CHOOSE i \in {j \in CommanderPanes : picked[j] # {}} : TRUE) \in CommanderPanes
  OBVIOUS
<1> QED
  BY <1>3, <1>4, <1>5 DEF BaseSource

LEMMA PressTransferInv ==
    ASSUME CommanderInv, NEW op \in {"copy", "move"}, NEW shift \in BOOLEAN,
           PressTransfer(op, shift)
    PROVE  CommanderInv'
<1> DEFINE i == IF shift THEN Across(BaseSource) ELSE BaseSource
<1>1. TwoPanes /\ CanTransfer(i, Across(i)) /\ Orders(op, i, Across(i), picked[i])
  BY DEF PressTransfer
<1>2. BaseSource \in CommanderPanes
  BY BaseSourceIs DEF PressTransfer
<1>3. i \in CommanderPanes
  BY <1>1, <1>2, AcrossIs
<1> HIDE DEF i
<1> QED
  BY <1>1, <1>3, BarTransferInv

LEMMA ClickGutterInv ==
    ASSUME CommanderInv, NEW op \in {"copy", "move"}, NEW i, ClickGutter(op, i)
    PROVE  CommanderInv'
BY BarTransferInv DEF ClickGutter

LEMMA OwnF5Inv ==
    ASSUME CommanderInv, NEW i \in PaneNumber, OwnF5(i)
    PROVE  CommanderInv'
<1> DEFINE j == FirstOther(i)
<1>1. j \in PaneNumber /\ j # i /\ within[j] \in Session /\ viewIn[j] # "terminal"
  BY FirstOtherIs DEF OwnF5, HasFiles
<1>2. /\ browser[i].chosen # {} /\ "local" \in {viewIn[i], viewIn[j]}
      /\ Orders("copy", i, j, browser[i].chosen)
  BY DEF OwnF5
<1> HIDE DEF j
<1>3. browser[i].of # NoFiles
  BY <1>2 DEF CommanderInv, CopyIsTold
<1>4. onTop /\ filesOn /\ within[i] \in Session /\ viewIn[i] # "terminal"
  BY <1>3, BrowserIsThere DEF CommanderInv
<1>5. /\ browser[j].of # NoFiles
      /\ viewIn[i] = "local" => browser[i].of = Own
      /\ viewIn[j] = "local" => browser[j].of = Own
  BY <1>1, <1>4, FilesAreShown DEF CommanderInv
<1> QED
  BY <1>1, <1>2, <1>3, <1>5, TransferNamesShown

LEMMA PressPaneOpInv ==
    ASSUME CommanderInv, NEW op \in GivenOps, PressPaneOp(op)
    PROVE  CommanderInv'
<1>0. PICK a \in PaneNumber : a = activePane
  BY DEF CommanderInv, BrowserTypes
<1> DEFINE names == IF op \in {"mkdir", "newTextFile"} THEN {} ELSE picked[a]
           wish == [id |-> opRequest.id + 1, pane |-> a, op |-> op, names |-> names]
           given == [op |-> op, from |-> a, to |-> NoPane, names |-> names]
<1>1. /\ a \in CommanderPanes /\ opRequest.id < MaxOrders
      /\ opRequest' = wish /\ lastOrder' = given
      /\ UNCHANGED whereVars /\ activePane' = a /\ Render(browser)
  BY <1>0 DEF PressPaneOp
<1>2. op \in PaneOp /\ MaxOrders \in Nat
  BY CommanderAssumption
<1>3. /\ a \in PaneNumber /\ onTop /\ filesOn /\ within[a] \in Session
      /\ viewIn[a] # "terminal"
  BY <1>1, CommanderPaneIs
<1>4. browser[a].of # NoFiles /\ picked[a] = browser[a].chosen
  BY <1>3, FilesAreShown DEF CommanderInv, CopyIsTold
<1>5. names \in Pick /\ names \subseteq browser[a].chosen
  BY <1>3, <1>4 DEF CommanderInv, BrowserTypes, FileBrowser, Pick
<1> HIDE DEF names
<1>6. opRequest' \in Request
  <2>1. opRequest.id \in 0 .. MaxOrders
    BY DEF CommanderInv, BrowserTypes, Request
  <2>2. opRequest.id + 1 \in 0 .. MaxOrders
    BY <1>1, <1>2, <2>1
  <2> QED
    BY <1>1, <1>2, <1>3, <1>5, <2>2 DEF Request
<1>7. OrderTypes'
  BY <1>1, <1>2, <1>3, <1>5 DEF OrderTypes, Pick
<1>8. WhereTypes' /\ ViewsFit'
  BY <1>1, SamePanes DEF CommanderInv
<1>9. browser \in [PaneNumber -> FileBrowser] /\ picked \in [PaneNumber -> Pick]
  BY DEF CommanderInv, BrowserTypes
<1>10. /\ browser' \in [PaneNumber -> FileBrowser] /\ picked' \in [PaneNumber -> Pick]
       /\ MountedIsShown' /\ CopyIsTold'
  BY <1>1, <1>6, <1>9, RenderInv
<1>11. /\ browser'[a].of # NoFiles /\ names \subseteq browser'[a].chosen
       /\ browser'[a].served = opRequest'.id
  <2>1. PICK asks \in BOOLEAN :
          browser' = [i \in PaneNumber |->
                         Serves(i, Rendered(browser[i], Browses(i)'), opRequest', asks)]
    BY <1>1 DEF Render
  <2>2. Browses(a)' = browser[a].of
    BY <1>1, <1>3 DEF whereVars, Browses, FileViewOf, CommanderInv, MountedIsShown
  <2>3. browser[a] \in FileBrowser /\ browser[a].of \in Host \cup {Own, NoFiles}
    BY <1>3, <1>9 DEF FileBrowser
  <2>4. Rendered(browser[a], Browses(a)') = browser[a]
    BY <1>4, <2>2, <2>3, RenderedIs
  <2>5. browser'[a] = Serves(a, browser[a], opRequest', asks)
    BY <1>3, <2>1, <2>4
  <2>6. opRequest'.pane = a /\ opRequest'.names = names
    BY <1>1
  <2> QED
    BY <1>3, <1>4, <1>5, <1>6, <2>3, <2>5, <2>6, ServesIs
<1>12. OrdersNameTheShown'
  <2>1. lastOrder'.op = op /\ lastOrder'.from = a /\ lastOrder'.names = names
    BY <1>1
  <2> QED
    BY <1>1, <1>2, <1>11, <2>1 DEF OrdersNameTheShown
<1>13. BrowserTypes'
  BY <1>1, <1>3, <1>6, <1>10 DEF BrowserTypes
<1> QED
  BY <1>7, <1>8, <1>10, <1>12, <1>13 DEF CommanderInv

\* Steps of the commander around the browsers.
LEMMA RearrangedInv ==
    ASSUME CommanderInv, WhereTypes', ViewsFit', activePane' \in PaneNumber, Rearranged
    PROVE  CommanderInv'
<1>1. browser \in [PaneNumber -> FileBrowser]
  BY DEF CommanderInv, BrowserTypes
<1> QED
  BY <1>1, RenderedStep DEF Rearranged

LEMMA HoldsIs ==
    ASSUME WhereTypes, ViewsFit, NEW i \in PaneNumber, UNCHANGED filesOn, UNCHANGED onTop,
           NEW what \in Session \cup {Absent, Empty}, what # Console,
           NEW view \in Views, view = "remote" => what \in Host, Holds(i, what, view)
    PROVE  WhereTypes' /\ ViewsFit'
BY DEF WhereTypes, ViewsFit, Holds

LEMMA PlacedInv ==
    ASSUME CommanderInv, ~WithConsoles, NEW i \in PaneNumber,
           (\E what \in Session : PlaceSession(i, what)) \/ SessionLeaves(i)
    PROVE  CommanderInv'
<1>0. WhereTypes /\ ViewsFit
  BY DEF CommanderInv
<1>1. ASSUME NEW what \in Session, PlaceSession(i, what)  PROVE CommanderInv'
  <2>1. PICK view \in (IF what \in Host /\ filesOn THEN Views ELSE {"terminal"}) :
          Holds(i, what, view)
    BY <1>1 DEF PlaceSession
  <2>2. view \in Views /\ (view = "remote" => what \in Host)
    BY DEF Views
  <2>3. what # Console /\ UNCHANGED filesOn /\ UNCHANGED onTop /\ activePane' = i /\ Rearranged
    BY <1>1 DEF PlaceSession
  <2>4. WhereTypes' /\ ViewsFit'
    BY <1>0, <2>1, <2>2, <2>3, HoldsIs
  <2> QED
    BY <2>3, <2>4, RearrangedInv
<1>2. CASE SessionLeaves(i)
  <2>1. PICK rest \in {Empty, Absent} : Holds(i, rest, "terminal")
    BY <1>2 DEF SessionLeaves
  <2>2. "terminal" \in Views /\ rest # Console
    BY DEF Views, Empty, Absent, Console
  <2>3. UNCHANGED filesOn /\ UNCHANGED onTop /\ activePane' \in PaneNumber /\ Rearranged
    BY <1>2 DEF SessionLeaves, CommanderInv, BrowserTypes
  <2>4. WhereTypes' /\ ViewsFit'
    BY <1>0, <2>1, <2>2, <2>3, HoldsIs
  <2> QED
    BY <2>3, <2>4, RearrangedInv
<1> QED
  BY <1>1, <1>2

LEMMA DragSessionInv ==
    ASSUME CommanderInv, NEW i \in PaneNumber, NEW j \in PaneNumber, DragSession(i, j)
    PROVE  CommanderInv'
<1>1. /\ i # j /\ within[i] \in Session
      /\ within' = [within EXCEPT ![j] = within[i],
                                  ![i] = IF within[j] \in Session THEN within[j] ELSE Absent]
      /\ viewIn' = [viewIn EXCEPT ![j] = viewIn[i], ![i] = viewIn[j]]
      /\ UNCHANGED <<onTop, filesOn>> /\ activePane' = j /\ Rearranged
  BY DEF DragSession
<1>2. WhereTypes'
  BY <1>1 DEF CommanderInv, WhereTypes
<1>3. \A k \in PaneNumber : viewIn[k] = "remote" => within[k] \in Session
  BY DEF CommanderInv, ViewsFit, Session
<1>4. Absent # Console
  BY DEF Absent, Console
<1>5. ViewsFit'
  BY <1>1, <1>3, <1>4 DEF CommanderInv, WhereTypes, ViewsFit
<1> QED
  BY <1>1, <1>2, <1>5, RearrangedInv

LEMMA AroundInv ==
    ASSUME CommanderInv,
           LeaveCommander \/ EnterCommander \/ SwitchPlugin \/ \E h \in Host : ForgetSpec(h)
    PROVE  CommanderInv'
<1>0. WhereTypes /\ ViewsFit /\ activePane \in PaneNumber
  BY DEF CommanderInv, BrowserTypes
<1>1. CASE LeaveCommander
  BY <1>0, <1>1, RearrangedInv DEF LeaveCommander, WhereTypes, ViewsFit, Views
<1>2. CASE EnterCommander
  BY <1>0, <1>2, RearrangedInv DEF EnterCommander, WhereTypes, ViewsFit, Views
<1>3. CASE SwitchPlugin
  <2>1. filesOn' \in BOOLEAN
    BY <1>3, Zenon DEF SwitchPlugin
  <2> QED
    BY <1>0, <1>3, <2>1, RearrangedInv DEF SwitchPlugin, WhereTypes, ViewsFit, Views
<1>4. ASSUME NEW h \in Host, ForgetSpec(h)  PROVE CommanderInv'
  BY <1>0, <1>4, RearrangedInv DEF ForgetSpec, WhereTypes, ViewsFit, Views
<1> QED
  BY <1>1, <1>2, <1>3, <1>4

LEMMA CommanderInitInv == CommanderInit => CommanderInv
<1> SUFFICES ASSUME CommanderInit PROVE CommanderInv
  OBVIOUS
<1>1. WhereTypes
  BY DEF CommanderInit, WhereTypes, Session, Views
<1>2. \A i \in PaneNumber : browser[i] = IF within[i] = Shell THEN Mounts(Own) ELSE NoBrowser
  BY DEF CommanderInit
<1>3. Mounts(Own) \in FileBrowser /\ Mounts(Own).of = Own /\ Mounts(Own).chosen = {}
  <2>1. \A c \in FileBrowser :
           /\ [c EXCEPT !.of = Own] \in FileBrowser
           /\ [c EXCEPT !.of = Own].of = Own /\ [c EXCEPT !.of = Own].chosen = c.chosen
    BY DEF FileBrowser
  <2>2. NoBrowser \in FileBrowser /\ NoBrowser.chosen = {}
    BY CommanderAssumption DEF NoBrowser, FileBrowser, Pick
  <2> QED
    BY <2>1, <2>2 DEF Mounts
<1>4. NoBrowser \in FileBrowser /\ NoBrowser.of = NoFiles /\ NoBrowser.chosen = {}
  BY CommanderAssumption DEF NoBrowser, FileBrowser, Pick
<1>5. browser \in [PaneNumber -> FileBrowser]
  BY <1>3, <1>4 DEF CommanderInit
<1>6. BrowserTypes
  <2>1. opRequest \in Request
    BY CommanderAssumption DEF CommanderInit, NoOpRequest, Request, Pick
  <2> QED
    BY <1>5, <2>1 DEF CommanderInit, BrowserTypes, Pick
<1>7. OrderTypes /\ OrdersNameTheShown
  BY DEF CommanderInit, NoPress, OrderTypes, OrdersNameTheShown, Pick
<1>8. ViewsFit
  BY DEF CommanderInit, ViewsFit, Shell, Absent, Console
<1>9. MountedIsShown
  <2>1. ASSUME NEW i \in PaneNumber, within[i] = Shell  PROVE Browses(i) = Own
    BY <2>1 DEF CommanderInit, Browses, FileViewOf, Session, Shell, Console
  <2>2. ASSUME NEW i \in PaneNumber, within[i] # Shell  PROVE Browses(i) = NoFiles
    BY <2>2 DEF CommanderInit, Browses, FileViewOf
  <2> QED
    BY <1>2, <1>3, <1>4, <2>1, <2>2 DEF MountedIsShown
<1>10. CopyIsTold
  BY <1>2, <1>3, <1>4 DEF CopyIsTold, CommanderInit
<1> QED
  BY <1>1, <1>6, <1>7, <1>8, <1>9, <1>10 DEF CommanderInv

\* An NSS-Commander without web consoles gives its orders about files that are selected
\* on the screen, in the pane that has the focus or that a transfer leaves, for any
\* panes, hosts and names.  CommanderTypeOK, the kinds of all variables, comes with it.
THEOREM OrdersAreSeen ==
    ASSUME ~WithConsoles
    PROVE  CommanderSpec => [](CommanderTypeOK /\ OrdersNameTheShown)
<1>1. CommanderInit => CommanderInv
  BY CommanderInitInv
<1>2. CommanderInv /\ [CommanderNext]_commanderVars => CommanderInv'
  <2> SUFFICES ASSUME CommanderInv, [CommanderNext]_commanderVars PROVE CommanderInv'
    OBVIOUS
  <2>1. ASSUME NEW i \in PaneNumber,
               \/ \E n \in RowName : ClickRow(i, n)
               \/ EnterFolder(i) \/ HideDotFiles(i) \/ OpenDialog(i) \/ AnswerDialog(i)
        PROVE  CommanderInv'
    BY <2>1, InBrowserInv, OpenDialogInv, AnswerDialogInv
  <2>2. ASSUME NEW i \in PaneNumber,
               FocusPane(i) \/ TabSwitch(i) \/ OwnF5(i)
               \/ \E op \in {"copy", "move"} : ClickGutter(op, i)
        PROVE  CommanderInv'
    BY <2>2, FocusInv, OwnF5Inv, ClickGutterInv
  <2>3. ASSUME NEW i \in PaneNumber,
               \/ SessionLeaves(i) \/ \E what \in Session : PlaceSession(i, what)
               \/ \E j \in PaneNumber : DragSession(i, j)
        PROVE  CommanderInv'
    BY <2>3, PlacedInv, DragSessionInv
  <2>4. ASSUME NEW op \in {"copy", "move"}, NEW shift \in BOOLEAN, PressTransfer(op, shift)
        PROVE  CommanderInv'
    BY <2>4, PressTransferInv
  <2>5. ASSUME NEW op \in GivenOps, PressPaneOp(op)  PROVE CommanderInv'
    BY <2>5, PressPaneOpInv
  <2>6. CASE LeaveCommander \/ EnterCommander \/ SwitchPlugin \/ \E h \in Host : ForgetSpec(h)
    BY <2>6, AroundInv
  <2>7. CASE UNCHANGED commanderVars
    <3>1. UNCHANGED <<whereVars, activePane, browser, picked, opRequest, lastOrder>>
      BY <2>7 DEF commanderVars
    <3>2. activePane' \in PaneNumber /\ OrderTypes' /\ OrdersNameTheShown'
      BY <3>1 DEF CommanderInv, BrowserTypes, OrderTypes, OrdersNameTheShown
    <3> QED
      BY <3>1, <3>2, QuietStep
  <2> QED
    BY <2>1, <2>2, <2>3, <2>4, <2>5, <2>6, <2>7, Zenon DEF CommanderNext
<1>3. CommanderInv => CommanderTypeOK /\ OrdersNameTheShown
  BY TypesAre DEF CommanderInv
<1> QED
  BY <1>1, <1>2, <1>3, PTL DEF CommanderSpec

-----------------------------------------------------------------------------
(* Views, keyboard and broadcasting                                        *)

PlaceTypes ==
    /\ onDesk \in Desk /\ paired \subseteq Paired
    /\ placeOf \in [Tab -> Desk \cup {Gone, Nowhere}]
    /\ DOMAIN starting \subseteq Tab
    /\ starting \in [DOMAIN starting -> [files : BOOLEAN, from : Desk]]

ViewTypes ==
    /\ DOMAIN fileViews \subseteq Tab
    /\ fileViews \in [DOMAIN fileViews -> {"remote", "local"}]
    /\ filePlugin \in BOOLEAN /\ unhosted \subseteq Tab

\* A remote view is of a session that can be reached; a local one in an ordinary
\* workspace is of a local shell.  This is asked of every view, wherever its session is.
ViewsAreOwn ==
    \A s \in DOMAIN fileViews :
        /\ fileViews[s] = "remote" => HasRemoteSpec(s)
        /\ fileViews[s] = "local" /\ onDesk \notin paired => TabKind[s] = "local"

KeyboardIsThere == keyboard \in Terminals \cup {NoTerminal}

MarksOK ==
    /\ broadcasting \in BOOLEAN /\ marked \subseteq Tab
    /\ ~broadcasting => marked = {}
    /\ \A s \in marked : placeOf[s] # Gone /\ ~WebLike(s)

ViewsInv == PlaceTypes /\ ViewTypes /\ ViewsAreOwn /\ KeyboardIsThere /\ MarksOK

LEMMA SpecsAreSsh ==
    ASSUME NEW s, HasRemoteSpec(s)  PROVE ~WebLike(s)
BY DEF HasRemoteSpec, WebLike

LEMMA ViewsInvSuffices ==
    ASSUME ViewsInv  PROVE PaneViewsTypeOK /\ ShowsItsOwnFiles /\ MarksAreCurrent
<1>1. PaneViewsTypeOK
  BY DEF ViewsInv, PlaceTypes, ViewTypes, KeyboardIsThere, MarksOK, PaneViewsTypeOK
<1>2. ShowsItsOwnFiles
  BY SpecsAreSsh DEF ViewsInv, ViewsAreOwn, ShowsItsOwnFiles, PaneKindIcon, Shows, PaneFileView
<1>3. MarksAreCurrent
  <2>1. \A s \in marked : s \in Live /\ ~WebLike(s)
    BY DEF ViewsInv, MarksOK, Live
  <2>2. \A s \in Terminals : s \in Live /\ ~WebLike(s)
    BY PlacesAssumption DEF ViewsInv, PlaceTypes, Terminals, OnScreen, Shows, Live
  <2>3. keyboard # NoTerminal => keyboard \in Live /\ ~WebLike(keyboard)
    BY <2>2 DEF ViewsInv, KeyboardIsThere
  <2> QED
    BY <2>1, <2>3 DEF ViewsInv, MarksOK, MarksAreCurrent, InputTargets
<1> QED
  BY <1>1, <1>2, <1>3

LEMMA ViewsInitInv == PaneViewsInit => ViewsInv
<1> SUFFICES ASSUME PaneViewsInit PROVE ViewsInv
  OBVIOUS
<1>1. DOMAIN <<>> = {}
  OBVIOUS
<1>2. PlaceTypes
  BY <1>1 DEF PaneViewsInit, PlaceTypes
<1>3. ViewTypes /\ ViewsAreOwn
  BY <1>1 DEF PaneViewsInit, ViewTypes, ViewsAreOwn
<1> QED
  BY <1>2, <1>3 DEF PaneViewsInit, ViewsInv, KeyboardIsThere, MarksOK

LEMMA KeyboardKept ==
    ASSUME KeyboardIsThere, NoTerminal \notin Tab,
           KeyboardFollows \/ KeyboardMoves
    PROVE  KeyboardIsThere'
BY DEF KeyboardFollows, KeyboardMoves, KeyboardIsThere

\* Terminals depend on places and views.
LEMMA SameTerminals ==
    ASSUME UNCHANGED <<placeVars, fileViews, filePlugin, unhosted>>
    PROVE  /\ Terminals' = Terminals /\ (PlaceTypes => PlaceTypes')
           /\ (ViewTypes => ViewTypes') /\ (ViewsAreOwn => ViewsAreOwn')
<1> USE DEF placeVars
<1>1. Terminals' = Terminals
  BY DEF Terminals, OnScreen, Shows, PaneFileView, HasRemoteSpec, WebLike
<1>2. \A s \in DOMAIN fileViews : HasRemoteSpec(s)' <=> HasRemoteSpec(s)
  BY DEF HasRemoteSpec
<1>3. ViewsAreOwn => ViewsAreOwn'
  BY <1>2 DEF ViewsAreOwn
<1> QED
  BY <1>1, <1>3 DEF PlaceTypes, ViewTypes

\* The keyboard goes to a terminal that is there, or to none.
LEMMA KeyboardStep ==
    ASSUME ViewsInv, UNCHANGED <<placeVars, fileViews, filePlugin, unhosted, castVars>>,
           keyboard' \in Terminals \cup {NoTerminal, keyboard} \/ KeyboardFollows
    PROVE  ViewsInv'
<1>1. PlaceTypes' /\ ViewTypes' /\ ViewsAreOwn' /\ Terminals' = Terminals
  BY SameTerminals DEF ViewsInv
<1>2. MarksOK'
  BY DEF ViewsInv, MarksOK, castVars, placeVars
<1>3. KeyboardIsThere'
  BY <1>1 DEF ViewsInv, KeyboardIsThere, KeyboardFollows
<1> QED
  BY <1>1, <1>2, <1>3 DEF ViewsInv

LEMMA FocusStepInv ==
    ASSUME ViewsInv, NEW s \in Tab,
           ClickPane(s) \/ HoverPane(s) \/ FocusNextPane(s) \/ QuickNavPane(s) \/ PressButton(s)
    PROVE  ViewsInv'
<1>1. UNCHANGED <<placeVars, fileViews, filePlugin, unhosted, castVars>>
  BY DEF ClickPane, HoverPane, FocusNextPane, QuickNavPane, PressButton
<1>2. keyboard' \in Terminals \cup {NoTerminal, keyboard} \/ KeyboardFollows
  BY DEF ClickPane, HoverPane, FocusNextPane, QuickNavPane, PressButton
<1> QED
  BY <1>1, <1>2, KeyboardStep

LEMMA ChangeFontInv ==
    ASSUME ViewsInv, ChangeFont
    PROVE  ViewsInv'
BY KeyboardStep DEF ChangeFont

-----------------------------------------------------------------------------

\* What the steps of the views have in common.
LEMMA ViewStep ==
    ASSUME ViewsInv, PlaceTypes', ViewTypes', ViewsAreOwn', MarksOK',
           KeyboardFollows \/ KeyboardMoves
    PROVE  ViewsInv'
BY KeyboardKept, PlacesAssumption DEF ViewsInv

LEMMA SettingTyped ==
    ASSUME NEW D, NEW V, NEW f, DOMAIN f \subseteq D, f \in [DOMAIN f -> V],
           NEW s \in D, NEW v \in V
    PROVE  /\ DOMAIN Setting(f, s, v) \subseteq D
           /\ Setting(f, s, v) \in [DOMAIN Setting(f, s, v) -> V]
BY DEF Setting

LEMMA DroppingTyped ==
    ASSUME NEW D, NEW V, NEW f, DOMAIN f \subseteq D, f \in [DOMAIN f -> V], NEW S
    PROVE  /\ DOMAIN Dropping(f, S) \subseteq D
           /\ Dropping(f, S) \in [DOMAIN Dropping(f, S) -> V]
BY DEF Dropping

\* A change of views that leaves the rest alone.
LEMMA ViewsChanged ==
    ASSUME PlaceTypes, ViewTypes, ViewsAreOwn,
           UNCHANGED <<onDesk, paired, filePlugin, unhosted>>,
           \/ \E s \in Tab, view \in {"remote", "local"} :
                 /\ fileViews' = Setting(fileViews, s, view)
                 /\ view = "remote" => HasRemoteSpec(s)
                 /\ view = "local" => TabKind[s] = "local"
           \/ \E S : fileViews' = Dropping(fileViews, S)
           \/ fileViews' = <<>>
           \/ fileViews' = fileViews
    PROVE  ViewTypes' /\ ViewsAreOwn'
<1>0. \A s : HasRemoteSpec(s)' <=> HasRemoteSpec(s)
  BY DEF HasRemoteSpec
<1>1. ASSUME NEW s \in Tab, NEW view \in {"remote", "local"},
             fileViews' = Setting(fileViews, s, view),
             view = "remote" => HasRemoteSpec(s), view = "local" => TabKind[s] = "local"
      PROVE  ViewTypes' /\ ViewsAreOwn'
  <2>1. /\ DOMAIN fileViews' = DOMAIN fileViews \cup {s}
        /\ \A t \in DOMAIN fileViews' :
              fileViews'[t] = IF t = s THEN view ELSE fileViews[t]
    BY <1>1 DEF Setting
  <2>2. ViewTypes'
    BY <1>1, SettingTyped DEF ViewTypes
  <2>3. ViewsAreOwn'
    BY <1>0, <1>1, <2>1 DEF ViewsAreOwn
  <2> QED
    BY <2>2, <2>3
<1>2. ASSUME NEW S, fileViews' = Dropping(fileViews, S)  PROVE ViewTypes' /\ ViewsAreOwn'
  <2>1. /\ DOMAIN fileViews' = DOMAIN fileViews \ S
        /\ \A t \in DOMAIN fileViews' : fileViews'[t] = fileViews[t]
    BY <1>2 DEF Dropping
  <2>2. ViewTypes'
    BY <1>2, DroppingTyped DEF ViewTypes
  <2>3. ViewsAreOwn'
    BY <1>0, <2>1 DEF ViewsAreOwn
  <2> QED
    BY <2>2, <2>3
<1>3. CASE fileViews' = <<>>
  <2>1. DOMAIN <<>> = {}
    OBVIOUS
  <2> QED
    BY <1>3, <2>1 DEF ViewTypes, ViewsAreOwn
<1>4. CASE fileViews' = fileViews
  BY <1>0, <1>4 DEF ViewTypes, ViewsAreOwn
<1> QED
  BY <1>1, <1>2, <1>3, <1>4, Zenon

\* A workspace that is shown has its own views.
LEMMA ViewsOfAreOwn ==
    ASSUME NEW place, ViewTypes, fileViews' = ViewsOf(onDesk', place),
           onDesk' \in paired' => onDesk' \in paired,
           onDesk' \in paired => onDesk' \in paired',
           UNCHANGED <<filePlugin, unhosted>>
    PROVE  ViewTypes' /\ ViewsAreOwn'
<1>1. CASE onDesk' \in paired
  <2>1. fileViews' = [s \in {t \in Tab : place[t] = onDesk'} |-> "local"]
    BY <1>1 DEF ViewsOf
  <2> QED
    BY <1>1, <2>1 DEF ViewTypes, ViewsAreOwn
<1>2. CASE onDesk' \notin paired
  <2>1. DOMAIN <<>> = {} /\ fileViews' = <<>>
    BY <1>2 DEF ViewsOf
  <2> QED
    BY <2>1 DEF ViewTypes, ViewsAreOwn
<1> QED
  BY <1>1, <1>2

-----------------------------------------------------------------------------

LEMMA ToggleViewInv ==
    ASSUME ViewsInv, NEW s \in Tab, ToggleRemoteFiles(s) \/ ToggleLocalFiles(s)
    PROVE  ViewsInv'
<1>1. UNCHANGED <<placeVars, filePlugin, unhosted, castVars>> /\ KeyboardFollows
  BY DEF ToggleRemoteFiles, ToggleLocalFiles
<1>2. PlaceTypes' /\ MarksOK'
  BY <1>1 DEF ViewsInv, PlaceTypes, MarksOK, placeVars, castVars
<1>3. UNCHANGED <<onDesk, paired, filePlugin, unhosted>>
  BY <1>1 DEF placeVars
<1>4. PlaceTypes /\ ViewTypes /\ ViewsAreOwn
  BY DEF ViewsInv
<1>5. CASE ToggleRemoteFiles(s)
  <2>1. HasRemoteSpec(s)
    BY <1>4, <1>5 DEF ToggleRemoteFiles, PaneFileView, ViewsAreOwn
  <2>2. fileViews' = Dropping(fileViews, {s}) \/ fileViews' = Setting(fileViews, s, "remote")
    BY <1>5 DEF ToggleRemoteFiles, ToggledView
  <2>3. ViewTypes' /\ ViewsAreOwn'
    BY <1>3, <1>4, <2>1, <2>2, ViewsChanged
  <2> QED
    BY <1>1, <1>2, <2>3, ViewStep
<1>6. CASE ToggleLocalFiles(s)
  <2>1. TabKind[s] = "local"
    BY <1>6 DEF ToggleLocalFiles
  <2>2. fileViews' = Dropping(fileViews, {s}) \/ fileViews' = Setting(fileViews, s, "local")
    BY <1>6 DEF ToggleLocalFiles, ToggledView
  <2>3. ViewTypes' /\ ViewsAreOwn'
    BY <1>3, <1>4, <2>1, <2>2, ViewsChanged
  <2> QED
    BY <1>1, <1>2, <2>3, ViewStep
<1> QED
  BY <1>5, <1>6

LEMMA BroadcastInv ==
    ASSUME ViewsInv,
           \/ \E on \in BOOLEAN : SetBroadcastMode(on)
           \/ \E s \in Tab : TogglePaneTarget(s)
           \/ BroadcastToVisiblePanes
    PROVE  ViewsInv'
<1>0. PlaceTypes /\ ViewTypes /\ ViewsAreOwn /\ MarksOK
  BY DEF ViewsInv
<1>1. UNCHANGED <<placeVars, fileViews, filePlugin, unhosted>> /\ KeyboardFollows
  BY DEF SetBroadcastMode, TogglePaneTarget, BroadcastToVisiblePanes
<1>2. PlaceTypes' /\ ViewTypes' /\ ViewsAreOwn' /\ placeOf' = placeOf
  BY <1>0, <1>1, SameTerminals DEF placeVars
<1>3. \A s \in OnScreen : s \in Tab /\ placeOf[s] # Gone
  BY <1>0, PlacesAssumption DEF OnScreen, PlaceTypes
<1>4. MarksOK'
  <2>1. ASSUME NEW on \in BOOLEAN, SetBroadcastMode(on)  PROVE MarksOK'
    BY <1>0, <1>2, <2>1 DEF SetBroadcastMode, MarksOK
  <2>2. ASSUME NEW s \in Tab, TogglePaneTarget(s)  PROVE MarksOK'
    <3>1. /\ broadcasting /\ ~WebLike(s) /\ s \in OnScreen /\ broadcasting' = broadcasting
          /\ marked' = marked \ {s} \/ marked' = marked \cup {s}
      BY <2>2 DEF TogglePaneTarget, ToggleBroadcastTarget, Does
    <3> QED
      BY <1>0, <1>2, <1>3, <3>1 DEF MarksOK
  <2>3. CASE BroadcastToVisiblePanes
    <3>1. PICK s \in OnScreen : Does("all", s)
      BY <2>3 DEF BroadcastToVisiblePanes
    <3>2. broadcasting
      BY <3>1 DEF Does, ToolbarActions, ContextMenuActions, BackAction, BroadcastButtons,
                  FileButtons, ConsoleButtons, CloseButtons
    <3>3. /\ broadcasting' = broadcasting
          /\ marked' = marked \ Eligible \/ marked' = marked \cup Eligible
      BY <2>3 DEF BroadcastToVisiblePanes
    <3> QED
      BY <1>0, <1>2, <1>3, <3>2, <3>3 DEF MarksOK, Eligible
  <2> QED
    BY <2>1, <2>2, <2>3
<1> QED
  BY <1>1, <1>2, <1>4, ViewStep

\* Sessions that are placed, and marks that go.
LEMMA MarksKept ==
    ASSUME PlaceTypes, MarksOK, broadcasting' = broadcasting, marked' \in SUBSET marked,
           \A s \in marked' : placeOf'[s] # Gone
    PROVE  MarksOK'
BY DEF MarksOK, WebLike

LEMMA PlacedTypes ==
    ASSUME PlaceTypes, NEW s \in Tab, NEW d \in Desk, NEW out, PutInPane(s, d, out)
    PROVE  /\ placeOf' \in [Tab -> Desk \cup {Gone, Nowhere}]
           /\ \A t \in Tab : placeOf[t] # Gone => placeOf'[t] # Gone
<1>1. placeOf' = [t \in Tab |-> IF t = s THEN d ELSE IF t \in out THEN Nowhere ELSE placeOf[t]]
  BY DEF PutInPane
<1>2. placeOf' \in [Tab -> Desk \cup {Gone, Nowhere}]
  BY <1>1 DEF PlaceTypes
<1>3. d # Gone /\ Nowhere # Gone
  BY PlacesAssumption DEF Gone, Nowhere
<1>4. \A t \in Tab : placeOf[t] # Gone => placeOf'[t] # Gone
  BY <1>1, <1>3
<1> QED
  BY <1>2, <1>4

LEMMA BeginOpenInv ==
    ASSUME ViewsInv, NEW s \in Tab, BeginOpen(s)
    PROVE  ViewsInv'
<1>0. PlaceTypes /\ ViewTypes /\ ViewsAreOwn /\ MarksOK
  BY DEF ViewsInv
<1>1. /\ UNCHANGED <<onDesk, paired, placeOf, fileViews, filePlugin, unhosted, castVars>>
      /\ KeyboardFollows
  BY DEF BeginOpen
<1> DEFINE Seen == [files : BOOLEAN, from : Desk]
<1>2. PICK v \in Seen : starting' = Setting(starting, s, v)
  BY <1>0 DEF BeginOpen, PlaceTypes
<1>3. DOMAIN starting \subseteq Tab /\ starting \in [DOMAIN starting -> Seen]
  BY <1>0 DEF PlaceTypes
<1> HIDE DEF Seen
<1>4. DOMAIN starting' \subseteq Tab /\ starting' \in [DOMAIN starting' -> Seen]
  BY <1>2, <1>3, SettingTyped
<1>5. PlaceTypes'
  BY <1>0, <1>1, <1>4 DEF PlaceTypes, Seen
<1>6. MarksOK' 
  BY <1>0, <1>1 DEF MarksOK, castVars
<1>7. ViewTypes' /\ ViewsAreOwn'
  BY <1>0, <1>1, ViewsChanged
<1> QED
  BY <1>1, <1>5, <1>6, <1>7, ViewStep

LEMMA StartingDropped ==
    ASSUME PlaceTypes, NEW s, starting' = Dropping(starting, {s})
    PROVE  DOMAIN starting' \subseteq Tab
           /\ starting' \in [DOMAIN starting' -> [files : BOOLEAN, from : Desk]]
BY DroppingTyped DEF PlaceTypes

LEMMA OpenedInv ==
    ASSUME ViewsInv, NEW s \in Tab, \E out \in SUBSET OnScreen : Opened(s, out)
    PROVE  ViewsInv'
<1>0. PlaceTypes /\ ViewTypes /\ ViewsAreOwn /\ MarksOK /\ onDesk \in Desk
  BY DEF ViewsInv, PlaceTypes
<1>1. PICK out : Opened(s, out)
  OBVIOUS
<1>2. /\ UNCHANGED <<onDesk, paired, filePlugin, unhosted, castVars>> /\ KeyboardMoves
      /\ PutInPane(s, onDesk, out) /\ starting' = Dropping(starting, {s})
      /\ \/ HasRemoteSpec(s) /\ fileViews' = Setting(fileViews, s, "remote")
         \/ fileViews' = Dropping(fileViews, {s})
  BY <1>1 DEF Opened
<1>3. PlaceTypes'
  BY <1>0, <1>2, PlacedTypes, StartingDropped DEF PlaceTypes
<1>4. ViewTypes' /\ ViewsAreOwn'
  BY <1>0, <1>2, ViewsChanged
<1>5. MarksOK'
  BY <1>0, <1>2, PlacedTypes, MarksKept DEF castVars, MarksOK
<1> QED
  BY <1>2, <1>3, <1>4, <1>5, ViewStep

LEMMA OpenFailsInv ==
    ASSUME ViewsInv, NEW s \in Tab, OpenFails(s)
    PROVE  ViewsInv'
<1>0. PlaceTypes /\ ViewTypes /\ ViewsAreOwn /\ MarksOK /\ KeyboardIsThere
  BY DEF ViewsInv
<1>1. /\ UNCHANGED <<onDesk, paired, placeOf, fileViews, filePlugin, unhosted, keyboard, castVars>>
      /\ starting' = Dropping(starting, {s})
  BY DEF OpenFails
<1>2. PlaceTypes'
  BY <1>0, <1>1, StartingDropped DEF PlaceTypes
<1>3. MarksOK' /\ KeyboardIsThere'
  BY <1>0, <1>1 DEF MarksOK, castVars, KeyboardIsThere, Terminals, OnScreen, Shows,
                    PaneFileView, HasRemoteSpec, WebLike
<1>4. ViewTypes' /\ ViewsAreOwn'
  BY <1>0, <1>1, ViewsChanged
<1> QED
  BY <1>2, <1>3, <1>4 DEF ViewsInv

LEMMA BroughtInv ==
    ASSUME ViewsInv, NEW s \in Tab,
           \/ OpenWebConsole(s)
           \/ \E out \in SUBSET OnScreen : DropHost(s, out)
           \/ \E d \in Desk : SendToWorkspace(s, d)
    PROVE  ViewsInv'
<1>0. PlaceTypes /\ ViewTypes /\ ViewsAreOwn /\ MarksOK /\ onDesk \in Desk
  BY DEF ViewsInv, PlaceTypes
<1>1. /\ UNCHANGED <<onDesk, paired, starting, filePlugin, unhosted, broadcasting>>
      /\ KeyboardMoves /\ marked' \in SUBSET marked
      /\ fileViews' = fileViews \/ fileViews' = Dropping(fileViews, {s})
  BY DEF OpenWebConsole, DropHost, SendToWorkspace, Unmark, castVars
<1>2. PICK d \in Desk : \E out : PutInPane(s, d, out)
  BY <1>0 DEF OpenWebConsole, DropHost, SendToWorkspace
<1>3. PlaceTypes'
  BY <1>0, <1>1, <1>2, PlacedTypes DEF PlaceTypes
<1>4. ViewTypes' /\ ViewsAreOwn'
  BY <1>0, <1>1, ViewsChanged
<1>5. MarksOK'
  BY <1>0, <1>1, <1>2, PlacedTypes, MarksKept DEF MarksOK
<1> QED
  BY <1>1, <1>3, <1>4, <1>5, ViewStep

LEMMA RearrangeInv ==
    ASSUME ViewsInv, \E out \in SUBSET OnScreen : Rearrange(out)
    PROVE  ViewsInv'
<1>0. PlaceTypes /\ ViewTypes /\ ViewsAreOwn /\ MarksOK
  BY DEF ViewsInv
<1>1. PICK out \in SUBSET OnScreen : Rearrange(out)
  OBVIOUS
<1>2. /\ UNCHANGED <<onDesk, paired, starting, fileViews, filePlugin, unhosted, castVars>>
      /\ KeyboardMoves
      /\ placeOf' = [s \in Tab |-> IF s \in out THEN Nowhere ELSE placeOf[s]]
  BY <1>1 DEF Rearrange
<1>3. PlaceTypes'
  BY <1>0, <1>2 DEF PlaceTypes
<1>4. ViewTypes' /\ ViewsAreOwn'
  BY <1>0, <1>2, ViewsChanged
<1>5. \A s \in Tab : placeOf[s] # Gone => placeOf'[s] # Gone
  BY <1>2 DEF Gone, Nowhere
<1>6. MarksOK'
  BY <1>0, <1>2, <1>5, MarksKept DEF MarksOK, castVars
<1> QED
  BY <1>2, <1>3, <1>4, <1>6, ViewStep

LEMMA ClosedInv ==
    ASSUME ViewsInv, (\E s \in Tab : CloseSession(s)) \/ CloseAllSessions
    PROVE  ViewsInv'
<1>0. PlaceTypes /\ ViewTypes /\ ViewsAreOwn /\ MarksOK
  BY DEF ViewsInv
<1>1. /\ UNCHANGED <<onDesk, paired, starting, filePlugin, unhosted, broadcasting>>
      /\ KeyboardMoves
  BY DEF CloseSession, CloseAllSessions, Unmark
<1>2. ASSUME NEW s \in Tab, CloseSession(s)
      PROVE  PlaceTypes' /\ ViewTypes' /\ ViewsAreOwn' /\ MarksOK'
  <2>1. /\ placeOf' = [placeOf EXCEPT ![s] = Gone] /\ marked' = marked \ {s}
        /\ fileViews' = fileViews \/ fileViews' = Dropping(fileViews, {s})
    BY <1>2 DEF CloseSession, Unmark
  <2>2. PlaceTypes'
    BY <1>0, <1>1, <2>1 DEF PlaceTypes
  <2>3. \A t \in marked' : placeOf'[t] # Gone
    BY <1>0, <2>1 DEF PlaceTypes, MarksOK
  <2> QED
    BY <1>0, <1>1, <2>1, <2>2, <2>3, MarksKept, ViewsChanged
<1>3. CASE CloseAllSessions
  <2>1. /\ placeOf' = [s \in Tab |-> Gone] /\ marked' = marked \ Tab /\ fileViews' = <<>>
    BY <1>3 DEF CloseAllSessions, Unmark
  <2>2. PlaceTypes'
    BY <1>0, <1>1, <2>1 DEF PlaceTypes
  <2>3. marked' = {}
    BY <1>0, <2>1 DEF MarksOK
  <2>4. MarksOK'
    BY <1>0, <1>1, <2>3, MarksKept
  <2>5. ViewTypes' /\ ViewsAreOwn'
    BY <1>0, <1>1, <2>1, ViewsChanged
  <2> QED
    BY <1>1, <2>2, <2>4, <2>5, ViewStep
<1> QED
  BY <1>1, <1>2, <1>3, ViewStep

LEMMA SwitchInv ==
    ASSUME ViewsInv,
           \/ \E d \in Desk : SwitchWorkspace(d)
           \/ \E s \in Tab, d \in Desk : OpenedElsewhere(s, d)
    PROVE  ViewsInv'
<1>0. PlaceTypes /\ ViewTypes /\ ViewsAreOwn /\ MarksOK
  BY DEF ViewsInv
<1>1. UNCHANGED <<filePlugin, unhosted, castVars>> /\ KeyboardFollows
  BY DEF SwitchWorkspace, OpenedElsewhere
<1>2. ASSUME NEW d \in Desk, SwitchWorkspace(d)
      PROVE  PlaceTypes' /\ ViewTypes' /\ ViewsAreOwn' /\ MarksOK'
  <2>1. onDesk' = d /\ UNCHANGED <<paired, placeOf, starting>>
        /\ fileViews' = ViewsOf(d, placeOf)
    BY <1>2 DEF SwitchWorkspace
  <2>2. PlaceTypes' /\ MarksOK'
    BY <1>0, <1>1, <2>1 DEF PlaceTypes, MarksOK, castVars
  <2>3. ViewTypes' /\ ViewsAreOwn'
    BY <1>0, <1>1, <2>1, ViewsOfAreOwn
  <2> QED
    BY <2>2, <2>3
<1>3. ASSUME NEW s \in Tab, NEW d \in Desk, OpenedElsewhere(s, d)
      PROVE  PlaceTypes' /\ ViewTypes' /\ ViewsAreOwn' /\ MarksOK'
  <2>1. /\ PutInPane(s, d, {}) /\ starting' = Dropping(starting, {s})
        /\ onDesk' = d /\ d # starting[s].from /\ paired' = paired \ {starting[s].from}
        /\ fileViews' = ViewsOf(d, placeOf')
    BY <1>3 DEF OpenedElsewhere
  <2>2. PlaceTypes'
    BY <1>0, <2>1, PlacedTypes, StartingDropped DEF PlaceTypes
  <2>3. MarksOK'
    BY <1>0, <1>1, <2>1, PlacedTypes, MarksKept DEF MarksOK, castVars
  <2>4. onDesk' \in paired <=> onDesk' \in paired'
    BY <2>1
  <2>5. ViewTypes' /\ ViewsAreOwn'
    BY <1>0, <1>1, <2>1, <2>4, ViewsOfAreOwn
  <2> QED
    BY <2>2, <2>3, <2>5
<1> QED
  BY <1>1, <1>2, <1>3, ViewStep

LEMMA PluginInv ==
    ASSUME ViewsInv, \E on \in BOOLEAN : SetFilePlugin(on)
    PROVE  ViewsInv'
<1>0. PlaceTypes /\ ViewTypes /\ ViewsAreOwn /\ MarksOK
  BY DEF ViewsInv
<1>1. PICK on \in BOOLEAN : SetFilePlugin(on)
  OBVIOUS
<1>2. /\ filePlugin' = on /\ (fileViews' = fileViews \/ fileViews' = <<>>)
      /\ UNCHANGED <<placeVars, unhosted, castVars>> /\ KeyboardFollows
  BY <1>1 DEF SetFilePlugin
<1>3. PlaceTypes' /\ MarksOK'
  BY <1>0, <1>2 DEF PlaceTypes, MarksOK, placeVars, castVars
<1>4. DOMAIN <<>> = {}
  OBVIOUS
<1>5. ViewTypes'
  <2>1. filePlugin' \in BOOLEAN /\ unhosted' \subseteq Tab
    BY <1>0, <1>2 DEF ViewTypes
  <2>2. DOMAIN fileViews' \subseteq Tab /\ fileViews' \in [DOMAIN fileViews' -> {"remote", "local"}]
    <3>1. CASE fileViews' = fileViews
      BY <1>0, <3>1 DEF ViewTypes
    <3>2. CASE fileViews' = <<>>
      BY <1>4, <3>2
    <3> QED
      BY <1>2, <3>1, <3>2
  <2> QED
    BY <2>1, <2>2 DEF ViewTypes
<1>6. ViewsAreOwn'
  BY <1>0, <1>2, <1>4 DEF ViewsAreOwn, HasRemoteSpec, placeVars
<1> QED
  BY <1>2, <1>3, <1>5, <1>6, ViewStep

LEMMA ForgetHostInv ==
    ASSUME ViewsInv, NEW s \in Tab, ForgetHost(s)
    PROVE  ViewsInv'
<1>0. PlaceTypes /\ ViewTypes /\ ViewsAreOwn /\ MarksOK
  BY DEF ViewsInv
<1> DEFINE gone == {t \in {s} \cap DOMAIN fileViews : fileViews[t] = "remote"}
<1>1. /\ unhosted' = unhosted \cup {s} /\ fileViews' = Dropping(fileViews, gone)
      /\ UNCHANGED <<placeVars, filePlugin, castVars>> /\ KeyboardFollows
  BY DEF ForgetHost
<1>2. PlaceTypes' /\ MarksOK'
  BY <1>0, <1>1 DEF PlaceTypes, MarksOK, placeVars, castVars
<1>3. DOMAIN fileViews' \subseteq Tab /\ fileViews' \in [DOMAIN fileViews' -> {"remote", "local"}]
  BY <1>0, <1>1, DroppingTyped DEF ViewTypes
<1>4. ViewTypes'
  BY <1>0, <1>1, <1>3 DEF ViewTypes
<1>5. /\ DOMAIN fileViews' = DOMAIN fileViews \ gone
      /\ \A t \in DOMAIN fileViews' : fileViews'[t] = fileViews[t]
  BY <1>1 DEF Dropping
<1>6. \A t \in DOMAIN fileViews' : fileViews'[t] = "remote" => t # s /\ HasRemoteSpec(t)
  BY <1>0, <1>5 DEF ViewsAreOwn
<1>7. \A t \in DOMAIN fileViews' : fileViews'[t] = "remote" => HasRemoteSpec(t)'
  BY <1>1, <1>6 DEF HasRemoteSpec
<1>8. onDesk' = onDesk /\ paired' = paired
  BY <1>1 DEF placeVars
<1>9. ViewsAreOwn'
  BY <1>0, <1>5, <1>7, <1>8 DEF ViewsAreOwn
<1> QED
  BY <1>1, <1>2, <1>4, <1>9, ViewStep

\* No terminal is lost: of a session without host no remote view is left.
LEMMA AddHostInv ==
    ASSUME ViewsInv, NEW s \in Tab, AddHost(s)
    PROVE  ViewsInv'
<1>0. PlaceTypes /\ ViewTypes /\ ViewsAreOwn /\ MarksOK /\ KeyboardIsThere
  BY DEF ViewsInv
<1>1. /\ unhosted' = unhosted \ {s}
      /\ UNCHANGED <<placeVars, fileViews, filePlugin, keyboard, castVars>>
  BY DEF AddHost
<1>2. PlaceTypes' /\ MarksOK' /\ ViewTypes'
  BY <1>0, <1>1 DEF PlaceTypes, MarksOK, ViewTypes, placeVars, castVars
<1>3. \A t : HasRemoteSpec(t) => HasRemoteSpec(t)'
  BY <1>1 DEF HasRemoteSpec
<1>4. ViewsAreOwn'
  BY <1>0, <1>1, <1>3 DEF ViewsAreOwn, placeVars
<1>5. \A t \in Terminals : t \in Terminals'
  <2>1. \A t \in Terminals : t \in OnScreen' /\ ~WebLike(t)
    BY <1>1 DEF Terminals, OnScreen, Shows, placeVars
  <2>2. \A t : PaneFileView(t)' = PaneFileView(t)
    BY <1>1 DEF PaneFileView
  <2>3. \A t \in Terminals : PaneFileView(t) # "local" /\ PaneFileView(t) # "remote"
    BY <1>0 DEF Terminals, Shows, PaneFileView, ViewsAreOwn
  <2> QED
    BY <2>1, <2>2, <2>3 DEF Terminals, Shows, WebLike
<1>6. KeyboardIsThere'
  BY <1>0, <1>1, <1>5 DEF KeyboardIsThere
<1> QED
  BY <1>2, <1>4, <1>6 DEF ViewsInv

LEMMA ViewsInvHolds == PaneViewsSpec => []ViewsInv
<1>1. PaneViewsInit => ViewsInv
  BY ViewsInitInv
<1>2. ViewsInv /\ [PaneViewsNext]_paneViewsVars => ViewsInv'
  <2> SUFFICES ASSUME ViewsInv, [PaneViewsNext]_paneViewsVars PROVE ViewsInv'
    OBVIOUS
  <2>1. ASSUME NEW s \in Tab,
               ClickPane(s) \/ HoverPane(s) \/ FocusNextPane(s) \/ QuickNavPane(s)
               \/ PressButton(s)
        PROVE  ViewsInv'
    BY <2>1, FocusStepInv
  <2>2. ASSUME NEW s \in Tab,
               ToggleRemoteFiles(s) \/ ToggleLocalFiles(s) \/ TogglePaneTarget(s)
        PROVE  ViewsInv'
    BY <2>2, ToggleViewInv, BroadcastInv
  <2>3. ASSUME NEW s \in Tab,
               BeginOpen(s) \/ OpenFails(s) \/ OpenWebConsole(s) \/ CloseSession(s)
               \/ \E out \in SUBSET OnScreen : Opened(s, out) \/ DropHost(s, out)
        PROVE  ViewsInv'
    BY <2>3, BeginOpenInv, OpenFailsInv, BroughtInv, ClosedInv, OpenedInv
  <2>4. ASSUME NEW s \in Tab,
               \/ \E d \in Desk : OpenedElsewhere(s, d) \/ SendToWorkspace(s, d)
               \/ ForgetHost(s) \/ AddHost(s)
        PROVE  ViewsInv'
    BY <2>4, SwitchInv, BroughtInv, ForgetHostInv, AddHostInv
  <2>5. CASE \E out \in SUBSET OnScreen : Rearrange(out)
    BY <2>5, RearrangeInv
  <2>6. CASE ChangeFont \/ BroadcastToVisiblePanes \/ CloseAllSessions
    BY <2>6, ChangeFontInv, BroadcastInv, ClosedInv
  <2>7. CASE \/ \E on \in BOOLEAN : SetBroadcastMode(on) \/ SetFilePlugin(on)
             \/ \E d \in Desk : SwitchWorkspace(d)
    BY <2>7, BroadcastInv, PluginInv, SwitchInv
  <2>8. CASE UNCHANGED paneViewsVars
    <3>1. UNCHANGED <<placeVars, fileViews, filePlugin, unhosted, keyboard, castVars>>
      BY <2>8 DEF paneViewsVars
    <3>2. PlaceTypes' /\ ViewTypes' /\ ViewsAreOwn' /\ Terminals' = Terminals
      BY <3>1, SameTerminals DEF ViewsInv
    <3> QED
      BY <3>1, <3>2 DEF ViewsInv, MarksOK, KeyboardIsThere, castVars, placeVars
  <2> QED
    BY <2>1, <2>2, <2>3, <2>4, <2>5, <2>6, <2>7, <2>8, Zenon DEF PaneViewsNext
<1> QED
  BY <1>1, <1>2, PTL DEF PaneViewsSpec

\* For any sessions and workspaces: in an ordinary workspace a pane shows files of its
\* own session, through every toggle, move between workspaces, late start, host that is
\* removed and switch of the plugin; in an NSS-Commander the icon tells what is shown.
THEOREM OwnFilesShown == PaneViewsSpec => []ShowsItsOwnFiles
<1>1. ViewsInv => ShowsItsOwnFiles
  BY ViewsInvSuffices
<1> QED
  BY <1>1, ViewsInvHolds, PTL

\* For any sessions and workspaces: what is typed reaches sessions that take keys, only
\* that of the keyboard unless the user broadcasts, and no mark outlives its session or
\* the broadcasting.  Every variable of the views keeps values of its kind.
THEOREM MarksEnd == PaneViewsSpec => [](PaneViewsTypeOK /\ MarksAreCurrent)
<1>1. ViewsInv => PaneViewsTypeOK /\ MarksAreCurrent
  BY ViewsInvSuffices
<1> QED
  BY <1>1, ViewsInvHolds, PTL


=============================================================================
