------------------------- MODULE ProxmuxCache_proofs -------------------------
(***************************************************************************)
(* Proofs about ProxmuxCache for any number of callers, clusters, guests   *)
(* and entries.                                                            *)
(*                                                                         *)
(* Four inductive invariants, one on top of the other: TypeInv; FlightInv, *)
(* that claims and fetches match; ShowInv, about bounds: versions which    *)
(* every answer under way or still to be fetched for a key has to reach;   *)
(* and AskedInv, about the clock.  The floor of a key is a bound, and so   *)
(* is what a command that still has to drop keys shows of it; entries      *)
(* below such a bound are in a set that the command has yet to drop.       *)
(***************************************************************************)
EXTENDS ProxmuxCache, FiniteSetTheorems, SequenceTheorems, TLAPS

IsReader(x) == x.at \in ReaderPlaces

(* What is known of call[c] by its place. *)
LEMMA Place ==
    ASSUME NEW x \in Calls
    PROVE  /\ IsReader(x) <=> x \in Readers
           /\ x.at = "write" <=> x \in Writers
           /\ x.at = "post" <=> x \in Posters
           /\ x.at = "drop" <=> x \in Droppers
           /\ x.at = "idle" <=> x = Idle
BY DEF Calls, IsReader, ReaderPlaces, Readers, Writers, Posters, Droppers, Idle

LEMMA KeyIs ==
    ASSUME NEW k \in Keys
    PROVE  k.cluster \in Clusters /\ k.kind \in {"resources", "guest"}
BY DEF Keys, KeysOf, ResourcesKey, GuestKeys, GuestKey

LEMMA KeysAreKeys ==
    ASSUME NEW cl \in Clusters
    PROVE  /\ ResourcesKey(cl) \in Keys /\ ResourcesKey(cl).cluster = cl
           /\ \A g \in Guests : GuestKey(cl, g) \in Keys /\ GuestKey(cl, g).cluster = cl
           /\ KeysOf(cl) \subseteq Keys /\ GuestKeys(cl) \subseteq Keys
BY DEF Keys, KeysOf, ResourcesKey, GuestKeys, GuestKey

LEMMA ReaderIs ==
    ASSUME NEW x \in Readers
    PROVE  /\ x.key \in Keys /\ x.file \in Nat /\ x.asked \in Nat /\ x.clock \in Nat
           /\ x.value \in Versions \cup {none}
           /\ x.at \in ReaderPlaces
BY DEF Readers

(* A reader that goes on to another place. *)
LEMMA ReaderGoes ==
    ASSUME NEW x \in Readers, NEW at \in ReaderPlaces
    PROVE  /\ GoesTo(at, x) \in Readers /\ GoesTo(at, x) \in Calls
           /\ GoesTo(at, x).at = at /\ GoesTo(at, x).key = x.key
           /\ GoesTo(at, x).file = x.file /\ GoesTo(at, x).value = x.value
           /\ GoesTo(at, x).asked = x.asked
<1>1. /\ x.key \in Keys /\ x.file \in Nat /\ x.asked \in Nat /\ x.clock \in Nat
      /\ x.value \in Versions \cup {none}
  BY ReaderIs
<1> QED
  BY <1>1 DEF GoesTo, Reader, Readers, Calls

(* A notification sends sleepers back to the clock and touches nobody else.*)
LEMMA NotifiedIs ==
    ASSUME NEW cs \in [Callers -> Calls]
    PROVE  /\ Notified(cs) \in [Callers -> Calls]
           /\ \A c \in Callers : cs[c].at # "wait" => Notified(cs)[c] = cs[c]
           /\ \A c \in Callers : cs[c].at = "wait" => Notified(cs)[c] = GoesTo("clock", cs[c])
<1>1. ASSUME NEW c \in Callers, cs[c].at = "wait"
      PROVE  GoesTo("clock", cs[c]) \in Calls
  BY <1>1, Place, ReaderGoes DEF IsReader, ReaderPlaces
<1> QED
  BY <1>1 DEF Notified

-----------------------------------------------------------------------------
(* Types                                                                   *)

Covers(drops, k) == \E i \in 1 .. Len(drops) : k \in drops[i]

(* A command drops at least one set of keys, and among them those it has   *)
(* touched.                                                                *)
WellFormed(x) ==
    /\ x.at \in {"write", "post", "drop"} => x.drops # <<>>
    /\ x.at \in {"write", "post"} => \A k \in x.touches : Covers(x.drops, k)

TypeInv == TypeOK /\ \A c \in Callers : WellFormed(call[c])

LEMMA DropsAreDrops ==
    ASSUME NEW cl \in Clusters
    PROVE  /\ DropsOfCluster(cl) \in Seq(SUBSET Keys) /\ DropsOfCluster(cl) # <<>>
           /\ \A k \in KeysOf(cl) : Covers(DropsOfCluster(cl), k)
           /\ \A g \in Guests :
                 /\ DropsOfPower(cl, g) \in Seq(SUBSET Keys) /\ DropsOfPower(cl, g) # <<>>
                 /\ \A k \in {GuestKey(cl, g), ResourcesKey(cl)} : Covers(DropsOfPower(cl, g), k)
           /\ DropsOfFavorite(cl) \in Seq(SUBSET Keys) /\ DropsOfFavorite(cl) # <<>>
           /\ Covers(DropsOfFavorite(cl), ResourcesKey(cl))
<1> DEFINE A == {ResourcesKey(d) : d \in Begins[cl]}
<1>1. A \in SUBSET Keys /\ ResourcesKey(cl) \in A
  BY CacheAssumption, KeysAreKeys
<1>2. /\ GuestKeys(cl) \in SUBSET Keys
      /\ {ResourcesKey(cl)} \in SUBSET Keys
      /\ \A g \in Guests : {GuestKey(cl, g)} \in SUBSET Keys
  BY KeysAreKeys
<1>3. \A a, b \in SUBSET Keys :
         /\ <<a, b>> \in Seq(SUBSET Keys) /\ <<a, b>> # <<>>
         /\ \A k \in a \cup b : Covers(<<a, b>>, k)
  <2> SUFFICES ASSUME NEW a \in SUBSET Keys, NEW b \in SUBSET Keys
               PROVE  /\ <<a, b>> \in Seq(SUBSET Keys) /\ <<a, b>> # <<>>
                      /\ \A k \in a \cup b : Covers(<<a, b>>, k)
    OBVIOUS
  <2> DEFINE q == <<a, b>>
  <2>1. q \in Seq(SUBSET Keys) /\ Len(q) = 2 /\ q[1] = a /\ q[2] = b
    OBVIOUS
  <2> HIDE DEF q
  <2>2. q # <<>> /\ \A k \in a \cup b : Covers(q, k)
    BY <2>1 DEF Covers
  <2> QED
    BY <2>1, <2>2 DEF q
<1>4. \A a \in SUBSET Keys :
         <<a>> \in Seq(SUBSET Keys) /\ <<a>> # <<>> /\ \A k \in a : Covers(<<a>>, k)
  <2> SUFFICES ASSUME NEW a \in SUBSET Keys
               PROVE  <<a>> \in Seq(SUBSET Keys) /\ <<a>> # <<>> /\ \A k \in a : Covers(<<a>>, k)
    OBVIOUS
  <2> DEFINE q == <<a>>
  <2>1. q \in Seq(SUBSET Keys) /\ Len(q) = 1 /\ q[1] = a
    OBVIOUS
  <2> HIDE DEF q
  <2>2. q # <<>> /\ \A k \in a : Covers(q, k)
    BY <2>1 DEF Covers
  <2> QED
    BY <2>1, <2>2 DEF q
<1> HIDE DEF A
<1>5. \A k \in KeysOf(cl) : k \in A \cup GuestKeys(cl)
  BY <1>1 DEF KeysOf
<1> QED
  <2>1. /\ DropsOfCluster(cl) \in Seq(SUBSET Keys) /\ DropsOfCluster(cl) # <<>>
        /\ \A k \in KeysOf(cl) : Covers(DropsOfCluster(cl), k)
    <3>1. DropsOfCluster(cl) = <<A, GuestKeys(cl)>>
      BY DEF DropsOfCluster, A
    <3> QED
      BY <1>1, <1>2, <1>3, <1>5, <3>1
  <2>2. ASSUME NEW g \in Guests
        PROVE  /\ DropsOfPower(cl, g) \in Seq(SUBSET Keys) /\ DropsOfPower(cl, g) # <<>>
               /\ \A k \in {GuestKey(cl, g), ResourcesKey(cl)} : Covers(DropsOfPower(cl, g), k)
    <3>1. \A k \in {GuestKey(cl, g), ResourcesKey(cl)} : k \in {GuestKey(cl, g)} \cup {ResourcesKey(cl)}
      OBVIOUS
    <3> QED
      BY <1>2, <1>3, <3>1 DEF DropsOfPower
  <2>3. /\ DropsOfFavorite(cl) \in Seq(SUBSET Keys) /\ DropsOfFavorite(cl) # <<>>
        /\ Covers(DropsOfFavorite(cl), ResourcesKey(cl))
    <3> DEFINE a == {ResourcesKey(cl)}
    <3>1. a \in SUBSET Keys /\ ResourcesKey(cl) \in a
      BY <1>2
    <3>2. DropsOfFavorite(cl) = <<a>>
      BY DEF DropsOfFavorite
    <3> HIDE DEF a
    <3>3. <<a>> \in Seq(SUBSET Keys) /\ <<a>> # <<>> /\ \A k \in a : Covers(<<a>>, k)
      BY <1>4, <3>1
    <3> QED
      BY <3>1, <3>2, <3>3
  <2> QED
    BY <2>1, <2>2, <2>3

LEMMA MakeWriter ==
    ASSUME TypeOK, NEW op \in {"save", "remove", "keep"}, NEW cl \in Clusters,
           NEW touches \in SUBSET Keys, NEW drops \in Seq(SUBSET Keys), drops # <<>>,
           \A k \in touches : Covers(drops, k)
    PROVE  /\ Writes(op, cl, touches, drops) \in Calls
           /\ WellFormed(Writes(op, cl, touches, drops))
           /\ Writes(op, cl, touches, drops).at = "write"
           /\ Writes(op, cl, touches, drops).copy = file
BY DEF Writes, Writers, Calls, WellFormed, TypeOK

LEMMA MakePoster ==
    ASSUME NEW touches \in SUBSET Keys, NEW drops \in Seq(SUBSET Keys), drops # <<>>,
           \A k \in touches : Covers(drops, k)
    PROVE  /\ [at |-> "post", touches |-> touches, drops |-> drops] \in Calls
           /\ WellFormed([at |-> "post", touches |-> touches, drops |-> drops])
BY DEF Posters, Calls, WellFormed

LEMMA MakeDropper ==
    ASSUME NEW shows \in [Keys -> Versions], NEW drops \in Seq(SUBSET Keys), drops # <<>>
    PROVE  /\ [at |-> "drop", drops |-> drops, shows |-> shows] \in Calls
           /\ WellFormed([at |-> "drop", drops |-> drops, shows |-> shows])
           /\ [at |-> "drop", drops |-> drops, shows |-> shows].shows = shows
           /\ [at |-> "drop", drops |-> drops, shows |-> shows].drops = drops
           /\ [at |-> "drop", drops |-> drops, shows |-> shows].at = "drop"
BY DEF Droppers, Calls, WellFormed

LEMMA ReadersWellFormed ==
    ASSUME NEW x, x.at \in ReaderPlaces \cup {"idle"}
    PROVE  WellFormed(x)
BY DEF WellFormed, ReaderPlaces

LEMMA IdleIs == Idle \in Calls /\ Idle.at = "idle" /\ WellFormed(Idle)
BY DEF Idle, Calls, WellFormed

(* When caller c starts something well-formed, types are kept. *)
LEMMA StartingTyped ==
    ASSUME TypeInv, NEW c \in Callers, NEW x \in Calls, WellFormed(x), Starting(c, x)
    PROVE  TypeInv'
<1>1. call' = [call EXCEPT ![c] = x] /\ call \in [Callers -> Calls]
  BY DEF Starting, TypeInv, TypeOK
<1>2. call' \in [Callers -> Calls] /\ \A d \in Callers : WellFormed(call'[d])
  BY <1>1 DEF TypeInv
<1>3. calls' \in Nat
  BY DEF Starting, TypeInv, TypeOK
<1> QED
  BY <1>2, <1>3 DEF Starting, TypeInv, TypeOK

(* What a command knows when it has begun. *)
Begun(x) ==
    /\ x \in Calls /\ WellFormed(x)
    /\ x.at \in {"clock", "post", "write"}
    /\ x.at = "clock" => /\ x.value = none /\ x.asked = now
                         /\ x.file = file[x.key.cluster] /\ x.file # 0
    /\ x.at = "write" => x.copy = file

LEMMA BeginIs ==
    ASSUME TypeInv, NEW c \in Callers, Begin(c)
    PROVE  \E x : Begun(x) /\ Starting(c, x)
<1> USE DEF TypeInv
<1>1. CASE Ask(c)
  <2>1. PICK k \in Keys : /\ file[k.cluster] # 0
                          /\ Starting(c, Reader("clock", k, file[k.cluster], now, 0, none))
    BY <1>1 DEF Ask
  <2>2. file[k.cluster] \in Nat /\ now \in Nat /\ 0 \in Nat /\ "clock" \in ReaderPlaces
        /\ none \in Versions \cup {none}
    BY KeyIs DEF TypeOK, ReaderPlaces
  <2> DEFINE x == Reader("clock", k, file[k.cluster], now, 0, none)
  <2>3. x \in Calls /\ x.at = "clock" /\ x.value = none /\ x.key = k /\ x.file = file[k.cluster]
        /\ x.asked = now
    BY <2>2 DEF Reader, Readers, Calls
  <2>4. Starting(c, x)
    BY <2>1
  <2> HIDE DEF x
  <2> QED
    BY <2>1, <2>3, <2>4, ReadersWellFormed DEF Begun, ReaderPlaces
<1>2. CASE GuestPower(c)
  <2>1. PICK cl \in Clusters, g \in Guests :
           Starting(c, [at |-> "post", touches |-> {GuestKey(cl, g), ResourcesKey(cl)},
                        drops |-> DropsOfPower(cl, g)])
    BY <1>2 DEF GuestPower
  <2>2. /\ DropsOfPower(cl, g) \in Seq(SUBSET Keys) /\ DropsOfPower(cl, g) # <<>>
        /\ \A k \in {GuestKey(cl, g), ResourcesKey(cl)} : Covers(DropsOfPower(cl, g), k)
    BY DropsAreDrops
  <2>3. {GuestKey(cl, g), ResourcesKey(cl)} \in SUBSET Keys
    BY KeysAreKeys
  <2> DEFINE x == [at |-> "post", touches |-> {GuestKey(cl, g), ResourcesKey(cl)},
                   drops |-> DropsOfPower(cl, g)]
  <2>4. x \in Calls /\ WellFormed(x) /\ x.at = "post"
    BY <2>2, <2>3, MakePoster
  <2>5. Starting(c, x)
    BY <2>1
  <2> HIDE DEF x
  <2> QED
    BY <2>4, <2>5 DEF Begun
<1>3. ASSUME NEW op \in {"save", "remove", "keep"}, NEW cl \in Clusters,
             NEW touches \in SUBSET Keys, NEW drops \in Seq(SUBSET Keys), drops # <<>>,
             \A k \in touches : Covers(drops, k),
             Starting(c, Writes(op, cl, touches, drops))
      PROVE  \E x : Begun(x) /\ Starting(c, x)
  <2> DEFINE x == Writes(op, cl, touches, drops)
  <2>1. x \in Calls /\ WellFormed(x) /\ x.at = "write" /\ x.copy = file
    BY <1>3, MakeWriter
  <2>2. Starting(c, x)
    BY <1>3
  <2> HIDE DEF x
  <2> QED
    BY <2>1, <2>2 DEF Begun
<1>4. CASE SaveCluster(c) \/ RemoveCluster(c)
  <2>1. PICK cl \in Clusters, op \in {"save", "remove"} :
           Starting(c, Writes(op, cl, KeysOf(cl), DropsOfCluster(cl)))
    BY <1>4 DEF SaveCluster, RemoveCluster
  <2>2. /\ DropsOfCluster(cl) \in Seq(SUBSET Keys) /\ DropsOfCluster(cl) # <<>>
        /\ KeysOf(cl) \in SUBSET Keys /\ \A k \in KeysOf(cl) : Covers(DropsOfCluster(cl), k)
    BY DropsAreDrops, KeysAreKeys
  <2> QED
    BY <2>1, <2>2, <1>3
<1>5. CASE ToggleFavorite(c)
  <2>1. PICK cl \in Clusters :
           Starting(c, Writes("keep", cl, {ResourcesKey(cl)}, DropsOfFavorite(cl)))
    BY <1>5 DEF ToggleFavorite
  <2>2. /\ DropsOfFavorite(cl) \in Seq(SUBSET Keys) /\ DropsOfFavorite(cl) # <<>>
        /\ {ResourcesKey(cl)} \in SUBSET Keys
        /\ \A k \in {ResourcesKey(cl)} : Covers(DropsOfFavorite(cl), k)
    BY DropsAreDrops, KeysAreKeys
  <2> QED
    BY <2>1, <2>2, <1>3
<1> QED
  BY <1>1, <1>2, <1>4, <1>5 DEF Begin

LEMMA BeginTyped ==
    ASSUME TypeInv, NEW c \in Callers, Begin(c)
    PROVE  TypeInv'
BY BeginIs, StartingTyped DEF Begun

(* One caller goes on to x, or goes on to x and notifies the others. *)
LEMMA MovesTyped ==
    ASSUME TypeInv, NEW c \in Callers, NEW x \in Calls, WellFormed(x),
           \/ call' = [call EXCEPT ![c] = x]
           \/ call' = Notified([call EXCEPT ![c] = x])
    PROVE  call' \in [Callers -> Calls] /\ \A d \in Callers : WellFormed(call'[d])
<1> DEFINE moved == [call EXCEPT ![c] = x]
<1>1. moved \in [Callers -> Calls] /\ \A d \in Callers : WellFormed(moved[d])
  BY DEF TypeInv, TypeOK
<1>2. \A d \in Callers : moved[d].at = "wait" => WellFormed(GoesTo("clock", moved[d]))
  <2> SUFFICES ASSUME NEW d \in Callers, moved[d].at = "wait"
               PROVE  WellFormed(GoesTo("clock", moved[d]))
    OBVIOUS
  <2>1. moved[d] \in Readers
    BY <1>1, Place DEF IsReader, ReaderPlaces
  <2> HIDE DEF moved
  <2>2. GoesTo("clock", moved[d]).at = "clock"
    BY <2>1, ReaderGoes DEF ReaderPlaces
  <2> QED
    BY <2>2, ReadersWellFormed DEF ReaderPlaces
<1> HIDE DEF moved
<1>3. Notified(moved) \in [Callers -> Calls] /\ \A d \in Callers : WellFormed(Notified(moved)[d])
  BY <1>1, <1>2, NotifiedIs
<1> QED
  BY <1>1, <1>3 DEF moved

LEMMA WithoutTyped ==
    ASSUME TypeOK, NEW ks
    PROVE  /\ DOMAIN Without(entries, ks) = DOMAIN entries \ ks
           /\ \A k \in DOMAIN entries \ ks : Without(entries, ks)[k] = entries[k]
           /\ DOMAIN Without(entries, ks) \subseteq Keys
           /\ \A k \in DOMAIN Without(entries, ks) : Without(entries, ks)[k] \in Entries
BY DEF Without, TypeOK

(* The callers of a key are readers. *)
LEMMA AtReader ==
    ASSUME TypeInv, NEW c \in Callers, call[c].at \in ReaderPlaces
    PROVE  call[c] \in Readers
BY Place DEF TypeInv, TypeOK, IsReader

LEMMA ReadClockIs ==
    ASSUME TypeInv, NEW c \in Callers, ReadClock(c)
    PROVE  \E x \in Calls :
              /\ x \in Readers /\ x.at = "look"
              /\ x.key = call[c].key /\ x.file = call[c].file /\ x.value = call[c].value
              /\ x.asked = call[c].asked /\ x.clock = now
              /\ call' = [call EXCEPT ![c] = x]
<1>1. call[c] \in Readers
  BY AtReader DEF ReadClock, ReaderPlaces
<1>2. /\ call[c].key \in Keys /\ call[c].file \in Nat /\ call[c].asked \in Nat
      /\ now \in Nat /\ call[c].value \in Versions \cup {none} /\ "look" \in ReaderPlaces
  BY <1>1, ReaderIs DEF TypeInv, TypeOK, ReaderPlaces
<1> DEFINE x == Reader("look", call[c].key, call[c].file, call[c].asked, now, call[c].value)
<1>3. x \in Calls /\ x \in Readers /\ x.at = "look" /\ x.key = call[c].key
      /\ x.file = call[c].file /\ x.value = call[c].value /\ x.asked = call[c].asked
      /\ x.clock = now
  BY <1>2 DEF Reader, Readers, Calls
<1>4. call' = [call EXCEPT ![c] = x]
  BY DEF ReadClock
<1> HIDE DEF x
<1> QED
  BY <1>3, <1>4

(* The answer of an exchange shows the settings the command has read and   *)
(* the state of the cluster at that instant.                               *)
LEMMA FetchIs ==
    ASSUME TypeInv, NEW c \in Callers, Fetch(c)
    PROVE  \E x \in Calls :
              /\ x \in Readers /\ x.at = "store"
              /\ x.key = call[c].key /\ x.file = call[c].file /\ x.asked = call[c].asked
              /\ x.value \in {none, [file |-> call[c].file, world |-> world[call[c].key]]}
              /\ call' = [call EXCEPT ![c] = x]
<1>1. call[c] \in Readers
  BY AtReader DEF Fetch, ReaderPlaces
<1>2. /\ call[c].key \in Keys /\ call[c].file \in Nat /\ call[c].asked \in Nat
      /\ call[c].clock \in Nat /\ world[call[c].key] \in Nat
  BY <1>1, ReaderIs DEF TypeInv, TypeOK
<1> DEFINE answer == [file |-> call[c].file, world |-> world[call[c].key]]
<1>3. PICK v \in {none, answer} :
         call' = [call EXCEPT ![c] =
            Reader("store", call[c].key, call[c].file, call[c].asked, call[c].clock, v)]
  BY DEF Fetch
<1>4. answer \in Versions
  BY <1>2 DEF Versions
<1> HIDE DEF answer
<1>5. v \in Versions \cup {none}
  BY <1>3, <1>4
<1>6. "store" \in ReaderPlaces
  BY DEF ReaderPlaces
<1> DEFINE x == Reader("store", call[c].key, call[c].file, call[c].asked, call[c].clock, v)
<1>7. x \in Calls /\ x \in Readers /\ x.at = "store" /\ x.key = call[c].key
      /\ x.file = call[c].file /\ x.value = v /\ x.asked = call[c].asked
  BY <1>2, <1>5, <1>6 DEF Reader, Readers, Calls
<1>8. call' = [call EXCEPT ![c] = x]
  BY <1>3
<1> HIDE DEF x
<1> QED
  BY <1>3, <1>7, <1>8 DEF answer

LEMMA WrittenTyped ==
    ASSUME TypeInv, NEW w \in Writers
    PROVE  Written(w) \in [Clusters -> Nat]
BY DEF Writers, Written, TypeInv, TypeOK

LEMMA ChangedTyped ==
    ASSUME NEW c \in Callers, call[c] \in Writers \cup Posters, WellFormed(call[c]),
           file' \in [Clusters -> Nat], changes' \in Nat, world \in [Keys -> Nat]
    PROVE  /\ Changed(c) \in Calls /\ WellFormed(Changed(c))
           /\ Changed(c).at = "drop" /\ Changed(c).drops = call[c].drops
           /\ Changed(c).shows = [k \in Keys |->
                 IF k \in call[c].touches /\ Quiet(c, k) THEN Current(k) ELSE Nothing]
<1> DEFINE shows == [k \in Keys |->
              IF k \in call[c].touches /\ Quiet(c, k) THEN Current(k) ELSE Nothing]
<1>1. \A k \in Keys : Current(k) \in Versions
  <2> SUFFICES ASSUME NEW k \in Keys PROVE Current(k) \in Versions
    OBVIOUS
  <2>1. k.cluster \in Clusters
    BY KeyIs
  <2>2. file'[k.cluster] \in Nat
    BY <2>1
  <2>3. changes' + 1 \in Nat
    <3>1. \A n \in Nat : n + 1 \in Nat
      OBVIOUS
    <3> QED
      BY <3>1, Zenon
  <2>4. world[k] \in Nat
    OBVIOUS
  <2> QED
    BY <2>2, <2>3, <2>4 DEF Current, Versions
<1>2. shows \in [Keys -> Versions]
  BY <1>1 DEF Nothing, Versions
<1>3. call[c].drops \in Seq(SUBSET Keys) /\ call[c].drops # <<>>
  BY DEF Writers, Posters, WellFormed
<1> HIDE DEF shows
<1>4. Changed(c) = [at |-> "drop", drops |-> call[c].drops, shows |-> shows]
  BY DEF Changed, shows
<1>5. PICK drops \in Seq(SUBSET Keys) : drops = call[c].drops /\ drops # <<>>
  BY <1>3
<1>6. [at |-> "drop", drops |-> drops, shows |-> shows] \in Calls
      /\ WellFormed([at |-> "drop", drops |-> drops, shows |-> shows])
      /\ [at |-> "drop", drops |-> drops, shows |-> shows].shows = shows
      /\ [at |-> "drop", drops |-> drops, shows |-> shows].drops = drops
      /\ [at |-> "drop", drops |-> drops, shows |-> shows].at = "drop"
  BY <1>2, <1>5, MakeDropper
<1> QED
  BY <1>4, <1>5, <1>6 DEF shows

(* After a change a command returns with an error or goes on to its drops. *)
LEMMA ChangeIs ==
    ASSUME TypeInv, NEW c \in Callers, WriteFile(c) \/ WriteFails(c) \/ Post(c) \/ PostFails(c)
    PROVE  /\ call[c] \in Writers \cup Posters /\ WellFormed(call[c])
           /\ file' \in [Clusters -> Nat] /\ changes' \in Nat
           /\ \/ call' = [call EXCEPT ![c] = Idle]
              \/ /\ call' = [call EXCEPT ![c] = Changed(c)]
                 /\ Changed(c) \in Calls /\ WellFormed(Changed(c)) /\ Changed(c).at = "drop"
                 /\ Changed(c).drops = call[c].drops
                 /\ Changed(c).shows = [k \in Keys |->
                       IF k \in call[c].touches /\ Quiet(c, k) THEN Current(k) ELSE Nothing]
<1>1. call[c] \in Writers \cup Posters /\ WellFormed(call[c])
  BY Place DEF TypeInv, TypeOK, WriteFile, WriteFails, Post, PostFails, Writing, Posting
<1>2. file' \in [Clusters -> Nat]
  <2>1. CASE WriteFile(c) \/ WriteFails(c)
    <3>1. call[c] \in Writers
      BY <2>1, Place DEF TypeInv, TypeOK, WriteFile, WriteFails, Writing
    <3> QED
      BY <2>1, <3>1, WrittenTyped DEF WriteFile, WriteFails, TypeInv, TypeOK
  <2>2. CASE Post(c) \/ PostFails(c)
    BY <2>2 DEF Post, PostFails, Posting, TypeInv, TypeOK
  <2> QED
    BY <2>1, <2>2
<1>3. changes' \in Nat
  BY DEF WriteFile, WriteFails, Post, PostFails, Writing, Posting, TypeInv, TypeOK
<1>4. world \in [Keys -> Nat]
  BY DEF TypeInv, TypeOK
<1>5. /\ Changed(c) \in Calls /\ WellFormed(Changed(c)) /\ Changed(c).at = "drop"
      /\ Changed(c).drops = call[c].drops
      /\ Changed(c).shows = [k \in Keys |->
            IF k \in call[c].touches /\ Quiet(c, k) THEN Current(k) ELSE Nothing]
  BY <1>1, <1>2, <1>3, <1>4, ChangedTyped
<1> QED
  BY <1>1, <1>2, <1>3, <1>5 DEF WriteFile, WriteFails, Post, PostFails

LEMMA ChangeTyped ==
    ASSUME TypeInv, NEW c \in Callers,
           WriteFile(c) \/ WriteFails(c) \/ Post(c) \/ PostFails(c)
    PROVE  TypeInv'
<1>1. file' \in [Clusters -> Nat] /\ changes' \in Nat
  BY ChangeIs
<1>2. PICK x \in Calls : WellFormed(x) /\ call' = [call EXCEPT ![c] = x]
  BY ChangeIs, IdleIs
<1>3. call' \in [Callers -> Calls] /\ \A d \in Callers : WellFormed(call'[d])
  BY <1>2, MovesTyped
<1> QED
  BY <1>1, <1>3 DEF TypeInv, TypeOK, WriteFile, WriteFails, Post, PostFails, Writing, Posting

LEMMA LookTyped ==
    ASSUME TypeInv, NEW c \in Callers, Hit(c) \/ Claim(c) \/ Wait(c) \/ ReadClock(c) \/ Fetch(c)
    PROVE  TypeInv'
<1>0. call[c] \in Readers
  BY AtReader DEF Hit, Claim, Wait, ReadClock, Fetch, Looking, ReaderPlaces
<1>1. DOMAIN entries' \subseteq Keys /\ \A k \in DOMAIN entries' : entries'[k] \in Entries
  BY WithoutTyped DEF TypeInv, TypeOK, Hit, Claim, Wait, ReadClock, Fetch, Looking, PurgeExpired
<1>2. inFlight' \subseteq Keys
  BY <1>0, ReaderIs DEF TypeInv, TypeOK, Hit, Claim, Wait, ReadClock, Fetch, Looking
<1>3. call' \in [Callers -> Calls] /\ \A d \in Callers : WellFormed(call'[d])
  <2>1. CASE Hit(c)
    BY <2>1, IdleIs, MovesTyped DEF Hit
  <2>2. CASE Claim(c) \/ Wait(c)
    <3>1. /\ GoesTo("fetch", call[c]) \in Calls /\ WellFormed(GoesTo("fetch", call[c]))
          /\ GoesTo("wait", call[c]) \in Calls /\ WellFormed(GoesTo("wait", call[c]))
      BY <1>0, ReaderGoes, ReadersWellFormed DEF ReaderPlaces
    <3>2. \/ call' = [call EXCEPT ![c] = GoesTo("fetch", call[c])]
          \/ call' = [call EXCEPT ![c] = GoesTo("wait", call[c])]
      BY <2>2 DEF Claim, Wait
    <3> QED
      BY <3>1, <3>2, MovesTyped
  <2>3. CASE ReadClock(c) \/ Fetch(c)
    <3>1. PICK x \in Calls : x.at \in ReaderPlaces /\ call' = [call EXCEPT ![c] = x]
      BY <2>3, ReadClockIs, FetchIs DEF ReaderPlaces
    <3> QED
      BY <3>1, ReadersWellFormed, MovesTyped
  <2> QED
    BY <2>1, <2>2, <2>3
<1> QED
  BY <1>1, <1>2, <1>3 DEF TypeInv, TypeOK, Hit, Claim, Wait, ReadClock, Fetch, Looking

(* What a store leaves: entries of before or the answer just stored. *)
LEMMA StoreIs ==
    ASSUME TypeInv, NEW c \in Callers, Store(c)
    PROVE  /\ call[c] \in Readers /\ call[c].value \in Versions
           /\ Entry(c) \in Entries /\ Entry(c).value = call[c].value
           /\ DOMAIN entries' \subseteq DOMAIN entries \cup {call[c].key}
           /\ \A k \in DOMAIN entries' :
                 entries'[k] = IF k = call[c].key THEN Entry(c) ELSE entries[k]
<1>1. call[c] \in Readers /\ call[c].value # none
  BY AtReader DEF Store, Releasing, ReaderPlaces
<1>2. call[c].key \in Keys /\ call[c].value \in Versions
  BY <1>1, ReaderIs
<1>3. Ttl[call[c].key.kind] \in Nat
  BY <1>2, KeyIs, CacheAssumption
<1>4. Entry(c) \in Entries /\ Entry(c).value = call[c].value
  BY <1>2, <1>3 DEF Entry, Entries, TypeInv, TypeOK
<1>5. PICK gone \in Evictions(With(entries, call[c].key, Entry(c))) :
         entries' = Without(With(entries, call[c].key, Entry(c)), gone)
  BY DEF Store
<1> QED
  BY <1>1, <1>2, <1>4, <1>5 DEF With, Without

LEMMA StoreTyped ==
    ASSUME TypeInv, NEW c \in Callers, Store(c) \/ GiveUp(c)
    PROVE  TypeInv'
<1>1. DOMAIN entries' \subseteq Keys /\ \A k \in DOMAIN entries' : entries'[k] \in Entries
  <2>1. CASE Store(c)
    BY <2>1, StoreIs, ReaderIs DEF TypeInv, TypeOK
  <2>2. CASE GiveUp(c)
    BY <2>2 DEF GiveUp, TypeInv, TypeOK
  <2> QED
    BY <2>1, <2>2
<1>2. call' \in [Callers -> Calls] /\ \A d \in Callers : WellFormed(call'[d])
  BY IdleIs, MovesTyped DEF Store, GiveUp, Releasing
<1> QED
  BY <1>1, <1>2 DEF TypeInv, TypeOK, Store, GiveUp, Releasing

(* What a drop leaves behind. *)
LEMMA DropIs ==
    ASSUME TypeInv, NEW c \in Callers, Drop(c)
    PROVE  /\ call[c] \in Droppers /\ call[c].drops \in Seq(SUBSET Keys) /\ call[c].drops # <<>>
           /\ call[c].shows \in [Keys -> Versions]
           /\ Tail(call[c].drops) \in Seq(SUBSET Keys)
           /\ [k \in Keys |-> IF Quiet(c, k) THEN call[c].shows[k] ELSE Nothing]
                 \in [Keys -> Versions]
<1>1. call[c] \in Droppers /\ WellFormed(call[c])
  BY Place DEF Drop, TypeInv, TypeOK
<1>2. /\ call[c].drops \in Seq(SUBSET Keys) /\ call[c].drops # <<>>
      /\ call[c].shows \in [Keys -> Versions]
  BY <1>1 DEF Droppers, WellFormed
<1>3. Tail(call[c].drops) \in Seq(SUBSET Keys)
  BY <1>2
<1>4. Nothing \in Versions
  BY DEF Nothing, Versions
<1> QED
  BY <1>1, <1>2, <1>3, <1>4

(* After a drop a command returns or goes on with the rest. *)
LEMMA DropNext ==
    ASSUME TypeInv, NEW c \in Callers, Drop(c)
    PROVE  \E x \in Calls :
              /\ IF Tail(call[c].drops) = <<>> THEN x = Idle
                 ELSE /\ x \in Droppers /\ x.at = "drop" /\ x.drops = Tail(call[c].drops)
                      /\ x.shows = [k \in Keys |-> IF Quiet(c, k) THEN call[c].shows[k]
                                                                  ELSE Nothing]
              /\ call' = Notified([call EXCEPT ![c] = x])
<1> DEFINE rest == Tail(call[c].drops)
           shows == [k \in Keys |-> IF Quiet(c, k) THEN call[c].shows[k] ELSE Nothing]
           next == [at |-> "drop", drops |-> rest, shows |-> shows]
<1>1. rest \in Seq(SUBSET Keys) /\ shows \in [Keys -> Versions]
  BY DropIs
<1>2. call' = Notified([call EXCEPT ![c] = IF rest = <<>> THEN Idle ELSE next])
  BY DEF Drop
<1> HIDE DEF rest, shows
<1>3. CASE rest = <<>>
  BY <1>2, <1>3, IdleIs DEF rest
<1>4. CASE rest # <<>>
  <2>1. next \in Calls /\ next.at = "drop" /\ next.drops = rest /\ next.shows = shows
    BY <1>1, <1>4, MakeDropper
  <2>2. next \in Droppers
    BY <2>1, Place
  <2>3. call' = Notified([call EXCEPT ![c] = next])
    BY <1>2, <1>4
  <2> HIDE DEF next
  <2> QED
    BY <1>4, <2>1, <2>2, <2>3 DEF rest, shows
<1> QED
  BY <1>3, <1>4

LEMMA HigherIs ==
    ASSUME NEW v \in Versions, NEW w \in Versions
    PROVE  /\ Higher(v, w) \in Versions
           /\ \A u \in Versions : AtLeast(u, Higher(v, w)) <=> AtLeast(u, v) /\ AtLeast(u, w)
BY DEF Higher, Versions, AtLeast

LEMMA DropTyped ==
    ASSUME TypeInv, NEW c \in Callers, Drop(c)
    PROVE  TypeInv'
<1>1. DOMAIN entries' \subseteq Keys /\ \A k \in DOMAIN entries' : entries'[k] \in Entries
  BY WithoutTyped DEF Drop, TypeInv
<1>2. floor' \in [Keys -> Versions]
  <2> DEFINE shows == [k \in Keys |-> IF Quiet(c, k) THEN call[c].shows[k] ELSE Nothing]
  <2>1. shows \in [Keys -> Versions]
    BY DropIs
  <2>2. floor' = [k \in Keys |->
           IF Tail(call[c].drops) = <<>> THEN Higher(floor[k], shows[k]) ELSE floor[k]]
    BY DEF Drop
  <2> HIDE DEF shows
  <2> QED
    BY <2>1, <2>2, HigherIs DEF TypeInv, TypeOK
<1>3. PICK x \in Calls : WellFormed(x) /\ call' = Notified([call EXCEPT ![c] = x])
  <2>1. PICK x \in Calls :
           /\ \/ x = Idle
              \/ x.at = "drop" /\ x.drops = Tail(call[c].drops) /\ Tail(call[c].drops) # <<>>
           /\ call' = Notified([call EXCEPT ![c] = x])
    BY DropNext
  <2>2. WellFormed(x)
    BY <2>1, IdleIs DEF WellFormed
  <2> QED
    BY <2>1, <2>2
<1>4. call' \in [Callers -> Calls] /\ \A d \in Callers : WellFormed(call'[d])
  BY <1>3, MovesTyped
<1> QED
  BY <1>1, <1>2, <1>4 DEF TypeInv, TypeOK, Drop

LEMMA WakeUpTyped ==
    ASSUME TypeInv, NEW c \in Callers, WakeUp(c)
    PROVE  TypeInv'
<1>1. call[c] \in Readers
  BY AtReader DEF WakeUp, ReaderPlaces
<1>2. GoesTo("clock", call[c]) \in Calls /\ WellFormed(GoesTo("clock", call[c]))
  BY <1>1, ReaderGoes, ReadersWellFormed DEF ReaderPlaces
<1>3. call' \in [Callers -> Calls] /\ \A d \in Callers : WellFormed(call'[d])
  BY <1>2, MovesTyped DEF WakeUp
<1> QED
  BY <1>3 DEF TypeInv, TypeOK, WakeUp

LEMMA InitTyped == Init => TypeInv
<1> SUFFICES ASSUME Init PROVE TypeInv
  OBVIOUS
<1>1. call \in [Callers -> Calls] /\ \A c \in Callers : WellFormed(call[c])
  BY IdleIs DEF Init
<1>2. floor \in [Keys -> Versions]
  BY DEF Init, Nothing, Versions
<1>3. DOMAIN entries = {}
  BY DEF Init
<1> QED
  BY <1>1, <1>2, <1>3 DEF Init, TypeInv, TypeOK

LEMMA NextTyped == TypeInv /\ [Next]_vars => TypeInv'
<1> SUFFICES ASSUME TypeInv, [Next]_vars PROVE TypeInv'
  OBVIOUS
<1>1. ASSUME NEW c \in Callers, Begin(c) PROVE TypeInv'
  BY <1>1, BeginTyped
<1>2. ASSUME NEW c \in Callers, Advance(c) PROVE TypeInv'
  BY <1>2, LookTyped, StoreTyped, ChangeTyped, DropTyped DEF Advance
<1>3. ASSUME NEW c \in Callers, WakeUp(c) PROVE TypeInv'
  BY <1>3, WakeUpTyped
<1>4. ASSUME Tick PROVE TypeInv'
  BY <1>4 DEF Tick, TypeInv, TypeOK
<1>5. ASSUME NEW k \in Keys, ClusterChanges(k) PROVE TypeInv'
  <2>1. world' \in [Keys -> Nat] /\ changes' \in Nat
    BY <1>5 DEF ClusterChanges, TypeInv, TypeOK
  <2> QED
    BY <1>5, <2>1 DEF ClusterChanges, TypeInv, TypeOK
<1>6. CASE UNCHANGED vars
  BY <1>6 DEF vars, TypeInv, TypeOK
<1> QED
  BY <1>1, <1>2, <1>3, <1>4, <1>5, <1>6 DEF Next

(* Types are kept by every step of every command; a failed fetch never     *)
(* ends up among the answers.                                              *)
THEOREM TypeCorrect == Spec => []TypeOK
<1>1. TypeInv => TypeOK
  BY DEF TypeInv
<1> QED
  BY <1>1, InitTyped, NextTyped, PTL DEF Spec

-----------------------------------------------------------------------------
(* One fetch per key                                                       *)

FetchPlaces == {"fetch", "store"}

FlightInv == SingleFlight /\ SleepersHaveFetcher

(* What a step of caller c to x does to the others: nobody begins to sleep *)
(* or to fetch, and who fetches goes on undisturbed.                       *)
LEMMA OthersKeep ==
    ASSUME TypeInv, NEW c \in Callers, NEW x \in Calls,
           \/ call' = [call EXCEPT ![c] = x]
           \/ x.at # "wait" /\ call' = Notified([call EXCEPT ![c] = x])
    PROVE  /\ call'[c] = x
           /\ \A d \in Callers \ {c} : call[d].at # "wait" => call'[d] = call[d]
           /\ \A d \in Callers \ {c} : call'[d].at \in FetchPlaces \cup {"wait"} => call'[d] = call[d]
           /\ \A d \in Callers \ {c} :
                 \/ call'[d] = call[d]
                 \/ call[d].at = "wait" /\ call'[d] = GoesTo("clock", call[d])
           /\ Fetching' \ {c} = Fetching \ {c}
<1> DEFINE moved == [call EXCEPT ![c] = x]
<1>1. moved \in [Callers -> Calls] /\ moved[c] = x /\ \A d \in Callers \ {c} : moved[d] = call[d]
  BY DEF TypeInv, TypeOK
<1>2. CASE call' = moved
  BY <1>1, <1>2 DEF Fetching
<1>3. CASE x.at # "wait" /\ call' = Notified(moved)
  <2> HIDE DEF moved
  <2>1. call'[c] = x
    BY <1>1, <1>3, NotifiedIs
  <2>2. \A d \in Callers \ {c} : call[d].at # "wait" => call'[d] = call[d]
    BY <1>1, <1>3, NotifiedIs
  <2>3. ASSUME NEW d \in Callers \ {c}, call[d].at = "wait"
        PROVE  call'[d].at = "clock" /\ call'[d] = GoesTo("clock", call[d])
    <3>1. call[d] \in Readers
      BY <2>3, AtReader DEF ReaderPlaces
    <3>2. call'[d] = GoesTo("clock", call[d])
      BY <1>1, <1>3, <2>3, NotifiedIs
    <3> QED
      BY <3>1, <3>2, ReaderGoes DEF ReaderPlaces
  <2> QED
    BY <2>1, <2>2, <2>3 DEF Fetching, FetchPlaces
<1> QED
  BY <1>2, <1>3

(* A step of a caller that neither fetches nor goes to sleep. *)
LEMMA FlightUndisturbed ==
    ASSUME TypeInv, FlightInv, NEW c \in Callers, NEW x \in Calls,
           call[c].at \notin FetchPlaces, x.at \notin FetchPlaces \cup {"wait"},
           inFlight' = inFlight,
           \/ call' = [call EXCEPT ![c] = x]
           \/ call' = Notified([call EXCEPT ![c] = x])
    PROVE  FlightInv'
<1>1. /\ call'[c] = x
      /\ \A d \in Callers \ {c} : call[d].at # "wait" => call'[d] = call[d]
      /\ \A d \in Callers \ {c} : call'[d].at \in FetchPlaces \cup {"wait"} => call'[d] = call[d]
      /\ Fetching' \ {c} = Fetching \ {c}
  <2>1. x.at # "wait"
    OBVIOUS
  <2> QED
    BY <2>1, OthersKeep
<1>2. c \notin Fetching /\ c \notin Fetching'
  BY <1>1 DEF Fetching, FetchPlaces
<1>3. Fetching' = Fetching
  <2>1. Fetching' \ {c} = Fetching' /\ Fetching \ {c} = Fetching
    BY <1>2
  <2> QED
    BY <1>1, <2>1
<1>4. \A d \in Fetching : call'[d] = call[d]
  BY <1>1, <1>2 DEF Fetching, FetchPlaces
<1>5. SingleFlight'
  BY <1>3, <1>4 DEF FlightInv, SingleFlight
<1>6. SleepersHaveFetcher'
  BY <1>1, <1>3, <1>4 DEF FlightInv, SleepersHaveFetcher
<1> QED
  BY <1>5, <1>6 DEF FlightInv

LEMMA ClaimFlight ==
    ASSUME TypeInv, FlightInv, NEW c \in Callers, Claim(c)
    PROVE  FlightInv'
<1> DEFINE x == GoesTo("fetch", call[c])
<1>1. call[c] \in Readers /\ call[c].at = "look"
  BY AtReader DEF Claim, Looking, ReaderPlaces
<1>2. x \in Calls /\ x.at = "fetch" /\ x.key = call[c].key
  BY <1>1, ReaderGoes DEF ReaderPlaces
<1>3. call' = [call EXCEPT ![c] = x] /\ call[c].key \notin inFlight
      /\ inFlight' = inFlight \cup {call[c].key}
  BY DEF Claim
<1> HIDE DEF x
<1>4. /\ call'[c] = x
      /\ \A d \in Callers \ {c} : call'[d] = call[d]
      /\ Fetching' \ {c} = Fetching \ {c}
  BY <1>2, <1>3, OthersKeep DEF TypeInv, TypeOK
<1>5. Fetching' = Fetching \cup {c} /\ c \notin Fetching
  BY <1>1, <1>2, <1>4 DEF Fetching
<1>6. \A d \in Fetching : call'[d] = call[d] /\ call[d].key # x.key
  BY <1>2, <1>3, <1>4, <1>5 DEF FlightInv, SingleFlight, Fetching
<1>7. SingleFlight'
  BY <1>2, <1>3, <1>4, <1>5, <1>6 DEF FlightInv, SingleFlight
<1>8. SleepersHaveFetcher'
  BY <1>2, <1>4, <1>5, <1>6 DEF FlightInv, SleepersHaveFetcher
<1> QED
  BY <1>7, <1>8 DEF FlightInv

LEMMA WaitFlight ==
    ASSUME TypeInv, FlightInv, NEW c \in Callers, Wait(c)
    PROVE  FlightInv'
<1> DEFINE x == GoesTo("wait", call[c])
<1>1. call[c] \in Readers /\ call[c].at = "look"
  BY AtReader DEF Wait, Looking, ReaderPlaces
<1>2. x \in Calls /\ x.at = "wait" /\ x.key = call[c].key
  BY <1>1, ReaderGoes DEF ReaderPlaces
<1>3. call' = [call EXCEPT ![c] = x] /\ call[c].key \in inFlight /\ inFlight' = inFlight
  BY DEF Wait
<1> HIDE DEF x
<1>4. /\ call'[c] = x
      /\ \A d \in Callers \ {c} : call'[d] = call[d]
  BY <1>2, <1>3, OthersKeep DEF TypeInv, TypeOK
<1>5. Fetching' = Fetching /\ c \notin Fetching
  BY <1>1, <1>2, <1>4 DEF Fetching
<1>6. \A d \in Fetching : call'[d] = call[d]
  BY <1>4, <1>5 DEF Fetching
<1>7. SingleFlight'
  BY <1>3, <1>5, <1>6 DEF FlightInv, SingleFlight
<1>8. \E d \in Fetching : call[d].key = x.key
  BY <1>2, <1>3 DEF FlightInv, SingleFlight
<1>9. SleepersHaveFetcher'
  BY <1>4, <1>5, <1>6, <1>8 DEF FlightInv, SleepersHaveFetcher
<1> QED
  BY <1>7, <1>9 DEF FlightInv

LEMMA FetchFlight ==
    ASSUME TypeInv, FlightInv, NEW c \in Callers, Fetch(c)
    PROVE  FlightInv'
<1>1. call[c].at = "fetch" /\ inFlight' = inFlight
  BY DEF Fetch
<1>2. PICK x \in Calls : x.at = "store" /\ x.key = call[c].key /\ call' = [call EXCEPT ![c] = x]
  BY FetchIs
<1>4. x \in Calls /\ x.at = "store" /\ x.key = call[c].key
  BY <1>2
<1>5. call' = [call EXCEPT ![c] = x] /\ inFlight' = inFlight
  BY <1>1, <1>2
<1>6. /\ call'[c] = x
      /\ \A d \in Callers \ {c} : call'[d] = call[d]
  BY <1>4, <1>5, OthersKeep DEF TypeInv, TypeOK
<1>7. Fetching' = Fetching
  BY <1>1, <1>4, <1>6 DEF Fetching
<1>8. \A d \in Fetching : call'[d].key = call[d].key
  BY <1>4, <1>6, <1>7 DEF Fetching
<1>9. SingleFlight'
  BY <1>5, <1>7, <1>8 DEF FlightInv, SingleFlight
<1>10. SleepersHaveFetcher'
  BY <1>4, <1>6, <1>7, <1>8 DEF FlightInv, SleepersHaveFetcher
<1> QED
  BY <1>9, <1>10 DEF FlightInv

LEMMA ReleaseFlight ==
    ASSUME TypeInv, FlightInv, NEW c \in Callers, Releasing(c)
    PROVE  FlightInv'
<1>1. call[c].at = "store" /\ inFlight' = inFlight \ {call[c].key}
      /\ call' = Notified([call EXCEPT ![c] = Idle])
  BY DEF Releasing
<1>2. /\ call'[c] = Idle
      /\ \A d \in Callers \ {c} : call[d].at # "wait" => call'[d] = call[d]
      /\ \A d \in Callers \ {c} : call'[d].at \in FetchPlaces \cup {"wait"} => call'[d] = call[d]
      /\ Fetching' \ {c} = Fetching \ {c}
  <2>1. Idle \in Calls /\ Idle.at # "wait"
    BY IdleIs
  <2> QED
    BY <1>1, <2>1, OthersKeep
<1>3. Fetching' = Fetching \ {c} /\ c \in Fetching
  BY <1>1, <1>2, IdleIs DEF Fetching
<1>4. \A d \in Fetching' : call'[d] = call[d] /\ call[d].key # call[c].key
  BY <1>2, <1>3 DEF Fetching, FetchPlaces, FlightInv, SingleFlight
<1>5. SingleFlight'
  <2>1. inFlight = {call[d].key : d \in Fetching}
    BY DEF FlightInv, SingleFlight
  <2>2. {call'[d].key : d \in Fetching'} = {call[d].key : d \in Fetching} \ {call[c].key}
    BY <1>3, <1>4
  <2>3. \A d, e \in Fetching' : call'[d].key = call'[e].key => d = e
    BY <1>3, <1>4 DEF FlightInv, SingleFlight
  <2> QED
    BY <1>1, <2>1, <2>2, <2>3 DEF SingleFlight
<1>6. ASSUME NEW d \in Callers PROVE call'[d].at # "wait"
  <2>1. CASE d = c
    BY <1>2, <2>1, IdleIs
  <2>2. CASE d # c
    <3>1. SUFFICES ASSUME call[d].at = "wait" PROVE call'[d].at # "wait"
      BY <1>2, <2>2
    <3>2. call[d] \in Readers
      BY <3>1, AtReader DEF ReaderPlaces
    <3> DEFINE moved == [call EXCEPT ![c] = Idle]
    <3>3. moved \in [Callers -> Calls] /\ moved[d] = call[d]
      BY <2>2, IdleIs DEF TypeInv, TypeOK
    <3>4. call' = Notified(moved)
      BY <1>1
    <3> HIDE DEF moved
    <3>5. call'[d] = GoesTo("clock", call[d])
      BY <3>1, <3>3, <3>4, NotifiedIs
    <3> QED
      BY <3>2, <3>5, ReaderGoes DEF ReaderPlaces
  <2> QED
    BY <2>1, <2>2
<1>7. SleepersHaveFetcher'
  BY <1>6 DEF SleepersHaveFetcher
<1> QED
  BY <1>5, <1>7 DEF FlightInv

(* Where the steps lead that do not bear on fetches. *)
LEMMA ElsewhereIs ==
    ASSUME TypeInv, NEW c \in Callers,
           \/ ReadClock(c) \/ Hit(c) \/ WriteFile(c) \/ WriteFails(c)
           \/ Post(c) \/ PostFails(c) \/ Drop(c) \/ WakeUp(c)
    PROVE  \E x \in Calls :
              /\ x.at \notin FetchPlaces \cup {"wait"}
              /\ \/ call' = [call EXCEPT ![c] = x]
                 \/ call' = Notified([call EXCEPT ![c] = x])
<1>1. CASE ReadClock(c)
  BY <1>1, ReadClockIs DEF FetchPlaces
<1>2. CASE Hit(c)
  BY <1>2, IdleIs DEF Hit, FetchPlaces
<1>3. CASE WriteFile(c) \/ WriteFails(c) \/ Post(c) \/ PostFails(c)
  BY <1>3, ChangeIs, IdleIs DEF FetchPlaces
<1>4. CASE Drop(c)
  <2>1. PICK x \in Calls : (x = Idle \/ x.at = "drop") /\ call' = Notified([call EXCEPT ![c] = x])
    BY <1>4, DropNext
  <2> QED
    BY <2>1, IdleIs DEF FetchPlaces
<1>5. CASE WakeUp(c)
  <2>1. call[c] \in Readers
    BY <1>5, AtReader DEF WakeUp, ReaderPlaces
  <2>2. GoesTo("clock", call[c]) \in Calls /\ GoesTo("clock", call[c]).at = "clock"
    BY <2>1, ReaderGoes DEF ReaderPlaces
  <2>3. call' = [call EXCEPT ![c] = GoesTo("clock", call[c])]
    BY <1>5 DEF WakeUp
  <2> QED
    BY <2>2, <2>3 DEF FetchPlaces
<1> QED
  BY <1>1, <1>2, <1>3, <1>4, <1>5

LEMMA FlightNext == TypeInv /\ FlightInv /\ [Next]_vars => FlightInv'
<1> SUFFICES ASSUME TypeInv, FlightInv, [Next]_vars PROVE FlightInv'
  OBVIOUS
<1>1. ASSUME NEW c \in Callers, Begin(c) PROVE FlightInv'
  <2>1. PICK x : Begun(x) /\ Starting(c, x)
    BY <1>1, BeginIs
  <2>2. call[c].at = "idle" /\ inFlight' = inFlight /\ call' = [call EXCEPT ![c] = x]
    BY <2>1, IdleIs DEF Starting
  <2> QED
    BY <2>1, <2>2, FlightUndisturbed DEF FetchPlaces, Begun
<1>2. ASSUME NEW c \in Callers, Claim(c) \/ Wait(c) \/ Fetch(c) \/ Store(c) \/ GiveUp(c)
      PROVE  FlightInv'
  BY <1>2, ClaimFlight, WaitFlight, FetchFlight, ReleaseFlight DEF Store, GiveUp
<1>3. ASSUME NEW c \in Callers,
             \/ ReadClock(c) \/ Hit(c) \/ WriteFile(c) \/ WriteFails(c)
             \/ Post(c) \/ PostFails(c) \/ Drop(c) \/ WakeUp(c)
      PROVE  FlightInv'
  <2>1. PICK x \in Calls :
           /\ x.at \notin FetchPlaces \cup {"wait"}
           /\ \/ call' = [call EXCEPT ![c] = x]
              \/ call' = Notified([call EXCEPT ![c] = x])
    BY <1>3, ElsewhereIs
  <2>2. call[c].at \notin FetchPlaces /\ inFlight' = inFlight
    BY <1>3 DEF ReadClock, Hit, Looking, WriteFile, WriteFails, Writing, Post, PostFails,
                Posting, Drop, WakeUp, FetchPlaces
  <2> QED
    BY <2>1, <2>2, FlightUndisturbed
<1>4. ASSUME Tick \/ UNCHANGED vars \/ \E k \in Keys : ClusterChanges(k)
      PROVE  FlightInv'
  <2>1. call' = call /\ inFlight' = inFlight
    BY <1>4 DEF Tick, vars, ClusterChanges
  <2> QED
    BY <2>1 DEF FlightInv, SingleFlight, SleepersHaveFetcher, Fetching
<1> QED
  BY <1>1, <1>2, <1>3, <1>4 DEF Next, Advance

LEMMA FlightInit == Init => FlightInv
<1> SUFFICES ASSUME Init PROVE FlightInv
  OBVIOUS
<1>1. \A c \in Callers : call[c].at = "idle"
  BY IdleIs DEF Init
<1>2. Fetching = {}
  BY <1>1 DEF Fetching
<1> QED
  BY <1>1, <1>2 DEF Init, FlightInv, SingleFlight, SleepersHaveFetcher

(* One caller at a time fetches a key, and what is being fetched is what is *)
(* claimed, whatever happens to the fetches.                               *)
THEOREM OneFetchPerKey == Spec => []SingleFlight
<1>1. FlightInv => SingleFlight
  BY DEF FlightInv
<1> QED
  BY <1>1, InitTyped, NextTyped, FlightInit, FlightNext, PTL DEF Spec

(* Nobody sleeps for a key that nobody fetches: no wake-up is lost.        *)
THEOREM NoLostWakeUp == Spec => []SleepersHaveFetcher
<1>1. FlightInv => SleepersHaveFetcher
  BY DEF FlightInv
<1> QED
  BY <1>1, InitTyped, NextTyped, FlightInit, FlightNext, PTL DEF Spec

-----------------------------------------------------------------------------
(* Capacity                                                                *)

Bounded(m) == IsFiniteSet(DOMAIN m) /\ Cardinality(DOMAIN m) <= MaxEntries

LEMMA SmallerBounded ==
    ASSUME NEW m, NEW n, Bounded(m), DOMAIN n \subseteq DOMAIN m
    PROVE  Bounded(n)
<1>1. IsFiniteSet(DOMAIN n) /\ Cardinality(DOMAIN n) <= Cardinality(DOMAIN m)
  BY FS_Subset DEF Bounded
<1>2. Cardinality(DOMAIN n) \in Nat /\ Cardinality(DOMAIN m) \in Nat /\ MaxEntries \in Nat
  BY <1>1, FS_CardinalityType, CacheAssumption DEF Bounded
<1> QED
  BY <1>1, <1>2 DEF Bounded

(* What eviction leaves of a finite cache is within the capacity. *)
LEMMA EvictionBounds ==
    ASSUME NEW m, IsFiniteSet(DOMAIN m), NEW gone \in Evictions(m)
    PROVE  Bounded(Without(m, gone))
<1>1. DOMAIN Without(m, gone) = DOMAIN m \ gone
  BY DEF Without
<1>2. IsFiniteSet(DOMAIN m \ gone)
  BY FS_Subset
<1>3. Cardinality(DOMAIN m \ gone) <= MaxEntries
  <2>1. CASE Cardinality(DOMAIN m) <= MaxEntries
    <3>1. DOMAIN m \ gone = DOMAIN m
      BY <2>1 DEF Evictions
    <3> QED
      BY <2>1, <3>1
  <2>2. CASE ~(Cardinality(DOMAIN m) <= MaxEntries)
    <3>1. Cardinality(DOMAIN m \ gone) = MaxEntries
      BY <2>2 DEF Evictions
    <3> QED
      BY <3>1, CacheAssumption
  <2> QED
    BY <2>1, <2>2
<1> QED
  BY <1>1, <1>2, <1>3 DEF Bounded

LEMMA StoreBounded ==
    ASSUME NEW c \in Callers, Bounded(entries), Store(c)
    PROVE  Bounded(entries)'
<1> DEFINE m == With(entries, call[c].key, Entry(c))
<1>1. PICK gone \in Evictions(m) : entries' = Without(m, gone)
  BY DEF Store
<1>2. DOMAIN m = DOMAIN entries \cup {call[c].key}
  BY DEF With
<1> HIDE DEF m
<1>3. IsFiniteSet(DOMAIN m)
  BY <1>2, FS_AddElement DEF Bounded
<1>4. Bounded(Without(m, gone))
  BY <1>1, <1>3, EvictionBounds
<1> QED
  BY <1>1, <1>4 DEF Bounded

LEMMA BoundedNext == TypeInv /\ Bounded(entries) /\ [Next]_vars => Bounded(entries)'
<1> SUFFICES ASSUME TypeInv, Bounded(entries), [Next]_vars PROVE Bounded(entries)'
  OBVIOUS
<1>1. ASSUME NEW c \in Callers, Store(c) PROVE Bounded(entries)'
  BY <1>1, StoreBounded
<1>2. ASSUME DOMAIN entries' \subseteq DOMAIN entries PROVE Bounded(entries)'
  BY <1>2, SmallerBounded DEF Bounded
<1>3. ASSUME NEW c \in Callers, Begin(c) PROVE Bounded(entries)'
  BY <1>2, <1>3 DEF Begin, Ask, GuestPower, SaveCluster, RemoveCluster, ToggleFavorite, Starting
<1>4. ASSUME NEW c \in Callers, Advance(c), ~Store(c) PROVE Bounded(entries)'
  BY <1>2, <1>4 DEF Advance, ReadClock, Hit, Claim, Wait, Looking, PurgeExpired, Without, Fetch,
                    GiveUp, WriteFile, WriteFails, Writing, Post, PostFails, Posting, Drop
<1>5. ASSUME NEW c \in Callers, WakeUp(c) PROVE Bounded(entries)'
  BY <1>2, <1>5 DEF WakeUp
<1>6. ASSUME Tick \/ UNCHANGED vars \/ \E k \in Keys : ClusterChanges(k)
      PROVE  Bounded(entries)'
  BY <1>2, <1>6 DEF Tick, vars, ClusterChanges
<1> QED
  BY <1>1, <1>3, <1>4, <1>5, <1>6 DEF Next

(* The cache never holds more than its maximum between critical sections.  *)
THEOREM CacheIsBounded == Spec => []WithinCapacity
<1>1. Init => Bounded(entries)
  BY FS_EmptySet, CacheAssumption DEF Init, Bounded
<1>2. Bounded(entries) => WithinCapacity
  BY DEF Bounded, WithinCapacity
<1> QED
  BY <1>1, <1>2, InitTyped, NextTyped, BoundedNext, PTL DEF Spec

-----------------------------------------------------------------------------
(* Changes show                                                            *)

(* What x may still bring up for k is no older than b.  Before an exchange *)
(* that depends on the settings a reader has read; a writer may put its    *)
(* copy of the settings back.                                              *)
BringsAtLeast(x, b, k) ==
    /\ x.at \in ReaderPlaces /\ x.key = k =>
          x.file >= b.file /\ (x.value = none \/ AtLeast(x.value, b))
    /\ x.at = "write" /\ x.copy[k.cluster] # 0 => x.copy[k.cluster] >= b.file

(* From a state with these worlds, files, changes and calls on, answers to *)
(* come for k are no older than b.  The operator takes the state as        *)
(* parameters, to be about the next state without a prime.                 *)
Bound(b, k, w, f, n, cs) ==
    /\ b.world <= w[k]
    /\ b.file <= n + 1
    /\ f[k.cluster] # 0 => b.file <= f[k.cluster]
    /\ \A c \in Callers : BringsAtLeast(cs[c], b, k)

BoundNow(b, k) == Bound(b, k, world, file, changes, call)

(* No version has been given out that is not counted. *)
CountInv ==
    /\ \A cl \in Clusters : file[cl] <= changes
    /\ \A k \in Keys : world[k] <= changes
    /\ \A c \in Callers : call[c].at = "write" => \A cl \in Clusters : call[c].copy[cl] <= changes

Dropping == {c \in Callers : call[c].at = "drop"}

(* The history variables are such bounds.                                  *)
BoundsInv ==
    \A k \in Keys :
       /\ BoundNow(floor[k], k)
       /\ \A c \in Dropping : BoundNow(call[c].shows[k], k)

(* And the answers kept respect them, or are about to be dropped.          *)
EntriesInv ==
    \A k \in DOMAIN entries :
       /\ AtLeast(entries[k].value, floor[k])
       /\ \A c \in Dropping :
             AtLeast(entries[k].value, call[c].shows[k]) \/ Covers(call[c].drops, k)

ShowInv == CountInv /\ BoundsInv /\ EntriesInv

(* Caller c goes on to x, and notifies the others or not. *)
Goes(c, x) ==
    \/ call' = [call EXCEPT ![c] = x]
    \/ x.at # "wait" /\ call' = Notified([call EXCEPT ![c] = x])

Continues(x, r) ==
    /\ r \in Readers /\ x \in Readers
    /\ x.key = r.key /\ x.file = r.file /\ x.asked = r.asked
    /\ x.at = "look" => x.clock = now
    /\ x.value \in {r.value, none, [file |-> r.file, world |-> world[r.key]]}

(* Where a step may lead its caller. *)
LEMMA StepsTo ==
    ASSUME TypeInv, NEW c \in Callers, Begin(c) \/ Advance(c) \/ WakeUp(c)
    PROVE  \E x \in Calls :
              /\ Goes(c, x)
              /\ x.at \in {"idle", "drop"} \/ Begun(x) \/ Continues(x, call[c])
<1>1. CASE Begin(c)
  <2>1. PICK x : Begun(x) /\ Starting(c, x)
    BY <1>1, BeginIs
  <2> QED
    BY <2>1 DEF Starting, Goes, Begun
<1>2. CASE ReadClock(c) \/ Fetch(c)
  <2>1. call[c] \in Readers
    BY <1>2, AtReader DEF ReadClock, Fetch, ReaderPlaces
  <2> QED
    BY <1>2, <2>1, ReadClockIs, FetchIs DEF Goes, Continues
<1>3. ASSUME NEW at \in ReaderPlaces, at # "look", call[c].at \in ReaderPlaces,
             call' = [call EXCEPT ![c] = GoesTo(at, call[c])]
      PROVE  \E x \in Calls : Goes(c, x) /\ Continues(x, call[c])
  <2>1. call[c] \in Readers
    BY <1>3, AtReader
  <2> DEFINE x == GoesTo(at, call[c])
  <2>2. x \in Calls /\ x \in Readers /\ x.key = call[c].key /\ x.file = call[c].file
        /\ x.value = call[c].value /\ x.asked = call[c].asked /\ x.at # "look"
    BY <1>3, <2>1, ReaderGoes
  <2>3. call' = [call EXCEPT ![c] = x]
    BY <1>3
  <2> HIDE DEF x
  <2> QED
    BY <2>1, <2>2, <2>3 DEF Goes, Continues
<1>4. CASE Claim(c) \/ Wait(c) \/ WakeUp(c)
  <2>1. PICK at \in {"fetch", "wait", "clock"} : call' = [call EXCEPT ![c] = GoesTo(at, call[c])]
    BY <1>4 DEF Claim, Wait, WakeUp
  <2>2. call[c].at \in ReaderPlaces
    BY <1>4 DEF Claim, Wait, WakeUp, Looking, ReaderPlaces
  <2> QED
    BY <1>3, <2>1, <2>2 DEF ReaderPlaces
<1>5. CASE Hit(c) \/ Store(c) \/ GiveUp(c)
  BY <1>5, IdleIs DEF Hit, Store, GiveUp, Releasing, Goes
<1>6. CASE WriteFile(c) \/ WriteFails(c) \/ Post(c) \/ PostFails(c)
  BY <1>6, ChangeIs, IdleIs DEF Goes
<1>7. CASE Drop(c)
  <2>1. PICK x \in Calls : (x = Idle \/ x.at = "drop") /\ call' = Notified([call EXCEPT ![c] = x])
    BY <1>7, DropNext
  <2> QED
    BY <2>1, IdleIs DEF Goes
<1> QED
  BY <1>1, <1>2, <1>4, <1>5, <1>6, <1>7 DEF Advance

LEMMA CallsBring ==
    ASSUME TypeInv, NEW c \in Callers, Begin(c) \/ Advance(c) \/ WakeUp(c),
           NEW b \in Versions, NEW k \in Keys, BoundNow(b, k)
    PROVE  \A d \in Callers : BringsAtLeast(call'[d], b, k)
<1>1. PICK x \in Calls :
         /\ Goes(c, x)
         /\ x.at \in {"idle", "drop"} \/ Begun(x) \/ Continues(x, call[c])
  BY StepsTo
<1>2. /\ call'[c] = x
      /\ \A d \in Callers \ {c} :
            \/ call'[d] = call[d]
            \/ call[d].at = "wait" /\ call'[d] = GoesTo("clock", call[d])
  BY <1>1, OthersKeep DEF Goes
<1>3. b.file \in Nat /\ b.world \in Nat /\ k.cluster \in Clusters
  BY KeyIs DEF Versions
<1>4. BringsAtLeast(x, b, k)
  <2>1. CASE x.at \in {"idle", "drop"}
    BY <2>1 DEF BringsAtLeast, ReaderPlaces
  <2>2. CASE Begun(x)
    BY <2>2 DEF BringsAtLeast, Begun, BoundNow, Bound, ReaderPlaces, TypeInv, TypeOK
  <2>3. CASE Continues(x, call[c])
    <3>1. call[c].at \in ReaderPlaces /\ x.at \in ReaderPlaces
      BY <2>3, ReaderIs DEF Continues
    <3>2. SUFFICES ASSUME x.key = k
                   PROVE  x.file >= b.file /\ (x.value = none \/ AtLeast(x.value, b))
      BY <3>1 DEF BringsAtLeast, ReaderPlaces
    <3>3. call[c].file >= b.file /\ (call[c].value = none \/ AtLeast(call[c].value, b))
      BY <2>3, <3>1, <3>2 DEF Continues, BoundNow, Bound, BringsAtLeast
    <3>4. world[k] >= b.world
      BY <1>3 DEF BoundNow, Bound, TypeInv, TypeOK
    <3>5. AtLeast([file |-> call[c].file, world |-> world[k]], b)
      BY <3>3, <3>4 DEF AtLeast
    <3> QED
      BY <2>3, <3>2, <3>3, <3>5 DEF Continues
  <2> QED
    BY <1>1, <2>1, <2>2, <2>3
<1>5. ASSUME NEW d \in Callers, d # c PROVE BringsAtLeast(call'[d], b, k)
  <2>1. BringsAtLeast(call[d], b, k)
    BY DEF BoundNow, Bound
  <2>2. CASE call'[d] = call[d]
    BY <2>1, <2>2
  <2>3. CASE call[d].at = "wait" /\ call'[d] = GoesTo("clock", call[d])
    <3>1. call[d] \in Readers
      BY <2>3, AtReader DEF ReaderPlaces
    <3>2. /\ call'[d].at = "clock" /\ call'[d].key = call[d].key
          /\ call'[d].file = call[d].file /\ call'[d].value = call[d].value
      BY <2>3, <3>1, ReaderGoes DEF ReaderPlaces
    <3> QED
      BY <2>1, <2>3, <3>2 DEF BringsAtLeast, ReaderPlaces
  <2> QED
    BY <1>2, <1>5, <2>2, <2>3
<1> QED
  BY <1>2, <1>4, <1>5

(* What a write leaves in the file for a cluster. *)
LEMMA WriteIs ==
    ASSUME TypeInv, NEW c \in Callers, WriteFile(c) \/ WriteFails(c), NEW cl \in Clusters
    PROVE  /\ call[c].at = "write" /\ call[c].copy \in [Clusters -> Nat]
           /\ changes' \in {changes, changes + 1}
           /\ \/ file'[cl] \in {file[cl], call[c].copy[cl], 0}
              \/ file'[cl] = changes + 1 /\ changes' = changes + 1
<1>1. call[c].at = "write" /\ call[c] \in Writers
  BY Place DEF WriteFile, WriteFails, Writing, TypeInv, TypeOK
<1>2. call[c].copy \in [Clusters -> Nat] /\ call[c].cluster \in Clusters
  BY <1>1 DEF Writers
<1>3. file' = file \/ file' = Written(call[c])
  BY DEF WriteFile, WriteFails
<1>4. changes' = IF call[c].op = "save" THEN changes + 1 ELSE changes
  BY DEF WriteFile, WriteFails, Writing
<1>5. \/ Written(call[c])[cl] \in {call[c].copy[cl], 0}
      \/ Written(call[c])[cl] = changes + 1 /\ call[c].op = "save"
  BY <1>2 DEF Written
<1> QED
  BY <1>1, <1>2, <1>3, <1>4, <1>5

(* Steps of callers other than writes leave the versions alone. *)
LEMMA OthersGiveNone ==
    ASSUME NEW c \in Callers, Begin(c) \/ Advance(c) \/ WakeUp(c),
           ~WriteFile(c), ~WriteFails(c)
    PROVE  file' = file /\ changes' = changes
BY DEF Begin, Ask, GuestPower, SaveCluster, RemoveCluster, ToggleFavorite, Starting, Advance,
       ReadClock, Hit, Claim, Wait, Looking, Fetch, Store, GiveUp, Releasing, Post, PostFails,
       Posting, Drop, WakeUp

LEMMA CallersKeepWorld ==
    ASSUME NEW c \in Callers, Begin(c) \/ Advance(c) \/ WakeUp(c)
    PROVE  world' = world
BY DEF Begin, Ask, GuestPower, SaveCluster, RemoveCluster, ToggleFavorite, Starting, Advance,
       ReadClock, Hit, Claim, Wait, Looking, Fetch, Store, GiveUp, Releasing, WriteFile,
       WriteFails, Writing, Post, PostFails, Posting, Drop, WakeUp

LEMMA CountNext == TypeInv /\ CountInv /\ [Next]_vars => CountInv'
<1> SUFFICES ASSUME TypeInv, CountInv, [Next]_vars PROVE CountInv'
  OBVIOUS
<1>0. /\ changes \in Nat /\ \A cl \in Clusters : file[cl] \in Nat
      /\ \A k \in Keys : world[k] \in Nat
  BY DEF TypeInv, TypeOK
<1>1. ASSUME NEW c \in Callers, Begin(c) \/ Advance(c) \/ WakeUp(c)
      PROVE  CountInv'
  <2>1. PICK x \in Calls :
           /\ Goes(c, x)
           /\ x.at \in {"idle", "drop"} \/ Begun(x) \/ Continues(x, call[c])
    BY <1>1, StepsTo
  <2>2. /\ call'[c] = x
        /\ \A d \in Callers \ {c} :
              \/ call'[d] = call[d]
              \/ call[d].at = "wait" /\ call'[d] = GoesTo("clock", call[d])
    BY <2>1, OthersKeep DEF Goes
  <2>3. x.at = "write" => x.copy = file
    BY <2>1, ReaderIs DEF Begun, Continues, ReaderPlaces
  <2>4. \A d \in Callers \ {c} : call'[d].at = "write" => call'[d] = call[d]
    <3> SUFFICES ASSUME NEW d \in Callers \ {c}, call[d].at = "wait",
                        call'[d] = GoesTo("clock", call[d])
                 PROVE  call'[d].at # "write"
      BY <2>2
    <3>1. call[d] \in Readers
      BY AtReader DEF ReaderPlaces
    <3> QED
      BY <3>1, ReaderGoes DEF ReaderPlaces
  <2>5. changes' \in Nat /\ changes' >= changes /\ \A cl \in Clusters : file'[cl] <= changes'
    <3>1. CASE WriteFile(c) \/ WriteFails(c)
      <4>1. changes' \in {changes, changes + 1}
        <5>1. changes' = IF call[c].op = "save" THEN changes + 1 ELSE changes
          BY <3>1 DEF WriteFile, WriteFails, Writing
        <5> QED
          BY <5>1
      <4>2. ASSUME NEW cl \in Clusters PROVE file'[cl] <= changes'
        <5>1. /\ call[c].at = "write" /\ call[c].copy \in [Clusters -> Nat]
              /\ \/ file'[cl] \in {file[cl], call[c].copy[cl], 0}
                 \/ file'[cl] = changes + 1 /\ changes' = changes + 1
          BY <3>1, WriteIs
        <5>2. file[cl] <= changes /\ call[c].copy[cl] <= changes /\ call[c].copy[cl] \in Nat
          BY <5>1 DEF CountInv
        <5> QED
          BY <1>0, <4>1, <5>1, <5>2
      <4> QED
        BY <1>0, <4>1, <4>2
    <3>2. CASE ~WriteFile(c) /\ ~WriteFails(c)
      <4>1. file' = file /\ changes' = changes
        BY <1>1, <3>2, OthersGiveNone
      <4> QED
        BY <1>0, <4>1 DEF CountInv
    <3> QED
      BY <3>1, <3>2
  <2>6. \A k \in Keys : world'[k] <= changes'
    BY <1>0, <1>1, <2>5, CallersKeepWorld DEF CountInv
  <2>7. ASSUME NEW d \in Callers, call'[d].at = "write", NEW cl \in Clusters
        PROVE  call'[d].copy[cl] <= changes'
    <3>1. CASE d = c
      BY <1>0, <2>2, <2>3, <2>5, <2>7, <3>1 DEF CountInv
    <3>2. CASE d # c
      <4>1. call'[d] = call[d] /\ call[d].copy[cl] <= changes
        BY <2>4, <2>7, <3>2 DEF CountInv
      <4>2. call[d] \in Writers
        BY <2>7, <4>1, Place DEF TypeInv, TypeOK
      <4>3. call[d].copy[cl] \in Nat
        BY <4>2 DEF Writers
      <4> QED
        BY <1>0, <2>5, <4>1, <4>3
    <3> QED
      BY <3>1, <3>2
  <2> QED
    BY <2>5, <2>6, <2>7 DEF CountInv
<1>2. ASSUME Tick \/ UNCHANGED vars PROVE CountInv'
  BY <1>2 DEF Tick, vars, CountInv
<1>3. ASSUME NEW k \in Keys, ClusterChanges(k) PROVE CountInv'
  <2>1. changes' = changes + 1 /\ file' = file /\ call' = call
        /\ world' = [world EXCEPT ![k] = changes + 1]
    BY <1>3 DEF ClusterChanges
  <2>2. \A cl \in Clusters : file'[cl] <= changes'
    BY <1>0, <2>1 DEF CountInv
  <2>3. \A l \in Keys : world'[l] <= changes'
    <3>1. world \in [Keys -> Nat]
      BY DEF TypeInv, TypeOK
    <3> QED
      BY <1>0, <2>1, <3>1 DEF CountInv
  <2>4. ASSUME NEW d \in Callers, call[d].at = "write", NEW cl \in Clusters
        PROVE  call[d].copy[cl] <= changes'
    <3>1. call[d] \in Writers
      BY <2>4, Place DEF TypeInv, TypeOK
    <3>2. call[d].copy[cl] \in Nat /\ call[d].copy[cl] <= changes
      BY <2>4, <3>1 DEF Writers, CountInv
    <3> QED
      BY <1>0, <2>1, <3>2
  <2> QED
    BY <2>1, <2>2, <2>3, <2>4 DEF CountInv
<1> QED
  BY <1>1, <1>2, <1>3 DEF Next

(* A bound stays one, whatever step is taken. *)
LEMMA BoundKept ==
    ASSUME TypeInv, CountInv, [Next]_vars, NEW b \in Versions, NEW k \in Keys, BoundNow(b, k)
    PROVE  Bound(b, k, world', file', changes', call')
<1>0. /\ b.file \in Nat /\ b.world \in Nat /\ k.cluster \in Clusters
      /\ changes \in Nat /\ file[k.cluster] \in Nat /\ world[k] \in Nat
      /\ b.world <= world[k] /\ b.file <= changes + 1
      /\ file[k.cluster] # 0 => b.file <= file[k.cluster]
  BY KeyIs DEF Versions, TypeInv, TypeOK, BoundNow, Bound
<1>1. ASSUME NEW c \in Callers, Begin(c) \/ Advance(c) \/ WakeUp(c)
      PROVE  Bound(b, k, world', file', changes', call')
  <2>1. \A d \in Callers : BringsAtLeast(call'[d], b, k)
    BY <1>1, CallsBring
  <2>2. world' = world
    BY <1>1, CallersKeepWorld
  <2>3. b.file <= changes' + 1 /\ (file'[k.cluster] # 0 => b.file <= file'[k.cluster])
    <3>1. CASE WriteFile(c) \/ WriteFails(c)
      <4>1. /\ call[c].at = "write" /\ call[c].copy \in [Clusters -> Nat]
            /\ changes' \in {changes, changes + 1}
            /\ \/ file'[k.cluster] \in {file[k.cluster], call[c].copy[k.cluster], 0}
               \/ file'[k.cluster] = changes + 1 /\ changes' = changes + 1
        BY <1>0, <3>1, WriteIs
      <4>2. call[c].copy[k.cluster] # 0 => b.file <= call[c].copy[k.cluster]
        BY <1>0, <4>1 DEF BoundNow, Bound, BringsAtLeast
      <4> QED
        BY <1>0, <4>1, <4>2
    <3>2. CASE ~WriteFile(c) /\ ~WriteFails(c)
      BY <1>0, <1>1, <3>2, OthersGiveNone
    <3> QED
      BY <3>1, <3>2
  <2> QED
    BY <1>0, <2>1, <2>2, <2>3 DEF Bound
<1>2. ASSUME Tick \/ UNCHANGED vars
      PROVE  Bound(b, k, world', file', changes', call')
  BY <1>2 DEF Tick, vars, BoundNow
<1>3. ASSUME NEW l \in Keys, ClusterChanges(l)
      PROVE  Bound(b, k, world', file', changes', call')
  <2>1. changes' = changes + 1 /\ file' = file /\ call' = call
        /\ world' = [world EXCEPT ![l] = changes + 1]
    BY <1>3 DEF ClusterChanges
  <2>2. world'[k] \in {world[k], changes + 1} /\ world[k] <= changes
    BY <2>1 DEF TypeInv, TypeOK, CountInv
  <2>3. b.world <= world'[k] /\ b.file <= changes' + 1
    BY <1>0, <2>1, <2>2
  <2> QED
    BY <2>1, <2>3 DEF BoundNow, Bound
<1> QED
  BY <1>1, <1>2, <1>3 DEF Next

LEMMA NothingBounds ==
    ASSUME NEW w \in [Keys -> Nat], NEW f \in [Clusters -> Nat], NEW n \in Nat,
           NEW cs \in [Callers -> Calls], NEW k \in Keys
    PROVE  Bound(Nothing, k, w, f, n, cs)
<1>1. k.cluster \in Clusters
  BY KeyIs
<1>2. ASSUME NEW c \in Callers PROVE BringsAtLeast(cs[c], Nothing, k)
  <2>1. CASE cs[c].at \in ReaderPlaces
    <3>1. cs[c] \in Readers
      BY <2>1, Place DEF IsReader
    <3> QED
      BY <2>1, <3>1, ReaderIs DEF BringsAtLeast, Nothing, AtLeast, Versions, ReaderPlaces
  <2>2. CASE cs[c].at = "write"
    <3>1. cs[c] \in Writers
      BY <2>2, Place
    <3>2. cs[c].copy \in [Clusters -> Nat]
      BY <3>1 DEF Writers
    <3> QED
      BY <1>1, <2>2, <3>2 DEF BringsAtLeast, Nothing, ReaderPlaces
  <2> QED
    BY <2>1, <2>2 DEF BringsAtLeast
<1> QED
  BY <1>1, <1>2 DEF Bound, Nothing

LEMMA HigherBounds ==
    ASSUME NEW u \in Versions, NEW v \in Versions, NEW k \in Keys, NEW w, NEW f, NEW n, NEW cs,
           Bound(u, k, w, f, n, cs), Bound(v, k, w, f, n, cs)
    PROVE  Bound(Higher(u, v), k, w, f, n, cs)
<1>1. Higher(u, v).file \in {u.file, v.file} /\ Higher(u, v).world \in {u.world, v.world}
  BY DEF Higher
<1>2. ASSUME NEW c \in Callers PROVE BringsAtLeast(cs[c], Higher(u, v), k)
  <2>1. BringsAtLeast(cs[c], u, k) /\ BringsAtLeast(cs[c], v, k)
    BY DEF Bound
  <2> QED
    BY <1>1, <2>1 DEF BringsAtLeast, AtLeast
<1> QED
  BY <1>1, <1>2 DEF Bound

(* A step that begins no drops, ends none and stores at most what a caller *)
(* has fetched.                                                            *)
LEMMA CalmStep ==
    ASSUME TypeInv, ShowInv, [Next]_vars, floor' = floor,
           \A d \in Dropping' : d \in Dropping /\ call'[d] = call[d],
           \A k \in DOMAIN entries' :
              \/ k \in DOMAIN entries /\ entries'[k] = entries[k]
              \/ \E r \in Callers :
                    /\ call[r].at \in ReaderPlaces /\ call[r].key = k /\ call[r].value # none
                    /\ entries'[k].value = call[r].value
    PROVE  BoundsInv' /\ EntriesInv'
<1>1. \A k \in Keys : floor[k] \in Versions
  BY DEF TypeInv, TypeOK
<1>2. \A d \in Dropping, k \in Keys : call[d].shows[k] \in Versions
  <2> SUFFICES ASSUME NEW d \in Dropping PROVE call[d].shows \in [Keys -> Versions]
    OBVIOUS
  <2>1. call[d] \in Droppers
    BY Place DEF Dropping, TypeInv, TypeOK
  <2> QED
    BY <2>1 DEF Droppers
<1>3. BoundsInv'
  <2>1. ASSUME NEW k \in Keys
        PROVE  /\ Bound(floor'[k], k, world', file', changes', call')
               /\ \A d \in Dropping' : Bound(call'[d].shows[k], k, world', file', changes', call')
    <3>1. BoundNow(floor[k], k) /\ \A d \in Dropping : BoundNow(call[d].shows[k], k)
      BY DEF ShowInv, BoundsInv
    <3> QED
      BY <1>1, <1>2, <3>1, BoundKept DEF ShowInv
  <2> QED
    BY <2>1 DEF BoundsInv, BoundNow
<1>4. EntriesInv'
  <2>1. ASSUME NEW k \in DOMAIN entries', k \in DOMAIN entries, entries'[k] = entries[k]
        PROVE  /\ AtLeast(entries'[k].value, floor'[k])
               /\ \A d \in Dropping' : \/ AtLeast(entries'[k].value, call'[d].shows[k])
                                       \/ Covers(call'[d].drops, k)
    <3>1. /\ AtLeast(entries[k].value, floor[k])
          /\ \A d \in Dropping : \/ AtLeast(entries[k].value, call[d].shows[k])
                                 \/ Covers(call[d].drops, k)
      BY <2>1 DEF ShowInv, EntriesInv
    <3> QED
      BY <2>1, <3>1
  <2>2. ASSUME NEW k \in DOMAIN entries', NEW r \in Callers,
               call[r].at \in ReaderPlaces, call[r].key = k, call[r].value # none,
               entries'[k].value = call[r].value
        PROVE  /\ AtLeast(entries'[k].value, floor'[k])
               /\ \A d \in Dropping' : AtLeast(entries'[k].value, call'[d].shows[k])
    <3>1. k \in Keys
      BY <2>2, AtReader, ReaderIs
    <3>2. \A b : BoundNow(b, k) => AtLeast(call[r].value, b)
      BY <2>2 DEF BoundNow, Bound, BringsAtLeast
    <3>3. BoundNow(floor[k], k) /\ \A d \in Dropping : BoundNow(call[d].shows[k], k)
      BY <3>1 DEF ShowInv, BoundsInv
    <3> QED
      BY <2>2, <3>2, <3>3
  <2>3. \A k \in DOMAIN entries' :
           /\ AtLeast(entries'[k].value, floor'[k])
           /\ \A d \in Dropping' : \/ AtLeast(entries'[k].value, call'[d].shows[k])
                                   \/ Covers(call'[d].drops, k)
    BY <2>1, <2>2
  <2> QED
    BY <2>3 DEF EntriesInv
<1> QED
  BY <1>3, <1>4

LEMMA DroppersKeep ==
    ASSUME TypeInv, NEW c \in Callers, NEW x \in Calls, Goes(c, x)
    PROVE  /\ call'[c] = x
           /\ \A d \in Dropping' : d # c => d \in Dropping /\ call'[d] = call[d]
<1>1. /\ call'[c] = x
      /\ \A d \in Callers \ {c} :
            \/ call'[d] = call[d]
            \/ call[d].at = "wait" /\ call'[d] = GoesTo("clock", call[d])
  BY OthersKeep DEF Goes
<1>2. ASSUME NEW d \in Callers \ {c}, call[d].at = "wait", call'[d] = GoesTo("clock", call[d])
      PROVE  call'[d].at = "clock"
  <2>1. call[d] \in Readers
    BY <1>2, AtReader DEF ReaderPlaces
  <2> QED
    BY <1>2, <2>1, ReaderGoes DEF ReaderPlaces
<1> QED
  BY <1>1, <1>2 DEF Dropping

(* The change of a command starts its drops: what it shows of a key that   *)
(* nobody else is busy with bounds all answers to come.                    *)
LEMMA ChangeStep ==
    ASSUME TypeInv, ShowInv, [Next]_vars, TypeInv', CountInv',
           NEW c \in Callers, WriteFile(c) \/ Post(c)
    PROVE  BoundsInv' /\ EntriesInv'
<1>1. /\ entries' = entries /\ floor' = floor /\ world' = world
      /\ call' = [call EXCEPT ![c] = Changed(c)]
  BY DEF WriteFile, Writing, Post, Posting
<1>2. /\ call[c] \in Writers \cup Posters /\ WellFormed(call[c])
      /\ Changed(c) \in Calls /\ Changed(c).at = "drop" /\ Changed(c).drops = call[c].drops
      /\ Changed(c).shows = [k \in Keys |->
            IF k \in call[c].touches /\ Quiet(c, k) THEN Current(k) ELSE Nothing]
  <2>1. call[c] \in Writers \cup Posters /\ WellFormed(call[c])
        /\ file' \in [Clusters -> Nat] /\ changes' \in Nat /\ world \in [Keys -> Nat]
    BY ChangeIs DEF TypeInv, TypeOK
  <2> QED
    BY <2>1, ChangedTyped
<1>3. /\ call'[c] = Changed(c)
      /\ \A d \in Callers \ {c} : call'[d] = call[d]
  BY <1>1, <1>2 DEF TypeInv, TypeOK
<1>4. /\ world' \in [Keys -> Nat] /\ file' \in [Clusters -> Nat] /\ changes' \in Nat
      /\ call' \in [Callers -> Calls]
  BY DEF TypeInv, TypeOK
<1>5. ASSUME NEW k \in Keys
      PROVE  Bound(Changed(c).shows[k], k, world', file', changes', call')
  <2>1. CASE k \in call[c].touches /\ Quiet(c, k)
    <3>1. Changed(c).shows[k] = Current(k)
      BY <1>2, <2>1
    <3>2. k.cluster \in Clusters
      BY KeyIs
    <3>3. file'[k.cluster] \in Nat /\ file'[k.cluster] <= changes' /\ world'[k] \in Nat
      BY <1>4, <3>2 DEF CountInv
    <3>4. ASSUME NEW d \in Callers PROVE BringsAtLeast(call'[d], Current(k), k)
      <4>1. CASE d = c
        BY <1>2, <1>3, <4>1 DEF BringsAtLeast, ReaderPlaces
      <4>2. CASE d # c
        BY <1>3, <2>1, <4>2 DEF BringsAtLeast, Quiet
      <4> QED
        BY <4>1, <4>2
    <3>5. Current(k).world = world[k]
          /\ Current(k).file = IF file'[k.cluster] = 0 THEN changes' + 1 ELSE file'[k.cluster]
      BY DEF Current
    <3>6. Current(k).file <= changes' + 1
          /\ (file'[k.cluster] # 0 => Current(k).file <= file'[k.cluster])
      BY <1>4, <3>3, <3>5
    <3>7. Current(k).world <= world'[k]
      BY <1>1, <3>3, <3>5
    <3> QED
      BY <3>1, <3>4, <3>6, <3>7 DEF Bound
  <2>2. CASE ~(k \in call[c].touches /\ Quiet(c, k))
    <3>1. Changed(c).shows[k] = Nothing
      BY <1>2, <2>2
    <3> QED
      BY <1>4, <3>1, NothingBounds
  <2> QED
    BY <2>1, <2>2
<1>6. \A d \in Dropping' : d # c => d \in Dropping /\ call'[d] = call[d]
  BY <1>3 DEF Dropping
<1>7. \A k \in Keys : floor[k] \in Versions
  BY DEF TypeInv, TypeOK
<1>8. \A d \in Dropping, k \in Keys : call[d].shows[k] \in Versions
  <2> SUFFICES ASSUME NEW d \in Dropping PROVE call[d].shows \in [Keys -> Versions]
    OBVIOUS
  <2>1. call[d] \in Droppers
    BY Place DEF Dropping, TypeInv, TypeOK
  <2> QED
    BY <2>1 DEF Droppers
<1>9. BoundsInv'
  <2>1. ASSUME NEW k \in Keys
        PROVE  /\ Bound(floor'[k], k, world', file', changes', call')
               /\ \A d \in Dropping' : Bound(call'[d].shows[k], k, world', file', changes', call')
    <3>1. BoundNow(floor[k], k) /\ \A d \in Dropping : BoundNow(call[d].shows[k], k)
      BY DEF ShowInv, BoundsInv
    <3>2. Bound(floor'[k], k, world', file', changes', call')
      BY <1>1, <1>7, <3>1, BoundKept DEF ShowInv
    <3>3. ASSUME NEW d \in Dropping', d # c
          PROVE  Bound(call'[d].shows[k], k, world', file', changes', call')
      BY <1>6, <1>8, <3>1, <3>3, BoundKept DEF ShowInv
    <3> QED
      BY <1>3, <1>5, <3>2, <3>3
  <2> QED
    BY <2>1 DEF BoundsInv, BoundNow
<1>10. EntriesInv'
  <2>1. ASSUME NEW k \in DOMAIN entries
        PROVE  \/ AtLeast(entries[k].value, Changed(c).shows[k])
               \/ Covers(Changed(c).drops, k)
    <3>1. k \in Keys /\ entries[k] \in Entries
      BY DEF TypeInv, TypeOK
    <3>2. CASE k \in call[c].touches
      <4>1. call[c].at \in {"write", "post"}
        BY <1>2 DEF Writers, Posters
      <4> QED
        BY <1>2, <3>2, <4>1 DEF WellFormed
    <3>3. CASE k \notin call[c].touches
      <4>1. Changed(c).shows[k] = Nothing
        BY <1>2, <3>1, <3>3
      <4>2. entries[k].value \in Versions
        BY <3>1 DEF Entries
      <4> QED
        BY <4>1, <4>2 DEF Nothing, AtLeast, Versions
    <3> QED
      BY <3>2, <3>3
  <2>2. \A k \in DOMAIN entries' :
           /\ AtLeast(entries'[k].value, floor'[k])
           /\ \A d \in Dropping' : \/ AtLeast(entries'[k].value, call'[d].shows[k])
                                   \/ Covers(call'[d].drops, k)
    BY <1>1, <1>3, <1>6, <2>1 DEF ShowInv, EntriesInv
  <2> QED
    BY <2>2 DEF EntriesInv
<1> QED
  BY <1>9, <1>10

LEMMA CoversRest ==
    ASSUME NEW drops \in Seq(SUBSET Keys), drops # <<>>, NEW k, Covers(drops, k), k \notin Head(drops)
    PROVE  Covers(Tail(drops), k) /\ Tail(drops) # <<>>
<1>1. PICK i \in 1 .. Len(drops) : k \in drops[i]
  BY DEF Covers
<1>2. i # 1
  BY <1>1
<1>3. i - 1 \in 1 .. Len(Tail(drops)) /\ Tail(drops)[i - 1] = drops[i]
  BY <1>1, <1>2
<1>4. ASSUME Tail(drops) = <<>> PROVE FALSE
  <2>1. Len(drops) \in Nat /\ Len(Tail(drops)) = Len(drops) - 1
    OBVIOUS
  <2>2. \A q : q = <<>> => Len(q) = 0
    OBVIOUS
  <2>3. Len(Tail(drops)) = 0
    BY <1>4, <2>2, Zenon
  <2>4. \A n \in Nat : n - 1 = 0 => n = 1 /\ \A j \in 1 .. n : j = 1
    OBVIOUS
  <2>5. \A j \in 1 .. Len(drops) : j = 1
    BY <2>1, <2>3, <2>4
  <2> QED
    BY <1>1, <1>2, <2>5
<1> QED
  BY <1>1, <1>3, <1>4 DEF Covers

LEMMA DropStep ==
    ASSUME TypeInv, ShowInv, [Next]_vars, TypeInv', NEW c \in Callers, Drop(c)
    PROVE  BoundsInv' /\ EntriesInv'
<1> DEFINE rest == Tail(call[c].drops)
           shows == [k \in Keys |-> IF Quiet(c, k) THEN call[c].shows[k] ELSE Nothing]
<1>1. PICK x \in Calls :
         /\ IF rest = <<>> THEN x = Idle
            ELSE x \in Droppers /\ x.at = "drop" /\ x.drops = rest /\ x.shows = shows
         /\ call' = Notified([call EXCEPT ![c] = x])
  BY DropNext
<1>2. /\ call[c] \in Droppers /\ call[c].drops \in Seq(SUBSET Keys) /\ call[c].drops # <<>>
      /\ call[c].shows \in [Keys -> Versions] /\ shows \in [Keys -> Versions]
  BY DropIs
<1>3. /\ entries' = Without(entries, Head(call[c].drops))
      /\ floor' = [k \in Keys |-> IF rest = <<>> THEN Higher(floor[k], shows[k]) ELSE floor[k]]
  BY DEF Drop
<1>4. c \in Dropping /\ \A k \in Keys : shows[k] \in {call[c].shows[k], Nothing}
  BY DEF Drop, Dropping
<1> HIDE DEF shows
<1>5. /\ call'[c] = x
      /\ \A d \in Dropping' : d # c => d \in Dropping /\ call'[d] = call[d]
  <2>1. Goes(c, x)
    BY <1>1, IdleIs DEF Goes
  <2> QED
    BY <2>1, DroppersKeep
<1>6. /\ world' \in [Keys -> Nat] /\ file' \in [Clusters -> Nat] /\ changes' \in Nat
      /\ call' \in [Callers -> Calls]
  BY DEF TypeInv, TypeOK
<1>7. \A k \in Keys : floor[k] \in Versions
  BY DEF TypeInv, TypeOK
<1>8. \A d \in Dropping, k \in Keys : call[d].shows[k] \in Versions
  <2> SUFFICES ASSUME NEW d \in Dropping PROVE call[d].shows \in [Keys -> Versions]
    OBVIOUS
  <2>1. call[d] \in Droppers
    BY Place DEF Dropping, TypeInv, TypeOK
  <2> QED
    BY <2>1 DEF Droppers
<1>9. c \in Dropping' => rest # <<>> /\ call'[c].shows = shows /\ call'[c].drops = rest
  BY <1>1, <1>5, IdleIs DEF Dropping
<1>10. BoundsInv'
  <2>1. ASSUME NEW k \in Keys
        PROVE  /\ Bound(floor'[k], k, world', file', changes', call')
               /\ \A d \in Dropping' : Bound(call'[d].shows[k], k, world', file', changes', call')
    <3>1. BoundNow(floor[k], k) /\ \A d \in Dropping : BoundNow(call[d].shows[k], k)
      BY DEF ShowInv, BoundsInv
    <3>2. Bound(floor[k], k, world', file', changes', call')
      BY <1>7, <3>1, BoundKept DEF ShowInv
    <3>3. ASSUME NEW d \in Dropping
          PROVE  Bound(call[d].shows[k], k, world', file', changes', call')
      BY <1>8, <3>1, <3>3, BoundKept DEF ShowInv
    <3>4. Bound(shows[k], k, world', file', changes', call')
      BY <1>4, <1>6, <3>3, NothingBounds
    <3>5. Bound(Higher(floor[k], shows[k]), k, world', file', changes', call')
      BY <1>2, <1>7, <3>2, <3>4, HigherBounds
    <3>6. Bound(floor'[k], k, world', file', changes', call')
      BY <1>3, <3>2, <3>5
    <3>7. ASSUME NEW d \in Dropping'
          PROVE  Bound(call'[d].shows[k], k, world', file', changes', call')
      BY <1>5, <1>9, <3>3, <3>4, <3>7
    <3> QED
      BY <3>6, <3>7
  <2> QED
    BY <2>1 DEF BoundsInv, BoundNow
<1>11. EntriesInv'
  <2>1. ASSUME NEW k \in DOMAIN entries'
        PROVE  /\ AtLeast(entries'[k].value, floor'[k])
               /\ \A d \in Dropping' : \/ AtLeast(entries'[k].value, call'[d].shows[k])
                                       \/ Covers(call'[d].drops, k)
    <3>1. /\ k \in DOMAIN entries /\ k \notin Head(call[c].drops) /\ entries'[k] = entries[k]
          /\ k \in Keys /\ entries[k].value \in Versions
      BY <1>3, <2>1 DEF Without, TypeInv, TypeOK, Entries
    <3>2. /\ AtLeast(entries[k].value, floor[k])
          /\ \A d \in Dropping : \/ AtLeast(entries[k].value, call[d].shows[k])
                                 \/ Covers(call[d].drops, k)
      BY <3>1 DEF ShowInv, EntriesInv
    <3>3. AtLeast(entries[k].value, Nothing)
      BY <3>1 DEF AtLeast, Nothing, Versions
    <3>4. AtLeast(entries[k].value, shows[k]) \/ (rest # <<>> /\ Covers(rest, k))
      <4>1. CASE AtLeast(entries[k].value, call[c].shows[k])
        BY <1>4, <3>1, <3>3, <4>1
      <4>2. CASE Covers(call[c].drops, k)
        BY <1>2, <3>1, <4>2, CoversRest
      <4> QED
        BY <1>4, <3>2, <4>1, <4>2
    <3>5. AtLeast(entries[k].value, floor'[k])
      <4>1. CASE rest = <<>>
        <5>1. AtLeast(entries[k].value, Higher(floor[k], shows[k]))
          BY <1>2, <1>7, <3>1, <3>2, <3>4, <4>1, HigherIs
        <5> QED
          BY <1>3, <3>1, <4>1, <5>1
      <4>2. CASE rest # <<>>
        BY <1>3, <3>1, <3>2, <4>2
      <4> QED
        BY <4>1, <4>2
    <3> QED
      BY <1>5, <1>9, <3>1, <3>2, <3>4, <3>5
  <2> QED
    BY <2>1 DEF EntriesInv
<1> QED
  BY <1>10, <1>11

LEMMA ShowNext == TypeInv /\ ShowInv /\ [Next]_vars => ShowInv'
<1> SUFFICES ASSUME TypeInv, ShowInv, [Next]_vars PROVE ShowInv'
  OBVIOUS
<1>1. TypeInv' /\ CountInv'
  BY NextTyped, CountNext DEF ShowInv
<1>2. SUFFICES BoundsInv' /\ EntriesInv'
  BY <1>1 DEF ShowInv
<1>3. ASSUME NEW c \in Callers, WriteFile(c) \/ Post(c)
      PROVE  BoundsInv' /\ EntriesInv'
  BY <1>1, <1>3, ChangeStep
<1>4. ASSUME NEW c \in Callers, Drop(c)
      PROVE  BoundsInv' /\ EntriesInv'
  BY <1>1, <1>4, DropStep
<1>5. ASSUME NEW c \in Callers, NEW x \in Calls, Goes(c, x), x.at # "drop"
      PROVE  \A d \in Dropping' : d \in Dropping /\ call'[d] = call[d]
  BY <1>5, DroppersKeep DEF Dropping
<1>6. ASSUME NEW c \in Callers, Begin(c)
      PROVE  BoundsInv' /\ EntriesInv'
  <2>1. PICK x : Begun(x) /\ Starting(c, x)
    BY <1>6, BeginIs
  <2>2. x \in Calls /\ x.at # "drop" /\ Goes(c, x) /\ floor' = floor /\ entries' = entries
    BY <2>1 DEF Begun, Starting, Goes
  <2> QED
    BY <2>2, <1>5, CalmStep
<1>7. ASSUME NEW c \in Callers, ReadClock(c) \/ Fetch(c) \/ Claim(c) \/ Wait(c) \/ WakeUp(c)
      PROVE  BoundsInv' /\ EntriesInv'
  <2>1. PICK x \in Calls : x.at # "drop" /\ Goes(c, x)
    <3>1. CASE ReadClock(c) \/ Fetch(c)
      BY <3>1, ReadClockIs, FetchIs DEF Goes
    <3>2. CASE Claim(c) \/ Wait(c) \/ WakeUp(c)
      <4>1. call[c] \in Readers
        BY <3>2, AtReader DEF Claim, Wait, WakeUp, Looking, ReaderPlaces
      <4>2. \A at \in {"fetch", "wait", "clock"} :
               GoesTo(at, call[c]) \in Calls /\ GoesTo(at, call[c]).at = at
        BY <4>1, ReaderGoes DEF ReaderPlaces
      <4>3. \E at \in {"fetch", "wait", "clock"} :
               call' = [call EXCEPT ![c] = GoesTo(at, call[c])]
        BY <3>2 DEF Claim, Wait, WakeUp
      <4> QED
        BY <4>2, <4>3 DEF Goes
    <3> QED
      BY <1>7, <3>1, <3>2
  <2>2. floor' = floor
        /\ \A k \in DOMAIN entries' : k \in DOMAIN entries /\ entries'[k] = entries[k]
    BY <1>7 DEF ReadClock, Fetch, Claim, Wait, Looking, PurgeExpired, Without, WakeUp
  <2> QED
    BY <2>1, <2>2, <1>5, CalmStep
<1>8. ASSUME NEW c \in Callers, Hit(c) \/ GiveUp(c) \/ WriteFails(c) \/ PostFails(c)
      PROVE  BoundsInv' /\ EntriesInv'
  <2>1. Idle \in Calls /\ Idle.at # "drop" /\ Goes(c, Idle)
    BY <1>8, IdleIs DEF Hit, GiveUp, Releasing, WriteFails, PostFails, Goes
  <2>2. floor' = floor
        /\ \A k \in DOMAIN entries' : k \in DOMAIN entries /\ entries'[k] = entries[k]
    BY <1>8 DEF Hit, Looking, PurgeExpired, Without, GiveUp, Releasing, WriteFails, Writing,
                PostFails, Posting
  <2> QED
    BY <2>1, <2>2, <1>5, CalmStep
<1>9. ASSUME NEW c \in Callers, Store(c)
      PROVE  BoundsInv' /\ EntriesInv'
  <2>1. Idle \in Calls /\ Idle.at # "drop" /\ Goes(c, Idle) /\ floor' = floor
    BY <1>9, IdleIs DEF Store, Releasing, Goes
  <2>2. call[c].at \in ReaderPlaces /\ call[c].value # none
    BY <1>9 DEF Store, Releasing, ReaderPlaces
  <2>3. \A k \in DOMAIN entries' :
           \/ k \in DOMAIN entries /\ entries'[k] = entries[k]
           \/ call[c].key = k /\ entries'[k].value = call[c].value
    BY <1>9, StoreIs
  <2> QED
    BY <2>1, <2>2, <2>3, <1>5, CalmStep
<1>10. ASSUME Tick \/ UNCHANGED vars \/ \E k \in Keys : ClusterChanges(k)
       PROVE  BoundsInv' /\ EntriesInv'
  <2>1. call' = call /\ floor' = floor /\ entries' = entries
    BY <1>10 DEF Tick, vars, ClusterChanges
  <2>2. \A d \in Dropping' : d \in Dropping /\ call'[d] = call[d]
    BY <2>1 DEF Dropping
  <2> QED
    BY <2>1, <2>2, CalmStep
<1> QED
  BY <1>3, <1>4, <1>6, <1>7, <1>8, <1>9, <1>10 DEF Next, Advance

LEMMA ShowInit == Init => ShowInv
<1> SUFFICES ASSUME Init PROVE ShowInv
  OBVIOUS
<1>1. TypeInv
  BY InitTyped
<1>2. \A c \in Callers : call[c].at = "idle"
  BY IdleIs DEF Init
<1>3. CountInv
  BY <1>2 DEF Init, CountInv
<1>4. Dropping = {} /\ DOMAIN entries = {}
  BY <1>2 DEF Dropping, Init
<1>5. \A k \in Keys : BoundNow(floor[k], k)
  BY <1>1, NothingBounds DEF Init, BoundNow, TypeInv, TypeOK
<1> QED
  BY <1>3, <1>4, <1>5 DEF ShowInv, BoundsInv, EntriesInv

(* Once a change has returned that nobody interfered with, answers from    *)
(* before it are neither kept nor about to be kept.                        *)
THEOREM ChangesAreShown == Spec => []ChangesShow
<1>1. TypeInv /\ ShowInv => ChangesShow
  <2> SUFFICES ASSUME TypeInv, ShowInv PROVE ChangesShow
    OBVIOUS
  <2>1. \A k \in DOMAIN entries : AtLeast(entries[k].value, floor[k])
    BY DEF ShowInv, EntriesInv
  <2>2. ASSUME NEW c \in Fetching, call[c].value # none
        PROVE  AtLeast(call[c].value, floor[call[c].key])
    <3>1. c \in Callers /\ call[c].at \in ReaderPlaces
      BY DEF Fetching, ReaderPlaces
    <3>2. call[c].key \in Keys
      BY <3>1, AtReader, ReaderIs
    <3>3. BoundNow(floor[call[c].key], call[c].key)
      BY <3>2 DEF ShowInv, BoundsInv
    <3> QED
      BY <2>2, <3>1, <3>3 DEF BoundNow, Bound, BringsAtLeast
  <2> QED
    BY <2>1, <2>2 DEF ChangesShow
<1> QED
  BY <1>1, InitTyped, NextTyped, ShowInit, ShowNext, PTL DEF Spec

-----------------------------------------------------------------------------
(* Lifetimes                                                               *)

(* A caller looks with a clock it has read after it asked. *)
AskedInv ==
    \A c \in Callers :
       /\ call[c].at \in ReaderPlaces => call[c].asked <= now
       /\ call[c].at = "look" => call[c].asked <= call[c].clock

LEMMA AskedNext == TypeInv /\ AskedInv /\ [Next]_vars => AskedInv'
<1> SUFFICES ASSUME TypeInv, AskedInv, [Next]_vars PROVE AskedInv'
  OBVIOUS
<1>1. ASSUME NEW c \in Callers, Begin(c) \/ Advance(c) \/ WakeUp(c)
      PROVE  AskedInv'
  <2>1. PICK x \in Calls :
           /\ Goes(c, x)
           /\ x.at \in {"idle", "drop"} \/ Begun(x) \/ Continues(x, call[c])
    BY <1>1, StepsTo
  <2>2. /\ call'[c] = x
        /\ \A d \in Callers \ {c} :
              \/ call'[d] = call[d]
              \/ call[d].at = "wait" /\ call'[d] = GoesTo("clock", call[d])
    BY <2>1, OthersKeep DEF Goes
  <2>3. now' = now /\ now \in Nat
    BY <1>1 DEF Begin, Ask, GuestPower, SaveCluster, RemoveCluster, ToggleFavorite, Starting,
       Advance, ReadClock, Hit, Claim, Wait, Looking, Fetch, Store, GiveUp, Releasing, WriteFile,
       WriteFails, Writing, Post, PostFails, Posting, Drop, WakeUp, TypeInv, TypeOK
  <2>4. /\ x.at \in ReaderPlaces => x.asked <= now
        /\ x.at = "look" => x.asked <= x.clock
    <3>1. CASE x.at \in {"idle", "drop"}
      BY <3>1 DEF ReaderPlaces
    <3>2. CASE Begun(x)
      BY <2>3, <3>2 DEF Begun, ReaderPlaces
    <3>3. CASE Continues(x, call[c])
      <4>1. call[c].at \in ReaderPlaces
        BY <3>3, ReaderIs DEF Continues
      <4> QED
        BY <3>3, <4>1 DEF Continues, AskedInv
    <3> QED
      BY <2>1, <3>1, <3>2, <3>3
  <2>5. ASSUME NEW d \in Callers, d # c
        PROVE  /\ call'[d].at \in ReaderPlaces => call'[d].asked <= now
               /\ call'[d].at = "look" => call'[d].asked <= call'[d].clock
    <3>1. CASE call'[d] = call[d]
      BY <3>1 DEF AskedInv
    <3>2. CASE call[d].at = "wait" /\ call'[d] = GoesTo("clock", call[d])
      <4>1. call[d] \in Readers
        BY <3>2, AtReader DEF ReaderPlaces
      <4>2. call'[d].at = "clock" /\ call'[d].asked = call[d].asked
        BY <3>2, <4>1, ReaderGoes DEF ReaderPlaces
      <4> QED
        BY <3>2, <4>2 DEF AskedInv, ReaderPlaces
    <3> QED
      BY <2>2, <2>5, <3>1, <3>2
  <2> QED
    BY <2>2, <2>3, <2>4, <2>5 DEF AskedInv
<1>2. ASSUME Tick PROVE AskedInv'
  <2>1. now' = now + 1 /\ now \in Nat /\ call' = call
    BY <1>2 DEF Tick, TypeInv, TypeOK
  <2>2. ASSUME NEW c \in Callers, call[c].at \in ReaderPlaces
        PROVE  call[c].asked <= now + 1
    <3>1. call[c].asked \in Nat /\ call[c].asked <= now
      BY <2>2, AtReader, ReaderIs DEF AskedInv
    <3> QED
      BY <2>1, <3>1
  <2> QED
    BY <2>1, <2>2 DEF AskedInv
<1>3. ASSUME UNCHANGED vars \/ \E k \in Keys : ClusterChanges(k)
      PROVE  AskedInv'
  BY <1>3 DEF vars, ClusterChanges, AskedInv
<1> QED
  BY <1>1, <1>2, <1>3 DEF Next

LEMMA HitIsFresh ==
    ASSUME TypeInv, AskedInv, [Next]_vars, NEW c \in Callers, IsHit(c)
    PROVE  call[c].asked < entries[call[c].key].expiresAt
<1>1. call[c].at = "look" /\ call'[c].at = "idle"
  BY DEF IsHit
<1>2. call[c] \in Readers
  BY <1>1, AtReader DEF ReaderPlaces
<1>3. Hit(c)
  <2>1. ASSUME NEW d \in Callers, Begin(d) \/ Advance(d) \/ WakeUp(d) PROVE d = c
    <3>1. PICK x \in Calls : Goes(d, x)
      BY <2>1, StepsTo
    <3>2. d # c => call'[c] = call[c]
      BY <1>1, <3>1, OthersKeep DEF Goes
    <3> QED
      BY <1>1, <3>2
  <2>2. ~Begin(c)
    <3>1. ASSUME Begin(c) PROVE FALSE
      <4>1. PICK x : Starting(c, x)
        BY <3>1, BeginIs
      <4> QED
        BY <1>1, <4>1, IdleIs DEF Starting
    <3> QED
      BY <3>1
  <2>3. Advance(c)
    <3>1. call' # call
      BY <1>1
    <3>2. ~WakeUp(c)
      BY <1>1 DEF WakeUp
    <3> QED
      BY <2>1, <2>2, <3>1, <3>2 DEF Next, Tick, ClusterChanges, vars
  <2>4. ASSUME Claim(c) \/ Wait(c) PROVE FALSE
    <3>1. PICK at \in {"fetch", "wait"} : call' = [call EXCEPT ![c] = GoesTo(at, call[c])]
      BY <2>4 DEF Claim, Wait
    <3>2. GoesTo(at, call[c]).at = at
      BY <1>2, ReaderGoes DEF ReaderPlaces
    <3> QED
      BY <1>1, <3>1, <3>2 DEF TypeInv, TypeOK
  <2> QED
    BY <1>1, <2>3, <2>4 DEF Advance, ReadClock, Fetch, Store, GiveUp, Releasing, WriteFile,
       WriteFails, Writing, Post, PostFails, Posting, Drop
<1>4. call[c].key \in DOMAIN PurgeExpired(entries, call[c].clock)
  BY <1>3 DEF Hit, Looking
<1>5. call[c].key \in DOMAIN entries /\ Fresh(entries[call[c].key], call[c].clock)
  BY <1>4 DEF PurgeExpired, Without
<1>6. call[c].asked <= call[c].clock
  BY <1>1 DEF AskedInv
<1>7. call[c].asked \in Nat /\ call[c].clock \in Nat
  BY <1>2, ReaderIs
<1>8. entries[call[c].key].expiresAt \in Nat
  BY <1>5 DEF TypeInv, TypeOK, Entries
<1> QED
  BY <1>5, <1>6, <1>7, <1>8 DEF Fresh

(* An answer from the cache was within its lifetime when its caller asked. *)
THEOREM HitsAreAlwaysFresh == Spec => HitsAreFresh
<1>1. Init => AskedInv
  <2> SUFFICES ASSUME Init PROVE AskedInv
    OBVIOUS
  <2>1. \A c \in Callers : call[c].at = "idle"
    BY IdleIs DEF Init
  <2> QED
    BY <2>1 DEF AskedInv, ReaderPlaces
<1>2. TypeInv /\ AskedInv /\ [Next]_vars =>
         [\A c \in Callers : IsHit(c) => call[c].asked < entries[call[c].key].expiresAt]_vars
  BY HitIsFresh
<1> QED
  BY <1>1, <1>2, InitTyped, NextTyped, AskedNext, PTL DEF Spec, HitsAreFresh

-----------------------------------------------------------------------------
(* Evictions                                                               *)

IsStore(c) == call[c].at = "store" /\ call[c].value # none /\ call'[c].at = "idle"

(* Only its own store ends the command of a caller that holds an answer.   *)
LEMMA StoreEnds ==
    ASSUME TypeInv, [Next]_vars, NEW c \in Callers, IsStore(c)
    PROVE  Store(c)
<1>1. call[c].at = "store" /\ call'[c].at = "idle"
  BY DEF IsStore
<1>2. ASSUME NEW d \in Callers, Begin(d) \/ Advance(d) \/ WakeUp(d) PROVE d = c
  <2>1. PICK x \in Calls : Goes(d, x)
    BY <1>2, StepsTo
  <2>2. d # c => call'[c] = call[c]
    BY <1>1, <2>1, OthersKeep DEF Goes
  <2> QED
    BY <1>1, <2>2
<1>3. ~Begin(c)
  <2>1. ASSUME Begin(c) PROVE FALSE
    <3>1. PICK x : Starting(c, x)
      BY <2>1, BeginIs
    <3> QED
      BY <1>1, <3>1, IdleIs DEF Starting
  <2> QED
    BY <2>1
<1>4. ~WakeUp(c)
  BY <1>1 DEF WakeUp
<1>5. Advance(c)
  BY <1>1, <1>2, <1>3, <1>4 DEF Next, Tick, ClusterChanges, vars
<1> QED
  BY <1>1, <1>5 DEF IsStore, Advance, ReadClock, Hit, Claim, Wait, Looking, Fetch, GiveUp,
                    Releasing, WriteFile, WriteFails, Writing, Post, PostFails, Posting, Drop

(* What is evicted from a map is no younger than what stays.               *)
LEMMA OldestGo ==
    ASSUME NEW m, NEW gone \in Evictions(m),
           NEW old \in DOMAIN m \ DOMAIN Without(m, gone), NEW kept \in DOMAIN Without(m, gone)
    PROVE  m[old].cachedAt <= Without(m, gone)[kept].cachedAt
<1>1. old \in DOMAIN m /\ old \in gone /\ kept \in DOMAIN m \ gone
  BY DEF Without
<1>2. Without(m, gone)[kept] = m[kept]
  BY <1>1 DEF Without
<1>3. ~(Cardinality(DOMAIN m) <= MaxEntries)
  BY <1>1 DEF Evictions
<1> QED
  BY <1>1, <1>2, <1>3 DEF Evictions

(* A store into a full cache drops no answer that is younger than one it   *)
(* keeps, whoever else steps in between, and the answer just stored is one *)
(* of those compared.                                                      *)
THEOREM OldestIsEvicted == Spec => EvictsTheOldest
<1>1. ASSUME TypeInv, [Next]_vars, NEW c \in Callers, IsStore(c)
      PROVE  LET held == With(entries, call[c].key, Entry(c)) IN
             \A old \in DOMAIN held \ DOMAIN entries', kept \in DOMAIN entries' :
                held[old].cachedAt <= entries'[kept].cachedAt
  <2> DEFINE held == With(entries, call[c].key, Entry(c))
  <2>1. PICK gone \in Evictions(held) : entries' = Without(held, gone)
    BY <1>1, StoreEnds DEF Store
  <2> HIDE DEF held
  <2>2. \A old \in DOMAIN held \ DOMAIN entries', kept \in DOMAIN entries' :
           held[old].cachedAt <= entries'[kept].cachedAt
    BY <2>1, OldestGo
  <2> QED
    BY <2>2 DEF held
<1>2. TypeInv /\ [Next]_vars =>
         [\A c \in Callers : call[c].at = "store" /\ call[c].value # none /\ call'[c].at = "idle" =>
             LET held == With(entries, call[c].key, Entry(c)) IN
             \A old \in DOMAIN held \ DOMAIN entries', kept \in DOMAIN entries' :
                held[old].cachedAt <= entries'[kept].cachedAt]_vars
  BY <1>1 DEF IsStore
<1> QED
  BY <1>2, InitTyped, NextTyped, PTL DEF Spec, EvictsTheOldest

=============================================================================
