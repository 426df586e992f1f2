-------------------------- MODULE HousekeepingProof --------------------------
(***************************************************************************)
(* Proofs about module Housekeeping, for any workers, queues, foreign       *)
(* streams and depths, whichever of the workers run their trim loops: the   *)
(* trim spares what was delivered in time, nothing is stranded, and the     *)
(* lowest queue gets its turn.                                              *)
(***************************************************************************)
EXTENDS HousekeepingProps, TLAPS

Injective(q) == \A m, n \in DOMAIN q : q[m] = q[n] => m = n

LEMMA AppendFacts ==
  ASSUME NEW S, NEW q \in Seq(S), NEW i \in S
  PROVE  LET a == Append(q, i)
         IN  /\ a \in Seq(S) /\ Range(a) = Range(q) \cup {i}
             /\ Injective(q) /\ i \notin Range(q) => Injective(a)
<1> DEFINE a == Append(q, i)
<1>1. /\ a \in Seq(S) /\ DOMAIN q = 1..Len(q) /\ Len(q) \in Nat
      /\ DOMAIN a = 1..(Len(q) + 1) /\ a[Len(q) + 1] = i
      /\ \A n \in 1..Len(q) : a[n] = q[n]
  OBVIOUS
<1>2. \A n \in DOMAIN a : n \in DOMAIN q \/ n = Len(q) + 1
  BY <1>1
<1>3. Range(a) = Range(q) \cup {i}
  BY <1>1, <1>2 DEF Range
<1> HIDE DEF a
<1>4. ASSUME Injective(q), i \notin Range(q), NEW m \in DOMAIN a, NEW n \in DOMAIN a,
             a[m] = a[n]
      PROVE  m = n
  BY <1>1, <1>2, <1>4 DEF Injective, Range
<1> QED BY <1>1, <1>3, <1>4 DEF Injective, a

LEMMA WithoutFacts ==
  ASSUME NEW S, NEW q \in Seq(S), NEW i, Injective(q)
  PROVE  LET r == Without(q, i)
         IN  r \in Seq(S) /\ Range(r) = Range(q) \ {i} /\ Injective(r)
<1> DEFINE r == Without(q, i)  p == Position(q, i)
<1>1. DOMAIN q = 1..Len(q) /\ Len(q) \in Nat /\ \A n \in 1..Len(q) : q[n] \in S
  OBVIOUS
<1>2. CASE i \notin Range(q)
  BY <1>2 DEF Without
<1>3. CASE i \in Range(q)
  <2>1. p \in 1..Len(q) /\ q[p] = i
    BY <1>1, <1>3 DEF Position, Range
  <2>2. r = [n \in 1..(Len(q) - 1) |-> IF n < p THEN q[n] ELSE q[n + 1]]
    BY <1>3 DEF Without
  <2> HIDE DEF p, r
  <2>3. r \in Seq(S) /\ DOMAIN r = 1..(Len(q) - 1)
    BY <1>1, <2>1, <2>2
  <2>4. \A n \in DOMAIN r : \E m \in 1..Len(q) : /\ r[n] = q[m] /\ m # p
                                                 /\ m = IF n < p THEN n ELSE n + 1
    BY <1>1, <2>1, <2>2, <2>3
  <2>5. \A m \in 1..Len(q) : m # p => \E n \in DOMAIN r : r[n] = q[m]
    <3> SUFFICES ASSUME NEW m \in 1..Len(q), m # p
                 PROVE  \E n \in DOMAIN r : r[n] = q[m]
      OBVIOUS
    <3>1. CASE m < p
      BY <1>1, <2>1, <2>2, <2>3, <3>1
    <3>2. CASE m > p
      <4>1. m - 1 \in DOMAIN r /\ r[m - 1] = q[(m - 1) + 1] /\ (m - 1) + 1 = m
        BY <1>1, <2>1, <2>2, <2>3, <3>2
      <4> QED BY <4>1
    <3> QED BY <2>1, <3>1, <3>2
  <2>6. Range(r) = Range(q) \ {i}
    <3>1. \A n \in DOMAIN r : r[n] \in Range(q) \ {i}
      BY <1>1, <2>1, <2>4 DEF Injective, Range
    <3>2. \A x \in Range(q) \ {i} : \E n \in DOMAIN r : r[n] = x
      BY <1>1, <2>1, <2>5 DEF Range
    <3> QED BY <3>1, <3>2 DEF Range
  <2>7. Injective(r)
    <3> SUFFICES ASSUME NEW m \in DOMAIN r, NEW n \in DOMAIN r, r[m] = r[n] PROVE m = n
      BY DEF Injective
    <3>1. PICK a \in 1..Len(q) : r[m] = q[a] /\ a = IF m < p THEN m ELSE m + 1
      BY <2>4
    <3>2. PICK b \in 1..Len(q) : r[n] = q[b] /\ b = IF n < p THEN n ELSE n + 1
      BY <2>4
    <3>3. a = b
      BY <1>1, <3>1, <3>2 DEF Injective
    <3> QED BY <2>1, <2>3, <3>1, <3>2, <3>3
  <2> QED BY <2>3, <2>6, <2>7 DEF r
<1> QED BY <1>2, <1>3

LEMMA CutFacts ==
  ASSUME NEW S, NEW q \in Seq(S), NEW n \in 0..Len(q), Injective(q)
  PROVE  LET r == SubSeq(q, n + 1, Len(q))
             c == {q[m] : m \in 1..n}
         IN  r \in Seq(S) /\ Range(r) = Range(q) \ c /\ Injective(r) /\ c \subseteq Range(q)
<1> DEFINE r == SubSeq(q, n + 1, Len(q))  c == {q[m] : m \in 1..n}
<1>1. DOMAIN q = 1..Len(q) /\ Len(q) \in Nat /\ n \in Nat /\ n <= Len(q)
      /\ \A k \in 1..Len(q) : q[k] \in S
  OBVIOUS
<1>2. r = [k \in 1..(Len(q) - n) |-> q[k + n]]
  BY <1>1
<1> HIDE DEF r
<1>3. r \in Seq(S) /\ DOMAIN r = 1..(Len(q) - n)
  BY <1>1, <1>2
<1>4. \A k \in DOMAIN r : k + n \in (n + 1)..Len(q) /\ r[k] = q[k + n]
  BY <1>1, <1>2, <1>3
<1>5. \A m \in (n + 1)..Len(q) : m - n \in DOMAIN r /\ r[m - n] = q[m]
  <2> SUFFICES ASSUME NEW m \in (n + 1)..Len(q) PROVE m - n \in DOMAIN r /\ r[m - n] = q[m]
    OBVIOUS
  <2>1. m - n \in DOMAIN r /\ (m - n) + n = m
    BY <1>1, <1>3
  <2> QED BY <1>4, <2>1
<1>6. c \subseteq Range(q)
  BY <1>1 DEF Range
<1>7. Range(r) = Range(q) \ c
  <2>1. ASSUME NEW k \in DOMAIN r PROVE r[k] \in Range(q) \ c
    <3>1. k + n \in 1..Len(q) /\ \A m \in 1..n : m \in 1..Len(q) /\ m # k + n
      BY <1>1, <1>3
    <3> QED BY <1>1, <1>4, <3>1 DEF Injective, Range
  <2>2. ASSUME NEW x \in Range(q) \ c PROVE \E k \in DOMAIN r : r[k] = x
    <3>1. PICK m \in 1..Len(q) : q[m] = x
      BY <1>1, <2>2 DEF Range
    <3>2. m \in (n + 1)..Len(q)
      BY <1>1, <2>2, <3>1
    <3> QED BY <1>5, <3>1, <3>2
  <2> QED BY <2>1, <2>2 DEF Range
<1>8. Injective(r)
  <2> SUFFICES ASSUME NEW k \in DOMAIN r, NEW m \in DOMAIN r, r[k] = r[m] PROVE k = m
    BY DEF Injective
  <2>1. k + n \in DOMAIN q /\ m + n \in DOMAIN q
    BY <1>1, <1>3
  <2>2. k + n = m + n
    BY <1>4, <2>1 DEF Injective
  <2> QED BY <1>1, <1>3, <2>2
<1> QED BY <1>3, <1>6, <1>7, <1>8 DEF r

-----------------------------------------------------------------------------
(* Types, and where the loops are                                          *)

Commands == {"off", "foreign", "queue", "block"} \X (0..Len(Queues))
Chores   == {"off", "next", "floor", "trim", "sweep"} \X (0..Len(AllStreams))

ReadPlaces ==
    \A w \in Workers : /\ at[w][1] = "queue" => at[w][2] \in 1..Len(Queues)
                       /\ phase[w] # "up" => at[w] = <<"off", 0>>
ChorePlaces ==
    \A w \in Workers :
       /\ chore[w][1] \in {"floor", "trim"} => chore[w][2] \in 1..Len(Queues)
       /\ chore[w][1] = "sweep" => chore[w][2] \in 1..Len(AllStreams)

Typed == TypeOK /\ ReadPlaces /\ ChorePlaces

LEMMA Lengths ==
  /\ Len(Queues) \in Nat /\ Len(Queues) >= 1 /\ Len(AllStreams) \in Nat
  /\ Len(AllStreams) >= Len(Queues)
  /\ \A k \in 1..Len(Queues) : Queues[k] \in Own
  /\ \A k \in 1..Len(AllStreams) : AllStreams[k] \in Streams
  /\ FairnessEvery \in Nat /\ Own \subseteq Streams
<1>1. /\ Queues \in Seq(Own) /\ Queues # <<>> /\ External \in Seq(Foreign)
      /\ FairnessEvery \in Nat
  BY HousekeepingAssumption
<1>2. Len(Queues) \in Nat /\ Len(Queues) >= 1 /\ Len(External) \in Nat
  BY <1>1
<1>3. \A k \in 1..Len(Queues) : Queues[k] \in Own
  BY <1>1
<1>4. \A k \in 1..Len(External) : External[k] \in Foreign
  BY <1>1
<1>5. Len(AllStreams) = Len(Queues) + Len(External)
  BY <1>1 DEF AllStreams
<1>6. \A k \in 1..Len(AllStreams) :
         AllStreams[k] = IF k <= Len(Queues) THEN Queues[k] ELSE External[k - Len(Queues)]
  BY <1>1 DEF AllStreams
<1>7. \A k \in 1..Len(AllStreams) : AllStreams[k] \in Streams
  <2> SUFFICES ASSUME NEW k \in 1..Len(AllStreams) PROVE AllStreams[k] \in Streams
    OBVIOUS
  <2>1. CASE k <= Len(Queues)
    BY <1>2, <1>3, <1>6, <2>1 DEF Streams
  <2>2. CASE k > Len(Queues)
    <3>1. k - Len(Queues) \in 1..Len(External)
      BY <1>2, <1>5, <2>2
    <3>2. AllStreams[k] = External[k - Len(Queues)]
      BY <1>2, <1>6, <2>2
    <3> QED BY <1>4, <3>1, <3>2 DEF Streams
  <2> QED BY <1>2, <2>1, <2>2
<1> QED BY <1>1, <1>2, <1>3, <1>5, <1>7 DEF Streams

(* Where a read goes next, and what that does to the pass counter.         *)
LEMMA ReadFacts ==
  ASSUME TypeOK, NEW w \in Workers, NextRead(w) \/ OwnQueues(w)
  PROVE  /\ at' \in [Workers -> Commands] /\ passes' \in [Workers -> Nat]
         /\ \A u \in Workers \ {w} : at'[u] = at[u] /\ passes'[u] = passes[u]
         /\ at'[w][1] = "queue" => at'[w][2] = 1
         /\ \/ at'[w] # <<"queue", 1>> /\ passes'[w] = passes[w]
            \/ at'[w] = <<"queue", 1>> /\ passes'[w] = AfterPass(passes[w])
         /\ passes'[w] = 0 \/ passes'[w] < FairnessEvery
<1>1. at \in [Workers -> Commands] /\ passes \in [Workers -> Nat]
  BY DEF TypeOK, Commands
<1>2. passes[w] = 0 \/ passes[w] < FairnessEvery
  BY DEF TypeOK
<1>3. AfterPass(passes[w]) \in Nat
      /\ (AfterPass(passes[w]) = 0 \/ AfterPass(passes[w]) < FairnessEvery)
  BY <1>1, Lengths DEF AfterPass
<1>4. \/ at' = [at EXCEPT ![w] = <<"foreign", 0>>] /\ passes' = passes
      \/ at' = [at EXCEPT ![w] = <<"block", 0>>] /\ passes' = passes
      \/ /\ at' = [at EXCEPT ![w] = <<"queue", 1>>]
         /\ passes' = [passes EXCEPT ![w] = AfterPass(passes[w])]
  BY DEF NextRead, OwnQueues, Reads
<1>5. <<"foreign", 0>> \in Commands /\ <<"block", 0>> \in Commands /\ <<"queue", 1>> \in Commands
  BY Lengths DEF Commands
<1>6. CASE at' = [at EXCEPT ![w] = <<"foreign", 0>>] /\ passes' = passes
  BY <1>1, <1>2, <1>5, <1>6
<1>7. CASE at' = [at EXCEPT ![w] = <<"block", 0>>] /\ passes' = passes
  BY <1>1, <1>2, <1>5, <1>7
<1>8. CASE /\ at' = [at EXCEPT ![w] = <<"queue", 1>>]
           /\ passes' = [passes EXCEPT ![w] = AfterPass(passes[w])]
  BY <1>1, <1>3, <1>5, <1>8
<1> QED BY <1>4, <1>6, <1>7, <1>8

StreamsTyped ==
    /\ stream \in [Streams -> Seq(Places)] /\ groups \subseteq Streams
    /\ unread \in [Streams -> SUBSET Places]
    /\ owner \in [Streams -> [Places -> Workers \cup {NoOne}]]
    /\ old \in [Streams -> SUBSET Places] /\ late \in [Streams -> SUBSET Places]
    /\ below \in [Workers -> [Own -> SUBSET Places]]
LoopsTyped ==
    /\ phase \in [Workers -> {"down", "starting", "up"}]
    /\ at \in [Workers -> Commands]
    /\ passes \in [Workers -> Nat] /\ waited \in [Workers -> Nat]
    /\ \A w \in Workers : passes[w] = 0 \/ passes[w] < FairnessEvery
    /\ chore \in [Workers -> Chores]

LEMMA TypeParts == TypeOK <=> StreamsTyped /\ LoopsTyped
BY DEF TypeOK, StreamsTyped, LoopsTyped, Commands, Chores

LEMMA TypePartsNext == TypeOK' <=> StreamsTyped' /\ LoopsTyped'
BY DEF TypeOK, StreamsTyped, LoopsTyped, Commands, Chores

Forgotten(s, gone) ==
    /\ old' \in [Streams -> SUBSET Places] /\ unread' \in [Streams -> SUBSET Places]
    /\ below' \in [Workers -> [Own -> SUBSET Places]]
    /\ old'[s] = old[s] \ gone /\ unread'[s] = unread[s] \ gone
    /\ \A q \in Streams \ {s} : old'[q] = old[q] /\ unread'[q] = unread[q]
    /\ \A w \in Workers, q \in Own :
          below'[w][q] = IF q = s THEN below[w][q] \ gone ELSE below[w][q]

LEMMA ForgetFacts ==
  ASSUME StreamsTyped, NEW s \in Streams, NEW gone, Forget(s, gone)
  PROVE  Forgotten(s, gone)
BY DEF StreamsTyped, Forget, SetOf, Forgotten

LEMMA PlacesOf == ASSUME StreamsTyped, NEW s \in Streams PROVE Present(s) \subseteq Places
BY DEF StreamsTyped, Present, Range

(* The streams under a step that touches none of them.                     *)
LEMMA StreamsStay ==
  ASSUME StreamsTyped, UNCHANGED <<entries, groups>>, below' \in [Workers -> [Own -> SUBSET Places]]
  PROVE  StreamsTyped'
BY DEF StreamsTyped, entries

LEMMA LoopsStay ==
  ASSUME Typed, UNCHANGED <<phase, reading, chore>>
  PROVE  LoopsTyped' /\ ReadPlaces' /\ ChorePlaces'
BY TypeParts DEF Typed, LoopsTyped, ReadPlaces, ChorePlaces, reading, Commands, Chores

(* The loops under a step of one read.                                     *)
LEMMA LoopsRead ==
  ASSUME Typed, NEW w \in Workers, phase[w] = "up",
         NextRead(w) \/ OwnQueues(w) \/ (/\ passes' = passes
                                        /\ \E c \in Commands : /\ at' = [at EXCEPT ![w] = c]
                                                               /\ c[1] = "queue" => c[2] >= 1),
         waited' \in [Workers -> Nat], UNCHANGED <<phase, chore>>
  PROVE  LoopsTyped' /\ ReadPlaces' /\ ChorePlaces'
<1>1. LoopsTyped /\ ReadPlaces /\ ChorePlaces /\ TypeOK
  BY TypeParts DEF Typed
<1>2. ChorePlaces'
  BY <1>1 DEF ChorePlaces
<1>3. CASE NextRead(w) \/ OwnQueues(w)
  <2>1. /\ at' \in [Workers -> Commands] /\ passes' \in [Workers -> Nat]
        /\ \A u \in Workers \ {w} : at'[u] = at[u] /\ passes'[u] = passes[u]
        /\ at'[w][1] = "queue" => at'[w][2] = 1
        /\ passes'[w] = 0 \/ passes'[w] < FairnessEvery
    BY <1>1, <1>3, ReadFacts
  <2>2. ReadPlaces'
    <3> SUFFICES ASSUME NEW u \in Workers
                 PROVE  /\ at'[u][1] = "queue" => at'[u][2] \in 1..Len(Queues)
                        /\ phase'[u] # "up" => at'[u] = <<"off", 0>>
      BY DEF ReadPlaces
    <3>1. CASE u = w
      BY <2>1, <3>1, Lengths
    <3>2. CASE u # w
      BY <1>1, <2>1, <3>2 DEF ReadPlaces
    <3> QED BY <3>1, <3>2
  <2>3. \A u \in Workers : passes'[u] = 0 \/ passes'[u] < FairnessEvery
    <3> SUFFICES ASSUME NEW u \in Workers PROVE passes'[u] = 0 \/ passes'[u] < FairnessEvery
      OBVIOUS
    <3>1. CASE u = w
      BY <2>1, <3>1
    <3>2. CASE u # w
      BY <1>1, <2>1, <3>2 DEF LoopsTyped
    <3> QED BY <3>1, <3>2
  <2> QED BY <1>1, <1>2, <2>1, <2>2, <2>3 DEF LoopsTyped, Chores
<1>4. CASE /\ passes' = passes
           /\ \E c \in Commands : /\ at' = [at EXCEPT ![w] = c]
                                  /\ c[1] = "queue" => c[2] >= 1
  <2>1. PICK c \in Commands : at' = [at EXCEPT ![w] = c] /\ (c[1] = "queue" => c[2] >= 1)
    BY <1>4
  <2>2. c[1] = "queue" => c[2] \in 1..Len(Queues)
    BY <2>1, Lengths DEF Commands
  <2>3. at' \in [Workers -> Commands] /\ at'[w] = c /\ \A u \in Workers \ {w} : at'[u] = at[u]
    BY <1>1, <2>1 DEF LoopsTyped
  <2>4. ReadPlaces'
    <3> SUFFICES ASSUME NEW u \in Workers
                 PROVE  /\ at'[u][1] = "queue" => at'[u][2] \in 1..Len(Queues)
                        /\ phase'[u] # "up" => at'[u] = <<"off", 0>>
      BY DEF ReadPlaces
    <3>1. CASE u = w
      BY <2>2, <2>3, <3>1
    <3>2. CASE u # w
      BY <1>1, <2>3, <3>2 DEF ReadPlaces
    <3> QED BY <3>1, <3>2
  <2> QED BY <1>1, <1>2, <1>4, <2>3, <2>4 DEF LoopsTyped, Chores
<1> QED BY <1>3, <1>4

(* The commands of a trim loop with a stream to send them for.             *)
Turns ==
    {c \in Chores : /\ c[1] \in {"floor", "trim"} => c[2] \in 1..Len(Queues)
                    /\ c[1] = "sweep" => c[2] \in 1..Len(AllStreams)}

LEMMA LoopsChore ==
  ASSUME Typed, NEW w \in Workers, NEW c \in Turns,
         chore' = [chore EXCEPT ![w] = c], UNCHANGED <<phase, reading>>
  PROVE  LoopsTyped' /\ ReadPlaces' /\ ChorePlaces'
<1>1. LoopsTyped /\ ReadPlaces /\ ChorePlaces
  BY TypeParts DEF Typed
<1>2. /\ chore' \in [Workers -> Chores] /\ chore'[w] = c /\ c \in Chores
      /\ \A u \in Workers \ {w} : chore'[u] = chore[u]
  BY <1>1 DEF LoopsTyped, Turns
<1>3. ChorePlaces'
  <2> SUFFICES ASSUME NEW u \in Workers
               PROVE  /\ chore'[u][1] \in {"floor", "trim"} => chore'[u][2] \in 1..Len(Queues)
                      /\ chore'[u][1] = "sweep" => chore'[u][2] \in 1..Len(AllStreams)
    BY DEF ChorePlaces
  <2>1. CASE u = w
    BY <1>2, <2>1 DEF Turns
  <2>2. CASE u # w
    BY <1>1, <1>2, <2>2 DEF ChorePlaces
  <2> QED BY <2>1, <2>2
<1> QED BY <1>1, <1>2, <1>3 DEF LoopsTyped, ReadPlaces, reading, Commands

-----------------------------------------------------------------------------
(* What holds of a stream between any two steps, and of what a trim loop is *)
(* about to drop from it.                                                   *)

Tidy(s) ==
    /\ Injective(stream[s])
    /\ s \in groups => Present(s) \subseteq unread[s] \cup Held(s)
    /\ old[s] \subseteq Present(s)
    /\ Held(s) \ late[s] \subseteq Present(s)
    /\ s \in Own => \A w \in Workers : below[w][s] \subseteq old[s]
Spared(w, s) == below[w][s] \cap Held(s) \subseteq late[s]

AllTidy   == \A s \in Streams : Tidy(s)
TrimsSpare ==
    \A w \in Workers, q \in Own :
       chore[w][1] = "trim" /\ q = Queues[chore[w][2]] => Spared(w, q)
SparedStay == \A w \in Workers, s \in Own : Spared(w, s) => Spared(w, s)'

LEMMA TidyStays ==
  ASSUME NEW s \in Streams, Tidy(s), s \in groups' => s \in groups,
         stream'[s] = stream[s], unread'[s] = unread[s], owner'[s] = owner[s],
         old'[s] = old[s], late'[s] = late[s],
         s \in Own => \A w \in Workers : below'[w][s] \subseteq old[s]
  PROVE  Tidy(s)'
<1>1. Present(s)' = Present(s) /\ Held(s)' = Held(s)
  BY DEF Present, Held
<1> QED BY <1>1 DEF Tidy

LEMMA SparedStays ==
  ASSUME NEW w \in Workers, NEW s \in Own, Spared(w, s), owner'[s] = owner[s],
         late'[s] = late[s], below'[w][s] \subseteq below[w][s]
  PROVE  Spared(w, s)'
BY DEF Spared, Held

LEMMA AddTidy ==
  ASSUME StreamsTyped, AllTidy, NEW s \in Streams, NEW i \in Places, Add(s, i)
  PROVE  StreamsTyped' /\ AllTidy' /\ SparedStay
<1>1. i \notin Present(s) /\ stream[s] \in Seq(Places) /\ Tidy(s)
  BY DEF Add, StreamsTyped, AllTidy
<1>2. LET a == Append(stream[s], i)
      IN  a \in Seq(Places) /\ Range(a) = Range(stream[s]) \cup {i} /\ Injective(a)
  BY <1>1, AppendFacts DEF Tidy, Present
<1>3. /\ stream' = SetOf(stream, s, Append(stream[s], i))
      /\ unread' = SetOf(unread, s, unread[s] \cup (IF s \in groups THEN {i} ELSE {}))
      /\ UNCHANGED <<owner, old, late, groups, below>>
  BY DEF Add, trim
<1>4. StreamsTyped'
  BY <1>2, <1>3 DEF StreamsTyped, SetOf
<1>5. ASSUME NEW q \in Streams PROVE Tidy(q)'
  <2>1. Tidy(q)
    BY DEF AllTidy
  <2>2. CASE q = s
    <3>1. Present(s)' = Present(s) \cup {i} /\ Injective(stream'[s])
      BY <1>2, <1>3 DEF Present, SetOf, StreamsTyped
    <3>2. Held(s)' = Held(s) /\ unread'[s] = unread[s] \cup (IF s \in groups THEN {i} ELSE {})
      BY <1>3 DEF Held, SetOf, StreamsTyped
    <3> QED BY <1>3, <2>1, <2>2, <3>1, <3>2 DEF Tidy
  <2>3. CASE q # s
    <3>1. stream'[q] = stream[q] /\ unread'[q] = unread[q]
      BY <1>3, <2>3 DEF SetOf, StreamsTyped
    <3>2. q \in Own => \A w \in Workers : below'[w][q] \subseteq old[q]
      BY <1>3, <2>1 DEF Tidy
    <3> QED BY <1>3, <2>1, <3>1, <3>2, TidyStays
  <2> QED BY <2>2, <2>3
<1>6. SparedStay
  BY <1>3, SparedStays DEF SparedStay
<1> QED BY <1>4, <1>5, <1>6 DEF AllTidy

LEMMA AgesTidy ==
  ASSUME StreamsTyped, AllTidy, NEW s \in Streams, NEW n \in Places, Ages(s, n)
  PROVE  StreamsTyped' /\ AllTidy' /\ SparedStay
<1>1. /\ n \in DOMAIN stream[s] /\ old' = SetOf(old, s, old[s] \cup {stream[s][n]})
      /\ UNCHANGED <<stream, unread, owner, late, groups, below>> /\ Tidy(s)
  BY DEF Ages, trim, AllTidy
<1>2. stream[s][n] \in Present(s)
  BY <1>1 DEF Present, Range
<1>3. stream[s][n] \in Places
  BY <1>2, PlacesOf
<1>4. StreamsTyped'
  BY <1>1, <1>3 DEF StreamsTyped, SetOf
<1>5. ASSUME NEW q \in Streams PROVE Tidy(q)'
  <2>1. Tidy(q) /\ Present(q)' = Present(q) /\ Held(q)' = Held(q)
    BY <1>1 DEF AllTidy, Present, Held
  <2>2. old[q] \subseteq old'[q] /\ old'[q] \subseteq Present(q)
    BY <1>1, <1>2, <2>1 DEF Tidy, SetOf, StreamsTyped
  <2>3. q \in Own => \A w \in Workers : below'[w][q] \subseteq old'[q]
    BY <1>1, <2>1, <2>2 DEF Tidy
  <2> QED BY <1>1, <2>1, <2>2, <2>3 DEF Tidy
<1>6. SparedStay
  BY <1>1, SparedStays DEF SparedStay
<1> QED BY <1>4, <1>5, <1>6 DEF AllTidy

LEMMA CreateGroupTidy ==
  ASSUME StreamsTyped, AllTidy, NEW w \in Workers, NEW s \in Streams, CreateGroup(w, s)
  PROVE  StreamsTyped' /\ AllTidy' /\ SparedStay
<1>1. /\ groups' = groups \cup {s} /\ unread' = SetOf(unread, s, Present(s))
      /\ UNCHANGED <<stream, owner, old, late, below>>
  BY DEF CreateGroup, trim
<1>2. Present(s) \subseteq Places
  BY PlacesOf
<1>3. StreamsTyped'
  BY <1>1, <1>2 DEF StreamsTyped, SetOf
<1>4. ASSUME NEW q \in Streams PROVE Tidy(q)'
  <2>1. Tidy(q) /\ Present(q)' = Present(q) /\ Held(q)' = Held(q)
    BY <1>1 DEF AllTidy, Present, Held
  <2>2. q \in groups' => Present(q) \subseteq unread'[q] \cup Held(q)
    BY <1>1, <2>1 DEF Tidy, SetOf, StreamsTyped
  <2> QED BY <1>1, <2>1, <2>2 DEF Tidy
<1>5. SparedStay
  BY <1>1, SparedStays DEF SparedStay
<1> QED BY <1>3, <1>4, <1>5 DEF AllTidy

LEMMA AckTidy ==
  ASSUME StreamsTyped, AllTidy, NEW w \in Workers, NEW s \in Streams, NEW i \in Places,
         Ack(w, s, i)
  PROVE  StreamsTyped' /\ AllTidy' /\ SparedStay
<1>1. /\ owner' = [owner EXCEPT ![s][i] = NoOne] /\ late' = SetOf(late, s, late[s] \ {i})
      /\ stream' = SetOf(stream, s, Without(stream[s], i)) /\ groups' = groups
      /\ Forget(s, {i}) /\ Tidy(s) /\ stream[s] \in Seq(Places)
  BY DEF Ack, AllTidy, StreamsTyped
<1>2. LET r == Without(stream[s], i)
      IN  r \in Seq(Places) /\ Range(r) = Range(stream[s]) \ {i} /\ Injective(r)
  BY <1>1, WithoutFacts DEF Tidy
<1>3. /\ old' \in [Streams -> SUBSET Places] /\ unread' \in [Streams -> SUBSET Places]
      /\ below' \in [Workers -> [Own -> SUBSET Places]]
      /\ old'[s] = old[s] \ {i} /\ unread'[s] = unread[s] \ {i}
      /\ \A q \in Streams \ {s} : old'[q] = old[q] /\ unread'[q] = unread[q]
      /\ \A u \in Workers, q \in Own :
            below'[u][q] = IF q = s THEN below[u][q] \ {i} ELSE below[u][q]
  <2>1. Forgotten(s, {i})
    BY <1>1, ForgetFacts
  <2> QED BY <2>1 DEF Forgotten
<1>4. StreamsTyped'
  <2>1. stream' \in [Streams -> Seq(Places)]
    BY <1>1, <1>2 DEF StreamsTyped, SetOf
  <2>2. owner' \in [Streams -> [Places -> Workers \cup {NoOne}]]
    BY <1>1 DEF StreamsTyped
  <2>3. late' \in [Streams -> SUBSET Places] /\ groups' \subseteq Streams
    BY <1>1 DEF StreamsTyped, SetOf
  <2> QED BY <1>3, <2>1, <2>2, <2>3 DEF StreamsTyped
<1>5. Held(s)' = Held(s) \ {i} /\ \A q \in Streams \ {s} : owner'[q] = owner[q]
  <2>1. /\ owner'[s] = [owner[s] EXCEPT ![i] = NoOne] /\ owner[s] \in [Places -> Workers \cup {NoOne}]
        /\ \A q \in Streams \ {s} : owner'[q] = owner[q]
    BY <1>1 DEF StreamsTyped
  <2>2. \A j \in Places : owner'[s][j] = IF j = i THEN NoOne ELSE owner[s][j]
    BY <2>1
  <2> QED BY <2>1, <2>2 DEF Held
<1>6. late'[s] = late[s] \ {i} /\ \A q \in Streams \ {s} : late'[q] = late[q]
  BY <1>1 DEF SetOf, StreamsTyped
<1>7. ASSUME NEW q \in Streams PROVE Tidy(q)'
  <2>1. Tidy(q)
    BY DEF AllTidy
  <2>2. CASE q = s
    <3>1. Present(s)' = Present(s) \ {i} /\ Injective(stream'[s])
      BY <1>1, <1>2 DEF Present, SetOf, StreamsTyped
    <3>2. ASSUME s \in Own, NEW u \in Workers PROVE below'[u][s] \subseteq old'[s]
      <4>1. below'[u][s] = below[u][s] \ {i} /\ old'[s] = old[s] \ {i}
        BY <1>3, <3>2
      <4>2. below[u][s] \subseteq old[s]
        BY <2>1, <2>2, <3>2 DEF Tidy
      <4> QED BY <4>1, <4>2
    <3>3. s \in groups' => Present(s)' \subseteq unread'[s] \cup Held(s)'
      BY <1>1, <1>3, <1>5, <2>1, <2>2, <3>1 DEF Tidy
    <3>4. old'[s] \subseteq Present(s)' /\ Held(s)' \ late'[s] \subseteq Present(s)'
      BY <1>3, <1>5, <1>6, <2>1, <2>2, <3>1 DEF Tidy
    <3> QED BY <2>2, <3>1, <3>2, <3>3, <3>4 DEF Tidy
  <2>3. CASE q # s
    <3>1. stream'[q] = stream[q]
      BY <1>1, <2>3 DEF SetOf, StreamsTyped
    <3>2. q \in Own => \A u \in Workers : below'[u][q] \subseteq old[q]
      BY <1>3, <2>1, <2>3 DEF Tidy
    <3> QED BY <1>1, <1>3, <1>5, <1>6, <2>1, <2>3, <3>1, <3>2, TidyStays
  <2> QED BY <2>2, <2>3
<1>8. ASSUME NEW u \in Workers, NEW q \in Own, Spared(u, q) PROVE Spared(u, q)'
  <2>1. q \in Streams
    BY Lengths
  <2>2. CASE q = s
    <3>1. below'[u][s] = below[u][s] \ {i}
      BY <1>3, <2>2
    <3> QED BY <1>5, <1>6, <1>8, <2>2, <3>1 DEF Spared
  <2>3. CASE q # s
    <3>1. below'[u][q] = below[u][q]
      BY <1>3, <2>3
    <3> QED BY <1>5, <1>6, <1>8, <2>1, <2>3, <3>1, SparedStays
  <2> QED BY <2>2, <2>3
<1> QED BY <1>4, <1>7, <1>8 DEF AllTidy, SparedStay

LEMMA ReclaimTidy ==
  ASSUME StreamsTyped, AllTidy, NEW w \in Workers, NEW s \in Streams, NEW i \in Places,
         Reclaim(w, s, i)
  PROVE  StreamsTyped' /\ AllTidy' /\ SparedStay
<1>1. /\ owner[s][i] # NoOne /\ owner' = [owner EXCEPT ![s][i] = IF i \in Present(s) THEN w ELSE NoOne]
      /\ late' = SetOf(late, s, IF i \in Present(s) THEN late[s] ELSE late[s] \ {i})
      /\ UNCHANGED <<stream, unread, old, groups, below>>
  BY DEF Reclaim, trim
<1>2. StreamsTyped'
  BY <1>1 DEF StreamsTyped, SetOf
<1>3. Held(s)' = (IF i \in Present(s) THEN Held(s) ELSE Held(s) \ {i})
      /\ \A q \in Streams \ {s} : owner'[q] = owner[q]
  BY <1>1, HousekeepingAssumption DEF Held, StreamsTyped
<1>4. late'[s] = (IF i \in Present(s) THEN late[s] ELSE late[s] \ {i})
      /\ \A q \in Streams \ {s} : late'[q] = late[q]
  BY <1>1 DEF SetOf, StreamsTyped
<1>5. ASSUME NEW q \in Streams PROVE Tidy(q)'
  <2>1. Tidy(q) /\ Present(q)' = Present(q)
    BY <1>1 DEF AllTidy, Present
  <2>2. CASE q = s
    BY <1>1, <1>3, <1>4, <2>1, <2>2 DEF Tidy
  <2>3. CASE q # s
    <3>1. q \in Own => \A u \in Workers : below'[u][q] \subseteq old[q]
      BY <1>1, <2>1 DEF Tidy
    <3> QED BY <1>1, <1>3, <1>4, <2>1, <2>3, <3>1, TidyStays
  <2> QED BY <2>2, <2>3
<1>6. ASSUME NEW u \in Workers, NEW q \in Own, Spared(u, q) PROVE Spared(u, q)'
  <2>1. q \in Streams
    BY Lengths
  <2>2. CASE q = s
    BY <1>1, <1>3, <1>4, <1>6, <2>2 DEF Spared
  <2>3. CASE q # s
    BY <1>1, <1>3, <1>4, <1>6, <2>1, <2>3, SparedStays
  <2> QED BY <2>2, <2>3
<1> QED BY <1>2, <1>5, <1>6 DEF AllTidy, SparedStay

LEMMA DeliverTidy ==
  ASSUME StreamsTyped, AllTidy, NEW w \in Workers, NEW S, Deliver(w, S)
  PROVE  StreamsTyped' /\ AllTidy' /\ SparedStay
<1> DEFINE served(s) == IF s \in S THEN {i \in Places : IsOldest(s, i)} ELSE {}
<1>1. /\ unread' = [s \in Streams |-> unread[s] \ served(s)]
      /\ owner' = [s \in Streams |-> [i \in Places |->
                      IF i \in served(s) THEN w ELSE owner[s][i]]]
      /\ late' = [s \in Streams |-> late[s] \cup (served(s) \cap old[s])]
      /\ UNCHANGED <<stream, old, groups, below>>
  BY DEF Deliver, trim
<1>2. \A s \in Streams : served(s) \subseteq Present(s) /\ served(s) \subseteq Places
  BY DEF IsOldest, Present, Range
<1> HIDE DEF served
<1>3. StreamsTyped'
  <2>1. unread' \in [Streams -> SUBSET Places] /\ late' \in [Streams -> SUBSET Places]
    BY <1>1, <1>2 DEF StreamsTyped
  <2>2. owner' \in [Streams -> [Places -> Workers \cup {NoOne}]]
    BY <1>1 DEF StreamsTyped
  <2> QED BY <1>1, <2>1, <2>2 DEF StreamsTyped
<1>4. ASSUME NEW s \in Streams
      PROVE  /\ Held(s)' = Held(s) \cup served(s) /\ Present(s)' = Present(s)
             /\ late'[s] = late[s] \cup (served(s) \cap old[s])
             /\ unread'[s] = unread[s] \ served(s)
  <2>1. \A i \in Places : owner'[s][i] = IF i \in served(s) THEN w ELSE owner[s][i]
    BY <1>1
  <2>2. w # NoOne
    BY HousekeepingAssumption
  <2> QED BY <1>1, <1>2, <2>1, <2>2 DEF Held, Present
<1>5. ASSUME NEW s \in Streams PROVE Tidy(s)'
  <2>1. Tidy(s)
    BY DEF AllTidy
  <2>2. Injective(stream'[s]) /\ old'[s] \subseteq Present(s)'
    BY <1>1, <1>4, <2>1 DEF Tidy
  <2>3. s \in groups' => Present(s)' \subseteq unread'[s] \cup Held(s)'
    BY <1>1, <1>4, <2>1 DEF Tidy
  <2>4. Held(s)' \ late'[s] \subseteq Present(s)'
    BY <1>2, <1>4, <2>1 DEF Tidy
  <2>5. s \in Own => \A u \in Workers : below'[u][s] \subseteq old'[s]
    BY <1>1, <2>1 DEF Tidy
  <2> QED BY <2>2, <2>3, <2>4, <2>5 DEF Tidy
<1>6. ASSUME NEW u \in Workers, NEW s \in Own, Spared(u, s) PROVE Spared(u, s)'
  <2>1. s \in Streams /\ Tidy(s)
    BY Lengths DEF AllTidy
  <2>2. below'[u][s] = below[u][s] /\ below[u][s] \subseteq old[s]
    BY <1>1, <2>1 DEF Tidy
  <2> QED BY <1>4, <1>6, <2>1, <2>2 DEF Spared
<1> QED BY <1>3, <1>5, <1>6 DEF AllTidy, SparedStay

(* What a trim drops is old, and nobody holds it whose it was in time.     *)
LEMMA TrimTidy ==
  ASSUME StreamsTyped, AllTidy, TrimsSpare, ChorePlaces, NEW w \in Workers, Trim(w)
  PROVE  StreamsTyped' /\ AllTidy' /\ SparedStay
<1>0. Queues[chore[w][2]] \in Own
  BY Lengths DEF Trim, ChoreIs, ChorePlaces
<1> PICK q \in Own : q = Queues[chore[w][2]]
  BY <1>0
<1>1. q \in Own /\ q \in Streams /\ Spared(w, q) /\ Tidy(q) /\ stream[q] \in Seq(Places)
  BY Lengths DEF Trim, ChoreIs, ChorePlaces, TrimsSpare, AllTidy, StreamsTyped
<1>2. PICK n \in 0..Len(stream[q]) :
         /\ \A m \in 1..n : stream[q][m] \in below[w][q]
         /\ stream' = SetOf(stream, q, SubSeq(stream[q], n + 1, Len(stream[q])))
         /\ Forget(q, {stream[q][m] : m \in 1..n})
  BY DEF Trim
<1> DEFINE cut == {stream[q][m] : m \in 1..n}
<1>3. UNCHANGED <<owner, late, groups>>
  BY DEF Trim
<1>4. LET r == SubSeq(stream[q], n + 1, Len(stream[q]))
      IN  r \in Seq(Places) /\ Range(r) = Range(stream[q]) \ cut /\ Injective(r)
  <2>1. Injective(stream[q])
    BY <1>1 DEF Tidy
  <2> QED BY <1>1, <2>1, CutFacts
<1>5. Forget(q, cut) /\ cut \subseteq below[w][q]
  BY <1>2
<1> HIDE DEF cut
<1>6. /\ old' \in [Streams -> SUBSET Places] /\ unread' \in [Streams -> SUBSET Places]
      /\ below' \in [Workers -> [Own -> SUBSET Places]]
      /\ old'[q] = old[q] \ cut /\ unread'[q] = unread[q] \ cut
      /\ \A s \in Streams \ {q} : old'[s] = old[s] /\ unread'[s] = unread[s]
      /\ \A u \in Workers, s \in Own :
            below'[u][s] = IF s = q THEN below[u][s] \ cut ELSE below[u][s]
  <2>1. Forgotten(q, cut)
    BY <1>1, <1>5, ForgetFacts
  <2> QED BY <2>1 DEF Forgotten
<1>7. stream' \in [Streams -> Seq(Places)]
  BY <1>2, <1>4 DEF StreamsTyped, SetOf
<1>8. StreamsTyped'
  BY <1>3, <1>6, <1>7 DEF StreamsTyped
<1>9. ASSUME NEW s \in Streams PROVE Tidy(s)'
  <2>1. Tidy(s) /\ Held(s)' = Held(s)
    BY <1>3 DEF AllTidy, Held
  <2>2. CASE s = q
    <3>1. Present(q)' = Present(q) \ cut /\ Injective(stream'[q])
      BY <1>1, <1>2, <1>4 DEF Present, SetOf, StreamsTyped
    <3>2. q \in groups' => Present(q)' \subseteq unread'[q] \cup Held(q)'
      BY <1>3, <1>6, <2>1, <2>2, <3>1 DEF Tidy
    <3>3. old'[q] \subseteq Present(q)'
      BY <1>6, <2>1, <2>2, <3>1 DEF Tidy
    <3>4. cut \cap Held(q) \subseteq late[q]
      BY <1>1, <1>5 DEF Spared
    <3>5. Held(q)' \ late'[q] \subseteq Present(q)'
      BY <1>3, <2>1, <2>2, <3>1, <3>4 DEF Tidy
    <3>6. ASSUME NEW u \in Workers PROVE below'[u][q] \subseteq old'[q]
      <4>1. below'[u][q] = below[u][q] \ cut /\ old'[q] = old[q] \ cut
        BY <1>6
      <4>2. below[u][q] \subseteq old[q]
        BY <2>1, <2>2 DEF Tidy
      <4> QED BY <4>1, <4>2
    <3> QED BY <2>2, <3>1, <3>2, <3>3, <3>5, <3>6 DEF Tidy
  <2>3. CASE s # q
    <3>1. stream'[s] = stream[s]
      BY <1>2, <2>3 DEF SetOf, StreamsTyped
    <3>2. ASSUME s \in Own, NEW u \in Workers PROVE below'[u][s] \subseteq old[s]
      <4>1. below'[u][s] = below[u][s]
        BY <1>6, <2>3, <3>2
      <4>2. below[u][s] \subseteq old[s]
        BY <2>1, <3>2 DEF Tidy
      <4> QED BY <4>1, <4>2
    <3> QED BY <1>3, <1>6, <2>1, <2>3, <3>1, <3>2, TidyStays
  <2> QED BY <2>2, <2>3
<1>10. ASSUME NEW u \in Workers, NEW s \in Own, Spared(u, s) PROVE Spared(u, s)'
  <2>1. \A v \in Workers, r \in Own :
           below'[v][r] = IF r = q THEN below[v][r] \ cut ELSE below[v][r]
    BY <1>6
  <2>2. below'[u][s] \subseteq below[u][s]
    BY <2>1
  <2> QED BY <1>3, <1>10, <2>2, SparedStays
<1> QED BY <1>8, <1>9, <1>10 DEF AllTidy, SparedStay

-----------------------------------------------------------------------------
(* The invariant                                                           *)

IInv == Typed /\ AllTidy /\ TrimsSpare

LEMMA InitIInv == Init => IInv
<1> SUFFICES ASSUME Init PROVE IInv
  OBVIOUS
<1>1. <<>> \in Seq(Places) /\ Range(<<>>) = {} /\ Injective(<<>>)
  BY DEF Range, Injective
<1>2. StreamsTyped
  BY <1>1, HousekeepingAssumption DEF Init, StreamsTyped
<1>3. <<"off", 0>> \in Commands /\ <<"off", 0>> \in Chores
  BY Lengths DEF Commands, Chores
<1>4. LoopsTyped
  BY <1>3 DEF Init, LoopsTyped
<1>5. ReadPlaces /\ ChorePlaces /\ TrimsSpare
  BY DEF Init, ReadPlaces, ChorePlaces, TrimsSpare
<1>6. AllTidy
  BY <1>1, Lengths DEF Init, AllTidy, Tidy, Present, Held
<1> QED BY <1>2, <1>4, <1>5, <1>6, TypeParts DEF IInv, Typed

(* The streams under a step of a loop that touches none of them.           *)
LEMMA EntriesStay ==
  ASSUME IInv, UNCHANGED <<entries, groups>>, below' \in [Workers -> [Own -> SUBSET Places]],
         \A w \in Workers, s \in Own : below'[w][s] \subseteq old[s]
  PROVE  StreamsTyped' /\ AllTidy'
<1>1. StreamsTyped /\ AllTidy
  BY TypeParts DEF IInv, Typed
<1>2. StreamsTyped'
  BY <1>1, StreamsStay
<1>3. ASSUME NEW s \in Streams PROVE Tidy(s)'
  <2>1. Tidy(s)
    BY <1>1 DEF AllTidy
  <2> QED BY <2>1, TidyStays DEF entries
<1> QED BY <1>2, <1>3 DEF AllTidy

(* The trims that were under way are still under way and spare as much.    *)
LEMMA TrimsStay ==
  ASSUME IInv, SparedStay,
         \A w \in Workers : chore'[w][1] = "trim" => chore'[w] = chore[w]
  PROVE  TrimsSpare'
<1> SUFFICES ASSUME NEW w \in Workers, NEW q \in Own,
                    chore'[w][1] = "trim", q = Queues[chore'[w][2]]
             PROVE  Spared(w, q)'
  BY DEF TrimsSpare
<1>1. chore'[w] = chore[w] /\ chore[w][1] = "trim"
  OBVIOUS
<1>2. Spared(w, q)
  BY <1>1 DEF IInv, TrimsSpare
<1> QED BY <1>2 DEF SparedStay

LEMMA Whole ==
  ASSUME StreamsTyped', LoopsTyped', ReadPlaces', ChorePlaces', AllTidy', TrimsSpare'
  PROVE  IInv'
BY TypePartsNext DEF IInv, Typed

LEMMA BelowOld ==
  ASSUME IInv PROVE \A w \in Workers, s \in Own : below[w][s] \subseteq old[s]
BY Lengths DEF IInv, AllTidy, Tidy

(* A step on the entries leaves the loops where they are, or moves one      *)
(* read.                                                                    *)
LEMMA EntryStep ==
  ASSUME IInv, StreamsTyped', AllTidy', SparedStay, chore' = chore,
         LoopsTyped', ReadPlaces', ChorePlaces'
  PROVE  IInv'
BY TrimsStay, Whole

LEMMA ReadCase ==
  ASSUME IInv, NEW w \in Workers, ReadStep(w)
  PROVE  IInv'
<1>1. Typed /\ StreamsTyped /\ AllTidy /\ LoopsTyped /\ ReadPlaces
  BY TypeParts DEF IInv, Typed
<1>2. \E S : Deliver(w, S)
  BY DEF ReadStep, ReadForeign, ReadQueue, Block
<1>3. StreamsTyped' /\ AllTidy' /\ SparedStay /\ UNCHANGED <<groups, phase, chore>>
  BY <1>1, <1>2, DeliverTidy DEF Deliver, trim
<1>4. waited' \in [Workers -> Nat]
  BY <1>1 DEF ReadStep, ReadForeign, ReadQueue, Block, LoopsTyped
<1>5. phase[w] = "up"
  BY <1>1 DEF ReadStep, ReadForeign, ReadQueue, Block, ReadIs, ReadPlaces
<1>6. NextRead(w) \/ OwnQueues(w) \/ (/\ passes' = passes
                                     /\ \E c \in Commands : /\ at' = [at EXCEPT ![w] = c]
                                                            /\ c[1] = "queue" => c[2] >= 1)
  <2>1. CASE ReadForeign(w)
    BY <2>1 DEF ReadForeign
  <2>2. CASE Block(w)
    BY <2>2 DEF Block
  <2>3. CASE ReadQueue(w)
    <3> DEFINE k == at[w][2]
    <3>1. k \in 1..Len(Queues)
      BY <1>1, <2>3 DEF ReadQueue, ReadIs, ReadPlaces
    <3>2. \/ NextRead(w)
          \/ k < Len(Queues) /\ Reads(w, "queue", k + 1) /\ passes' = passes
          \/ Reads(w, "block", 0) /\ passes' = passes
      BY <2>3 DEF ReadQueue
    <3> HIDE DEF k
    <3>3. CASE k < Len(Queues) /\ Reads(w, "queue", k + 1) /\ passes' = passes
      <4>1. <<"queue", k + 1>> \in Commands /\ k + 1 >= 1
        BY <3>1, <3>3, Lengths DEF Commands
      <4> QED BY <3>3, <4>1 DEF Reads
    <3>4. CASE Reads(w, "block", 0) /\ passes' = passes
      <4>1. <<"block", 0>> \in Commands
        BY Lengths DEF Commands
      <4> QED BY <3>4, <4>1 DEF Reads
    <3> QED BY <3>2, <3>3, <3>4
  <2> QED BY <2>1, <2>2, <2>3 DEF ReadStep
<1>7. LoopsTyped' /\ ReadPlaces' /\ ChorePlaces'
  BY <1>1, <1>3, <1>4, <1>5, <1>6, LoopsRead
<1> QED BY <1>3, <1>7, EntryStep

LEMMA ChoreCase ==
  ASSUME IInv, NEW w \in Workers, ChoreStep(w)
  PROVE  IInv'
<1>1. /\ StreamsTyped /\ chore[w] \in Chores /\ chore \in [Workers -> Chores]
      /\ Typed /\ AllTidy /\ TrimsSpare /\ ChorePlaces
  BY TypeParts DEF LoopsTyped, IInv, Typed
<1>2. \A s \in Own : old[s] \subseteq Places
  BY <1>1, Lengths DEF StreamsTyped
<1>3. \A u \in Workers, s \in Own : below[u][s] \subseteq old[s]
  BY BelowOld
<1>4. /\ <<"next", 0>> \in Turns
      /\ \A k \in 1..Len(Queues) : <<"floor", k>> \in Turns /\ <<"trim", k>> \in Turns
      /\ \A k \in 1..Len(AllStreams) : <<"sweep", k>> \in Turns
      /\ 1 \in 1..Len(Queues) /\ 1 \in 1..Len(AllStreams)
  BY Lengths DEF Chores, Turns
<1>5. CASE BeginTrim(w)
  <2>1. /\ below' = [below EXCEPT ![w] = [s \in Own |-> old[s]]] /\ Goes(w, "floor", 1)
        /\ UNCHANGED <<entries, groups, phase, reading>>
    BY <1>5 DEF BeginTrim, OldNow
  <2>2. [s \in Own |-> old[s]] \in [Own -> SUBSET Places]
    BY <1>2
  <2>3. below' \in [Workers -> [Own -> SUBSET Places]]
    BY <1>1, <2>1, <2>2 DEF StreamsTyped
  <2>4. ASSUME NEW u \in Workers, NEW s \in Own PROVE below'[u][s] \subseteq old[s]
    <3>1. below'[u] = IF u = w THEN [q \in Own |-> old[q]] ELSE below[u]
      BY <1>1, <2>1 DEF StreamsTyped
    <3> QED BY <1>3, <3>1
  <2>5. StreamsTyped' /\ AllTidy'
    BY <2>1, <2>3, <2>4, EntriesStay
  <2>6. LoopsTyped' /\ ReadPlaces' /\ ChorePlaces'
    BY <1>1, <1>4, <2>1, LoopsChore DEF Goes
  <2>7. chore'[w] = <<"floor", 1>> /\ \A u \in Workers \ {w} : chore'[u] = chore[u]
    BY <1>1, <2>1 DEF Goes
  <2>8. TrimsSpare'
    <3> SUFFICES ASSUME NEW u \in Workers, NEW q \in Own,
                        chore'[u][1] = "trim", q = Queues[chore'[u][2]]
                 PROVE  Spared(u, q)'
      BY DEF TrimsSpare
    <3>1. u # w /\ chore'[u] = chore[u]
      BY <2>7
    <3>2. Spared(u, q) /\ below'[u] = below[u]
      BY <1>1, <2>1, <3>1 DEF TrimsSpare, StreamsTyped
    <3> QED BY <2>1, <3>2, SparedStays, Lengths DEF entries
  <2> QED BY <2>5, <2>6, <2>8, Whole
<1>6. CASE ReadFloor(w)
  <2>1. chore[w][1] = "floor" /\ chore[w][2] \in 1..Len(Queues)
    BY <1>1, <1>6 DEF ReadFloor, ChoreIs, ChorePlaces
  <2> PICK q \in Own : q = Queues[chore[w][2]]
    BY <2>1, Lengths
  <2>2. /\ below' = [below EXCEPT ![w][q] = Floored(w, q)]
        /\ Goes(w, "trim", chore[w][2]) /\ UNCHANGED <<entries, groups, phase, reading>>
    BY <1>6 DEF ReadFloor
  <2>3. Floored(w, q) \subseteq below[w][q] /\ Floored(w, q) \cap Held(q) = {}
    <3> SUFFICES ASSUME NEW i \in Floored(w, q) PROVE i \in below[w][q] /\ i \notin Held(q)
      OBVIOUS
    <3>1. i \in below[w][q]
      BY DEF Floored
    <3>2. PICK n \in DOMAIN stream[q] : /\ stream[q][n] = i
                                        /\ \A m \in 1..n : stream[q][m] \notin Held(q)
      BY DEF Floored
    <3>3. stream[q] \in Seq(Places)
      BY <1>1, Lengths DEF StreamsTyped
    <3>4. n \in 1..n
      BY <3>3
    <3> QED BY <3>1, <3>2, <3>4
  <2>4. below[w] \in [Own -> SUBSET Places] /\ below[w][q] \subseteq Places
    BY <1>1 DEF StreamsTyped
  <2>5. below' = [below EXCEPT ![w] = [below[w] EXCEPT ![q] = Floored(w, q)]]
    BY <1>1, <2>2 DEF StreamsTyped
  <2>6. below' \in [Workers -> [Own -> SUBSET Places]]
    BY <1>1, <2>3, <2>4, <2>5 DEF StreamsTyped
  <2>7. \A u \in Workers, s \in Own :
           below'[u][s] = IF u = w /\ s = q THEN Floored(w, q) ELSE below[u][s]
    BY <1>1, <2>2 DEF StreamsTyped
  <2>8. ASSUME NEW u \in Workers, NEW s \in Own
        PROVE  below'[u][s] \subseteq below[u][s]
    BY <2>3, <2>7
  <2>9. \A u \in Workers, s \in Own : below'[u][s] \subseteq old[s]
    BY <1>3, <2>8
  <2>10. StreamsTyped' /\ AllTidy'
    BY <2>2, <2>6, <2>9, EntriesStay
  <2>11. LoopsTyped' /\ ReadPlaces' /\ ChorePlaces'
    BY <1>1, <1>4, <2>1, <2>2, LoopsChore DEF Goes
  <2>12. chore'[w] = <<"trim", chore[w][2]>> /\ \A u \in Workers \ {w} : chore'[u] = chore[u]
    BY <1>1, <2>2 DEF Goes
  <2>13. TrimsSpare'
    <3> SUFFICES ASSUME NEW u \in Workers, NEW s \in Own,
                        chore'[u][1] = "trim", s = Queues[chore'[u][2]]
                 PROVE  Spared(u, s)'
      BY DEF TrimsSpare
    <3>1. CASE u = w
      <4>1. s = q /\ Held(q)' = Held(q) /\ below'[w][q] = Floored(w, q)
        BY <2>2, <2>7, <2>12, <3>1 DEF entries, Held
      <4> QED BY <2>3, <3>1, <4>1 DEF Spared
    <3>2. CASE u # w
      <4>1. Spared(u, s)
        BY <1>1, <2>12, <3>2 DEF TrimsSpare
      <4> QED BY <2>2, <2>8, <4>1, SparedStays DEF entries
    <3> QED BY <3>1, <3>2
  <2> QED BY <2>10, <2>11, <2>13, Whole
<1>7. CASE Trim(w)
  <2>1. StreamsTyped' /\ AllTidy' /\ SparedStay
    BY <1>1, <1>7, TrimTidy
  <2>2. chore[w][1] = "trim" /\ chore[w][2] \in 1..Len(Queues) /\ UNCHANGED <<phase, reading>>
    BY <1>1, <1>7 DEF Trim, ChoreIs, ChorePlaces
  <2>3. \/ Goes(w, "sweep", 1)
        \/ chore[w][2] # Len(Queues) /\ Goes(w, "floor", chore[w][2] + 1)
    BY <1>7 DEF Trim
  <2>4. chore[w][2] # Len(Queues) => chore[w][2] + 1 \in 1..Len(Queues)
    BY <2>2, Lengths
  <2>5. LoopsTyped' /\ ReadPlaces' /\ ChorePlaces'
    BY <1>1, <1>4, <2>2, <2>3, <2>4, LoopsChore DEF Goes
  <2>6. \A u \in Workers : chore'[u][1] = "trim" => chore'[u] = chore[u]
    BY <1>1, <2>3 DEF Goes
  <2> QED BY <2>1, <2>5, <2>6, TrimsStay, Whole
<1>8. CASE SweepNames(w)
  <2>1. chore[w][1] = "sweep" /\ chore[w][2] \in 1..Len(AllStreams)
    BY <1>1, <1>8 DEF SweepNames, ChoreIs, ChorePlaces
  <2> DEFINE s == AllStreams[chore[w][2]]
  <2>0. s \in Streams
    BY <2>1, Lengths
  <2>2. PICK swept \in SUBSET Disposable(s) :
           owner' = [owner EXCEPT ![s] = [i \in Places |->
                        IF owner[s][i] \in swept THEN NoOne ELSE owner[s][i]]]
    BY <1>8, Zenon DEF SweepNames
  <2> HIDE DEF s
  <2>3. owner[s] \in [Places -> Workers \cup {NoOne}] /\ owner \in [Streams -> [Places -> Workers \cup {NoOne}]]
    BY <1>1, <2>0 DEF StreamsTyped
  <2>4. \A i \in Places : owner[s][i] \notin swept
    BY <2>2 DEF Disposable
  <2>5. [i \in Places |-> IF owner[s][i] \in swept THEN NoOne ELSE owner[s][i]] = owner[s]
    BY <2>3, <2>4
  <2>6. owner' = owner
    BY <2>2, <2>3, <2>5
  <2>7. UNCHANGED <<entries, groups, below>> /\ UNCHANGED <<phase, reading>>
    BY <1>8, <2>6 DEF SweepNames, entries
  <2>8. \/ Goes(w, "next", 0)
        \/ chore[w][2] # Len(AllStreams) /\ Goes(w, "sweep", chore[w][2] + 1)
    BY <1>8 DEF SweepNames
  <2>9. chore[w][2] # Len(AllStreams) => chore[w][2] + 1 \in 1..Len(AllStreams)
    BY <2>1, Lengths
  <2>10. LoopsTyped' /\ ReadPlaces' /\ ChorePlaces'
    BY <1>1, <1>4, <2>7, <2>8, <2>9, LoopsChore DEF Goes
  <2>11. \A u \in Workers : chore'[u][1] = "trim" => chore'[u] = chore[u]
    BY <1>1, <2>8 DEF Goes
  <2>12. StreamsTyped' /\ AllTidy'
    BY <1>1, <1>3, <2>7, EntriesStay DEF StreamsTyped
  <2>13. SparedStay
    BY <2>7, SparedStays DEF SparedStay, entries
  <2> QED BY <2>10, <2>11, <2>12, <2>13, TrimsStay, Whole
<1> QED BY <1>5, <1>6, <1>7, <1>8 DEF ChoreStep

LEMMA LifeCase ==
  ASSUME IInv, NEW w \in Workers, Start(w) \/ Ready(w) \/ Die(w) \/ ReadFails(w) \/ ChoreFails(w)
  PROVE  IInv'
<1>1. /\ Typed /\ TypeOK /\ StreamsTyped /\ LoopsTyped /\ ReadPlaces /\ ChorePlaces /\ TrimsSpare
      /\ \A u \in Workers, s \in Own : below[u][s] \subseteq old[s]
  BY TypeParts, BelowOld DEF IInv, Typed
<1>2. ASSUME UNCHANGED <<entries, groups, below>>,
             \A u \in Workers : chore'[u][1] = "trim" => chore'[u] = chore[u],
             LoopsTyped', ReadPlaces', ChorePlaces'
      PROVE  IInv'
  <2>1. StreamsTyped' /\ AllTidy'
    BY <1>1, <1>2, EntriesStay DEF StreamsTyped
  <2>2. SparedStay
    BY <1>2, SparedStays DEF SparedStay, entries
  <2> QED BY <1>2, <2>1, <2>2, TrimsStay, Whole
<1>3. CASE Start(w)
  <2>1. LoopsTyped' /\ ReadPlaces' /\ ChorePlaces'
    BY <1>1, <1>3 DEF Start, LoopsTyped, ReadPlaces, ChorePlaces, reading, trim, Commands, Chores
  <2> QED BY <1>2, <1>3, <2>1 DEF Start, trim
<1>4. CASE Ready(w)
  <2>1. /\ phase' = [phase EXCEPT ![w] = "up"] /\ NextRead(w) /\ waited' = waited
        /\ \/ chore' = [chore EXCEPT ![w] = <<"next", 0>>]
           \/ chore' = [chore EXCEPT ![w] = <<"off", 0>>]
        /\ UNCHANGED <<entries, groups, below>>
    BY <1>4 DEF Ready
  <2>2. <<"next", 0>> \in Chores /\ <<"off", 0>> \in Chores
    BY Lengths DEF Chores
  <2>3. ChorePlaces' /\ chore' \in [Workers -> Chores]
        /\ \A u \in Workers : chore'[u][1] = "trim" => chore'[u] = chore[u]
    <3>1. PICK c \in Chores : c[1] \in {"next", "off"} /\ chore' = [chore EXCEPT ![w] = c]
      BY <2>1, <2>2
    <3>2. chore' \in [Workers -> Chores] /\ chore'[w] = c
          /\ \A u \in Workers \ {w} : chore'[u] = chore[u]
      BY <1>1, <3>1 DEF LoopsTyped
    <3>3. \A u \in Workers : chore'[u][1] \in {"floor", "trim", "sweep"} => chore'[u] = chore[u]
      BY <3>1, <3>2
    <3> QED BY <1>1, <3>2, <3>3 DEF ChorePlaces
  <2>4. /\ at' \in [Workers -> Commands] /\ passes' \in [Workers -> Nat]
        /\ \A u \in Workers \ {w} : at'[u] = at[u] /\ passes'[u] = passes[u]
        /\ at'[w][1] = "queue" => at'[w][2] = 1
        /\ passes'[w] = 0 \/ passes'[w] < FairnessEvery
    BY <1>1, <2>1, ReadFacts
  <2>5. phase' \in [Workers -> {"down", "starting", "up"}] /\ phase'[w] = "up"
        /\ \A u \in Workers \ {w} : phase'[u] = phase[u]
    BY <1>1, <2>1 DEF LoopsTyped
  <2>6. ReadPlaces'
    <3> SUFFICES ASSUME NEW u \in Workers
                 PROVE  /\ at'[u][1] = "queue" => at'[u][2] \in 1..Len(Queues)
                        /\ phase'[u] # "up" => at'[u] = <<"off", 0>>
      BY DEF ReadPlaces
    <3>1. CASE u = w
      BY <2>4, <2>5, <3>1, Lengths
    <3>2. CASE u # w
      BY <1>1, <2>4, <2>5, <3>2 DEF ReadPlaces
    <3> QED BY <3>1, <3>2
  <2>7. \A u \in Workers : passes'[u] = 0 \/ passes'[u] < FairnessEvery
    <3> SUFFICES ASSUME NEW u \in Workers PROVE passes'[u] = 0 \/ passes'[u] < FairnessEvery
      OBVIOUS
    <3>1. CASE u = w
      BY <2>4, <3>1
    <3>2. CASE u # w
      BY <1>1, <2>4, <3>2 DEF LoopsTyped
    <3> QED BY <3>1, <3>2
  <2>8. LoopsTyped'
    BY <1>1, <2>1, <2>3, <2>4, <2>5, <2>7 DEF LoopsTyped
  <2> QED BY <1>2, <2>1, <2>3, <2>6, <2>8
<1>5. CASE Die(w)
  <2>1. /\ phase' = [phase EXCEPT ![w] = "down"]
        /\ at' = [at EXCEPT ![w] = <<"off", 0>>] /\ chore' = [chore EXCEPT ![w] = <<"off", 0>>]
        /\ below' = [below EXCEPT ![w] = [s \in Own |-> {}]]
        /\ passes' = [passes EXCEPT ![w] = 0] /\ waited' = [waited EXCEPT ![w] = 0]
        /\ UNCHANGED <<entries, groups>>
    BY <1>5 DEF Die
  <2>2. <<"off", 0>> \in Commands /\ <<"off", 0>> \in Chores
    BY Lengths DEF Commands, Chores
  <2>3. LoopsTyped'
    BY <1>1, <2>1, <2>2 DEF LoopsTyped
  <2>4. ReadPlaces' /\ ChorePlaces' /\ \A u \in Workers : chore'[u][1] = "trim" => chore'[u] = chore[u]
    BY <1>1, <2>1 DEF LoopsTyped, ReadPlaces, ChorePlaces
  <2>5. [s \in Own |-> {}] \in [Own -> SUBSET Places]
    OBVIOUS
  <2>6. below' \in [Workers -> [Own -> SUBSET Places]]
    BY <1>1, <2>1, <2>5 DEF StreamsTyped
  <2>7. ASSUME NEW u \in Workers, NEW s \in Own PROVE below'[u][s] \subseteq below[u][s]
    <3>1. below'[u] = IF u = w THEN [q \in Own |-> {}] ELSE below[u]
      BY <1>1, <2>1 DEF StreamsTyped
    <3> QED BY <3>1
  <2>8. \A u \in Workers, s \in Own : below'[u][s] \subseteq old[s]
    BY <1>1, <2>7
  <2>9. StreamsTyped' /\ AllTidy'
    BY <2>1, <2>6, <2>8, EntriesStay
  <2>10. SparedStay
    BY <2>1, <2>7, SparedStays DEF SparedStay, entries
  <2> QED BY <2>3, <2>4, <2>9, <2>10, TrimsStay, Whole
<1>6. CASE ReadFails(w)
  <2>1. phase[w] = "up"
    BY <1>1, <1>6 DEF ReadFails, ReadIs, ReadPlaces
  <2>2. NextRead(w) /\ waited' \in [Workers -> Nat] /\ UNCHANGED <<entries, groups, phase, below, chore>>
    BY <1>1, <1>6 DEF ReadFails, trim, LoopsTyped
  <2>3. LoopsTyped' /\ ReadPlaces' /\ ChorePlaces'
    BY <1>1, <2>1, <2>2, LoopsRead
  <2> QED BY <1>2, <2>2, <2>3
<1>7. CASE ChoreFails(w)
  <2>1. chore' = [chore EXCEPT ![w] = <<"next", 0>>]
        /\ UNCHANGED <<entries, groups, phase, reading, below>>
    BY <1>7 DEF ChoreFails, Goes
  <2>2. <<"next", 0>> \in Turns
    BY Lengths DEF Turns, Chores
  <2>3. LoopsTyped' /\ ReadPlaces' /\ ChorePlaces'
    BY <1>1, <2>1, <2>2, LoopsChore
  <2>4. \A u \in Workers : chore'[u][1] = "trim" => chore'[u] = chore[u]
    BY <1>1, <2>1 DEF LoopsTyped
  <2> QED BY <1>2, <2>1, <2>3, <2>4
<1> QED BY <1>3, <1>4, <1>5, <1>6, <1>7

LEMMA NextIInv == IInv /\ [Next]_vars => IInv'
<1> SUFFICES ASSUME IInv, [Next]_vars PROVE IInv'
  OBVIOUS
<1>1. Typed /\ StreamsTyped /\ AllTidy
  BY TypeParts DEF IInv, Typed
<1>2. ASSUME StreamsTyped', AllTidy', SparedStay, UNCHANGED <<phase, reading, chore>>
      PROVE  IInv'
  BY <1>1, <1>2, LoopsStay, EntryStep
<1>3. CASE \E w \in Workers : Start(w) \/ Ready(w) \/ Die(w) \/ ReadFails(w) \/ ChoreFails(w)
  BY <1>3, LifeCase
<1>4. CASE \E w \in Workers : ReadStep(w)
  BY <1>4, ReadCase
<1>5. CASE \E w \in Workers : ChoreStep(w)
  BY <1>5, ChoreCase
<1>6. CASE \E w \in Workers, s \in Streams : CreateGroup(w, s)
  BY <1>1, <1>2, <1>6, CreateGroupTidy DEF CreateGroup, trim
<1>7. CASE \E w \in Workers, s \in Streams, i \in Places : Ack(w, s, i)
  BY <1>1, <1>2, <1>7, AckTidy DEF Ack
<1>8. CASE \E w \in Workers, s \in Streams, i \in Places : Reclaim(w, s, i)
  BY <1>1, <1>2, <1>8, ReclaimTidy DEF Reclaim, trim
<1>9. CASE \E s \in Streams, i \in Places : Add(s, i)
  BY <1>1, <1>2, <1>9, AddTidy DEF Add, trim
<1>10. CASE \E s \in Streams, n \in Places : Ages(s, n)
  BY <1>1, <1>2, <1>10, AgesTidy DEF Ages, trim
<1>11. CASE UNCHANGED vars
  <2>1. StreamsTyped' /\ AllTidy'
    BY <1>1, <1>11, EntriesStay, BelowOld DEF vars, trim, StreamsTyped
  <2>2. SparedStay
    BY <1>11, SparedStays DEF SparedStay, vars, entries, trim
  <2> QED BY <1>2, <1>11, <2>1, <2>2 DEF vars, trim
<1> QED BY <1>3, <1>4, <1>5, <1>6, <1>7, <1>8, <1>9, <1>10, <1>11 DEF Next

(* The invariant that the theorems about the entries rest on: what is old  *)
(* is in its stream, a trim under way drops old entries only, and none that *)
(* somebody took in time (_trim_loop).                                      *)
THEOREM Invariant == Spec => []IInv
<1> QED BY InitIInv, NextIInv, PTL DEF Spec

(* The types of the shared streams, of the readers and of the trim loops.  *)
THEOREM TypeCorrect == Spec => []TypeOK
<1>1. IInv => TypeOK
  BY DEF IInv, Typed
<1> QED BY <1>1, Invariant, PTL

(* An entry is to be delivered or in a pending list, however many workers  *)
(* create groups, read, acknowledge, claim, trim and sweep (transport.py,  *)
(* sweep_consumers.lua).                                                   *)
THEOREM NothingStranded == Spec => []NoneStranded
<1>1. IInv => NoneStranded
  BY TypeParts DEF IInv, Typed, AllTidy, Tidy, NoneStranded, StreamsTyped
<1> QED BY <1>1, Invariant, PTL

(* No trim drops the record of pending work that was delivered in time     *)
(* (transport.py:337-350), with any number of trim loops.                  *)
THEOREM PromptKept == Spec => []PromptIsKept
<1>1. IInv => PromptIsKept
  BY Lengths DEF IInv, AllTidy, Tidy, PromptIsKept
<1> QED BY <1>1, Invariant, PTL

(* What leaves a stream was acknowledged or is old (transport.py:343-350). *)
THEOREM OldTrimmed == Spec => OnlyOldIsTrimmed
<1> DEFINE Leaves(s, i) == \/ i \in old[s]
                           \/ (owner[s][i] # NoOne /\ owner'[s][i] = NoOne)
<1>1. ASSUME IInv, [Next]_vars, NEW s \in Own, NEW i \in Present(s), i \notin Present(s)'
      PROVE  Leaves(s, i)
  <2>1. s \in Streams /\ StreamsTyped /\ AllTidy /\ ChorePlaces /\ stream'[s] # stream[s]
    BY <1>1, TypeParts, Lengths DEF IInv, Typed, Present
  <2>2. i \in Places
    BY <2>1, PlacesOf
  <2>3. \/ \E w \in Workers, q \in Streams, j \in Places : Ack(w, q, j)
        \/ \E w \in Workers : Trim(w)
        \/ \E q \in Streams, j \in Places : Add(q, j)
    <3>1. ASSUME NEW w \in Workers,
                 Start(w) \/ Ready(w) \/ Die(w) \/ ReadFails(w) \/ ChoreFails(w)
          PROVE  FALSE
      BY <2>1, <3>1 DEF Start, Ready, Die, ReadFails, ChoreFails, entries
    <3>2. ASSUME NEW w \in Workers, ReadStep(w) PROVE FALSE
      BY <2>1, <3>2 DEF ReadStep, ReadForeign, ReadQueue, Block, Deliver
    <3>3. ASSUME NEW w \in Workers, BeginTrim(w) \/ ReadFloor(w) \/ SweepNames(w) PROVE FALSE
      BY <2>1, <3>3 DEF BeginTrim, ReadFloor, SweepNames, entries
    <3>4. ASSUME NEW w \in Workers, NEW q \in Streams, CreateGroup(w, q) PROVE FALSE
      BY <2>1, <3>4 DEF CreateGroup
    <3>5. ASSUME NEW w \in Workers, NEW q \in Streams, NEW j \in Places, Reclaim(w, q, j)
          PROVE  FALSE
      BY <2>1, <3>5 DEF Reclaim
    <3>6. ASSUME NEW q \in Streams, NEW j \in Places, Ages(q, j) PROVE FALSE
      BY <2>1, <3>6 DEF Ages
    <3>7. ~UNCHANGED vars
      BY <2>1 DEF vars, entries
    <3> QED BY <1>1, <3>1, <3>2, <3>3, <3>4, <3>5, <3>6, <3>7 DEF Next, ChoreStep
  <2>4. ASSUME NEW w \in Workers, NEW q \in Streams, NEW j \in Places, Ack(w, q, j)
        PROVE  Leaves(s, i)
    <3>1. stream' = SetOf(stream, q, Without(stream[q], j)) /\ owner[q][j] = w
          /\ owner' = [owner EXCEPT ![q][j] = NoOne]
      BY <2>4 DEF Ack
    <3>2. q = s
      BY <2>1, <3>1 DEF SetOf, StreamsTyped
    <3>3. stream[s] \in Seq(Places) /\ Injective(stream[s])
      BY <2>1 DEF StreamsTyped, AllTidy, Tidy
    <3>4. Range(Without(stream[s], j)) = Range(stream[s]) \ {j}
      BY <3>3, WithoutFacts
    <3>5. Present(s)' = Present(s) \ {j}
      BY <2>1, <3>1, <3>2, <3>4 DEF SetOf, StreamsTyped, Present
    <3>6. i = j
      BY <1>1, <3>5
    <3>7. owner'[s][i] = NoOne /\ owner[s][i] # NoOne
      BY <2>1, <2>2, <3>1, <3>2, <3>6, HousekeepingAssumption DEF StreamsTyped
    <3> QED BY <3>7
  <2>5. ASSUME NEW w \in Workers, Trim(w) PROVE Leaves(s, i)
    <3>0. Queues[chore[w][2]] \in Own
      BY <2>1, <2>5, Lengths DEF Trim, ChoreIs, ChorePlaces
    <3> PICK q \in Own : q = Queues[chore[w][2]]
      BY <3>0
    <3>1. PICK n \in 0..Len(stream[q]) :
             /\ \A m \in 1..n : stream[q][m] \in below[w][q]
             /\ stream' = SetOf(stream, q, SubSeq(stream[q], n + 1, Len(stream[q])))
      BY <2>5 DEF Trim
    <3>2. q = s
      BY <2>1, <3>1 DEF SetOf, StreamsTyped
    <3>3. stream[s] \in Seq(Places) /\ Injective(stream[s])
      BY <2>1 DEF StreamsTyped, AllTidy, Tidy
    <3> DEFINE cut == {stream[s][m] : m \in 1..n}
    <3>4. Range(SubSeq(stream[s], n + 1, Len(stream[s]))) = Range(stream[s]) \ cut
      BY <3>2, <3>3, CutFacts
    <3>5. cut \subseteq below[w][s] /\ below[w][s] \subseteq old[s]
      BY <1>1, <3>1, <3>2, BelowOld
    <3> HIDE DEF cut
    <3>6. Present(s)' = Present(s) \ cut
      BY <2>1, <3>1, <3>2, <3>4 DEF SetOf, StreamsTyped, Present
    <3> QED BY <1>1, <3>5, <3>6
  <2>6. ASSUME NEW q \in Streams, NEW j \in Places, Add(q, j) PROVE FALSE
    <3>1. stream' = SetOf(stream, q, Append(stream[q], j)) /\ stream[q] \in Seq(Places)
      BY <2>1, <2>6 DEF Add, StreamsTyped
    <3>2. Range(Append(stream[q], j)) = Range(stream[q]) \cup {j}
      BY <3>1, AppendFacts
    <3>3. Present(s) \subseteq Present(s)'
      BY <2>1, <3>1, <3>2 DEF SetOf, StreamsTyped, Present
    <3> QED BY <1>1, <3>3
  <2> QED BY <2>3, <2>4, <2>5, <2>6
<1>2. IInv /\ [Next]_vars =>
        [\A s \in Own : \A i \in Present(s) :
            i \notin Present(s)' => \/ i \in old[s]
                                   \/ (owner[s][i] # NoOne /\ owner'[s][i] = NoOne)]_vars
  BY <1>1
<1> QED BY <1>2, Invariant, PTL DEF Spec, OnlyOldIsTrimmed

-----------------------------------------------------------------------------
(* The turn of the lowest queue                                            *)

(* A pass over the own queues is counted before it begins (passes) and      *)
(* after its first command (waited); pass 0 begins with the lowest.         *)
Turn(w) ==
    FairnessEvery > 0 =>
       /\ at[w] = <<"queue", 1>> => /\ waited[w] <= FairnessEvery - 1
                                    /\ passes[w] > 0 => waited[w] <= passes[w] - 1
       /\ at[w] # <<"queue", 1>> => waited[w] <= passes[w]
TurnInv == \A w \in Workers : Turn(w)

LEMMA Counters ==
  ASSUME IInv, NEW w \in Workers
  PROVE  /\ passes[w] \in Nat /\ waited[w] \in Nat /\ FairnessEvery \in Nat
         /\ passes[w] = 0 \/ passes[w] < FairnessEvery
         /\ phase[w] # "up" => at[w] = <<"off", 0>>
         /\ at[w][1] = "queue" => at[w][2] \in 1..Len(Queues)
         /\ at \in [Workers -> Commands] /\ TypeOK /\ waited \in [Workers -> Nat]
         /\ passes \in [Workers -> Nat]
BY TypeParts, Lengths DEF IInv, Typed, LoopsTyped, ReadPlaces

(* A read that goes on keeps the turn, when no more passes were counted     *)
(* since than the transport counted.                                        *)
LEMMA NextTurn ==
  ASSUME IInv, NEW w \in Workers, NextRead(w) \/ OwnQueues(w),
         waited'[w] \in Nat, FairnessEvery > 0 => waited'[w] <= passes[w]
  PROVE  Turn(w)'
<1> DEFINE p == passes[w]  f == FairnessEvery  x == waited'[w]
<1>1. /\ p \in Nat /\ f \in Nat /\ x \in Nat /\ (p = 0 \/ p < f) /\ TypeOK
      /\ (f > 0 => x <= p)
  BY Counters
<1>2. \/ at'[w] # <<"queue", 1>> /\ passes'[w] = p
      \/ at'[w] = <<"queue", 1>> /\ passes'[w] = AfterPass(p)
  BY <1>1, ReadFacts
<1>3. AfterPass(p) = IF p + 1 < f THEN p + 1 ELSE 0
  BY DEF AfterPass
<1> SUFFICES ASSUME f > 0
             PROVE  /\ at'[w] = <<"queue", 1>> => /\ x <= f - 1
                                                  /\ passes'[w] > 0 => x <= passes'[w] - 1
                    /\ at'[w] # <<"queue", 1>> => x <= passes'[w]
  BY DEF Turn
<1> HIDE DEF p, f, x
<1>4. CASE at'[w] # <<"queue", 1>> /\ passes'[w] = p
  BY <1>1, <1>4
<1>5. CASE at'[w] = <<"queue", 1>> /\ passes'[w] = AfterPass(p)
  <2>1. x <= f - 1 /\ (AfterPass(p) > 0 => x <= AfterPass(p) - 1)
    BY <1>1, <1>3
  <2> QED BY <1>5, <2>1
<1> QED BY <1>2, <1>4, <1>5

LEMMA QueueTurn ==
  ASSUME IInv, NEW w \in Workers, Turn(w), ReadQueue(w)
  PROVE  Turn(w)'
<1> DEFINE k == at[w][2]  q == QueueAt(w, k)  lowest == Queues[Len(Queues)]
<1>1. /\ passes[w] \in Nat /\ waited[w] \in Nat /\ FairnessEvery \in Nat
      /\ passes[w] = 0 \/ passes[w] < FairnessEvery
      /\ at[w][1] = "queue" /\ k \in 1..Len(Queues) /\ at \in [Workers -> Commands]
      /\ waited \in [Workers -> Nat] /\ passes \in [Workers -> Nat]
  BY Counters DEF ReadQueue, ReadIs
<1>2. waited' = [waited EXCEPT ![w] = IF q = lowest THEN 0
                                      ELSE IF k = 1 THEN waited[w] + 1 ELSE waited[w]]
  BY DEF ReadQueue
<1>3. waited'[w] = IF q = lowest THEN 0 ELSE IF k = 1 THEN waited[w] + 1 ELSE waited[w]
  BY <1>1, <1>2
<1>4. waited'[w] \in Nat
  BY <1>1, <1>3
<1>5. at[w] = <<"queue", k>>
  BY <1>1 DEF Commands
<1>6. FairnessEvery > 0 /\ k = 1 /\ passes[w] = 0 => q = lowest
  BY Lengths DEF QueueAt, Inverts
<1>7. \/ NextRead(w)
      \/ k < Len(Queues) /\ Reads(w, "queue", k + 1) /\ passes' = passes
      \/ Reads(w, "block", 0) /\ passes' = passes
  BY DEF ReadQueue
<1> HIDE DEF q, k, lowest
<1>8. FairnessEvery > 0 => waited'[w] <= passes[w]
  <2> SUFFICES ASSUME FairnessEvery > 0 PROVE waited'[w] <= passes[w]
    OBVIOUS
  <2>1. CASE q = lowest
    BY <1>1, <1>3, <2>1
  <2>2. CASE q # lowest /\ k = 1
    <3>1. passes[w] > 0 /\ at[w] = <<"queue", 1>>
      BY <1>1, <1>5, <1>6, <2>2
    <3>2. waited[w] <= passes[w] - 1
      BY <3>1 DEF Turn
    <3> QED BY <1>1, <1>3, <2>2, <3>2
  <2>3. CASE q # lowest /\ k # 1
    <3>1. at[w] # <<"queue", 1>>
      BY <1>5, <2>3
    <3>2. waited[w] <= passes[w]
      BY <3>1 DEF Turn
    <3> QED BY <1>3, <2>3, <3>2
  <2> QED BY <2>1, <2>2, <2>3
<1>9. CASE NextRead(w)
  BY <1>4, <1>8, <1>9, NextTurn
<1>10. CASE passes' = passes /\ (Reads(w, "queue", k + 1) \/ Reads(w, "block", 0))
  <2>1. at'[w] = <<"queue", k + 1>> \/ at'[w] = <<"block", 0>>
    BY <1>1, <1>10 DEF Reads
  <2>2. k + 1 # 1
    BY <1>1
  <2>3. at'[w] # <<"queue", 1>>
    BY <2>1, <2>2
  <2> QED BY <1>8, <1>10, <2>3 DEF Turn
<1> QED BY <1>7, <1>9, <1>10

LEMMA TurnStays ==
  ASSUME NEW w \in Workers, Turn(w), at'[w] = at[w], passes'[w] = passes[w], waited'[w] = waited[w]
  PROVE  Turn(w)'
BY DEF Turn

(* The turn of each worker after a step of one of the readers.              *)
LEMMA ReaderTurn ==
  ASSUME IInv, TurnInv, NEW w \in Workers,
         Ready(w) \/ Die(w) \/ ReadStep(w) \/ ReadFails(w)
  PROVE  TurnInv'
<1>1. /\ passes[w] \in Nat /\ waited[w] \in Nat /\ TypeOK /\ at \in [Workers -> Commands]
      /\ phase[w] # "up" => at[w] = <<"off", 0>>
      /\ waited \in [Workers -> Nat] /\ passes \in [Workers -> Nat] /\ FairnessEvery \in Nat
  BY Counters
<1>2. Turn(w)
  BY DEF TurnInv
<1>3. at[w] # <<"queue", 1>> /\ FairnessEvery > 0 => waited[w] <= passes[w]
  BY <1>2 DEF Turn
<1>4. CASE ReadQueue(w)
  <2>1. Turn(w)'
    BY <1>2, <1>4, QueueTurn
  <2>2. \A u \in Workers \ {w} : at'[u] = at[u] /\ passes'[u] = passes[u] /\ waited'[u] = waited[u]
    <3>1. \/ NextRead(w)
          \/ Reads(w, "queue", at[w][2] + 1) /\ passes' = passes
          \/ Reads(w, "block", 0) /\ passes' = passes
      BY <1>4 DEF ReadQueue
    <3>2. \A u \in Workers \ {w} : waited'[u] = waited[u]
      BY <1>1, <1>4 DEF ReadQueue
    <3>3. \A u \in Workers \ {w} : at'[u] = at[u] /\ passes'[u] = passes[u]
      BY <1>1, <3>1, ReadFacts DEF Reads
    <3> QED BY <3>2, <3>3
  <2> QED BY <2>1, <2>2, TurnStays DEF TurnInv
<1>5. CASE Ready(w) \/ ReadForeign(w) \/ Block(w) \/ ReadFails(w)
  <2>1. NextRead(w) \/ OwnQueues(w)
    BY <1>5 DEF Ready, ReadForeign, Block, ReadFails
  <2>2. (waited' = waited /\ at[w] # <<"queue", 1>>) \/ waited' = [waited EXCEPT ![w] = 0]
    BY <1>1, <1>5 DEF Ready, ReadForeign, Block, ReadFails, ReadIs
  <2>3. waited'[w] \in Nat /\ (FairnessEvery > 0 => waited'[w] <= passes[w])
        /\ \A u \in Workers \ {w} : waited'[u] = waited[u]
    BY <1>1, <1>3, <2>2
  <2>4. Turn(w)'
    BY <2>1, <2>3, NextTurn
  <2>5. \A u \in Workers \ {w} : at'[u] = at[u] /\ passes'[u] = passes[u]
    BY <1>1, <2>1, ReadFacts
  <2> QED BY <2>3, <2>4, <2>5, TurnStays DEF TurnInv
<1>6. CASE Die(w)
  <2>1. at'[w] = <<"off", 0>> /\ passes'[w] = 0 /\ waited'[w] = 0
        /\ \A u \in Workers \ {w} : at'[u] = at[u] /\ passes'[u] = passes[u] /\ waited'[u] = waited[u]
    BY <1>1, <1>6 DEF Die
  <2>2. Turn(w)'
    BY <2>1 DEF Turn
  <2> QED BY <2>1, <2>2, TurnStays DEF TurnInv
<1> QED BY <1>4, <1>5, <1>6 DEF ReadStep

(* The lowest queue is asked in one pass of every fairness_every           *)
(* (transport.py:170-207), for any number of queues and any traffic.       *)
THEOREM LowestGetsItsTurn == Spec => []LowestIsAsked
<1>1. Init => TurnInv
  BY Lengths DEF Init, TurnInv, Turn
<1>2. IInv /\ TurnInv /\ [Next]_vars => TurnInv'
  <2> SUFFICES ASSUME IInv, TurnInv, [Next]_vars PROVE TurnInv'
    OBVIOUS
  <2>1. CASE \E w \in Workers : Ready(w) \/ Die(w) \/ ReadStep(w) \/ ReadFails(w)
    BY <2>1, ReaderTurn
  <2>2. CASE UNCHANGED reading
    BY <2>2, TurnStays DEF reading, TurnInv
  <2>3. \A w \in Workers : Start(w) \/ ChoreStep(w) \/ ChoreFails(w) => UNCHANGED reading
    BY DEF Start, ChoreStep, BeginTrim, ReadFloor, Trim, SweepNames, ChoreFails
  <2>4. \A w \in Workers, s \in Streams, i \in Places :
           Ack(w, s, i) \/ Reclaim(w, s, i) => UNCHANGED reading
    BY DEF Ack, Reclaim
  <2>5. \A s \in Streams, i \in Places : Add(s, i) \/ Ages(s, i) => UNCHANGED reading
    BY DEF Add, Ages
  <2>6. \A w \in Workers, s \in Streams : CreateGroup(w, s) => UNCHANGED reading
    BY DEF CreateGroup
  <2>7. UNCHANGED vars => UNCHANGED reading
    BY DEF vars
  <2> QED BY <2>1, <2>2, <2>3, <2>4, <2>5, <2>6, <2>7 DEF Next
<1>3. IInv /\ TurnInv => LowestIsAsked
  <2> SUFFICES ASSUME IInv, TurnInv, NEW w \in Workers, FairnessEvery > 0
               PROVE  waited[w] < FairnessEvery
    BY DEF LowestIsAsked
  <2>1. /\ passes[w] \in Nat /\ waited[w] \in Nat /\ FairnessEvery \in Nat
        /\ passes[w] = 0 \/ passes[w] < FairnessEvery
    BY Counters
  <2>2. waited[w] <= FairnessEvery - 1 \/ waited[w] <= passes[w]
    BY DEF TurnInv, Turn
  <2> QED BY <2>1, <2>2
<1> QED BY <1>1, <1>2, <1>3, Invariant, PTL DEF Spec
=============================================================================
