---------------------------- MODULE Housekeeping ----------------------------
(***************************************************************************)
(* The streams and their consumer group as the workers share them: the     *)
(* creation of the group, the order in which a worker tries its queues      *)
(* (transport.read), and the loop that trims the streams and sweeps the     *)
(* names of dead consumers (_trim_loop) beside reads, acknowledgements and *)
(* claims of everybody.                                                     *)
(*                                                                         *)
(* Abstractions: an entry is a place of its stream, taken again once it is *)
(* free; of its age only "older than retention_ms" is kept; of a name only *)
(* the pending list that goes with it, and which names are idle beyond      *)
(* consumer_idle_ms is open at each sweep; a read asks for one entry of     *)
(* each stream; a queue has one shard.                                      *)
(***************************************************************************)
EXTENDS Naturals, Sequences, FiniteSets, Functions

CONSTANTS Workers,       \* processes, each with its consumer name
          Mortal,        \* those that may die
          Keepers,       \* bound: those whose trim loop is looked at
          Queues,        \* own queues, highest first
          External,      \* foreign streams
          Depth,         \* bound: how many entries each stream has at a time
          Backlog,       \* bound: entries of all of them
          FairnessEvery,
          NoOne

Own     == Range(Queues)
Foreign == Range(External)
Streams == Own \cup Foreign
AllStreams == Queues \o External

ASSUME HousekeepingAssumption ==
    /\ NoOne \notin Workers /\ Mortal \subseteq Workers
    /\ Keepers \subseteq Workers
    /\ Queues \in Seq(Own) /\ Queues # <<>> /\ External \in Seq(Foreign)
    /\ Own \cap Foreign = {}
    /\ Depth \in [Streams -> Nat] /\ Backlog \in Nat /\ FairnessEvery \in Nat

Room(s) == 1..Depth[s]
Places  == UNION {Room(s) : s \in Streams}

VARIABLES
  stream,    \* the entries of each stream, oldest first
  groups,    \* the streams on which the group exists
  unread,    \* entries beyond the group's last delivered one
  owner,     \* whose pending list an entry is in
  old,       \* entries older than retention_ms
  late,      \* pending entries that were old when first delivered
  phase,     \* of each process
  at,        \* the command its read is about to send
  passes,    \* RedisStreamsTransport._passes, modulo FairnessEvery
  chore,     \* the command its trim loop is about to send, and the stream's number
  below,     \* what the trim may drop: what was old at its TIME and, once it
             \* has the pending summary of a stream, is older than all pending
  waited     \* passes over the own queues, none of which failed or asked the
             \* lowest, since the last one that did

entries == <<stream, unread, owner, old, late>>
reading == <<at, passes, waited>>
trim    == <<chore, below>>
vars == <<entries, groups, phase, reading, trim>>

Init ==
    /\ stream = [s \in Streams |-> <<>>] /\ groups = {}
    /\ unread = [s \in Streams |-> {}]
    /\ owner = [s \in Streams |-> [i \in Places |-> NoOne]]
    /\ old = [s \in Streams |-> {}] /\ late = [s \in Streams |-> {}]
    /\ phase = [w \in Workers |-> "down"]
    /\ at = [w \in Workers |-> <<"off", 0>>] /\ passes = [w \in Workers |-> 0]
    /\ chore = [w \in Workers |-> <<"off", 0>>]
    /\ below = [w \in Workers |-> [s \in Own |-> {}]]
    /\ waited = [w \in Workers |-> 0]

Up(w)      == phase[w] = "up"
Held(s)    == {i \in Places : owner[s][i] # NoOne}
Present(s) == Range(stream[s])
SetOf(f, s, v) == [f EXCEPT ![s] = v]

ReadIs(w, command) == at[w][1] = command
Reads(w, command, k) == at' = [at EXCEPT ![w] = <<command, k>>]

AfterPass(p) == IF p + 1 < FairnessEvery THEN p + 1 ELSE 0

(* The pass counter advances only for a pass that gets to the own queues.  *)
OwnQueues(w) ==
    IF Len(Queues) = 1
    THEN Reads(w, "block", 0) /\ passes' = passes
    ELSE /\ Reads(w, "queue", 1)
         /\ passes' = [passes EXCEPT ![w] = AfterPass(@)]

(* What the next call of read sends first.                                 *)
NextRead(w) ==
    IF External # <<>> THEN Reads(w, "foreign", 0) /\ passes' = passes ELSE OwnQueues(w)

-----------------------------------------------------------------------------
(* Processes and the group                                                 *)

Start(w) ==
    /\ phase[w] = "down"
    /\ phase' = [phase EXCEPT ![w] = "starting"]
    /\ UNCHANGED <<entries, groups, reading, trim>>

(* XGROUP CREATE ... id="0": what was added before is delivered too.       *)
CreateGroup(w, s) ==
    /\ phase[w] = "starting" /\ s \notin groups
    /\ groups' = groups \cup {s} /\ unread' = SetOf(unread, s, Present(s))
    /\ UNCHANGED <<stream, owner, old, late, phase, reading, trim>>

(* Every stream has its group, made here or by a peer (BUSYGROUP).         *)
Ready(w) ==
    /\ phase[w] = "starting" /\ groups = Streams
    /\ phase' = [phase EXCEPT ![w] = "up"]
    /\ NextRead(w)
    /\ chore' = [chore EXCEPT ![w] = <<IF w \in Keepers THEN "next" ELSE "off", 0>>]
    /\ waited' = waited
    /\ UNCHANGED <<entries, groups, below>>

Die(w) ==
    /\ w \in Mortal /\ phase[w] # "down"
    /\ phase' = [phase EXCEPT ![w] = "down"]
    /\ at' = [at EXCEPT ![w] = <<"off", 0>>] /\ chore' = [chore EXCEPT ![w] = <<"off", 0>>]
    /\ below' = [below EXCEPT ![w] = [s \in Own |-> {}]]
    /\ passes' = [passes EXCEPT ![w] = 0] /\ waited' = [waited EXCEPT ![w] = 0]
    /\ UNCHANGED <<entries, groups>>

-----------------------------------------------------------------------------
(* Entries                                                                 *)

Add(s, i) ==
    /\ i \in Room(s) \ (Present(s) \cup Held(s))
    /\ Cardinality({p \in Streams \X Places : p[2] \in Present(p[1]) \cup Held(p[1])}) < Backlog
    /\ stream' = SetOf(stream, s, Append(stream[s], i))
    /\ unread' = SetOf(unread, s, unread[s] \cup (IF s \in groups THEN {i} ELSE {}))
    /\ UNCHANGED <<owner, old, late, groups, phase, reading, trim>>

(* The oldest go first.                                                     *)
Ages(s, n) ==
    /\ s \in Own /\ n \in DOMAIN stream[s] /\ stream[s][n] \notin old[s]
    /\ \A m \in 1..(n - 1) : stream[s][m] \in old[s]
    /\ old' = SetOf(old, s, old[s] \cup {stream[s][n]})
    /\ UNCHANGED <<stream, unread, owner, late, groups, phase, reading, trim>>

(* An entry that is gone leaves no trace: its place is free for a new one. *)
Forget(s, gone) ==
    /\ old' = SetOf(old, s, old[s] \ gone)
    /\ unread' = SetOf(unread, s, unread[s] \ gone)
    /\ below' = [w \in Workers |-> [q \in Own |->
                    IF q = s THEN below[w][q] \ gone ELSE below[w][q]]]

Position(q, i) == CHOOSE n \in DOMAIN q : q[n] = i
Without(q, i) ==
    IF i \in Range(q)
    THEN [n \in 1..(Len(q) - 1) |-> IF n < Position(q, i) THEN q[n] ELSE q[n + 1]]
    ELSE q

Ack(w, s, i) ==
    /\ Up(w) /\ owner[s][i] = w
    /\ owner' = [owner EXCEPT ![s][i] = NoOne]
    /\ late' = SetOf(late, s, late[s] \ {i})
    /\ stream' = SetOf(stream, s, Without(stream[s], i))
    /\ Forget(s, {i})
    /\ UNCHANGED <<groups, phase, reading, chore>>

(* A claim from an owner that is down; one whose record is gone is dropped *)
(* from the pending list by XCLAIM.                                         *)
Reclaim(w, s, i) ==
    /\ Up(w) /\ owner[s][i] # NoOne /\ phase[owner[s][i]] = "down"
    /\ owner' = [owner EXCEPT ![s][i] = IF i \in Present(s) THEN w ELSE NoOne]
    /\ late' = SetOf(late, s, IF i \in Present(s) THEN late[s] ELSE late[s] \ {i})
    /\ UNCHANGED <<stream, unread, old, groups, phase, reading, trim>>

-----------------------------------------------------------------------------
(* RedisStreamsTransport.read                                              *)

(* Wrong on purpose: strict priority.                                       *)
NeverInverts(w) == FALSE

Inverts(w) == FairnessEvery > 0 /\ passes[w] = 0
QueueAt(w, k) == IF Inverts(w) THEN Queues[Len(Queues) + 1 - k] ELSE Queues[k]

(* _read: the oldest unread entry of each of the streams.                   *)
IsOldest(s, i) ==
    /\ i \in unread[s]
    /\ \E n \in DOMAIN stream[s] : /\ stream[s][n] = i
                                   /\ \A m \in 1..(n - 1) : stream[s][m] \notin unread[s]
Deliver(w, S) ==
    LET served(s) == IF s \in S THEN {i \in Places : IsOldest(s, i)} ELSE {}
    IN /\ unread' = [s \in Streams |-> unread[s] \ served(s)]
       /\ owner' = [s \in Streams |-> [i \in Places |->
                       IF i \in served(s) THEN w ELSE owner[s][i]]]
       /\ late' = [s \in Streams |-> late[s] \cup (served(s) \cap old[s])]
       /\ UNCHANGED <<stream, old, groups, phase, trim>>

Waiting(S) == \E s \in S : unread[s] # {}

ReadForeign(w) ==
    /\ ReadIs(w, "foreign")
    /\ Deliver(w, Foreign)
    /\ IF Waiting(Foreign) THEN NextRead(w) ELSE OwnQueues(w)
    /\ waited' = waited

ReadQueue(w) ==
    /\ ReadIs(w, "queue")
    /\ LET k == at[w][2]  q == QueueAt(w, k)
       IN /\ Deliver(w, {q})
          /\ \/ Waiting({q}) /\ NextRead(w)
             \/ ~Waiting({q}) /\ k < Len(Queues) /\ Reads(w, "queue", k + 1) /\ passes' = passes
             \/ ~Waiting({q}) /\ k = Len(Queues) /\ Reads(w, "block", 0) /\ passes' = passes
          /\ waited' = [waited EXCEPT ![w] = IF q = Queues[Len(Queues)] THEN 0
                                             ELSE IF k = 1 THEN @ + 1 ELSE @]

(* It waits block_ms for an entry of any own queue.                        *)
Block(w) ==
    /\ ReadIs(w, "block")
    /\ Deliver(w, Own) /\ NextRead(w)
    /\ waited' = waited

ReadFails(w) ==
    /\ ~ReadIs(w, "off")
    /\ NextRead(w)
    /\ waited' = [waited EXCEPT ![w] = 0]
    /\ UNCHANGED <<entries, groups, phase, trim>>

ReadStep(w) == ReadForeign(w) \/ ReadQueue(w) \/ Block(w)

-----------------------------------------------------------------------------
(* _trim_loop                                                              *)

ChoreIs(w, command) == chore[w][1] = command
Goes(w, command, k) == chore' = [chore EXCEPT ![w] = <<command, k>>]

(* Wrong on purpose: the trim forgets retention_ms.                         *)
OldNowAll(s) == Present(s)

OldNow(s) == old[s]

(* TIME, once for all streams.                                              *)
BeginTrim(w) ==
    /\ ChoreIs(w, "next")
    /\ below' = [below EXCEPT ![w] = [s \in Own |-> OldNow(s)]]
    /\ Goes(w, "floor", 1)
    /\ UNCHANGED <<entries, groups, phase, reading>>

(* Wrong on purpose: the limit looks at the age alone.                      *)
FlooredByAge(w, q) == below[w][q]

(* The smaller of the two limits.  A pending entry whose record is gone is *)
(* older than every record.                                                 *)
Floored(w, q) ==
    {i \in below[w][q] :
        /\ Held(q) \subseteq Present(q)
        /\ \E n \in DOMAIN stream[q] : /\ stream[q][n] = i
                                       /\ \A m \in 1..n : stream[q][m] \notin Held(q)}

(* XPENDING, the summary.                                                   *)
ReadFloor(w) ==
    /\ ChoreIs(w, "floor")
    /\ LET q == Queues[chore[w][2]]
       IN below' = [below EXCEPT ![w][q] = Floored(w, q)]
    /\ Goes(w, "trim", chore[w][2])
    /\ UNCHANGED <<entries, groups, phase, reading>>

(* XTRIM MINID ~ drops some of the oldest entries below the limit.         *)
Trim(w) ==
    /\ ChoreIs(w, "trim")
    /\ LET k == chore[w][2]  q == Queues[k]
       IN /\ \E n \in 0..Len(stream[q]) :
                /\ \A m \in 1..n : stream[q][m] \in below[w][q]
                /\ stream' = SetOf(stream, q, SubSeq(stream[q], n + 1, Len(stream[q])))
                /\ Forget(q, {stream[q][m] : m \in 1..n})
          /\ IF k = Len(Queues) THEN Goes(w, "sweep", 1) ELSE Goes(w, "floor", k + 1)
    /\ UNCHANGED <<owner, late, groups, phase, reading>>

(* Wrong on purpose: a name that is idle goes, whatever it holds.           *)
DisposableWhenIdle(s) == Workers

(* A worker with one long task is idle and holds an entry.                 *)
Disposable(s) == Workers \ {owner[s][i] : i \in Places}

(* sweep_consumers.lua, once per stream: XGROUP DELCONSUMER drops the       *)
(* pending list of the name, too.                                           *)
SweepNames(w) ==
    /\ ChoreIs(w, "sweep")
    /\ LET k == chore[w][2]  s == AllStreams[k]
       IN /\ \E swept \in SUBSET Disposable(s) :
                owner' = [owner EXCEPT ![s] = [i \in Places |->
                             IF owner[s][i] \in swept THEN NoOne ELSE owner[s][i]]]
          /\ IF k = Len(AllStreams) THEN Goes(w, "next", 0) ELSE Goes(w, "sweep", k + 1)
    /\ UNCHANGED <<stream, unread, old, late, groups, phase, reading, below>>

(* The pass is abandoned, the next one begins at the top.                  *)
ChoreFails(w) ==
    /\ chore[w][1] \in {"floor", "trim", "sweep"}
    /\ Goes(w, "next", 0)
    /\ UNCHANGED <<entries, groups, phase, reading, below>>

ChoreStep(w) == BeginTrim(w) \/ ReadFloor(w) \/ Trim(w) \/ SweepNames(w)

Next ==
    \/ \E w \in Workers :
          \/ Start(w) \/ Ready(w) \/ Die(w) \/ ReadStep(w) \/ ReadFails(w)
          \/ ChoreStep(w) \/ ChoreFails(w)
          \/ \E s \in Streams :
                \/ CreateGroup(w, s)
                \/ \E i \in Places : Ack(w, s, i) \/ Reclaim(w, s, i)
    \/ \E s \in Streams, i \in Places : Add(s, i) \/ Ages(s, i)

Spec == Init /\ [][Next]_vars
=============================================================================
