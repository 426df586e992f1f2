------------------------------ MODULE Delivery ------------------------------
(***************************************************************************)
(* Delivery of stream entries to workers of one consumer group: the        *)
(* consume loop, the reclaim loop, the handler tasks and the shutdown of    *)
(* core/worker.py, over the Redis commands and scripts they send            *)
(* (core/transport.py, core/scripts).                                      *)
(*                                                                         *)
(* One atomic step is one command executed by Redis, or one stretch of     *)
(* worker code between two awaits.  A reply that can be lost or overtaken  *)
(* by another coroutine of the same worker is received in a step of its    *)
(* own.                                                                    *)
(*                                                                         *)
(* Simplifications.                                                        *)
(*  - What a handler does is one step here: it ends by acknowledging its   *)
(*    entry (success, a retry put on the clock, a dead letter), or without *)
(*    acknowledging it.  Module Job opens that step.                       *)
(*  - The order in which a worker tries its queues is any order.           *)
(*  - Time is two facts: whether the alive key of an id still exists, and  *)
(*    whether an entry has been idle for min_idle_ms ("ripe").             *)
(*  - deliveries and starts saturate just above the delivery ceiling: the  *)
(*    code only compares them with it.                                     *)
(***************************************************************************)
EXTENDS Naturals, FiniteSets

CONSTANTS
    Workers,        \* consumer names; a name is reused when its process restarts
    NoOne,          \* the owner of an entry nobody has read
    Streams,        \* a set of naturals: the order in which XPENDING visits them
    External,       \* the streams somebody else writes (is_external)
    MaxId,          \* entry ids are 1..MaxId, in the order of their XADD
    Coincide,       \* may two streams hand out the same id (one millisecond)?
    ReadSets,       \* the sets of streams one XREADGROUP names
    Concurrency,    \* WorkerConfig.concurrency
    MaxDeliveries,  \* RetryPolicy.max_deliveries
    Knowing,        \* workers whose registry has the task
    Stallers,       \* workers that may miss liveness refreshes or stall in a call
    Crashers,       \* workers that may be killed
    Stoppers,       \* workers that may be sent SIGTERM or SIGINT
    MaxFaults       \* how many commands may fail, over the whole group

ASSUME ConstantsAssumption ==
    /\ NoOne \notin Workers
    /\ Streams \subseteq Nat /\ IsFiniteSet(Streams)
    /\ External \subseteq Streams
    /\ MaxId \in Nat
    /\ Coincide \in BOOLEAN
    /\ ReadSets \subseteq SUBSET Streams
    /\ Concurrency \in Nat \ {0}
    /\ MaxDeliveries \in Nat \ {0}
    /\ Knowing \cup Stallers \cup Crashers \cup Stoppers \subseteq Workers
    /\ MaxFaults \in Nat

VARIABLES
    (* Redis *)
    place,          \* of an entry: never added, undelivered, pending, done, buried
    owner,          \* the consumer the pending list names
    deliveries,     \* the delivery counter of the pending list
    ripe,           \* idle for at least min_idle_ms
    alive,          \* the ids whose alive key exists
    dlq,            \* the entries written to the dead letter stream
    (* each worker *)
    mode,           \* down, running, draining, cutoff (its tasks are cancelled)
    stop,           \* the shutdown event
    ids,            \* Slots.ids
    unhandled,      \* Slots.unhandled
    recoverable,    \* Slots.recoverable
    freed,          \* is Slots.freed set?
    cpc,            \* where its consume loop is
    credit,         \* the COUNT of the read it sent, until it is served
    batch,          \* entries served to it that have no task yet
    rpc,            \* where its reclaim loop is
    cands,          \* the rest of the last listing of the pending list
    running,        \* entries that have a handler task
    acked,          \* of those, the ones whose acknowledgement was executed
    (* history and budget *)
    starts,         \* how many tasks were started for an entry
    faults          \* how many commands may still fail

redis   == <<place, owner, deliveries, ripe, alive, dlq>>
slots   == <<ids, unhandled, recoverable, freed>>
consume == <<cpc, credit, batch>>
reclaim == <<rpc, cands>>
tasks   == <<running, acked, starts>>
life    == <<mode, stop>>
vars    == <<redis, slots, consume, reclaim, tasks, life, faults>>

-----------------------------------------------------------------------------
(* Entries, ids and the order XREADGROUP and XPENDING return them in.      *)

Entries == Streams \X (1..MaxId)
Id(e)   == e[2]
Ids(S)  == {Id(e) : e \in S}

Before(d, e) == d[1] < e[1] \/ (d[1] = e[1] /\ d[2] < e[2])

(* T is the first n members of S, or all of S when it has fewer.           *)
IsFirst(T, n, S) ==
    /\ T \subseteq S
    /\ Cardinality(T) <= n
    /\ T # S => Cardinality(T) = n
    /\ \A e \in T, d \in S : Before(d, e) => d \in T

Ceiling == MaxDeliveries + 2
Bump(n) == IF n < Ceiling THEN n + 1 ELSE n

Pending == {e \in Entries : place[e] = "pending"}
Queued  == {e \in Entries : place[e] = "queued"}

(* A row of XPENDING as it was when it was listed.                         *)
Candidate == [entry : Entries, consumer : Workers \cup {NoOne},
              delivered : 0..Ceiling]
Row(e)    == [entry |-> e, consumer |-> owner[e], delivered |-> deliveries[e]]
IsNext(c, w) ==
    c \in cands[w] /\ \A d \in cands[w] : d = c \/ Before(c.entry, d.entry)

(* Wrong on purpose: one slot more than the pool has.                       *)
FreeOneMore(w) == Concurrency + 1 - Cardinality(ids[w])

(* Wrong on purpose: a fixed COUNT, whatever is in flight.                  *)
FreeFixed(w) == Concurrency

Free(w) == IF Cardinality(ids[w]) < Concurrency
           THEN Concurrency - Cardinality(ids[w]) ELSE 0
Live(w) == mode[w] # "down"
Punctual(w) == Live(w) /\ w \notin Stallers

TypeOK ==
    /\ place \in [Entries -> {"none", "queued", "pending", "done", "buried"}]
    /\ owner \in [Entries -> Workers \cup {NoOne}]
    /\ deliveries \in [Entries -> 0..Ceiling]
    /\ ripe \in [Entries -> BOOLEAN]
    /\ alive \subseteq 1..MaxId
    /\ dlq \subseteq Entries
    /\ mode \in [Workers -> {"down", "running", "draining", "cutoff"}]
    /\ stop \in [Workers -> BOOLEAN]
    /\ ids \in [Workers -> SUBSET (1..MaxId)]
    /\ unhandled \in [Workers -> SUBSET (1..MaxId)]
    /\ recoverable \in [Workers -> SUBSET (1..MaxId)]
    /\ freed \in [Workers -> BOOLEAN]
    /\ cpc \in [Workers -> {"top", "reading", "served", "marking", "waiting", "off"}]
    /\ credit \in [Workers -> 0..Concurrency]
    /\ batch \in [Workers -> SUBSET Entries]
    /\ rpc \in [Workers -> {"scanning", "claimed", "buried", "off"}]
    /\ cands \in [Workers -> SUBSET Candidate]
    /\ running \in [Workers -> SUBSET Entries]
    /\ acked \in [Workers -> SUBSET Entries]
    /\ starts \in [Entries -> 0..Ceiling]
    /\ faults \in 0..MaxFaults

Init ==
    /\ place = [e \in Entries |-> "none"]
    /\ owner = [e \in Entries |-> NoOne]
    /\ deliveries = [e \in Entries |-> 0]
    /\ ripe = [e \in Entries |-> FALSE]
    /\ alive = {}
    /\ dlq = {}
    /\ mode = [w \in Workers |-> "down"]
    /\ stop = [w \in Workers |-> FALSE]
    /\ ids = [w \in Workers |-> {}]
    /\ unhandled = [w \in Workers |-> {}]
    /\ recoverable = [w \in Workers |-> {}]
    /\ freed = [w \in Workers |-> FALSE]
    /\ cpc = [w \in Workers |-> "off"]
    /\ credit = [w \in Workers |-> 0]
    /\ batch = [w \in Workers |-> {}]
    /\ rpc = [w \in Workers |-> "off"]
    /\ cands = [w \in Workers |-> {}]
    /\ running = [w \in Workers |-> {}]
    /\ acked = [w \in Workers |-> {}]
    /\ starts = [e \in Entries |-> 0]
    /\ faults = MaxFaults

-----------------------------------------------------------------------------
(* Producers and the clock.                                                *)

(* XADD *: ids never decrease across the server and grow within a stream.  *)
Enqueue(e) ==
    /\ place[e] = "none"
    /\ \A d \in Entries : place[d] # "none" =>
           /\ Id(d) <= Id(e)
           /\ Id(d) = Id(e) => Coincide /\ d[1] # e[1]
    /\ Id(e) = 1 \/ \E d \in Entries : place[d] # "none" /\ Id(d) \in {Id(e) - 1, Id(e)}
    /\ place' = [place EXCEPT ![e] = "queued"]
    /\ UNCHANGED <<owner, deliveries, ripe, alive, dlq, slots, consume, reclaim,
                   tasks, life, faults>>

(* The heartbeat renews, with PEXPIRE, the key of every id in Slots.ids    *)
(* three times per TTL: a key lapses only when no punctual worker has it,  *)
(* nor waits for the reply of the script that wrote it.                    *)
Refreshed(i) == \E w \in Workers :
    /\ Punctual(w)
    /\ \/ i \in ids[w]
       \/ rpc[w] \in {"claimed", "buried"}
             /\ \E c \in cands[w] : IsNext(c, w) /\ Id(c.entry) = i

AliveExpires(i) ==
    /\ i \in alive
    /\ ~Refreshed(i)
    /\ alive' = alive \ {i}
    /\ UNCHANGED <<place, owner, deliveries, ripe, dlq, slots, consume, reclaim,
                   tasks, life, faults>>

(* min_idle_ms (a minute) is longer than a punctual worker needs between   *)
(* the server's side of a read or of a listing and its next use of it.     *)
InTransit(e) == \E w \in Workers :
    Punctual(w) /\ (e \in batch[w] \/ \E c \in cands[w] : c.entry = e)

IdleElapses(e) ==
    /\ place[e] = "pending"
    /\ ~ripe[e]
    /\ ~InTransit(e)
    /\ ripe' = [ripe EXCEPT ![e] = TRUE]
    /\ UNCHANGED <<place, owner, deliveries, alive, dlq, slots, consume, reclaim,
                   tasks, life, faults>>

-----------------------------------------------------------------------------
(* A process starts: the orphans of the previous run of its name are       *)
(* looked for in the first `concurrency` pending entries of the group.     *)

Start(w) ==
    /\ mode[w] = "down"
    /\ mode' = [mode EXCEPT ![w] = "running"]
    /\ cpc' = [cpc EXCEPT ![w] = "top"]
    /\ rpc' = [rpc EXCEPT ![w] = "scanning"]
    /\ \E T \in SUBSET Pending :
           /\ IsFirst(T, Concurrency, Pending)
           /\ recoverable' = [recoverable EXCEPT ![w] =
                                  Ids({e \in T : owner[e] = w})]
    /\ UNCHANGED <<redis, ids, unhandled, freed, credit, batch, cands, tasks,
                   stop, faults>>

-----------------------------------------------------------------------------
(* The consume loop.                                                       *)

AskForWork(w) ==
    /\ cpc[w] = "top" /\ ~stop[w]
    /\ Free(w) > 0
    /\ cpc' = [cpc EXCEPT ![w] = "reading"]
    /\ credit' = [credit EXCEPT ![w] = Free(w)]
    /\ UNCHANGED <<redis, slots, batch, reclaim, tasks, life, faults>>

WaitForSlot(w) ==
    /\ cpc[w] = "top" /\ ~stop[w]
    /\ Free(w) = 0
    /\ cpc' = [cpc EXCEPT ![w] = "waiting"]
    /\ UNCHANGED <<redis, slots, credit, batch, reclaim, tasks, life, faults>>

(* Wrong on purpose: waits for a slot alone, deaf to the shutdown event.    *)
WakeOnSlot(w) ==
    /\ cpc[w] = "waiting"
    /\ freed[w]
    /\ cpc' = [cpc EXCEPT ![w] = "top"]
    /\ freed' = [freed EXCEPT ![w] = FALSE]
    /\ UNCHANGED <<redis, ids, unhandled, recoverable, credit, batch, reclaim,
                   tasks, life, faults>>

Wake(w) ==
    /\ cpc[w] = "waiting"
    /\ freed[w] \/ stop[w]
    /\ cpc' = [cpc EXCEPT ![w] = "top"]
    /\ freed' = [freed EXCEPT ![w] = FALSE]
    /\ UNCHANGED <<redis, ids, unhandled, recoverable, credit, batch, reclaim,
                   tasks, life, faults>>

(* XREADGROUP executes: COUNT bounds what each stream gives, not the sum.  *)
Serve(w, R, T) ==
    /\ cpc[w] = "reading"
    /\ T # {}
    /\ \A e \in T : e[1] \in R
    /\ \A s \in R : IsFirst({e \in T : e[1] = s}, credit[w],
                            {e \in Queued : e[1] = s})
    /\ place' = [e \in Entries |-> IF e \in T THEN "pending" ELSE place[e]]
    /\ owner' = [e \in Entries |-> IF e \in T THEN w ELSE owner[e]]
    /\ deliveries' = [e \in Entries |-> IF e \in T THEN 1 ELSE deliveries[e]]
    /\ ripe' = [e \in Entries |-> IF e \in T THEN FALSE ELSE ripe[e]]
    /\ batch' = [batch EXCEPT ![w] = T]
    /\ credit' = [credit EXCEPT ![w] = 0]
    /\ cpc' = [cpc EXCEPT ![w] = "served"]
    /\ UNCHANGED <<alive, dlq, slots, reclaim, tasks, life, faults>>

(* The block window passes with nothing to read.                           *)
ReadNothing(w) ==
    /\ cpc[w] = "reading"
    /\ Queued = {}
    /\ credit' = [credit EXCEPT ![w] = 0]
    /\ cpc' = [cpc EXCEPT ![w] = "top"]
    /\ UNCHANGED <<redis, slots, batch, reclaim, tasks, life, faults>>

(* The reply arrives: the slots are taken before the keys are written.     *)
TakeSlots(w) ==
    /\ cpc[w] = "served"
    /\ ids' = [ids EXCEPT ![w] = @ \cup Ids(batch[w])]
    /\ cpc' = [cpc EXCEPT ![w] = "marking"]
    /\ UNCHANGED <<redis, unhandled, recoverable, freed, credit, batch, reclaim,
                   tasks, life, faults>>

(* mark_alive executes, and its reply spawns one task per record.          *)
Spawn(w, S) ==
    /\ running' = [running EXCEPT ![w] = @ \cup S]
    /\ starts' = [e \in Entries |-> IF e \in S THEN Bump(starts[e]) ELSE starts[e]]
    /\ acked' = acked

(* Wrong on purpose: spawns without writing the alive keys.                 *)
MarkNothing(w) ==
    /\ cpc[w] = "marking"
    /\ Spawn(w, batch[w])
    /\ batch' = [batch EXCEPT ![w] = {}]
    /\ cpc' = [cpc EXCEPT ![w] = "top"]
    /\ UNCHANGED <<redis, slots, credit, reclaim, life, faults>>

MarkAlive(w) ==
    /\ cpc[w] = "marking"
    /\ alive' = alive \cup Ids(batch[w])
    /\ Spawn(w, batch[w])
    /\ batch' = [batch EXCEPT ![w] = {}]
    /\ cpc' = [cpc EXCEPT ![w] = "top"]
    /\ UNCHANGED <<place, owner, deliveries, ripe, dlq, slots, credit, reclaim,
                   life, faults>>

Fault == faults > 0 /\ faults' = faults - 1

(* The read fails, or its reply is lost with the entries it carried.       *)
ReadFails(w) ==
    /\ Fault
    /\ cpc[w] \in {"reading", "served"}
    /\ batch' = [batch EXCEPT ![w] = {}]
    /\ credit' = [credit EXCEPT ![w] = 0]
    /\ cpc' = [cpc EXCEPT ![w] = "top"]
    /\ UNCHANGED <<redis, slots, reclaim, tasks, life>>

(* Wrong on purpose: the slots of a failed batch stay taken.                *)
MarkFailsLeaks(w) ==
    /\ Fault
    /\ cpc[w] = "marking"
    /\ batch' = [batch EXCEPT ![w] = {}]
    /\ cpc' = [cpc EXCEPT ![w] = "top"]
    /\ UNCHANGED <<redis, slots, credit, reclaim, tasks, life>>

(* mark_alive fails with some of its keys written: the slots are released. *)
MarkFails(w) ==
    /\ Fault
    /\ cpc[w] = "marking"
    /\ \E K \in SUBSET Ids(batch[w]) : alive' = alive \cup K
    /\ ids' = [ids EXCEPT ![w] = @ \ Ids(batch[w])]
    /\ freed' = [freed EXCEPT ![w] = TRUE]
    /\ batch' = [batch EXCEPT ![w] = {}]
    /\ cpc' = [cpc EXCEPT ![w] = "top"]
    /\ UNCHANGED <<place, owner, deliveries, ripe, dlq, unhandled, recoverable,
                   credit, reclaim, tasks, life>>

-----------------------------------------------------------------------------
(* The reclaim loop.                                                       *)

(* XPENDING with IDLE lists the first ripe entries, as many as are free.   *)
ListPending(w) ==
    /\ rpc[w] = "scanning"
    /\ cands[w] = {}
    /\ \E T \in SUBSET {e \in Pending : ripe[e]} :
           /\ IsFirst(T, Free(w), {e \in Pending : ripe[e]})
           /\ cands' = [cands EXCEPT ![w] = {Row(e) : e \in T}]
    /\ UNCHANGED <<redis, slots, consume, rpc, tasks, life, faults>>

(* Wrong on purpose: takes back this consumer's orphans only.               *)
ExcludesPeers(c, w) == Id(c.entry) \notin recoverable[w]

Excluded(c, w) ==
    \/ Id(c.entry) \in unhandled[w]
    \/ Id(c.entry) \in ids[w]
    \/ c.consumer = w /\ Id(c.entry) \notin recoverable[w]

Skip(w) ==
    /\ rpc[w] = "scanning"
    /\ \E c \in cands[w] :
           /\ IsNext(c, w)
           /\ Excluded(c, w)
           /\ cands' = [cands EXCEPT ![w] = @ \ {c}]
    /\ UNCHANGED <<redis, slots, consume, rpc, tasks, life, faults>>

(* Wrong on purpose: XCLAIM alone, without the liveness check.              *)
ClaimableWhenIdle(e) == place[e] = "pending" /\ ripe[e]

(* reclaim.lua refuses an entry with an alive key, and XCLAIM one that is  *)
(* not pending or was claimed less than min_idle_ms ago.                   *)
Claimable(e) == Id(e) \notin alive /\ place[e] = "pending" /\ ripe[e]

ClaimRefused(w) ==
    /\ rpc[w] = "scanning"
    /\ \E c \in cands[w] :
           /\ IsNext(c, w)
           /\ ~Excluded(c, w)
           /\ ~Claimable(c.entry)
           /\ recoverable' = [recoverable EXCEPT ![w] = @ \ {Id(c.entry)}]
           /\ cands' = [cands EXCEPT ![w] = @ \ {c}]
    /\ UNCHANGED <<redis, ids, unhandled, freed, consume, rpc, tasks, life, faults>>

Claim(w) ==
    /\ rpc[w] = "scanning"
    /\ \E c \in cands[w] :
           /\ IsNext(c, w)
           /\ ~Excluded(c, w)
           /\ Claimable(c.entry)
           /\ recoverable' = [recoverable EXCEPT ![w] = @ \ {Id(c.entry)}]
           /\ owner' = [owner EXCEPT ![c.entry] = w]
           /\ deliveries' = [deliveries EXCEPT ![c.entry] = Bump(@)]
           /\ ripe' = [ripe EXCEPT ![c.entry] = FALSE]
           /\ alive' = alive \cup {Id(c.entry)}
    /\ rpc' = [rpc EXCEPT ![w] = "claimed"]
    /\ UNCHANGED <<place, dlq, ids, unhandled, freed, consume, cands, tasks, life,
                   faults>>

(* Wrong on purpose: one too many, only exactly at the ceiling, and never.  *)
OverDeliveredLate(c) == c.delivered > MaxDeliveries + 1
OverDeliveredOnce(c) == c.delivered = MaxDeliveries + 1
OverDeliveredNever(c) == FALSE

(* over_delivered judges the counter as it was listed, before the claim.   *)
OverDelivered(c) == c.delivered > MaxDeliveries

TakeClaimed(w) ==
    /\ rpc[w] = "claimed"
    /\ \E c \in cands[w] :
           /\ IsNext(c, w)
           /\ ~OverDelivered(c)
           /\ ids' = [ids EXCEPT ![w] = @ \cup {Id(c.entry)}]
           /\ Spawn(w, {c.entry})
           /\ cands' = [cands EXCEPT ![w] = @ \ {c}]
    /\ rpc' = [rpc EXCEPT ![w] = "scanning"]
    /\ UNCHANGED <<redis, unhandled, recoverable, freed, consume, life, faults>>

BuryWrite(w) ==
    /\ rpc[w] = "claimed"
    /\ \E c \in cands[w] :
           /\ IsNext(c, w)
           /\ OverDelivered(c)
           /\ dlq' = dlq \cup {c.entry}
    /\ rpc' = [rpc EXCEPT ![w] = "buried"]
    /\ UNCHANGED <<place, owner, deliveries, ripe, alive, slots, consume, cands,
                   tasks, life, faults>>

(* ack.lua: XACK, XDEL and DEL of the alive key in one script, whoever the *)
(* pending list says the entry belongs to.  XACK drops its row there.      *)
AckScript(e, how) ==
    /\ IF place[e] = "pending"
       THEN /\ place' = [place EXCEPT ![e] = how]
            /\ owner' = [owner EXCEPT ![e] = NoOne]
            /\ deliveries' = [deliveries EXCEPT ![e] = 0]
            /\ ripe' = [ripe EXCEPT ![e] = FALSE]
       ELSE UNCHANGED <<place, owner, deliveries, ripe>>
    /\ alive' = alive \ {Id(e)}
    /\ dlq' = dlq

BuryAck(w) ==
    /\ rpc[w] = "buried"
    /\ \E c \in cands[w] :
           /\ IsNext(c, w)
           /\ AckScript(c.entry, "buried")
           /\ cands' = [cands EXCEPT ![w] = @ \ {c}]
    /\ rpc' = [rpc EXCEPT ![w] = "scanning"]
    /\ UNCHANGED <<slots, consume, tasks, life, faults>>

(* Any of its commands fails, or its reply is lost: the pass is abandoned. *)
ReclaimFails(w) ==
    /\ Fault
    /\ rpc[w] # "off"
    /\ \E c \in cands[w] :
           /\ IsNext(c, w)
           /\ rpc[w] = "scanning" => ~Excluded(c, w)
           /\ recoverable' = [recoverable EXCEPT ![w] = @ \ {Id(c.entry)}]
    /\ cands' = [cands EXCEPT ![w] = {}]
    /\ rpc' = [rpc EXCEPT ![w] = "scanning"]
    /\ UNCHANGED <<redis, ids, unhandled, freed, consume, tasks, life>>

-----------------------------------------------------------------------------
(* Handler tasks.                                                          *)

Working(w) == mode[w] \in {"running", "draining"}

(* Wrong on purpose: a release that wakes nobody.                           *)
EndTaskSilently(w, e) ==
    /\ running' = [running EXCEPT ![w] = @ \ {e}]
    /\ acked' = [acked EXCEPT ![w] = @ \ {e}]
    /\ ids' = [ids EXCEPT ![w] = @ \ {Id(e)}]
    /\ UNCHANGED <<starts, unhandled, recoverable, freed>>

(* `finally`: the slot of a task that ends is released.                    *)
EndTask(w, e) ==
    /\ running' = [running EXCEPT ![w] = @ \ {e}]
    /\ acked' = [acked EXCEPT ![w] = @ \ {e}]
    /\ ids' = [ids EXCEPT ![w] = @ \ {Id(e)}]
    /\ freed' = [freed EXCEPT ![w] = TRUE]
    /\ UNCHANGED <<starts, unhandled, recoverable>>

(* A task this registry does not know is going back to the clock.          *)
HandBack(w, e) ==
    /\ Working(w)
    /\ e \in running[w] \ acked[w]
    /\ w \notin Knowing /\ e[1] \notin External
    /\ Id(e) \notin unhandled[w]
    /\ unhandled' = [unhandled EXCEPT ![w] = @ \cup {Id(e)}]
    /\ UNCHANGED <<redis, ids, recoverable, freed, consume, reclaim, tasks, life,
                   faults>>

Ack(w, e) ==
    /\ Working(w)
    /\ e \in running[w] \ acked[w]
    /\ AckScript(e, "done")
    /\ acked' = [acked EXCEPT ![w] = @ \cup {e}]
    /\ UNCHANGED <<slots, consume, reclaim, running, starts, life, faults>>

Return(w, e) ==
    /\ Working(w)
    /\ e \in acked[w]
    /\ EndTask(w, e)
    /\ UNCHANGED <<redis, consume, reclaim, life, faults>>

(* No broker handler, or a failing one: an external entry is not acked.    *)
BrokerFails(w, e) ==
    /\ Working(w)
    /\ e \in running[w] \ acked[w]
    /\ e[1] \in External
    /\ EndTask(w, e)
    /\ UNCHANGED <<redis, consume, reclaim, life, faults>>

(* Rescheduling or burying failed as well: the entry is left pending.      *)
RecoveryFails(w, e) ==
    /\ Fault
    /\ Working(w)
    /\ e \in running[w] \ acked[w]
    /\ EndTask(w, e)
    /\ UNCHANGED <<redis, consume, reclaim, life>>

-----------------------------------------------------------------------------
(* Shutdown.                                                               *)

Signal(w) ==
    /\ w \in Stoppers
    /\ mode[w] = "running" /\ ~stop[w]
    /\ stop' = [stop EXCEPT ![w] = TRUE]
    /\ UNCHANGED <<redis, slots, consume, reclaim, tasks, mode, faults>>

(* The consume loop returns: the reclaim loop is cancelled where it waits. *)
Drain(w) ==
    /\ mode[w] = "running"
    /\ cpc[w] = "top" /\ stop[w]
    /\ mode' = [mode EXCEPT ![w] = "draining"]
    /\ cpc' = [cpc EXCEPT ![w] = "off"]
    /\ rpc' = [rpc EXCEPT ![w] = "off"]
    /\ cands' = [cands EXCEPT ![w] = {}]
    /\ UNCHANGED <<redis, slots, credit, batch, tasks, stop, faults>>

CutOff(w) ==
    /\ mode' = [mode EXCEPT ![w] = "cutoff"]
    /\ cpc' = [cpc EXCEPT ![w] = "off"]
    /\ batch' = [batch EXCEPT ![w] = {}]
    /\ credit' = [credit EXCEPT ![w] = 0]
    /\ rpc' = [rpc EXCEPT ![w] = "off"]
    /\ cands' = [cands EXCEPT ![w] = {}]
    /\ UNCHANGED <<redis, slots, tasks, stop, faults>>

DrainTimeout(w) ==
    /\ mode[w] = "draining"
    /\ running[w] # {}
    /\ CutOff(w)

SecondSignal(w) ==
    /\ w \in Stoppers
    /\ Working(w) /\ stop[w]
    /\ CutOff(w)

(* A cancelled task drops its alive key and leaves its entry pending.      *)
Cancel(w, e) ==
    /\ mode[w] = "cutoff"
    /\ e \in running[w]
    /\ alive' = alive \ {Id(e)}
    /\ EndTask(w, e)
    /\ UNCHANGED <<place, owner, deliveries, ripe, dlq, consume, reclaim, life,
                   faults>>

(* The same with the DEL failing: the key stays until it lapses.           *)
CancelFails(w, e) ==
    /\ Fault
    /\ mode[w] = "cutoff"
    /\ e \in running[w]
    /\ EndTask(w, e)
    /\ UNCHANGED <<redis, consume, reclaim, life>>

(* A process that is gone keeps nothing but its name in Redis.             *)
Gone(w) ==
    /\ mode' = [mode EXCEPT ![w] = "down"]
    /\ stop' = [stop EXCEPT ![w] = FALSE]
    /\ ids' = [ids EXCEPT ![w] = {}]
    /\ unhandled' = [unhandled EXCEPT ![w] = {}]
    /\ recoverable' = [recoverable EXCEPT ![w] = {}]
    /\ freed' = [freed EXCEPT ![w] = FALSE]
    /\ cpc' = [cpc EXCEPT ![w] = "off"]
    /\ credit' = [credit EXCEPT ![w] = 0]
    /\ batch' = [batch EXCEPT ![w] = {}]
    /\ rpc' = [rpc EXCEPT ![w] = "off"]
    /\ cands' = [cands EXCEPT ![w] = {}]
    /\ running' = [running EXCEPT ![w] = {}]
    /\ acked' = [acked EXCEPT ![w] = {}]
    /\ UNCHANGED <<redis, starts, faults>>

Stopped(w) ==
    /\ mode[w] \in {"draining", "cutoff"}
    /\ running[w] = {}
    /\ Gone(w)

Crash(w) ==
    /\ w \in Crashers
    /\ Live(w)
    /\ Gone(w)

-----------------------------------------------------------------------------
ServeSome(w) == \E R \in ReadSets : \E T \in SUBSET Queued : Serve(w, R, T)

ConsumeStep(w) == AskForWork(w) \/ WaitForSlot(w) \/ Wake(w) \/ ServeSome(w)
                  \/ ReadNothing(w) \/ TakeSlots(w) \/ MarkAlive(w)

ReclaimStep(w) == ListPending(w) \/ Skip(w) \/ ClaimRefused(w) \/ Claim(w)
                  \/ TakeClaimed(w) \/ BuryWrite(w) \/ BuryAck(w)

(* A handler ends one way or another; how is not its scheduler's choice.   *)
TaskStep(w, e) == Ack(w, e) \/ Return(w, e) \/ BrokerFails(w, e) \/ Cancel(w, e)

ShutdownStep(w) == Drain(w) \/ Stopped(w)

Next ==
    \/ \E e \in Entries : Enqueue(e) \/ IdleElapses(e)
    \/ \E i \in 1..MaxId : AliveExpires(i)
    \/ \E w \in Workers :
           \/ Start(w) \/ Signal(w) \/ DrainTimeout(w) \/ SecondSignal(w) \/ Crash(w)
           \/ ConsumeStep(w) \/ ReadFails(w) \/ MarkFails(w)
           \/ ReclaimStep(w) \/ ReclaimFails(w)
           \/ ShutdownStep(w)
           \/ \E e \in Entries :
                  TaskStep(w, e) \/ HandBack(w, e) \/ RecoveryFails(w, e)
                  \/ CancelFails(w, e)

Spec == Init /\ [][Next]_vars

(* The event loop runs every coroutine that can run, Redis executes every  *)
(* command it is sent, clocks advance, the drain deadline passes and        *)
(* processes stop dying in the end.  A worker nobody kills or stops is      *)
(* started.  Nothing obliges a handler to return unless it is cancelled,    *)
(* nor a producer, a signal, a crash, a fault, or a process to restart.     *)
Calm == <>[][\A w \in Workers : Live(w) => Live(w)']_vars
FairSpec ==
    /\ Spec /\ Calm
    /\ \A e \in Entries : WF_vars(IdleElapses(e))
    /\ \A i \in 1..MaxId : WF_vars(AliveExpires(i))
    /\ \A w \in Workers : /\ WF_vars(ConsumeStep(w))
                          /\ WF_vars(ReclaimStep(w))
                          /\ WF_vars(ShutdownStep(w))
                          /\ WF_vars(DrainTimeout(w))
                          /\ \A e \in Entries : WF_vars(Cancel(w, e) \/ Return(w, e))
    /\ \A w \in Workers \ (Crashers \cup Stoppers) : WF_vars(Start(w))
=============================================================================
