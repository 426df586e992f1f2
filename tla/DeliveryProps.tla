--------------------------- MODULE DeliveryProps ---------------------------
(***************************************************************************)
(* What the delivery protocol of module Delivery promises.                 *)
(***************************************************************************)
EXTENDS Delivery

(* At most one live worker runs a task for an entry: the alive key, written *)
(* before the spawn and refreshed while the slot is held, keeps peers off a *)
(* running entry however long it has been idle in the pending list          *)
(* (worker.py:234-238, reclaim.lua).                                        *)
ExclusiveExecution ==
    \A e \in Entries, v, w \in Workers :
        e \in running[v] /\ e \in running[w] => v = w

(* A task is started only for an entry nobody has a task for: neither a     *)
(* peer's, nor this worker's own, which its reclaim loop could meet between *)
(* the read and the slot, or between the slot and the alive key             *)
(* (worker.py:534-547).                                                     *)
NoSecondTask ==
    [][\A e \in Entries :
           starts'[e] # starts[e] => \A w \in Workers : e \notin running[w]]_vars

(* The slots are exactly the tasks a worker has, and those it is about to   *)
(* spawn: a leaked slot lowers its concurrency for good, a missing one      *)
(* stops the refresh of a task that runs (Slots, worker.py:94-118).         *)
SlotsMatchTasks ==
    \A w \in Workers : Working(w) =>
        ids[w] = Ids(running[w])
                   \cup (IF cpc[w] = "marking" THEN Ids(batch[w]) ELSE {})

(* A consume loop that sleeps for want of a slot while one is free has been *)
(* woken: no release is lost between the reset of the event and the next    *)
(* wait (Slots.wait_for_slot, worker.py:120-130).                           *)
NoLostWakeup ==
    \A w \in Workers : cpc[w] = "waiting" /\ Free(w) > 0 => freed[w]

(* An entry written to the dead letter stream for its deliveries is not     *)
(* running anywhere, then or later: what an operator replays from there     *)
(* has no task left (worker.py:557-575).                                    *)
DeadLettersDoNotRun ==
    \A e \in dlq, w \in Workers : e \notin running[w]

(* What a worker has, has listed and has asked for is bounded, though not   *)
(* by Concurrency: one read of n streams may bring n times its credit, on   *)
(* top of what the reclaim loop lists while that read is blocked            *)
(* (worker.py:222, 530; transport.py:212).                                  *)
Widths == {n \in 0..Cardinality(Streams) : \A R \in ReadSets : Cardinality(R) <= n}
InHand(w) == Cardinality(ids[w] \cup Ids(batch[w])) + Cardinality(cands[w])
InFlightBound ==
    \A w \in Workers, n \in Widths :
        InHand(w) + n * credit[w] <= (n + 1) * Concurrency

(* design.md:197: an entry a punctual worker is running is not reclaimed.   *)
LiveWorkKept ==
    [][\A e \in Entries, w \in Workers :
           (/\ Punctual(w) /\ Working(w)
            /\ e \in running[w] \ acked[w]
            /\ owner[e] = w
            /\ place'[e] = "pending") => owner'[e] = w]_vars

(* operations.md:181: an entry an earlier run of this name left behind is   *)
(* taken back once; the worker does not forget it before it has it.         *)
OrphansTakenBack ==
    [][\A e \in Entries, w \in Workers :
           (/\ Live(w) /\ Live(w)'
            /\ owner[e] = w /\ place'[e] = "pending"
            /\ Id(e) \in recoverable[w] /\ Id(e) \notin recoverable'[w])
           => deliveries'[e] # deliveries[e]]_vars

-----------------------------------------------------------------------------
(* Why ExclusiveExecution, NoSecondTask and SlotsMatchTasks hold while      *)
(* nobody stalls and no two streams hand out one id: the inductive          *)
(* invariant of DeliveryProof.                                              *)
(***************************************************************************)

UniqueIds == \A d, e \in Entries :
    place[d] # "none" /\ place[e] # "none" /\ Id(d) = Id(e) => d = e

(* A loop that is over has nothing in hand.                                 *)
LoopsFollowMode == \A w \in Workers :
    /\ mode[w] = "down" => ids[w] = {} /\ running[w] = {}
    /\ mode[w] # "running" => cpc[w] = "off" /\ rpc[w] = "off" /\ cands[w] = {}
    /\ cpc[w] \notin {"served", "marking"} => batch[w] = {}

(* What was served to a worker stays its own until it has a task or is      *)
(* dropped: it does not ripen, so no peer can claim it.                     *)
ServedIsOwned == \A w \in Workers : \A e \in batch[w] :
    /\ place[e] = "pending" /\ owner[e] = w /\ ~ripe[e]
    /\ e \notin running[w]
    /\ cpc[w] = "marking" => Id(e) \in ids[w]

(* So does what its reclaim loop has claimed: the alive key is up.          *)
ClaimedIsOwned == \A w \in Workers : rpc[w] \in {"claimed", "buried"} =>
    \A c \in cands[w] : IsNext(c, w) =>
        /\ place[c.entry] = "pending" /\ owner[c.entry] = w /\ ~ripe[c.entry]
        /\ Id(c.entry) \in alive
        /\ c.entry \notin running[w] \cup batch[w]

(* And what it runs: the alive key is up until the ack script removes it.   *)
RunningIsOwned == \A w \in Workers : \A e \in running[w] :
    /\ Id(e) \in ids[w]
    /\ IF e \in acked[w] THEN place[e] = "done"
       ELSE place[e] = "pending" /\ owner[e] = w /\ Id(e) \in alive

(* No slot is taken but for a task, or for one about to be spawned.         *)
NoSlotLeaks == \A w \in Workers : Working(w) => \A i \in ids[w] :
    \/ \E e \in running[w] : Id(e) = i
    \/ cpc[w] = "marking" /\ \E e \in batch[w] : Id(e) = i

AckedIsRunning == \A w \in Workers : acked[w] \subseteq running[w]

(* The inductive invariant: every entry a worker has in hand, served,       *)
(* claimed or running, is pending under its name with nothing to let a peer *)
(* take it (worker.py:223-245, 534-579, reclaim.lua).                       *)
OwnershipInv ==
    /\ UniqueIds
    /\ LoopsFollowMode
    /\ ServedIsOwned
    /\ ClaimedIsOwned
    /\ RunningIsOwned
    /\ AckedIsRunning
    /\ ExclusiveExecution
    /\ NoSlotLeaks

-----------------------------------------------------------------------------
(* Why DeadLettersDoNotRun and ImplementsLease hold under the same          *)
(* conditions: the counter a reclaim loop judges is the one it read in its  *)
(* listing, possibly long before its claim (worker.py:528-560).             *)

(* Only what has been read has a row in the pending list, and what was read *)
(* a moment ago was delivered once.                                         *)
CountedFromRead ==
    /\ \A e \in Entries : place[e] \in {"none", "queued"} => deliveries[e] = 0
    /\ \A w \in Workers : \A e \in batch[w] : deliveries[e] = 1

(* A listed row is stale once somebody claims its entry; an entry that can  *)
(* be claimed still has the counter that was listed, because it does not    *)
(* ripen again while the listing is in use.                                 *)
ListedIsCounted == \A w \in Workers : \A c \in cands[w] :
    /\ place[c.entry] \notin {"none", "queued"}
    /\ place[c.entry] = "pending" /\ ripe[c.entry] => deliveries[c.entry] = c.delivered

(* The claim added one to the counter that was listed.                      *)
ClaimedIsCounted == \A w \in Workers : \A c \in cands[w] :
    /\ rpc[w] \in {"claimed", "buried"} /\ IsNext(c, w) =>
           deliveries[c.entry] = Bump(c.delivered)
    /\ rpc[w] = "buried" /\ IsNext(c, w) => OverDelivered(c)

(* So what runs was delivered at most once more than the policy allows, and *)
(* what went to the dead letter stream was delivered more often than that.  *)
RunningIsCounted == \A w \in Workers : \A e \in running[w] \ acked[w] :
    deliveries[e] \in 1..(MaxDeliveries + 1)

DeadIsCounted == \A e \in dlq :
    \/ place[e] = "buried"
    \/ place[e] = "pending" /\ deliveries[e] = Ceiling

CountInv ==
    /\ CountedFromRead
    /\ ListedIsCounted
    /\ ClaimedIsCounted
    /\ RunningIsCounted
    /\ DeadIsCounted

(* The inductive invariant of the delivery protocol: who has an entry, and  *)
(* how often it has been handed out.                                        *)
DeliveryInv == OwnershipInv /\ CountInv

-----------------------------------------------------------------------------
(* Why InFlightBound holds, whoever stalls: what has been served was asked  *)
(* for, a loop asks only when it has nothing in hand, and what is listed    *)
(* was free when it was listed (worker.py:220-245, 528-532).                *)
LoopAsks(w) ==
    /\ mode[w] # "running" => cpc[w] = "off"
    /\ batch[w] # {} => cpc[w] \in {"served", "marking"}
    /\ credit[w] > 0 => cpc[w] = "reading"

WithinBound(w, n) ==
    /\ IsFiniteSet(cands[w]) /\ Cardinality(cands[w]) <= Concurrency
    /\ Cardinality(Ids(batch[w])) + n * credit[w] <= n * Concurrency
    /\ InHand(w) + n * credit[w] <= (n + 1) * Concurrency

BoundInv == \A w \in Workers : LoopAsks(w) /\ \A n \in Widths : WithinBound(w, n)

-----------------------------------------------------------------------------
(* The abstract view: an entry is held by the live worker whose task for it *)
(* has not been acknowledged.                                               *)
HeldBy(e) == {w \in Workers : e \in running[w] \ acked[w]}

Phase == [e \in Entries |->
    CASE place[e] = "none"   -> "absent"
      [] place[e] = "done"   -> "done"
      [] place[e] = "buried" -> "dead"
      [] OTHER -> IF HeldBy(e) = {} THEN "waiting" ELSE "held"]

Holder == [e \in Entries |->
    IF HeldBy(e) = {} THEN NoOne ELSE CHOOSE w \in Workers : w \in HeldBy(e)]

L == INSTANCE Lease WITH phase <- Phase, holder <- Holder, tries <- deliveries

(* Streams, alive keys, XCLAIM and the ack script implement the lease       *)
(* (design.md, "Delivery guarantee"; the whole of worker.py's delivery).    *)
ImplementsLease == L!Spec

-----------------------------------------------------------------------------
Settled(e) == place[e] \in {"done", "buried"}

(* At-least-once, end to end: whatever is added is acknowledged or buried   *)
(* in the end, though its workers are killed, stopped and restarted; one    *)
(* worker that stays is enough for the own queues as long as no command     *)
(* fails (worker.py:520-584).                                               *)
HandlersEnd == \A w \in Workers, e \in Entries : WF_vars(TaskStep(w, e))
SurvivorSettles ==
    HandlersEnd => \A e \in Entries :
        place[e] = "queued" /\ e[1] \notin External ~> Settled(e) \/ faults > 0

(* The same, foreign entries included, though commands fail, replies are    *)
(* lost and broker handlers may fail for ever.  It takes two workers that   *)
(* stay: an entry pending under the name of a live worker is never retried  *)
(* by that worker (worker.py:542-547).                                      *)
PeersSettle ==
    HandlersEnd /\ <>[](\A w \in Workers : Live(w)) =>
        \A e \in Entries : place[e] = "queued" ~> Settled(e)

(* A worker told to stop does stop, even if none of its handlers returns:   *)
(* a full worker hears the signal, and the drain budget cuts handlers off   *)
(* (worker.py:120-130, 189-193).                                            *)
StopEnds == \A w \in Workers : stop[w] ~> mode[w] = "down"
=============================================================================
