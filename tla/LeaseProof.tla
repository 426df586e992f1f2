----------------------------- MODULE LeaseProof -----------------------------
(***************************************************************************)
(* Proofs that module Delivery keeps the counters its dead-letter rule      *)
(* judges, and that it implements the lease of module Lease.               *)
(***************************************************************************)
EXTENDS DeliveryProof

-----------------------------------------------------------------------------
(* Counters.                                                               *)

(* A step that drops what workers have in hand, or moves a loop, disturbs   *)
(* no counter.                                                              *)
LEMMA CountKept ==
    ASSUME CountInv, UNCHANGED <<place, deliveries, ripe, dlq>>,
           \A v \in Workers :
               /\ batch'[v] \subseteq batch[v]
               /\ cands'[v] \subseteq cands[v]
               /\ running'[v] \ acked'[v] \subseteq running[v] \ acked[v]
               /\ rpc'[v] \in {"claimed", "buried"} =>
                      cands'[v] = cands[v] /\ rpc'[v] = rpc[v]
    PROVE  CountInv'
<1>1. CountedFromRead' /\ ListedIsCounted' /\ RunningIsCounted' /\ DeadIsCounted'
  BY DEF CountInv, CountedFromRead, ListedIsCounted, RunningIsCounted, DeadIsCounted
<1>2. ClaimedIsCounted'
  BY DEF CountInv, ClaimedIsCounted, IsNext
<1> QED BY <1>1, <1>2 DEF CountInv

(* What a worker drops when it fails, ends a task or leaves.                *)
LEMMA DropsKept ==
    ASSUME TypeOK, CountInv, NEW w \in Workers,
           \/ Start(w) \/ Signal(w) \/ DrainTimeout(w) \/ SecondSignal(w)
           \/ Crash(w) \/ Drain(w) \/ Stopped(w)
           \/ AskForWork(w) \/ WaitForSlot(w) \/ Wake(w) \/ ReadNothing(w)
           \/ TakeSlots(w) \/ ReadFails(w) \/ MarkFails(w)
           \/ Skip(w) \/ ClaimRefused(w) \/ ReclaimFails(w)
           \/ \E e \in Entries :
                  \/ HandBack(w, e) \/ Return(w, e) \/ BrokerFails(w, e)
                  \/ RecoveryFails(w, e) \/ Cancel(w, e) \/ CancelFails(w, e)
    PROVE  CountInv'
<1>1. CASE \/ Start(w) \/ Signal(w) \/ DrainTimeout(w) \/ SecondSignal(w)
           \/ Crash(w) \/ Drain(w) \/ Stopped(w)
  BY <1>1, CountKept DEF Start, Signal, DrainTimeout, SecondSignal, CutOff, Crash,
     Drain, Stopped, Gone, TypeOK, redis, slots, consume, reclaim, tasks, life
<1>2. CASE \/ AskForWork(w) \/ WaitForSlot(w) \/ Wake(w) \/ ReadNothing(w)
           \/ TakeSlots(w) \/ ReadFails(w) \/ MarkFails(w)
  <2>1. CASE AskForWork(w) \/ WaitForSlot(w) \/ Wake(w)
    BY <2>1, CountKept DEF AskForWork, WaitForSlot, Wake, redis, slots, reclaim,
       tasks, life
  <2>2. CASE ReadNothing(w) \/ ReadFails(w)
    BY <2>2, CountKept DEF ReadNothing, ReadFails, TypeOK, redis, slots, reclaim,
       tasks, life
  <2>3. CASE TakeSlots(w)
    BY <2>3, CountKept DEF TakeSlots, redis, reclaim, tasks, life
  <2>4. CASE MarkFails(w)
    BY <2>4, CountKept DEF MarkFails, TypeOK, redis, slots, consume, reclaim, tasks,
       life
  <2> QED BY <1>2, <2>1, <2>2, <2>3, <2>4
<1>3. CASE Skip(w) \/ ClaimRefused(w) \/ ReclaimFails(w)
  BY <1>3, CountKept DEF Skip, ClaimRefused, ReclaimFails, TypeOK, redis, slots,
     consume, reclaim, tasks, life
<1>4. CASE \E e \in Entries :
                  \/ HandBack(w, e) \/ Return(w, e) \/ BrokerFails(w, e)
                  \/ RecoveryFails(w, e) \/ Cancel(w, e) \/ CancelFails(w, e)
  <2>1. PICK e \in Entries :
            \/ HandBack(w, e) \/ Return(w, e) \/ BrokerFails(w, e)
            \/ RecoveryFails(w, e) \/ Cancel(w, e) \/ CancelFails(w, e)
    BY <1>4
  <2>2. UNCHANGED <<place, deliveries, ripe, dlq, batch, cands, rpc>>
    BY <2>1 DEF HandBack, Return, BrokerFails, RecoveryFails, Cancel, CancelFails,
       redis, consume, reclaim
  <2>3. CASE EndTask(w, e)
    <3>1. \A v \in Workers : running'[v] \ acked'[v] \subseteq running[v] \ acked[v]
      BY <2>3 DEF EndTask, TypeOK
    <3> QED BY <2>2, <3>1, CountKept
  <2>4. CASE HandBack(w, e)
    BY <2>2, <2>4, CountKept DEF HandBack, tasks
  <2> QED BY <2>1, <2>3, <2>4 DEF Return, BrokerFails, RecoveryFails, Cancel, CancelFails
<1> QED BY <1>1, <1>2, <1>3, <1>4

(* The ack script resets the counter of the entry it is given, no other.    *)
LEMMA AckCounts ==
    ASSUME TypeOK, NEW e \in Entries, NEW how, AckScript(e, how), place[e] = "pending"
    PROVE  /\ place'[e] = how /\ deliveries'[e] = 0 /\ ~ripe'[e]
           /\ dlq' = dlq
           /\ \A d \in Entries : d # e =>
                  /\ place'[d] = place[d] /\ deliveries'[d] = deliveries[d]
                  /\ ripe'[d] = ripe[d]
BY DEF AckScript, TypeOK

(* Every step keeps the counters that will be judged.                       *)
LEMMA CountStep ==
    ASSUME Stallers = {}
    PROVE  TypeOK /\ DeliveryInv /\ [Next]_vars => CountInv'
<1> SUFFICES ASSUME TypeOK, TypeOK', OwnershipInv, CountInv, [Next]_vars
             PROVE  CountInv'
  BY TypeStep DEF DeliveryInv
<1>t. /\ \A w \in Workers : \A c \in cands[w] : c.entry \in Entries /\ c.delivered \in 0..Ceiling
      /\ \A w \in Workers : batch[w] \subseteq Entries /\ running[w] \subseteq Entries
      /\ \A e \in Entries : deliveries[e] \in 0..Ceiling
      /\ Ceiling = MaxDeliveries + 2 /\ MaxDeliveries \in Nat \ {0}
  BY ConstantsAssumption DEF TypeOK, Candidate, Ceiling
<1>1. ASSUME NEW e \in Entries, Enqueue(e) PROVE CountInv'
  <2>1. /\ deliveries' = deliveries /\ ripe' = ripe /\ dlq' = dlq /\ batch' = batch
        /\ cands' = cands /\ rpc' = rpc /\ running' = running /\ acked' = acked
        /\ place[e] = "none" /\ place'[e] = "queued"
        /\ \A d \in Entries : d # e => place'[d] = place[d]
    BY <1>1 DEF Enqueue, TypeOK, redis, consume, reclaim, tasks
  <2>2. CountedFromRead' /\ ListedIsCounted'
    BY <1>t, <2>1 DEF CountInv, CountedFromRead, ListedIsCounted
  <2>3. ClaimedIsCounted' /\ RunningIsCounted'
    BY <2>1 DEF CountInv, ClaimedIsCounted, RunningIsCounted, IsNext
  <2>4. DeadIsCounted'
    BY <2>1 DEF CountInv, DeadIsCounted, TypeOK
  <2> QED BY <2>2, <2>3, <2>4 DEF CountInv
<1>2. ASSUME NEW e \in Entries, IdleElapses(e) PROVE CountInv'
  <2>1. \A w \in Workers : \A c \in cands[w] : c.entry # e
    BY <1>2, HoldersArePunctual DEF IdleElapses, InTransit, OwnershipInv
  <2>2. /\ place' = place /\ deliveries' = deliveries /\ dlq' = dlq /\ batch' = batch
        /\ cands' = cands /\ rpc' = rpc /\ running' = running /\ acked' = acked
        /\ \A d \in Entries : d # e => ripe'[d] = ripe[d]
    BY <1>2 DEF IdleElapses, TypeOK, consume, reclaim, tasks
  <2>3. ListedIsCounted'
    BY <1>t, <2>1, <2>2 DEF CountInv, ListedIsCounted
  <2>4. CountedFromRead' /\ ClaimedIsCounted' /\ RunningIsCounted' /\ DeadIsCounted'
    BY <2>2 DEF CountInv, CountedFromRead, ClaimedIsCounted, RunningIsCounted,
       DeadIsCounted, IsNext
  <2> QED BY <2>3, <2>4 DEF CountInv
<1>3. ASSUME NEW i \in 1..MaxId, AliveExpires(i) PROVE CountInv'
  BY <1>3, CountKept DEF AliveExpires, slots, consume, reclaim, tasks
<1>4. ASSUME NEW w \in Workers, ServeSome(w) PROVE CountInv'
  <2>1. PICK R \in ReadSets, T \in SUBSET Queued : Serve(w, R, T)
    BY <1>4 DEF ServeSome
  <2>2. T \subseteq Entries /\ \A e \in T : place[e] = "queued"
    BY DEF Queued
  <2>3. /\ \A e \in Entries : place'[e] = IF e \in T THEN "pending" ELSE place[e]
        /\ \A e \in Entries : deliveries'[e] = IF e \in T THEN 1 ELSE deliveries[e]
        /\ \A e \in Entries : ripe'[e] = IF e \in T THEN FALSE ELSE ripe[e]
        /\ dlq' = dlq /\ cands' = cands /\ rpc' = rpc
        /\ running' = running /\ acked' = acked
        /\ \A v \in Workers : batch'[v] = IF v = w THEN T ELSE batch[v]
    BY <2>1 DEF Serve, TypeOK, reclaim, tasks
  <2>4. CountedFromRead'
    <3>1. \A v \in Workers : \A e \in batch[v] : e \notin T
      BY <2>2 DEF OwnershipInv, ServedIsOwned
    <3> QED BY <1>t, <2>2, <2>3, <3>1 DEF CountInv, CountedFromRead
  <2>5. \A v \in Workers : \A c \in cands[v] : c.entry \notin T
    BY <2>2 DEF CountInv, ListedIsCounted
  <2>6. ListedIsCounted' /\ ClaimedIsCounted'
    <3>1. ASSUME NEW v \in Workers, NEW c \in cands'[v]
          PROVE  /\ place'[c.entry] = place[c.entry]
                 /\ deliveries'[c.entry] = deliveries[c.entry]
                 /\ ripe'[c.entry] = ripe[c.entry]
      BY <1>t, <2>3, <2>5
    <3>5. ListedIsCounted'
      BY <2>3, <3>1 DEF CountInv, ListedIsCounted
    <3>2. ClaimedIsCounted'
      BY <2>3, <3>1 DEF CountInv, ClaimedIsCounted, IsNext
    <3> QED BY <3>2, <3>5
  <2>7. RunningIsCounted'
    <3>1. \A v \in Workers : \A e \in running[v] \ acked[v] : e \notin T
      BY <2>2 DEF OwnershipInv, RunningIsOwned
    <3> QED BY <1>t, <2>3, <3>1 DEF CountInv, RunningIsCounted
  <2>8. DeadIsCounted'
    BY <2>2, <2>3 DEF CountInv, DeadIsCounted, TypeOK
  <2> QED BY <2>4, <2>6, <2>7, <2>8 DEF CountInv
<1>5. ASSUME NEW w \in Workers, MarkAlive(w) PROVE CountInv'
  <2>1. /\ UNCHANGED <<place, deliveries, ripe, dlq, cands, rpc>> /\ acked' = acked
        /\ \A v \in Workers :
               running'[v] = IF v = w THEN running[v] \cup batch[v] ELSE running[v]
        /\ \A v \in Workers : batch'[v] = IF v = w THEN {} ELSE batch[v]
    <3>1. /\ UNCHANGED <<place, deliveries, ripe, dlq, cands, rpc>> /\ acked' = acked
          /\ running' = [running EXCEPT ![w] = @ \cup batch[w]]
          /\ batch' = [batch EXCEPT ![w] = {}]
      BY <1>5 DEF MarkAlive, Spawn, reclaim
    <3>2. \A v \in Workers :
              running'[v] = IF v = w THEN running[v] \cup batch[v] ELSE running[v]
      <4>1. running \in [Workers -> SUBSET Entries]
        BY DEF TypeOK
      <4> QED BY <3>1, <4>1
    <3>3. \A v \in Workers : batch'[v] = IF v = w THEN {} ELSE batch[v]
      BY <3>1 DEF TypeOK
    <3> QED BY <3>1, <3>2, <3>3
  <2>2. CountedFromRead' /\ ListedIsCounted' /\ ClaimedIsCounted' /\ DeadIsCounted'
    <3>1. CountedFromRead' /\ DeadIsCounted'
      BY <2>1 DEF CountInv, CountedFromRead, DeadIsCounted
    <3>2. ListedIsCounted'
      BY <2>1 DEF CountInv, ListedIsCounted
    <3>3. ClaimedIsCounted'
      BY <2>1 DEF CountInv, ClaimedIsCounted, IsNext
    <3> QED BY <3>1, <3>2, <3>3
  <2>3. RunningIsCounted'
    <3>1. \A e \in batch[w] : deliveries[e] = 1
      BY DEF CountInv, CountedFromRead
    <3>2. 1 \in 1..(MaxDeliveries + 1)
      BY <1>t
    <3> QED BY <2>1, <3>1, <3>2 DEF CountInv, RunningIsCounted
  <2> QED BY <2>2, <2>3 DEF CountInv
<1>6. ASSUME NEW w \in Workers, ListPending(w) PROVE CountInv'
  <2>1. PICK T \in SUBSET {e \in Pending : ripe[e]} :
            cands' = [cands EXCEPT ![w] = {Row(e) : e \in T}]
    BY <1>6 DEF ListPending
  <2>2. UNCHANGED <<place, deliveries, ripe, dlq, batch, rpc, running, acked>>
    BY <1>6 DEF ListPending, redis, consume, tasks
  <2>3. \A v \in Workers : cands'[v] = IF v = w THEN {Row(e) : e \in T} ELSE cands[v]
    BY <2>1 DEF TypeOK
  <2>4. \A c \in {Row(e) : e \in T} :
            /\ c.entry \in Entries /\ place[c.entry] = "pending"
            /\ deliveries[c.entry] = c.delivered
    BY DEF Row, Pending
  <2>5. ListedIsCounted'
    BY <2>2, <2>3, <2>4 DEF CountInv, ListedIsCounted
  <2>6. ClaimedIsCounted'
    <3>1. \A v \in Workers : rpc'[v] \in {"claimed", "buried"} => v # w
      BY <1>6, <2>2 DEF ListPending
    <3> QED BY <2>2, <2>3, <3>1 DEF CountInv, ClaimedIsCounted, IsNext
  <2>7. CountedFromRead' /\ RunningIsCounted' /\ DeadIsCounted'
    BY <2>2 DEF CountInv, CountedFromRead, RunningIsCounted, DeadIsCounted
  <2> QED BY <2>5, <2>6, <2>7 DEF CountInv
<1>7. ASSUME NEW w \in Workers, Claim(w) PROVE CountInv'
  <2>1. PICK c \in cands[w] :
            /\ IsNext(c, w) /\ Claimable(c.entry)
            /\ deliveries' = [deliveries EXCEPT ![c.entry] = Bump(@)]
            /\ ripe' = [ripe EXCEPT ![c.entry] = FALSE]
    BY <1>7 DEF Claim
  <2>2. /\ c.entry \in Entries /\ place[c.entry] = "pending" /\ ripe[c.entry]
        /\ Id(c.entry) \notin alive /\ deliveries[c.entry] = c.delivered
    BY <1>t, <2>1 DEF Claimable, CountInv, ListedIsCounted
  <2>3. /\ UNCHANGED <<place, dlq, batch, cands, running, acked>>
        /\ rpc' = [rpc EXCEPT ![w] = "claimed"] /\ rpc[w] = "scanning"
    BY <1>7 DEF Claim, consume, tasks
  <2>4. /\ deliveries'[c.entry] = Bump(c.delivered) /\ ~ripe'[c.entry]
        /\ \A d \in Entries : d # c.entry =>
               deliveries'[d] = deliveries[d] /\ ripe'[d] = ripe[d]
    BY <2>1, <2>2 DEF TypeOK
  <2>5. \A v \in Workers : c.entry \notin running[v] \cup batch[v]
    BY <2>2 DEF OwnershipInv, RunningIsOwned, ServedIsOwned
  <2>6. CountedFromRead' /\ RunningIsCounted'
    BY <1>t, <2>2, <2>3, <2>4, <2>5 DEF CountInv, CountedFromRead, RunningIsCounted
  <2>7. ListedIsCounted'
    BY <1>t, <2>3, <2>4 DEF CountInv, ListedIsCounted
  <2>8. ClaimedIsCounted'
    <3> SUFFICES ASSUME NEW v \in Workers, NEW d \in cands[v], IsNext(d, v),
                        rpc'[v] \in {"claimed", "buried"}
                 PROVE  /\ deliveries'[d.entry] = Bump(d.delivered)
                        /\ rpc'[v] = "buried" => OverDelivered(d)
      BY <2>3 DEF ClaimedIsCounted, IsNext
    <3>1. CASE v = w
      <4>1. d = c
        BY <2>1, <3>1, OneNext
      <4> QED BY <2>3, <2>4, <3>1, <4>1 DEF TypeOK
    <3>2. CASE v # w
      <4>1. rpc'[v] = rpc[v]
        BY <2>3, <3>2
      <4>2. d.entry # c.entry
        BY <2>2, <4>1 DEF OwnershipInv, ClaimedIsOwned
      <4> QED BY <1>t, <2>4, <4>1, <4>2 DEF CountInv, ClaimedIsCounted
    <3> QED BY <3>1, <3>2
  <2>9. DeadIsCounted'
    <3>1. c.entry \in dlq => deliveries'[c.entry] = Ceiling
      BY <2>2, <2>4, <1>t DEF CountInv, DeadIsCounted, Bump
    <3> QED BY <2>2, <2>3, <2>4, <3>1 DEF CountInv, DeadIsCounted, TypeOK
  <2> QED BY <2>6, <2>7, <2>8, <2>9 DEF CountInv
<1>8. ASSUME NEW w \in Workers, TakeClaimed(w) PROVE CountInv'
  <2>1. PICK c \in cands[w] :
            /\ IsNext(c, w) /\ ~OverDelivered(c) /\ rpc[w] = "claimed"
            /\ running' = [running EXCEPT ![w] = @ \cup {c.entry}]
            /\ cands' = [cands EXCEPT ![w] = @ \ {c}]
            /\ rpc' = [rpc EXCEPT ![w] = "scanning"]
    BY <1>8 DEF TakeClaimed, Spawn
  <2>2. UNCHANGED <<place, deliveries, ripe, dlq, batch, acked>>
    BY <1>8 DEF TakeClaimed, Spawn, redis, consume
  <2>3. deliveries[c.entry] \in 1..(MaxDeliveries + 1)
    <3>1. deliveries[c.entry] = Bump(c.delivered)
      BY <2>1 DEF CountInv, ClaimedIsCounted
    <3>2. c.delivered \in Nat /\ c.delivered <= MaxDeliveries
      BY <1>t, <2>1 DEF OverDelivered
    <3> QED BY <1>t, <3>1, <3>2 DEF Bump
  <2>4. RunningIsCounted'
    BY <2>1, <2>2, <2>3 DEF CountInv, RunningIsCounted, TypeOK
  <2>5. CountedFromRead' /\ DeadIsCounted'
    BY <2>2 DEF CountInv, CountedFromRead, DeadIsCounted
  <2>6. ListedIsCounted'
    BY <2>1, <2>2 DEF CountInv, ListedIsCounted, TypeOK
  <2>7. ClaimedIsCounted'
    <3>1. \A v \in Workers : rpc'[v] \in {"claimed", "buried"} =>
              rpc'[v] = rpc[v] /\ cands'[v] = cands[v]
      BY <2>1 DEF TypeOK
    <3> QED BY <2>2, <3>1 DEF CountInv, ClaimedIsCounted, IsNext
  <2> QED BY <2>4, <2>5, <2>6, <2>7 DEF CountInv
<1>9. ASSUME NEW w \in Workers, BuryWrite(w) PROVE CountInv'
  <2>1. PICK c \in cands[w] :
            /\ IsNext(c, w) /\ OverDelivered(c) /\ rpc[w] = "claimed"
            /\ dlq' = dlq \cup {c.entry}
    BY <1>9 DEF BuryWrite
  <2>2. /\ UNCHANGED <<place, deliveries, ripe, batch, cands, running, acked>>
        /\ rpc' = [rpc EXCEPT ![w] = "buried"]
    BY <1>9 DEF BuryWrite, consume, tasks
  <2>3. ClaimedIsCounted'
    <3> SUFFICES ASSUME NEW v \in Workers, NEW d \in cands[v], IsNext(d, v),
                        rpc'[v] \in {"claimed", "buried"}
                 PROVE  /\ deliveries[d.entry] = Bump(d.delivered)
                        /\ rpc'[v] = "buried" => OverDelivered(d)
      BY <2>2 DEF ClaimedIsCounted, IsNext
    <3>1. CASE v = w
      <4>1. d = c
        BY <2>1, <3>1, OneNext
      <4> QED BY <2>1, <3>1, <4>1 DEF CountInv, ClaimedIsCounted
    <3>2. CASE v # w
      BY <2>2, <3>2 DEF CountInv, ClaimedIsCounted, TypeOK
    <3> QED BY <3>1, <3>2
  <2>4. place[c.entry] = "pending" /\ deliveries[c.entry] = Ceiling
    <3>1. deliveries[c.entry] = Bump(c.delivered) /\ place[c.entry] = "pending"
      BY <2>1 DEF CountInv, ClaimedIsCounted, OwnershipInv, ClaimedIsOwned
    <3>2. c.delivered \in 0..Ceiling /\ c.delivered > MaxDeliveries
      BY <1>t, <2>1 DEF OverDelivered
    <3> QED BY <1>t, <3>1, <3>2 DEF Bump
  <2>5. DeadIsCounted'
    BY <2>1, <2>2, <2>4 DEF CountInv, DeadIsCounted
  <2>6. CountedFromRead' /\ ListedIsCounted' /\ RunningIsCounted'
    BY <2>2 DEF CountInv, CountedFromRead, ListedIsCounted, RunningIsCounted
  <2> QED BY <2>3, <2>5, <2>6 DEF CountInv
<1>10. ASSUME NEW w \in Workers, BuryAck(w) PROVE CountInv'
  <2>1. PICK c \in cands[w] :
            /\ IsNext(c, w) /\ rpc[w] = "buried"
            /\ AckScript(c.entry, "buried")
            /\ cands' = [cands EXCEPT ![w] = @ \ {c}]
            /\ rpc' = [rpc EXCEPT ![w] = "scanning"]
    BY <1>10 DEF BuryAck
  <2>2. UNCHANGED <<batch, running, acked>> /\ c.entry \in Entries
    BY <1>10, <1>t DEF BuryAck, consume, tasks
  <2>3. place[c.entry] = "pending" /\ owner[c.entry] = w /\ c.entry \notin batch[w]
    BY <2>1 DEF OwnershipInv, ClaimedIsOwned
  <2>4. /\ place'[c.entry] = "buried" /\ deliveries'[c.entry] = 0 /\ ~ripe'[c.entry]
        /\ dlq' = dlq
        /\ \A d \in Entries : d # c.entry =>
               /\ place'[d] = place[d] /\ deliveries'[d] = deliveries[d]
               /\ ripe'[d] = ripe[d]
    BY <2>1, <2>2, <2>3, AckCounts
  <2>5. CountedFromRead'
    <3>1. \A v \in Workers : c.entry \notin batch[v]
      BY <2>3 DEF OwnershipInv, ServedIsOwned
    <3> QED BY <1>t, <2>2, <2>4, <3>1 DEF CountInv, CountedFromRead
  <2>6. ListedIsCounted'
    <3>1. \A v \in Workers : cands'[v] \subseteq cands[v]
      BY <2>1 DEF TypeOK
    <3> QED BY <1>t, <2>4, <3>1 DEF CountInv, ListedIsCounted
  <2>7. ClaimedIsCounted'
    <3>1. \A v \in Workers : rpc'[v] \in {"claimed", "buried"} =>
              v # w /\ rpc'[v] = rpc[v] /\ cands'[v] = cands[v]
      BY <2>1 DEF TypeOK
    <3>2. \A v \in Workers : \A d \in cands[v] :
              v # w /\ rpc[v] \in {"claimed", "buried"} /\ IsNext(d, v) =>
                  d.entry # c.entry
      BY <2>3 DEF OwnershipInv, ClaimedIsOwned
    <3> QED BY <1>t, <2>4, <3>1, <3>2 DEF CountInv, ClaimedIsCounted, IsNext
  <2>8. RunningIsCounted'
    <3>1. \A v \in Workers : c.entry \notin running[v]
      BY <2>1, ClaimedIsFree
    <3> QED BY <1>t, <2>2, <2>4, <3>1 DEF CountInv, RunningIsCounted
  <2>9. DeadIsCounted'
    BY <2>4 DEF CountInv, DeadIsCounted, TypeOK
  <2> QED BY <2>5, <2>6, <2>7, <2>8, <2>9 DEF CountInv
<1>11. ASSUME NEW w \in Workers, NEW e \in Entries, Ack(w, e) PROVE CountInv'
  <2>1. /\ AckScript(e, "done") /\ e \in running[w] /\ e \notin acked[w]
        /\ acked' = [acked EXCEPT ![w] = @ \cup {e}]
        /\ UNCHANGED <<batch, cands, rpc, running>>
    BY <1>11 DEF Ack, consume, reclaim
  <2>2. place[e] = "pending" /\ deliveries[e] \in 1..(MaxDeliveries + 1)
    BY <2>1 DEF OwnershipInv, RunningIsOwned, CountInv, RunningIsCounted
  <2>3. /\ place'[e] = "done" /\ deliveries'[e] = 0 /\ ~ripe'[e]
        /\ dlq' = dlq
        /\ \A d \in Entries : d # e =>
               /\ place'[d] = place[d] /\ deliveries'[d] = deliveries[d]
               /\ ripe'[d] = ripe[d]
    BY <2>1, <2>2, AckCounts
  <2>4. CountedFromRead'
    <3>1. \A v \in Workers : e \notin batch[v]
      BY <2>1, <2>2 DEF OwnershipInv, RunningIsOwned, ServedIsOwned
    <3> QED BY <1>t, <2>1, <2>3, <3>1 DEF CountInv, CountedFromRead
  <2>5. ListedIsCounted'
    BY <1>t, <2>1, <2>3 DEF CountInv, ListedIsCounted
  <2>6. ClaimedIsCounted'
    <3>1. \A v \in Workers : \A c \in cands[v] :
              rpc[v] \in {"claimed", "buried"} /\ IsNext(c, v) => c.entry # e
      BY <2>1, ClaimedIsFree
    <3> QED BY <1>t, <2>1, <2>3, <3>1 DEF CountInv, ClaimedIsCounted, IsNext
  <2>7. RunningIsCounted'
    <3>1. \A v \in Workers : v # w => e \notin running[v]
      BY <2>1 DEF OwnershipInv, ExclusiveExecution
    <3>2. \A v \in Workers : \A d \in running[v] \ acked'[v] :
              d \in running[v] \ acked[v] /\ d # e
      BY <2>1, <3>1 DEF TypeOK
    <3>3. \A v \in Workers : \A d \in running[v] \ acked'[v] :
              deliveries'[d] = deliveries[d]
      BY <1>t, <2>3, <3>2
    <3> QED BY <2>1, <3>2, <3>3 DEF CountInv, RunningIsCounted
  <2>8. DeadIsCounted'
    <3>1. e \notin dlq
      BY <1>t, <2>2 DEF CountInv, DeadIsCounted
    <3>2. \A d \in dlq : place'[d] = place[d] /\ deliveries'[d] = deliveries[d]
      BY <2>3, <3>1 DEF TypeOK
    <3> QED BY <2>3, <3>2 DEF CountInv, DeadIsCounted
  <2> QED BY <2>4, <2>5, <2>6, <2>7, <2>8 DEF CountInv
<1>12. CASE UNCHANGED vars
  BY <1>12, CountKept DEF vars, redis, consume, reclaim, tasks
<1> QED
  BY <1>1, <1>2, <1>3, <1>4, <1>5, <1>6, <1>7, <1>8, <1>9, <1>10, <1>11, <1>12,
     DropsKept DEF Next, ConsumeStep, ReclaimStep, TaskStep, ShutdownStep

LEMMA CountInit == Init => CountInv
BY DEF Init, CountInv, CountedFromRead, ListedIsCounted, ClaimedIsCounted,
   RunningIsCounted, DeadIsCounted

(* While no worker stalls and ids are unique, the counter a reclaim loop    *)
(* judges is the one its claim acted on: what runs has been delivered at    *)
(* most MaxDeliveries + 1 times, what is in the dead letter stream more     *)
(* often than that (worker.py:528-575).                                     *)
THEOREM Counted ==
    ASSUME Stallers = {}, Coincide = FALSE
    PROVE  Spec => []DeliveryInv
<1>1. TypeOK /\ DeliveryInv /\ [Next]_vars => DeliveryInv'
  BY OwnershipStep, CountStep DEF DeliveryInv
<1>2. Init => DeliveryInv
  BY OwnershipInit, CountInit DEF DeliveryInv
<1> QED BY <1>1, <1>2, TypeCorrect, PTL DEF Spec

(* Under the same conditions an entry written to the dead letter stream for *)
(* its deliveries has no task, then or later (worker.py:557-575).           *)
THEOREM DeadStayDead ==
    ASSUME Stallers = {}, Coincide = FALSE
    PROVE  Spec => []DeadLettersDoNotRun
<1>1. TypeOK /\ DeliveryInv => DeadLettersDoNotRun
  <2> SUFFICES ASSUME TypeOK, OwnershipInv, CountInv, NEW e \in dlq, NEW w \in Workers,
                      e \in running[w]
               PROVE  FALSE
    BY DEF DeliveryInv, DeadLettersDoNotRun
  <2>1. place[e] = "buried" \/ (place[e] = "pending" /\ deliveries[e] = Ceiling)
    BY DEF CountInv, DeadIsCounted
  <2>2. place[e] = "pending" /\ e \notin acked[w]
    BY <2>1 DEF OwnershipInv, RunningIsOwned
  <2>3. deliveries[e] \in 1..(MaxDeliveries + 1)
    BY <2>2 DEF CountInv, RunningIsCounted
  <2> QED BY <2>1, <2>2, <2>3, ConstantsAssumption DEF Ceiling
<1> QED BY <1>1, Counted, TypeCorrect, PTL

-----------------------------------------------------------------------------
(* The lease.                                                              *)

(* What module Lease sees of an entry: its holder if it has one, or else    *)
(* what place says of it.                                                   *)
ViewOK ==
    /\ Phase = [e \in Entries |-> Phase[e]]
    /\ Holder = [e \in Entries |-> Holder[e]]
    /\ \A e \in Entries : \A w \in HeldBy(e) :
           HeldBy(e) = {w} /\ Phase[e] = "held" /\ Holder[e] = w
    /\ \A e \in Entries : HeldBy(e) = {} =>
           /\ Holder[e] = NoOne
           /\ place[e] = "none" => Phase[e] = "absent"
           /\ place[e] = "done" => Phase[e] = "done"
           /\ place[e] = "buried" => Phase[e] = "dead"
           /\ place[e] \in {"queued", "pending"} => Phase[e] = "waiting"

(* An entry has one holder, and it is pending while it has.                 *)
LEMMA View == TypeOK /\ OwnershipInv => ViewOK
<1> SUFFICES ASSUME TypeOK, OwnershipInv PROVE ViewOK
  OBVIOUS
<1>1. Phase = [e \in Entries |-> Phase[e]] /\ Holder = [e \in Entries |-> Holder[e]]
  BY DEF Phase, Holder
<1>2. ASSUME NEW e \in Entries, NEW w \in HeldBy(e)
      PROVE  HeldBy(e) = {w} /\ Phase[e] = "held" /\ Holder[e] = w
  <2>1. w \in Workers /\ e \in running[w] /\ e \notin acked[w]
    BY <1>2 DEF HeldBy
  <2>2. \A v \in HeldBy(e) : v = w
    BY <2>1 DEF HeldBy, OwnershipInv, ExclusiveExecution
  <2>3. HeldBy(e) = {w}
    BY <1>2, <2>2
  <2>4. place[e] = "pending"
    BY <2>1 DEF OwnershipInv, RunningIsOwned
  <2>5. Phase[e] = "held"
    BY <2>3, <2>4 DEF Phase
  <2>6. Holder[e] = w
    BY <2>1, <2>3 DEF Holder
  <2> QED BY <2>3, <2>5, <2>6
<1>3. ASSUME NEW e \in Entries, HeldBy(e) = {}
      PROVE  /\ Holder[e] = NoOne
             /\ place[e] = "none" => Phase[e] = "absent"
             /\ place[e] = "done" => Phase[e] = "done"
             /\ place[e] = "buried" => Phase[e] = "dead"
             /\ place[e] \in {"queued", "pending"} => Phase[e] = "waiting"
  BY <1>3 DEF Phase, Holder
<1> QED BY <1>1, <1>2, <1>3 DEF ViewOK

LEMMA ViewNext == (TypeOK /\ OwnershipInv)' => ViewOK'
BY View, PTL

(* An entry whose holder and place are what they were looks the same; being *)
(* read makes no difference.                                                *)
LEMMA SameView ==
    ASSUME TypeOK, ViewOK, ViewOK', NEW e \in Entries, HeldBy(e)' = HeldBy(e),
           place'[e] = place[e] \/ (place[e] = "queued" /\ place'[e] = "pending")
    PROVE  Phase'[e] = Phase[e] /\ Holder'[e] = Holder[e]
<1>1. CASE HeldBy(e) = {}
  <2>1. Holder[e] = NoOne /\ Holder'[e] = NoOne
    BY <1>1 DEF ViewOK
  <2>2. place[e] \in {"none", "queued", "pending", "done", "buried"}
    BY DEF TypeOK
  <2>3. CASE place[e] \in {"queued", "pending"}
    <3>1. Phase[e] = "waiting"
      BY <1>1, <2>3 DEF ViewOK
    <3>2. place'[e] \in {"queued", "pending"}
      BY <2>3
    <3>3. Phase'[e] = "waiting"
      BY <1>1, <3>2 DEF ViewOK
    <3> QED BY <2>1, <3>1, <3>3
  <2>4. CASE place[e] \in {"none", "done", "buried"}
    BY <1>1, <2>1, <2>4 DEF ViewOK
  <2> QED BY <2>2, <2>3, <2>4
<1>2. CASE HeldBy(e) # {}
  BY <1>2 DEF ViewOK
<1> QED BY <1>1, <1>2

(* A step that keeps holders, places and counters is no step of the lease.  *)
LEMMA StutterView ==
    ASSUME TypeOK, ViewOK, ViewOK', UNCHANGED <<place, deliveries>>,
           \A v \in Workers : running'[v] \ acked'[v] = running[v] \ acked[v]
    PROVE  UNCHANGED L!vars
<1>1. \A e \in Entries : HeldBy(e)' = HeldBy(e)
  BY DEF HeldBy
<1>2. \A e \in Entries : Phase'[e] = Phase[e] /\ Holder'[e] = Holder[e]
  BY <1>1, SameView
<1>3. Phase' = Phase /\ Holder' = Holder
  BY <1>2 DEF ViewOK
<1> QED BY <1>3 DEF L!vars

(* Entries nobody has are given to a worker.                                *)
LEMMA HoldView ==
    ASSUME TypeOK, ViewOK, ViewOK', UNCHANGED <<place, deliveries>>,
           NEW w \in Workers, NEW S \in SUBSET Entries,
           \A v \in Workers : running'[v] \ acked'[v] =
               IF v = w THEN (running[w] \ acked[w]) \cup S ELSE running[v] \ acked[v],
           \A e \in S : /\ place[e] = "pending" /\ HeldBy(e) = {}
                        /\ deliveries[e] \in 1..(MaxDeliveries + 1)
    PROVE  L!Hold(w, S)
<1>1. \A e \in Entries : e \notin S => HeldBy(e)' = HeldBy(e)
  BY DEF HeldBy
<1>2. \A e \in S : w \in HeldBy(e)'
  BY DEF HeldBy
<1>3. \A e \in Entries : e \notin S => Phase'[e] = Phase[e] /\ Holder'[e] = Holder[e]
  BY <1>1, SameView
<1>4. \A e \in S : Phase'[e] = "held" /\ Holder'[e] = w
  BY <1>2 DEF ViewOK
<1>5. \A e \in S : Phase[e] = "waiting"
  BY DEF ViewOK
<1>6. Phase' = [e \in Entries |-> IF e \in S THEN "held" ELSE Phase[e]]
  BY <1>3, <1>4 DEF ViewOK
<1>7. Holder' = [e \in Entries |-> IF e \in S THEN w ELSE Holder[e]]
  BY <1>3, <1>4 DEF ViewOK
<1> QED BY <1>5, <1>6, <1>7 DEF L!Hold

(* Entries are taken away from the worker that has them.                    *)
LEMMA LoseView ==
    ASSUME TypeOK, ViewOK, ViewOK', UNCHANGED <<place, deliveries>>,
           NEW w \in Workers, NEW S \in SUBSET Entries, S \subseteq running[w] \ acked[w],
           \A v \in Workers : running'[v] \ acked'[v] =
               IF v = w THEN (running[w] \ acked[w]) \ S ELSE running[v] \ acked[v],
           \A e \in S : place[e] = "pending"
    PROVE  L!Lose(w, S)
<1>1. \A e \in Entries : e \notin S => HeldBy(e)' = HeldBy(e)
  BY DEF HeldBy
<1>2. \A e \in S : w \in HeldBy(e)
  BY DEF HeldBy
<1>3. \A e \in S : HeldBy(e)' = {}
  <2>1. \A e \in S : HeldBy(e) = {w}
    BY <1>2 DEF ViewOK
  <2> QED BY <2>1 DEF HeldBy
<1>4. \A e \in Entries : e \notin S => Phase'[e] = Phase[e] /\ Holder'[e] = Holder[e]
  BY <1>1, SameView
<1>5. \A e \in S : Phase'[e] = "waiting" /\ Holder'[e] = NoOne
  BY <1>3 DEF ViewOK
<1>6. \A e \in S : Phase[e] = "held" /\ Holder[e] = w
  BY <1>2 DEF ViewOK
<1>7. Phase' = [e \in Entries |-> IF e \in S THEN "waiting" ELSE Phase[e]]
  BY <1>4, <1>5 DEF ViewOK
<1>8. Holder' = [e \in Entries |-> IF e \in S THEN NoOne ELSE Holder[e]]
  BY <1>4, <1>5 DEF ViewOK
<1> QED BY <1>6, <1>7, <1>8 DEF L!Lose

(* Entries are handed out; whoever gets them does not hold them yet.        *)
LEMMA TryView ==
    ASSUME TypeOK, ViewOK, ViewOK', NEW S \in SUBSET Entries,
           UNCHANGED <<running, acked>>,
           deliveries' = [e \in Entries |-> IF e \in S THEN Bump(deliveries[e])
                                                       ELSE deliveries[e]],
           \A e \in S : /\ place[e] \in {"queued", "pending"} /\ HeldBy(e) = {}
                        /\ place'[e] = "pending",
           \A e \in Entries \ S : place'[e] = place[e]
    PROVE  L!Try(S)
<1>1. \A e \in Entries : HeldBy(e)' = HeldBy(e)
  BY DEF HeldBy
<1>2. \A e \in Entries : Phase'[e] = Phase[e] /\ Holder'[e] = Holder[e]
  BY <1>1, SameView
<1>3. Phase' = Phase /\ Holder' = Holder
  BY <1>2 DEF ViewOK
<1>4. \A e \in S : Phase[e] = "waiting"
  BY DEF ViewOK
<1>5. deliveries' = [e \in Entries |->
                        IF e \in S /\ deliveries[e] < Ceiling
                        THEN deliveries[e] + 1 ELSE deliveries[e]]
  BY DEF Bump
<1> QED BY <1>3, <1>4, <1>5 DEF L!Try, L!Most, Ceiling

(* The ack script settles an entry.                                         *)
LEMMA SettleView ==
    ASSUME TypeOK, ViewOK, ViewOK', NEW e \in Entries, NEW how \in {"done", "buried"},
           AckScript(e, how), place[e] = "pending",
           HeldBy(e)' = {}, \A d \in Entries : d # e => HeldBy(d)' = HeldBy(d)
    PROVE  L!Settle(e, IF how = "done" THEN "done" ELSE "dead")
<1> DEFINE phase == IF how = "done" THEN "done" ELSE "dead"
<1>1. /\ place'[e] = how
      /\ deliveries' = [deliveries EXCEPT ![e] = 0]
      /\ \A d \in Entries : d # e => place'[d] = place[d]
  BY DEF AckScript, TypeOK
<1>2. \A d \in Entries : d # e => Phase'[d] = Phase[d] /\ Holder'[d] = Holder[d]
  BY <1>1, SameView
<1>3. Phase'[e] = phase /\ Holder'[e] = NoOne
  BY <1>1 DEF ViewOK
<1>4. Phase' = [Phase EXCEPT ![e] = phase] /\ Holder' = [Holder EXCEPT ![e] = NoOne]
  BY <1>2, <1>3 DEF ViewOK
<1> QED BY <1>1, <1>4 DEF L!Settle

(* A task that ends unacknowledged loses its entry; one that was            *)
(* acknowledged had lost it already.                                        *)
LEMMA EndTaskLease ==
    ASSUME TypeOK, OwnershipInv, ViewOK, ViewOK', NEW w \in Workers, NEW e \in running[w],
           EndTask(w, e), UNCHANGED <<place, deliveries>>
    PROVE  [L!Next]_L!vars
<1>1. \A v \in Workers : running'[v] \ acked'[v] =
          IF v = w THEN (running[w] \ acked[w]) \ {e} ELSE running[v] \ acked[v]
  BY DEF EndTask, TypeOK
<1>2. e \in Entries
  BY DEF TypeOK
<1>3. CASE e \in acked[w]
  BY <1>1, <1>3, StutterView
<1>4. CASE e \notin acked[w]
  <2>1. place[e] = "pending"
    BY <1>4 DEF OwnershipInv, RunningIsOwned
  <2>2. L!Lose(w, {e})
    BY <1>1, <1>2, <1>4, <2>1, LoseView
  <2> QED BY <1>2, <2>2 DEF L!Next
<1> QED BY <1>3, <1>4

(* Every step of the delivery protocol is a step of the lease, or none.     *)
LEMMA LeaseStep ==
    ASSUME TypeOK, TypeOK', DeliveryInv, ViewOK, ViewOK', [Next]_vars
    PROVE  [L!Next]_L!vars
<1>t. /\ OwnershipInv /\ CountInv
      /\ \A w \in Workers : \A c \in cands[w] : c.entry \in Entries
      /\ \A w \in Workers : batch[w] \subseteq Entries /\ running[w] \subseteq Entries
      /\ MaxDeliveries \in Nat \ {0}
  BY ConstantsAssumption DEF DeliveryInv, TypeOK, Candidate
<1>1. ASSUME NEW e \in Entries, Enqueue(e) PROVE [L!Next]_L!vars
  <2>1. /\ place[e] = "none" /\ place'[e] = "queued"
        /\ \A d \in Entries : d # e => place'[d] = place[d]
        /\ UNCHANGED <<deliveries, running, acked>>
    BY <1>1 DEF Enqueue, TypeOK, tasks
  <2>2. \A d \in Entries : HeldBy(d)' = HeldBy(d)
    BY <2>1 DEF HeldBy
  <2>3. \A d \in Entries : d # e => Phase'[d] = Phase[d] /\ Holder'[d] = Holder[d]
    BY <2>1, <2>2, SameView
  <2>4. HeldBy(e) = {}
    BY <2>1, <1>t DEF HeldBy, OwnershipInv, RunningIsOwned
  <2>5. Phase[e] = "absent" /\ Phase'[e] = "waiting" /\ Holder'[e] = Holder[e]
    BY <2>1, <2>2, <2>4 DEF ViewOK
  <2>6. Phase' = [Phase EXCEPT ![e] = "waiting"] /\ Holder' = Holder
    BY <2>3, <2>5 DEF ViewOK
  <2>7. L!Arrive(e)
    BY <2>1, <2>5, <2>6 DEF L!Arrive
  <2> QED BY <2>7 DEF L!Next
<1>2. ASSUME \/ \E e \in Entries : IdleElapses(e)
             \/ \E i \in 1..MaxId : AliveExpires(i)
             \/ UNCHANGED vars
      PROVE  [L!Next]_L!vars
  <2>1. UNCHANGED <<place, deliveries, running, acked>>
    BY <1>2 DEF IdleElapses, AliveExpires, vars, redis, tasks
  <2> QED BY <2>1, StutterView
<1>3. ASSUME NEW w \in Workers,
             \/ Start(w) \/ Signal(w) \/ DrainTimeout(w) \/ SecondSignal(w) \/ Drain(w)
             \/ AskForWork(w) \/ WaitForSlot(w) \/ Wake(w) \/ ReadNothing(w)
             \/ TakeSlots(w) \/ ReadFails(w) \/ MarkFails(w)
             \/ ListPending(w) \/ Skip(w) \/ ClaimRefused(w) \/ BuryWrite(w)
             \/ ReclaimFails(w) \/ \E e \in Entries : HandBack(w, e)
      PROVE  [L!Next]_L!vars
  <2>1. UNCHANGED <<place, deliveries, running, acked>>
    <3>1. CASE \/ Start(w) \/ Signal(w) \/ DrainTimeout(w) \/ SecondSignal(w) \/ Drain(w)
               \/ AskForWork(w) \/ WaitForSlot(w) \/ Wake(w) \/ ReadNothing(w)
      BY <3>1 DEF Start, Signal, DrainTimeout, SecondSignal, CutOff, Drain, AskForWork,
         WaitForSlot, Wake, ReadNothing, redis, tasks
    <3>2. CASE \/ TakeSlots(w) \/ ReadFails(w) \/ MarkFails(w)
               \/ ListPending(w) \/ Skip(w) \/ ClaimRefused(w) \/ BuryWrite(w)
               \/ ReclaimFails(w) \/ \E e \in Entries : HandBack(w, e)
      BY <3>2 DEF TakeSlots, ReadFails, MarkFails, ListPending, Skip, ClaimRefused,
         BuryWrite, ReclaimFails, HandBack, redis, tasks
    <3> QED BY <1>3, <3>1, <3>2
  <2> QED BY <2>1, StutterView
<1>4. ASSUME NEW w \in Workers, ServeSome(w) PROVE [L!Next]_L!vars
  <2>1. PICK R \in ReadSets, T \in SUBSET Queued : Serve(w, R, T)
    BY <1>4 DEF ServeSome
  <2>2. T \subseteq Entries /\ \A e \in T : place[e] = "queued"
    BY DEF Queued
  <2>3. \A e \in T : HeldBy(e) = {}
    BY <1>t, <2>2 DEF HeldBy, OwnershipInv, RunningIsOwned
  <2>4. \A e \in T : Bump(deliveries[e]) = 1
    <3>1. \A e \in T : deliveries[e] = 0
      BY <1>t, <2>2 DEF CountInv, CountedFromRead
    <3> QED BY <1>t, <3>1 DEF Bump, Ceiling
  <2>5. /\ deliveries' = [e \in Entries |-> IF e \in T THEN Bump(deliveries[e])
                                                       ELSE deliveries[e]]
        /\ \A e \in T : place'[e] = "pending"
        /\ \A e \in Entries \ T : place'[e] = place[e]
        /\ UNCHANGED <<running, acked>>
    BY <2>1, <2>2, <2>4 DEF Serve, tasks
  <2>6. L!Try(T)
    BY <2>2, <2>3, <2>5, TryView
  <2> QED BY <2>2, <2>6 DEF L!Next
<1>5. ASSUME NEW w \in Workers, MarkAlive(w) PROVE [L!Next]_L!vars
  <2>1. /\ UNCHANGED <<place, deliveries>> /\ acked' = acked
        /\ running' = [running EXCEPT ![w] = @ \cup batch[w]]
    BY <1>5 DEF MarkAlive, Spawn
  <2>2. \A e \in batch[w] :
            /\ e \in Entries /\ place[e] = "pending" /\ owner[e] = w
            /\ e \notin running[w] /\ deliveries[e] = 1
    BY <1>t DEF OwnershipInv, ServedIsOwned, CountInv, CountedFromRead
  <2>3. \A e \in batch[w] : HeldBy(e) = {}
    BY <1>t, <2>2 DEF HeldBy, OwnershipInv, RunningIsOwned
  <2>4. \A v \in Workers : running'[v] \ acked'[v] =
            IF v = w THEN (running[w] \ acked[w]) \cup batch[w] ELSE running[v] \ acked[v]
    <3>1. \A e \in batch[w] : e \notin acked[w]
      BY <1>t, <2>2 DEF OwnershipInv, AckedIsRunning
    <3> QED BY <2>1, <3>1 DEF TypeOK
  <2>5. 1 \in 1..(MaxDeliveries + 1)
    BY <1>t
  <2>6. batch[w] \in SUBSET Entries
    BY <1>t
  <2>7. L!Hold(w, batch[w])
    BY <2>1, <2>2, <2>3, <2>4, <2>5, <2>6, HoldView
  <2> QED BY <2>6, <2>7 DEF L!Next
<1>6. ASSUME NEW w \in Workers, Claim(w) PROVE [L!Next]_L!vars
  <2>1. PICK c \in cands[w] :
            /\ IsNext(c, w) /\ Claimable(c.entry)
            /\ deliveries' = [deliveries EXCEPT ![c.entry] = Bump(@)]
    BY <1>6 DEF Claim
  <2>2. UNCHANGED <<place, running, acked>> /\ c.entry \in Entries
    BY <1>6, <1>t DEF Claim, tasks
  <2>3. place[c.entry] = "pending" /\ Id(c.entry) \notin alive
    BY <2>1 DEF Claimable
  <2>4. HeldBy(c.entry) = {}
    BY <1>t, <2>3 DEF HeldBy, OwnershipInv, RunningIsOwned
  <2>5. deliveries' = [e \in Entries |-> IF e \in {c.entry} THEN Bump(deliveries[e])
                                                            ELSE deliveries[e]]
    BY <2>1, <2>2 DEF TypeOK
  <2>6. L!Try({c.entry})
    BY <2>2, <2>3, <2>4, <2>5, TryView
  <2> QED BY <2>2, <2>6 DEF L!Next
<1>7. ASSUME NEW w \in Workers, TakeClaimed(w) PROVE [L!Next]_L!vars
  <2>1. PICK c \in cands[w] :
            /\ IsNext(c, w) /\ ~OverDelivered(c) /\ rpc[w] = "claimed"
            /\ running' = [running EXCEPT ![w] = @ \cup {c.entry}]
    BY <1>7 DEF TakeClaimed, Spawn
  <2>2. UNCHANGED <<place, deliveries, acked>> /\ c.entry \in Entries
    BY <1>7, <1>t DEF TakeClaimed, Spawn, redis
  <2>3. /\ place[c.entry] = "pending" /\ c.entry \notin acked[w]
        /\ deliveries[c.entry] = Bump(c.delivered)
    BY <1>t, <2>1 DEF OwnershipInv, ClaimedIsOwned, AckedIsRunning, CountInv,
       ClaimedIsCounted
  <2>4. deliveries[c.entry] \in 1..(MaxDeliveries + 1)
    <3>1. c.delivered \in Nat /\ c.delivered <= MaxDeliveries
      BY <1>t, <2>1 DEF OverDelivered, TypeOK, Candidate, Ceiling
    <3> QED BY <1>t, <2>3, <3>1 DEF Bump, Ceiling
  <2>5. HeldBy(c.entry) = {}
    BY <1>t, <2>1, ClaimedIsFree DEF HeldBy
  <2>6. \A v \in Workers : running'[v] \ acked'[v] =
            IF v = w THEN (running[w] \ acked[w]) \cup {c.entry}
                     ELSE running[v] \ acked[v]
    BY <2>1, <2>2, <2>3 DEF TypeOK
  <2>7. L!Hold(w, {c.entry})
    BY <2>2, <2>3, <2>4, <2>5, <2>6, HoldView
  <2> QED BY <2>2, <2>7 DEF L!Next
<1>8. ASSUME NEW w \in Workers, BuryAck(w) PROVE [L!Next]_L!vars
  <2>1. PICK c \in cands[w] :
            IsNext(c, w) /\ rpc[w] = "buried" /\ AckScript(c.entry, "buried")
    BY <1>8 DEF BuryAck
  <2>2. UNCHANGED <<running, acked>> /\ c.entry \in Entries
    BY <1>8, <1>t DEF BuryAck, tasks
  <2>3. /\ place[c.entry] = "pending" /\ OverDelivered(c)
        /\ deliveries[c.entry] = Bump(c.delivered)
    BY <1>t, <2>1 DEF OwnershipInv, ClaimedIsOwned, CountInv, ClaimedIsCounted
  <2>4. deliveries[c.entry] > MaxDeliveries
    <3>1. c.delivered \in Nat /\ c.delivered > MaxDeliveries
      BY <2>1, <2>3, <1>t DEF OverDelivered, TypeOK, Candidate, Ceiling
    <3> QED BY <1>t, <2>3, <3>1 DEF Bump, Ceiling
  <2>5. HeldBy(c.entry) = {}
    BY <1>t, <2>1, ClaimedIsFree DEF HeldBy
  <2>6. \A d \in Entries : HeldBy(d)' = HeldBy(d)
    BY <2>2 DEF HeldBy
  <2>7. L!Settle(c.entry, "dead")
    <3>1. L!Settle(c.entry, IF "buried" = "done" THEN "done" ELSE "dead")
      BY <2>1, <2>2, <2>3, <2>5, <2>6, SettleView
    <3> QED BY <3>1
  <2>8. Phase[c.entry] = "waiting"
    BY <2>2, <2>3, <2>5 DEF ViewOK
  <2> QED BY <2>2, <2>4, <2>7, <2>8 DEF L!GiveUp, L!Next
<1>9. ASSUME NEW w \in Workers, NEW e \in Entries, Ack(w, e) PROVE [L!Next]_L!vars
  <2>1. /\ AckScript(e, "done") /\ e \in running[w] /\ e \notin acked[w]
        /\ acked' = [acked EXCEPT ![w] = @ \cup {e}] /\ running' = running
    BY <1>9 DEF Ack
  <2>2. place[e] = "pending"
    BY <1>t, <2>1 DEF OwnershipInv, RunningIsOwned
  <2>3. w \in HeldBy(e)
    BY <2>1 DEF HeldBy
  <2>4. \A d \in Entries : HeldBy(d)' = IF d = e THEN HeldBy(e) \ {w} ELSE HeldBy(d)
    BY <2>1 DEF HeldBy, TypeOK
  <2>5. HeldBy(e)' = {} /\ Phase[e] = "held"
    BY <2>3, <2>4 DEF ViewOK
  <2>6. L!Settle(e, "done")
    <3>1. \A d \in Entries : d # e => HeldBy(d)' = HeldBy(d)
      BY <2>4
    <3>2. AckScript(e, "done") /\ HeldBy(e)' = {}
      BY <2>1, <2>5
    <3>3. L!Settle(e, IF "done" = "done" THEN "done" ELSE "dead")
      BY <2>2, <3>1, <3>2, SettleView
    <3> QED BY <3>3
  <2> QED BY <2>5, <2>6 DEF L!Finish, L!Next
<1>10. ASSUME NEW w \in Workers, NEW e \in Entries,
              \/ Return(w, e) \/ BrokerFails(w, e) \/ RecoveryFails(w, e)
              \/ Cancel(w, e) \/ CancelFails(w, e)
       PROVE  [L!Next]_L!vars
  <2>1. e \in running[w] /\ EndTask(w, e) /\ UNCHANGED <<place, deliveries>>
    BY <1>10, <1>t DEF Return, BrokerFails, RecoveryFails, Cancel, CancelFails, redis,
       OwnershipInv, AckedIsRunning
  <2> QED BY <1>t, <2>1, EndTaskLease
<1>11. ASSUME NEW w \in Workers, Crash(w) \/ Stopped(w) PROVE [L!Next]_L!vars
  <2>1. /\ UNCHANGED <<place, deliveries>>
        /\ running' = [running EXCEPT ![w] = {}] /\ acked' = [acked EXCEPT ![w] = {}]
    BY <1>11 DEF Crash, Stopped, Gone, redis
  <2>2. \A v \in Workers : running'[v] \ acked'[v] =
            IF v = w THEN (running[w] \ acked[w]) \ (running[w] \ acked[w])
                     ELSE running[v] \ acked[v]
    BY <2>1 DEF TypeOK
  <2>3. running[w] \ acked[w] \in SUBSET Entries
    BY <1>t
  <2>4. \A e \in running[w] \ acked[w] : place[e] = "pending"
    BY <1>t DEF OwnershipInv, RunningIsOwned
  <2>5. L!Lose(w, running[w] \ acked[w])
    BY <2>1, <2>2, <2>3, <2>4, LoseView
  <2> QED BY <2>3, <2>5 DEF L!Next
<1> QED
  BY <1>1, <1>2, <1>3, <1>4, <1>5, <1>6, <1>7, <1>8, <1>9, <1>10, <1>11
  DEF Next, ConsumeStep, ReclaimStep, TaskStep, ShutdownStep

LEMMA LeaseInit == Init => L!Init
<1> SUFFICES ASSUME Init PROVE L!Init
  OBVIOUS
<1>1. \A e \in Entries : HeldBy(e) = {} /\ place[e] = "none" /\ deliveries[e] = 0
  BY DEF Init, HeldBy
<1>2. Phase = [e \in Entries |-> "absent"] /\ Holder = [e \in Entries |-> NoOne]
  BY <1>1 DEF Phase, Holder
<1> QED BY <1>2 DEF Init, L!Init

(* Streams, alive keys, XCLAIM and the ack script implement the lease: for  *)
(* any number of workers, streams, entries, crashes, restarts and failed    *)
(* commands, an entry has at most one holder, only its holder settles it as *)
(* done, it is handed out before it is held, and it is given up only after  *)
(* more than MaxDeliveries tries and while nobody holds it                  *)
(* (design.md, "Delivery guarantee").                                       *)
THEOREM DeliveryIsALease ==
    ASSUME Stallers = {}, Coincide = FALSE
    PROVE  Spec => ImplementsLease
<1>1. TypeOK /\ TypeOK' /\ DeliveryInv /\ ViewOK /\ ViewOK' /\ [Next]_vars
          => [L!Next]_L!vars
  BY LeaseStep
<1>2. TypeOK /\ DeliveryInv => ViewOK
  BY View DEF DeliveryInv
<1> QED BY <1>1, <1>2, LeaseInit, Counted, TypeCorrect, PTL
        DEF Spec, ImplementsLease, L!Spec
=============================================================================
