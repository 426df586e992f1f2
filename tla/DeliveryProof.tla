--------------------------- MODULE DeliveryProof ---------------------------
(***************************************************************************)
(* Proofs about module Delivery, for every value of its constants.         *)
(***************************************************************************)
EXTENDS DeliveryProps, FiniteSetTheorems, TLAPS

(* A worker's free slots are between none and all of them (credits,         *)
(* worker.py:89-91).                                                        *)
LEMMA FreeType ==
    ASSUME TypeOK, NEW w \in Workers
    PROVE  Free(w) \in 0..Concurrency
<1>1. IsFiniteSet(1..MaxId)
  BY FS_Interval, ConstantsAssumption
<1>2. ids[w] \subseteq 1..MaxId
  BY DEF TypeOK
<1>3. Cardinality(ids[w]) \in Nat
  BY <1>1, <1>2, FS_Subset, FS_CardinalityType
<1> QED BY <1>3, ConstantsAssumption DEF Free

(* A saturating counter stays in its range.                                 *)
LEMMA BumpType == \A n \in 0..Ceiling : Bump(n) \in 0..Ceiling
BY ConstantsAssumption DEF Bump, Ceiling

(* What a listing records of an entry is a row of the pending list.         *)
LEMMA RowType == TypeOK => \A e \in Entries : Row(e) \in Candidate
BY DEF TypeOK, Row, Candidate

(* Entries are pairs of a stream and an id; their ids name alive keys.      *)
LEMMA IdType ==
    /\ \A e \in Entries : Id(e) \in 1..MaxId
    /\ \A S \in SUBSET Entries : Ids(S) \subseteq 1..MaxId
BY DEF Entries, Id, Ids

(* Before is a strict order on entries, so a listing has one next row.      *)
LEMMA OneNext ==
    ASSUME TypeOK, NEW w \in Workers, NEW c, NEW d, IsNext(c, w), IsNext(d, w)
    PROVE  c = d
<1>1. c \in Candidate /\ d \in Candidate
  BY DEF TypeOK, IsNext
<1>2. c.entry \in Entries /\ d.entry \in Entries
  BY <1>1 DEF Candidate
<1>3. \A x \in Entries : x[1] \in Nat /\ x[2] \in Nat
  <2>1. Streams \subseteq Nat /\ MaxId \in Nat
    BY ConstantsAssumption
  <2> SUFFICES ASSUME NEW x \in Entries PROVE x[1] \in Nat /\ x[2] \in Nat
    OBVIOUS
  <2>2. x[1] \in Streams /\ x[2] \in 1..MaxId
    BY DEF Entries
  <2>3. (\A s \in Streams : s \in Nat) /\ (\A i \in 1..MaxId : i \in Nat)
    BY <2>1
  <2> QED BY <2>2, <2>3
<1>4. ~(Before(c.entry, d.entry) /\ Before(d.entry, c.entry))
  BY <1>2, <1>3 DEF Before
<1> QED BY <1>4 DEF IsNext

-----------------------------------------------------------------------------
(* Type correctness.                                                       *)

(* The ack script keeps Redis well typed.                                   *)
LEMMA AckType ==
    ASSUME TypeOK, NEW e \in Entries, NEW how \in {"done", "buried"},
           AckScript(e, how)
    PROVE  /\ place' \in [Entries -> {"none", "queued", "pending", "done", "buried"}]
           /\ owner' \in [Entries -> Workers \cup {NoOne}]
           /\ deliveries' \in [Entries -> 0..Ceiling]
           /\ ripe' \in [Entries -> BOOLEAN]
           /\ alive' \subseteq 1..MaxId
           /\ dlq' \subseteq Entries
<1>1. 0 \in 0..Ceiling
  BY ConstantsAssumption DEF Ceiling
<1>2. CASE place[e] = "pending"
  BY <1>1, <1>2 DEF AckScript, TypeOK
<1>3. CASE place[e] # "pending"
  BY <1>3 DEF AckScript, TypeOK
<1> QED BY <1>2, <1>3

LEMMA TypeInit == Init => TypeOK
BY ConstantsAssumption DEF Init, TypeOK, Ceiling

LEMMA TypeStep == TypeOK /\ [Next]_vars => TypeOK'
<1> SUFFICES ASSUME TypeOK, [Next]_vars PROVE TypeOK'
  OBVIOUS
<1>1. ASSUME NEW e \in Entries, Enqueue(e) PROVE TypeOK'
  BY <1>1 DEF TypeOK, Enqueue,
     redis, slots, consume, reclaim, tasks, life
<1>2. ASSUME NEW e \in Entries, IdleElapses(e) PROVE TypeOK'
  BY <1>2 DEF TypeOK, IdleElapses,
     redis, slots, consume, reclaim, tasks, life
<1>3. ASSUME NEW i \in 1..MaxId, AliveExpires(i) PROVE TypeOK'
  BY <1>3 DEF TypeOK, AliveExpires,
     redis, slots, consume, reclaim, tasks, life
<1>4. ASSUME NEW w \in Workers, Start(w) PROVE TypeOK'
  <2>1. PICK T \in SUBSET Pending :
            recoverable' = [recoverable EXCEPT ![w] =
                                Ids({e \in T : owner[e] = w})]
    BY <1>4 DEF Start
  <2>2. {e \in T : owner[e] = w} \in SUBSET Entries
    BY DEF Pending
  <2>3. Ids({e \in T : owner[e] = w}) \subseteq 1..MaxId
    BY <2>2, IdType
  <2> QED BY <1>4, <2>1, <2>3 DEF TypeOK, Start, redis, tasks
<1>5. ASSUME NEW w \in Workers, Signal(w) PROVE TypeOK'
  BY <1>5 DEF TypeOK, Signal,
     redis, slots, consume, reclaim, tasks, life
<1>6. ASSUME NEW w \in Workers, DrainTimeout(w) PROVE TypeOK'
  BY <1>6, ConstantsAssumption DEF TypeOK, DrainTimeout, CutOff,
     redis, slots, consume, reclaim, tasks, life
<1>7. ASSUME NEW w \in Workers, SecondSignal(w) PROVE TypeOK'
  BY <1>7, ConstantsAssumption DEF TypeOK, SecondSignal, CutOff,
     redis, slots, consume, reclaim, tasks, life
<1>8. ASSUME NEW w \in Workers, Crash(w) PROVE TypeOK'
  BY <1>8, ConstantsAssumption DEF TypeOK, Crash, Gone, Live,
     redis, slots, consume, reclaim, tasks, life
<1>9. ASSUME NEW w \in Workers, AskForWork(w) PROVE TypeOK'
  BY <1>9, FreeType DEF TypeOK, AskForWork,
     redis, slots, consume, reclaim, tasks, life
<1>10. ASSUME NEW w \in Workers, WaitForSlot(w) PROVE TypeOK'
  BY <1>10 DEF TypeOK, WaitForSlot,
     redis, slots, consume, reclaim, tasks, life
<1>11. ASSUME NEW w \in Workers, Wake(w) PROVE TypeOK'
  BY <1>11 DEF TypeOK, Wake,
     redis, slots, consume, reclaim, tasks, life
<1>12. ASSUME NEW w \in Workers, ServeSome(w) PROVE TypeOK'
  <2>1. PICK R \in ReadSets, T \in SUBSET Queued : Serve(w, R, T)
    BY <1>12 DEF ServeSome
  <2>2. T \subseteq Entries /\ 1 \in 0..Ceiling /\ 0 \in 0..Concurrency
    BY ConstantsAssumption DEF Queued, Ceiling
  <2> QED BY <2>1, <2>2 DEF TypeOK, Serve, slots, reclaim, tasks, life
<1>13. ASSUME NEW w \in Workers, ReadNothing(w) PROVE TypeOK'
  BY <1>13, ConstantsAssumption DEF TypeOK, ReadNothing,
     redis, slots, consume, reclaim, tasks, life
<1>14. ASSUME NEW w \in Workers, TakeSlots(w) PROVE TypeOK'
  BY <1>14, IdType DEF TypeOK, TakeSlots,
     redis, slots, consume, reclaim, tasks, life
<1>15. ASSUME NEW w \in Workers, MarkAlive(w) PROVE TypeOK'
  BY <1>15, IdType, BumpType DEF TypeOK, MarkAlive, Spawn,
     redis, slots, consume, reclaim, tasks, life
<1>16. ASSUME NEW w \in Workers, ReadFails(w) PROVE TypeOK'
  BY <1>16, ConstantsAssumption DEF TypeOK, ReadFails, Fault,
     redis, slots, consume, reclaim, tasks, life
<1>17. ASSUME NEW w \in Workers, MarkFails(w) PROVE TypeOK'
  <2>1. alive' \subseteq 1..MaxId
    BY <1>17, IdType DEF MarkFails, TypeOK
  <2>2. faults' \in 0..MaxFaults
    BY <1>17, ConstantsAssumption DEF MarkFails, Fault, TypeOK
  <2> QED BY <1>17, <2>1, <2>2 DEF TypeOK, MarkFails, reclaim, tasks, life
<1>18. ASSUME NEW w \in Workers, ListPending(w) PROVE TypeOK'
  <2>1. PICK T \in SUBSET {e \in Pending : ripe[e]} :
            cands' = [cands EXCEPT ![w] = {Row(e) : e \in T}]
    BY <1>18 DEF ListPending
  <2>2. \A e \in T : Row(e) \in Candidate
    BY RowType DEF Pending
  <2>3. {Row(e) : e \in T} \in SUBSET Candidate
    BY <2>2
  <2> QED BY <1>18, <2>1, <2>3 DEF TypeOK, ListPending, redis, slots, consume,
              tasks, life
<1>19. ASSUME NEW w \in Workers, Skip(w) PROVE TypeOK'
  BY <1>19 DEF TypeOK, Skip,
     redis, slots, consume, reclaim, tasks, life
<1>20. ASSUME NEW w \in Workers, ClaimRefused(w) PROVE TypeOK'
  BY <1>20 DEF TypeOK, ClaimRefused,
     redis, slots, consume, reclaim, tasks, life
<1>21. ASSUME NEW w \in Workers, Claim(w) PROVE TypeOK'
  <2>1. PICK c \in cands[w] :
            /\ recoverable' = [recoverable EXCEPT ![w] = @ \ {Id(c.entry)}]
            /\ owner' = [owner EXCEPT ![c.entry] = w]
            /\ deliveries' = [deliveries EXCEPT ![c.entry] = Bump(@)]
            /\ ripe' = [ripe EXCEPT ![c.entry] = FALSE]
            /\ alive' = alive \cup {Id(c.entry)}
    BY <1>21 DEF Claim
  <2>2. c.entry \in Entries
    BY DEF TypeOK, Candidate
  <2>3. Bump(deliveries[c.entry]) \in 0..Ceiling
    BY <2>2, BumpType DEF TypeOK
  <2>4. Id(c.entry) \in 1..MaxId
    BY <2>2, IdType
  <2> QED BY <1>21, <2>1, <2>2, <2>3, <2>4 DEF TypeOK, Claim, consume, tasks, life
<1>22. ASSUME NEW w \in Workers, TakeClaimed(w) PROVE TypeOK'
  BY <1>22, IdType, BumpType DEF TypeOK, TakeClaimed, Spawn, Candidate, IsNext,
     redis, slots, consume, reclaim, tasks, life
<1>23. ASSUME NEW w \in Workers, BuryWrite(w) PROVE TypeOK'
  BY <1>23 DEF TypeOK, BuryWrite, Candidate, IsNext,
     redis, slots, consume, reclaim, tasks, life
<1>24. ASSUME NEW w \in Workers, BuryAck(w) PROVE TypeOK'
  <2>1. PICK c \in cands[w] :
            /\ AckScript(c.entry, "buried")
            /\ cands' = [cands EXCEPT ![w] = @ \ {c}]
    BY <1>24 DEF BuryAck
  <2>2. c.entry \in Entries
    BY DEF TypeOK, Candidate
  <2> QED BY <1>24, <2>1, <2>2, AckType DEF TypeOK, BuryAck, slots, consume,
              tasks, life
<1>25. ASSUME NEW w \in Workers, ReclaimFails(w) PROVE TypeOK'
  BY <1>25, ConstantsAssumption DEF TypeOK, ReclaimFails, Fault,
     redis, slots, consume, reclaim, tasks, life
<1>26. ASSUME NEW w \in Workers, Drain(w) PROVE TypeOK'
  BY <1>26 DEF TypeOK, Drain,
     redis, slots, consume, reclaim, tasks, life
<1>27. ASSUME NEW w \in Workers, Stopped(w) PROVE TypeOK'
  BY <1>27, ConstantsAssumption DEF TypeOK, Stopped, Gone,
     redis, slots, consume, reclaim, tasks, life
<1>28. ASSUME NEW w \in Workers, NEW e \in Entries, HandBack(w, e) PROVE TypeOK'
  BY <1>28, IdType DEF TypeOK, HandBack,
     redis, slots, consume, reclaim, tasks, life
<1>29. ASSUME NEW w \in Workers, NEW e \in Entries, Ack(w, e) PROVE TypeOK'
  <2>1. AckScript(e, "done")
    BY <1>29 DEF Ack
  <2> QED BY <1>29, <2>1, AckType DEF TypeOK, Ack, slots, consume, reclaim, life
<1>30. ASSUME NEW w \in Workers, NEW e \in Entries, Return(w, e) PROVE TypeOK'
  BY <1>30 DEF TypeOK, Return, EndTask,
     redis, slots, consume, reclaim, tasks, life
<1>31. ASSUME NEW w \in Workers, NEW e \in Entries, BrokerFails(w, e) PROVE TypeOK'
  BY <1>31 DEF TypeOK, BrokerFails, EndTask,
     redis, slots, consume, reclaim, tasks, life
<1>32. ASSUME NEW w \in Workers, NEW e \in Entries, RecoveryFails(w, e) PROVE TypeOK'
  BY <1>32, ConstantsAssumption DEF TypeOK, RecoveryFails, EndTask, Fault,
     redis, slots, consume, reclaim, tasks, life
<1>33. ASSUME NEW w \in Workers, NEW e \in Entries, Cancel(w, e) PROVE TypeOK'
  BY <1>33 DEF TypeOK, Cancel, EndTask,
     redis, slots, consume, reclaim, tasks, life
<1>34. ASSUME NEW w \in Workers, NEW e \in Entries, CancelFails(w, e) PROVE TypeOK'
  BY <1>34, ConstantsAssumption DEF TypeOK, CancelFails, EndTask, Fault,
     redis, slots, consume, reclaim, tasks, life
<1>35. CASE UNCHANGED vars
  BY <1>35 DEF TypeOK, vars, redis, slots, consume, reclaim, tasks, life
<1> QED
  BY <1>1, <1>2, <1>3, <1>4, <1>5, <1>6, <1>7, <1>8, <1>9, <1>10, <1>11,
     <1>12, <1>13, <1>14, <1>15, <1>16, <1>17, <1>18, <1>19, <1>20, <1>21,
     <1>22, <1>23, <1>24, <1>25, <1>26, <1>27, <1>28, <1>29, <1>30, <1>31,
     <1>32, <1>33, <1>34, <1>35 DEF Next, ConsumeStep, ReclaimStep,
     TaskStep, ShutdownStep

(* Every variable stays in its range: the saturated counters never pass the *)
(* ceiling, and what a worker holds are entries, ids and rows.              *)
THEOREM TypeCorrect == Spec => []TypeOK
BY TypeInit, TypeStep, PTL DEF Spec
-----------------------------------------------------------------------------
(* Ownership.                                                               *)

(* A worker that holds anything is running, so it is punctual if none stall. *)
LEMMA HoldersArePunctual ==
    ASSUME TypeOK, LoopsFollowMode, Stallers = {}, NEW w \in Workers,
           ids[w] # {} \/ batch[w] # {} \/ cands[w] # {}
    PROVE  Punctual(w)
BY DEF TypeOK, LoopsFollowMode, Punctual, Live

(* No two entries in hand share an id.                                      *)
LEMMA DistinctInHand ==
    ASSUME TypeOK, OwnershipInv, NEW v \in Workers, NEW w \in Workers,
           NEW d \in running[v], NEW e \in running[w] \cup batch[w], Id(d) = Id(e)
    PROVE  d = e
<1>1. d \in Entries /\ e \in Entries
  BY DEF TypeOK
<1>2. place[d] # "none" /\ place[e] # "none"
  BY DEF OwnershipInv, RunningIsOwned, ServedIsOwned
<1> QED BY <1>1, <1>2 DEF OwnershipInv, UniqueIds

(* What a reclaim loop has claimed is in nobody's slots.                    *)
LEMMA ClaimedIsFree ==
    ASSUME TypeOK, OwnershipInv, NEW v \in Workers, NEW w \in Workers,
           rpc[w] \in {"claimed", "buried"}, NEW c \in cands[w], IsNext(c, w)
    PROVE  \A d \in running[v] : Id(d) # Id(c.entry)
<1>1. c.entry \in Entries
  BY DEF TypeOK, Candidate
<1>2. /\ place[c.entry] = "pending" /\ owner[c.entry] = w
      /\ c.entry \notin running[w]
  BY DEF OwnershipInv, ClaimedIsOwned
<1> SUFFICES ASSUME NEW d \in running[v], Id(d) = Id(c.entry) PROVE FALSE
  OBVIOUS
<1>3. d \in Entries /\ place[d] # "none"
  BY DEF TypeOK, OwnershipInv, RunningIsOwned
<1>4. d = c.entry
  BY <1>1, <1>2, <1>3 DEF OwnershipInv, UniqueIds
<1>5. owner[d] = v
  BY <1>2, <1>4 DEF OwnershipInv, RunningIsOwned
<1> QED BY <1>2, <1>4, <1>5

(* A task ends: nothing else this worker or a peer holds is touched.        *)
LEMMA EndTaskKeeps ==
    ASSUME TypeOK, OwnershipInv, NEW w \in Workers, NEW e \in running[w],
           EndTask(w, e), alive' = alive \/ alive' = alive \ {Id(e)},
           UNCHANGED <<place, owner, ripe, mode, consume, reclaim>>
    PROVE  OwnershipInv'
<1>1. \A v \in Workers : \A d \in running[v] \cup batch[v] :
          d # e => Id(d) # Id(e)
  BY DistinctInHand
<1>2. \A v \in Workers : \A c \in cands[v] :
          rpc[v] \in {"claimed", "buried"} /\ IsNext(c, v) => Id(c.entry) # Id(e)
  BY ClaimedIsFree
<1>3. \A v \in Workers : v # w => e \notin running[v]
  BY DEF OwnershipInv, ExclusiveExecution, TypeOK
<1>4. UniqueIds' /\ LoopsFollowMode' /\ AckedIsRunning' /\ ExclusiveExecution'
  BY DEF TypeOK, OwnershipInv, UniqueIds, LoopsFollowMode, AckedIsRunning,
         ExclusiveExecution, EndTask, consume, reclaim
<1>5. ServedIsOwned'
  <2>1. e \notin batch[w]
    BY DEF OwnershipInv, ServedIsOwned
  <2> QED BY <1>1, <2>1 DEF TypeOK, OwnershipInv, ServedIsOwned, EndTask, consume
<1>6. ClaimedIsOwned'
  BY <1>2 DEF TypeOK, OwnershipInv, ClaimedIsOwned, EndTask, IsNext, consume,
              reclaim
<1>7. RunningIsOwned'
  BY <1>1, <1>3 DEF TypeOK, OwnershipInv, RunningIsOwned, AckedIsRunning, EndTask
<1>8. NoSlotLeaks'
  BY DEF TypeOK, OwnershipInv, NoSlotLeaks, EndTask, Working, consume
<1> QED BY <1>4, <1>5, <1>6, <1>7, <1>8 DEF OwnershipInv

(* The ack script touches the entry it is given and no other in hand.       *)
LEMMA AckKeepsOthers ==
    ASSUME TypeOK, OwnershipInv, NEW e \in Entries, NEW how,
           AckScript(e, how), place[e] = "pending"
    PROVE  \A d \in Entries : d # e =>
               /\ place'[d] = place[d] /\ owner'[d] = owner[d] /\ ripe'[d] = ripe[d]
               /\ place[d] # "none" => (Id(d) \in alive' <=> Id(d) \in alive)
<1>1. \A d \in Entries : d # e /\ place[d] # "none" => Id(d) # Id(e)
  BY DEF OwnershipInv, UniqueIds
<1> QED BY <1>1 DEF AckScript, TypeOK

(* Every step keeps what workers have in hand theirs.                       *)
LEMMA OwnershipStep ==
    ASSUME Stallers = {}, Coincide = FALSE
    PROVE  TypeOK /\ OwnershipInv /\ [Next]_vars => OwnershipInv'
<1> SUFFICES ASSUME TypeOK, TypeOK', OwnershipInv, [Next]_vars PROVE OwnershipInv'
  BY TypeStep
<1>1. ASSUME NEW e \in Entries, Enqueue(e) PROVE OwnershipInv'
  BY <1>1 DEF TypeOK, OwnershipInv, UniqueIds, LoopsFollowMode,
     ServedIsOwned, ClaimedIsOwned, RunningIsOwned, AckedIsRunning,
     ExclusiveExecution, NoSlotLeaks, Enqueue, IsNext, Candidate, Ids,
     Working, redis, slots, consume, reclaim, tasks, life
<1>2. ASSUME NEW e \in Entries, IdleElapses(e) PROVE OwnershipInv'
  <2>1. \A w \in Workers : e \notin batch[w] /\ \A c \in cands[w] : c.entry # e
    BY <1>2, HoldersArePunctual DEF IdleElapses, InTransit, OwnershipInv
  <2>2. ServedIsOwned' /\ ClaimedIsOwned'
    BY <1>2, <2>1 DEF TypeOK, OwnershipInv, ServedIsOwned, ClaimedIsOwned,
       IdleElapses, IsNext, slots, consume, reclaim, tasks, life
  <2>3. /\ UniqueIds' /\ LoopsFollowMode' /\ RunningIsOwned' /\ AckedIsRunning'
        /\ ExclusiveExecution' /\ NoSlotLeaks'
    BY <1>2 DEF OwnershipInv, UniqueIds, LoopsFollowMode, RunningIsOwned,
       AckedIsRunning, ExclusiveExecution, NoSlotLeaks, Working, IdleElapses,
       slots, consume, reclaim, tasks, life
  <2> QED BY <2>2, <2>3 DEF OwnershipInv
<1>3. ASSUME NEW i \in 1..MaxId, AliveExpires(i) PROVE OwnershipInv'
  <2>1. \A w \in Workers : i \notin ids[w]
    BY <1>3, HoldersArePunctual DEF AliveExpires, Refreshed, OwnershipInv
  <2>2. \A w \in Workers : \A c \in cands[w] :
            rpc[w] \in {"claimed", "buried"} /\ IsNext(c, w) => Id(c.entry) # i
    BY <1>3, HoldersArePunctual DEF AliveExpires, Refreshed, OwnershipInv
  <2>3. RunningIsOwned' /\ ClaimedIsOwned'
    BY <1>3, <2>1, <2>2 DEF TypeOK, OwnershipInv, RunningIsOwned, ClaimedIsOwned,
       AliveExpires, IsNext, slots, consume, reclaim, tasks
  <2>4. /\ UniqueIds' /\ LoopsFollowMode' /\ ServedIsOwned' /\ AckedIsRunning'
        /\ ExclusiveExecution' /\ NoSlotLeaks'
    BY <1>3 DEF OwnershipInv, UniqueIds, LoopsFollowMode, ServedIsOwned,
       AckedIsRunning, ExclusiveExecution, NoSlotLeaks, Working, AliveExpires,
       slots, consume, reclaim, tasks, life
  <2> QED BY <2>3, <2>4 DEF OwnershipInv
<1>4. ASSUME NEW w \in Workers, Start(w) PROVE OwnershipInv'
  BY <1>4 DEF TypeOK, OwnershipInv, UniqueIds, LoopsFollowMode,
     ServedIsOwned, ClaimedIsOwned, RunningIsOwned, AckedIsRunning,
     ExclusiveExecution, NoSlotLeaks, Start, IsNext, Candidate, Ids,
     Working, redis, slots, consume, reclaim, tasks, life
<1>5. ASSUME NEW w \in Workers, Signal(w) PROVE OwnershipInv'
  BY <1>5 DEF TypeOK, OwnershipInv, UniqueIds, LoopsFollowMode,
     ServedIsOwned, ClaimedIsOwned, RunningIsOwned, AckedIsRunning,
     ExclusiveExecution, NoSlotLeaks, Signal, IsNext, Candidate, Ids,
     Working, redis, slots, consume, reclaim, tasks, life
<1>6. ASSUME NEW w \in Workers, DrainTimeout(w) PROVE OwnershipInv'
  BY <1>6 DEF TypeOK, OwnershipInv, UniqueIds, LoopsFollowMode,
     ServedIsOwned, ClaimedIsOwned, RunningIsOwned, AckedIsRunning,
     ExclusiveExecution, NoSlotLeaks, DrainTimeout, CutOff, IsNext,
     Candidate, Ids, Working, redis, slots, consume, reclaim, tasks, life
<1>7. ASSUME NEW w \in Workers, SecondSignal(w) PROVE OwnershipInv'
  BY <1>7 DEF TypeOK, OwnershipInv, UniqueIds, LoopsFollowMode,
     ServedIsOwned, ClaimedIsOwned, RunningIsOwned, AckedIsRunning,
     ExclusiveExecution, NoSlotLeaks, SecondSignal, CutOff, IsNext,
     Candidate, Ids, Working, redis, slots, consume, reclaim, tasks, life
<1>8. ASSUME NEW w \in Workers, Crash(w) PROVE OwnershipInv'
  BY <1>8 DEF TypeOK, OwnershipInv, UniqueIds, LoopsFollowMode,
     ServedIsOwned, ClaimedIsOwned, RunningIsOwned, AckedIsRunning,
     ExclusiveExecution, NoSlotLeaks, Crash, Gone, IsNext, Candidate, Ids,
     Working, redis, slots, consume, reclaim, tasks, life
<1>9. ASSUME NEW w \in Workers, AskForWork(w) PROVE OwnershipInv'
  BY <1>9 DEF TypeOK, OwnershipInv, UniqueIds, LoopsFollowMode,
     ServedIsOwned, ClaimedIsOwned, RunningIsOwned, AckedIsRunning,
     ExclusiveExecution, NoSlotLeaks, AskForWork, IsNext, Candidate, Ids,
     Working, redis, slots, consume, reclaim, tasks, life
<1>10. ASSUME NEW w \in Workers, WaitForSlot(w) PROVE OwnershipInv'
  BY <1>10 DEF TypeOK, OwnershipInv, UniqueIds, LoopsFollowMode,
     ServedIsOwned, ClaimedIsOwned, RunningIsOwned, AckedIsRunning,
     ExclusiveExecution, NoSlotLeaks, WaitForSlot, IsNext, Candidate, Ids,
     Working, redis, slots, consume, reclaim, tasks, life
<1>11. ASSUME NEW w \in Workers, Wake(w) PROVE OwnershipInv'
  BY <1>11 DEF TypeOK, OwnershipInv, UniqueIds, LoopsFollowMode,
     ServedIsOwned, ClaimedIsOwned, RunningIsOwned, AckedIsRunning,
     ExclusiveExecution, NoSlotLeaks, Wake, IsNext, Candidate, Ids, Working,
     redis, slots, consume, reclaim, tasks, life
<1>12. ASSUME NEW w \in Workers, ServeSome(w) PROVE OwnershipInv'
  <2>1. PICK R \in ReadSets, T \in SUBSET Queued : Serve(w, R, T)
    BY <1>12 DEF ServeSome
  <2>2. \A v \in Workers : \A e \in T :
            /\ e \in Entries /\ place[e] = "queued"
            /\ e \notin running[v] \cup batch[v]
    BY DEF Queued, TypeOK, OwnershipInv, RunningIsOwned, ServedIsOwned
  <2>3. UniqueIds' /\ LoopsFollowMode' /\ AckedIsRunning' /\ ExclusiveExecution'
    BY <2>1, <2>2 DEF TypeOK, OwnershipInv, UniqueIds, LoopsFollowMode,
       AckedIsRunning, ExclusiveExecution, Serve, slots, reclaim, tasks, life
  <2>4. ServedIsOwned'
    BY <2>1, <2>2 DEF TypeOK, OwnershipInv, ServedIsOwned, LoopsFollowMode,
       Serve, slots, tasks
  <2>5. ClaimedIsOwned'
    BY <2>1, <2>2 DEF TypeOK, OwnershipInv, ClaimedIsOwned, IsNext, Candidate,
       Serve, slots, reclaim, tasks
  <2>6. RunningIsOwned'
    BY <2>1, <2>2 DEF TypeOK, OwnershipInv, RunningIsOwned, Serve, slots, tasks
  <2>7. NoSlotLeaks'
    BY <2>1 DEF TypeOK, OwnershipInv, NoSlotLeaks, Working, Serve, slots, tasks, life
  <2> QED BY <2>3, <2>4, <2>5, <2>6, <2>7 DEF OwnershipInv
<1>13. ASSUME NEW w \in Workers, ReadNothing(w) PROVE OwnershipInv'
  BY <1>13 DEF TypeOK, OwnershipInv, UniqueIds, LoopsFollowMode,
     ServedIsOwned, ClaimedIsOwned, RunningIsOwned, AckedIsRunning,
     ExclusiveExecution, NoSlotLeaks, ReadNothing, IsNext, Candidate, Ids,
     Working, redis, slots, consume, reclaim, tasks, life
<1>14. ASSUME NEW w \in Workers, TakeSlots(w) PROVE OwnershipInv'
  BY <1>14 DEF TypeOK, OwnershipInv, UniqueIds, LoopsFollowMode,
     ServedIsOwned, ClaimedIsOwned, RunningIsOwned, AckedIsRunning,
     ExclusiveExecution, NoSlotLeaks, TakeSlots, IsNext, Candidate, Ids,
     Working, redis, slots, consume, reclaim, tasks, life
<1>15. ASSUME NEW w \in Workers, MarkAlive(w) PROVE OwnershipInv'
  BY <1>15 DEF TypeOK, OwnershipInv, UniqueIds, LoopsFollowMode,
     ServedIsOwned, ClaimedIsOwned, RunningIsOwned, AckedIsRunning,
     ExclusiveExecution, NoSlotLeaks, MarkAlive, Spawn, IsNext, Candidate,
     Ids, Working, redis, slots, consume, reclaim, tasks, life
<1>16. ASSUME NEW w \in Workers, ReadFails(w) PROVE OwnershipInv'
  BY <1>16 DEF TypeOK, OwnershipInv, UniqueIds, LoopsFollowMode,
     ServedIsOwned, ClaimedIsOwned, RunningIsOwned, AckedIsRunning,
     ExclusiveExecution, NoSlotLeaks, ReadFails, Fault, IsNext, Candidate,
     Ids, Working, redis, slots, consume, reclaim, tasks, life
<1>17. ASSUME NEW w \in Workers, MarkFails(w) PROVE OwnershipInv'
  <2>1. \A d \in running[w] : Id(d) \notin Ids(batch[w])
    <3>1. \A d \in running[w], b \in batch[w] : Id(d) = Id(b) => d = b
      BY DistinctInHand
    <3>2. \A b \in batch[w] : b \notin running[w]
      BY DEF OwnershipInv, ServedIsOwned
    <3> QED BY <3>1, <3>2 DEF Ids
  <2>2. alive \subseteq alive'
    BY <1>17 DEF MarkFails
  <2>3. RunningIsOwned'
    BY <1>17, <2>1, <2>2 DEF TypeOK, OwnershipInv, RunningIsOwned, MarkFails, tasks
  <2>4. /\ UniqueIds' /\ LoopsFollowMode' /\ AckedIsRunning'
        /\ ExclusiveExecution' /\ ServedIsOwned'
    BY <1>17 DEF TypeOK, OwnershipInv, UniqueIds, LoopsFollowMode, ServedIsOwned,
       AckedIsRunning, ExclusiveExecution, MarkFails, reclaim, tasks, life
  <2>5. ClaimedIsOwned'
    BY <1>17, <2>2 DEF TypeOK, OwnershipInv, ClaimedIsOwned, IsNext, MarkFails,
       reclaim, tasks
  <2>6. NoSlotLeaks'
    BY <1>17 DEF TypeOK, OwnershipInv, NoSlotLeaks, Ids, Working, MarkFails, tasks, life
  <2> QED BY <2>3, <2>4, <2>5, <2>6 DEF OwnershipInv
<1>18. ASSUME NEW w \in Workers, ListPending(w) PROVE OwnershipInv'
  BY <1>18 DEF TypeOK, OwnershipInv, UniqueIds, LoopsFollowMode,
     ServedIsOwned, ClaimedIsOwned, RunningIsOwned, AckedIsRunning,
     ExclusiveExecution, NoSlotLeaks, ListPending, IsNext, Candidate, Ids,
     Working, redis, slots, consume, reclaim, tasks, life
<1>19. ASSUME NEW w \in Workers, Skip(w) PROVE OwnershipInv'
  BY <1>19 DEF TypeOK, OwnershipInv, UniqueIds, LoopsFollowMode,
     ServedIsOwned, ClaimedIsOwned, RunningIsOwned, AckedIsRunning,
     ExclusiveExecution, NoSlotLeaks, Skip, IsNext, Candidate, Ids, Working,
     redis, slots, consume, reclaim, tasks, life
<1>20. ASSUME NEW w \in Workers, ClaimRefused(w) PROVE OwnershipInv'
  BY <1>20 DEF TypeOK, OwnershipInv, UniqueIds, LoopsFollowMode,
     ServedIsOwned, ClaimedIsOwned, RunningIsOwned, AckedIsRunning,
     ExclusiveExecution, NoSlotLeaks, ClaimRefused, IsNext, Candidate, Ids,
     Working, redis, slots, consume, reclaim, tasks, life
<1>21. ASSUME NEW w \in Workers, Claim(w) PROVE OwnershipInv'
  <2>1. PICK c \in cands[w] :
            /\ IsNext(c, w) /\ Claimable(c.entry)
            /\ owner' = [owner EXCEPT ![c.entry] = w]
            /\ ripe' = [ripe EXCEPT ![c.entry] = FALSE]
            /\ alive' = alive \cup {Id(c.entry)}
    BY <1>21 DEF Claim
  <2>2. /\ c.entry \in Entries
        /\ place[c.entry] = "pending" /\ ripe[c.entry] /\ Id(c.entry) \notin alive
    BY <2>1 DEF TypeOK, Candidate, Claimable
  <2>3. \A v \in Workers : c.entry \notin running[v] \cup batch[v]
    BY <2>2 DEF OwnershipInv, RunningIsOwned, ServedIsOwned
  <2>4. \A v \in Workers : \A d \in cands[v] :
            rpc[v] \in {"claimed", "buried"} /\ IsNext(d, v) => d.entry # c.entry
    BY <2>2 DEF OwnershipInv, ClaimedIsOwned
  <2>5. ClaimedIsOwned'
    <3> SUFFICES ASSUME NEW v \in Workers, rpc'[v] \in {"claimed", "buried"},
                        NEW d \in cands'[v], IsNext(d, v)'
                 PROVE  /\ place'[d.entry] = "pending" /\ owner'[d.entry] = v
                        /\ ~ripe'[d.entry] /\ Id(d.entry) \in alive'
                        /\ d.entry \notin running'[v] \cup batch'[v]
      BY DEF ClaimedIsOwned
    <3>1. d \in cands[v] /\ IsNext(d, v) /\ d.entry \in Entries
      BY <1>21 DEF Claim, IsNext, TypeOK, Candidate
    <3>2. CASE v = w
      <4>1. d = c
        BY <2>1, <3>1, <3>2, OneNext
      <4> QED BY <1>21, <2>1, <2>2, <2>3, <3>2, <4>1
             DEF TypeOK, Claim, consume, tasks
    <3>3. CASE v # w
      BY <1>21, <2>1, <2>2, <2>4, <3>1, <3>3
         DEF TypeOK, OwnershipInv, ClaimedIsOwned, Claim, consume, tasks
    <3> QED BY <3>2, <3>3
  <2>6. UniqueIds' /\ LoopsFollowMode' /\ AckedIsRunning' /\ ExclusiveExecution'
    BY <1>21 DEF TypeOK, OwnershipInv, UniqueIds, LoopsFollowMode, AckedIsRunning,
       ExclusiveExecution, Claim, consume, tasks, life
  <2>7. ServedIsOwned' /\ RunningIsOwned'
    BY <1>21, <2>1, <2>2, <2>3 DEF TypeOK, OwnershipInv, ServedIsOwned,
       RunningIsOwned, Claim, consume, tasks
  <2>8. NoSlotLeaks'
    BY <1>21 DEF OwnershipInv, NoSlotLeaks, Working, Claim, consume, tasks, life
  <2> QED BY <2>5, <2>6, <2>7, <2>8 DEF OwnershipInv
<1>22. ASSUME NEW w \in Workers, TakeClaimed(w) PROVE OwnershipInv'
  <2>1. PICK c \in cands[w] :
            /\ IsNext(c, w) /\ rpc[w] = "claimed"
            /\ ids' = [ids EXCEPT ![w] = @ \cup {Id(c.entry)}]
            /\ running' = [running EXCEPT ![w] = @ \cup {c.entry}]
            /\ cands' = [cands EXCEPT ![w] = @ \ {c}]
            /\ rpc' = [rpc EXCEPT ![w] = "scanning"]
    BY <1>22 DEF TakeClaimed, Spawn
  <2>2. /\ UNCHANGED <<redis, acked, cpc, batch, mode>>
        /\ c.entry \in Entries
    BY <1>22 DEF TakeClaimed, Spawn, TypeOK, Candidate, consume, life
  <2>3. /\ place[c.entry] = "pending" /\ owner[c.entry] = w
        /\ Id(c.entry) \in alive /\ c.entry \notin running[w] \cup batch[w]
    BY <2>1 DEF OwnershipInv, ClaimedIsOwned
  <2>4. \A v \in Workers : c.entry \notin running[v]
    BY <2>1, ClaimedIsFree
  <2>5. c.entry \notin acked[w]
    BY <2>3 DEF OwnershipInv, AckedIsRunning
  <2>6. UniqueIds' /\ AckedIsRunning'
    BY <2>1, <2>2 DEF TypeOK, OwnershipInv, UniqueIds, AckedIsRunning, redis
  <2>7. LoopsFollowMode'
    BY <2>1, <2>2 DEF TypeOK, OwnershipInv, LoopsFollowMode
  <2>8. ServedIsOwned'
    BY <2>1, <2>2, <2>3 DEF TypeOK, OwnershipInv, ServedIsOwned, redis
  <2>9. ClaimedIsOwned'
    <3>1. \A v \in Workers : rpc'[v] \in {"claimed", "buried"} =>
              /\ v # w /\ rpc[v] = rpc'[v] /\ cands'[v] = cands[v]
              /\ running'[v] = running[v]
      BY <2>1 DEF TypeOK
    <3> QED BY <2>2, <3>1 DEF OwnershipInv, ClaimedIsOwned, IsNext, redis
  <2>10. RunningIsOwned'
    BY <2>1, <2>2, <2>3, <2>5 DEF TypeOK, OwnershipInv, RunningIsOwned, redis
  <2>11. ExclusiveExecution'
    BY <2>1, <2>4 DEF TypeOK, OwnershipInv, ExclusiveExecution
  <2>12. NoSlotLeaks'
    BY <2>1, <2>2 DEF TypeOK, OwnershipInv, NoSlotLeaks, Working
  <2> QED BY <2>6, <2>7, <2>8, <2>9, <2>10, <2>11, <2>12 DEF OwnershipInv
<1>23. ASSUME NEW w \in Workers, BuryWrite(w) PROVE OwnershipInv'
  BY <1>23 DEF TypeOK, OwnershipInv, UniqueIds, LoopsFollowMode,
     ServedIsOwned, ClaimedIsOwned, RunningIsOwned, AckedIsRunning,
     ExclusiveExecution, NoSlotLeaks, BuryWrite, IsNext, Candidate, Ids,
     Working, redis, slots, consume, reclaim, tasks, life
<1>24. ASSUME NEW w \in Workers, BuryAck(w) PROVE OwnershipInv'
  <2>1. PICK c \in cands[w] :
            /\ IsNext(c, w)
            /\ AckScript(c.entry, "buried")
            /\ cands' = [cands EXCEPT ![w] = @ \ {c}]
    BY <1>24 DEF BuryAck
  <2>2. /\ c.entry \in Entries /\ place[c.entry] = "pending"
        /\ owner[c.entry] = w /\ c.entry \notin running[w] \cup batch[w]
    BY <1>24, <2>1 DEF BuryAck, TypeOK, Candidate, OwnershipInv, ClaimedIsOwned
  <2>3. \A d \in Entries : d # c.entry =>
            /\ place'[d] = place[d] /\ owner'[d] = owner[d] /\ ripe'[d] = ripe[d]
            /\ place[d] # "none" => (Id(d) \in alive' <=> Id(d) \in alive)
    BY <2>1, <2>2, AckKeepsOthers
  <2>4. \A v \in Workers : c.entry \notin running[v] \cup batch[v]
    <3>1. \A v \in Workers : c.entry \notin running[v]
      BY <1>24, <2>1, ClaimedIsFree DEF BuryAck
    <3> QED BY <2>2, <3>1 DEF OwnershipInv, ServedIsOwned
  <2>5. place'[c.entry] # "none"
    BY <2>1, <2>2 DEF AckScript, TypeOK
  <2>6. ClaimedIsOwned'
    <3>1. \A v \in Workers : rpc'[v] \in {"claimed", "buried"} =>
              /\ v # w /\ rpc[v] = rpc'[v] /\ cands'[v] = cands[v]
      BY <1>24, <2>1 DEF BuryAck, TypeOK
    <3>2. \A v \in Workers : \A d \in cands[v] :
              v # w /\ rpc[v] \in {"claimed", "buried"} /\ IsNext(d, v) =>
                  d.entry # c.entry
      BY <2>2 DEF OwnershipInv, ClaimedIsOwned
    <3> QED BY <1>24, <2>3, <3>1, <3>2 DEF TypeOK, Candidate, OwnershipInv,
               ClaimedIsOwned, IsNext, BuryAck, consume, tasks
  <2>7. UniqueIds'
    BY <2>2, <2>3, <2>5 DEF OwnershipInv, UniqueIds
  <2>8. LoopsFollowMode' /\ AckedIsRunning' /\ ExclusiveExecution' /\ NoSlotLeaks'
    BY <1>24 DEF TypeOK, OwnershipInv, LoopsFollowMode, AckedIsRunning,
       ExclusiveExecution, NoSlotLeaks, Working, BuryAck, slots, consume, tasks, life
  <2>9. ServedIsOwned'
    <3>1. batch' = batch /\ cpc' = cpc /\ ids' = ids /\ running' = running
      BY <1>24 DEF BuryAck, slots, consume, tasks
    <3>2. \A v \in Workers : \A d \in batch[v] :
              /\ d \in Entries /\ d # c.entry
              /\ place[d] = "pending" /\ owner[d] = v /\ ~ripe[d] /\ d \notin running[v]
              /\ cpc[v] = "marking" => Id(d) \in ids[v]
      <4>1. \A v \in Workers : \A d \in batch[v] : d \in Entries
        BY DEF TypeOK
      <4> QED BY <2>4, <4>1 DEF OwnershipInv, ServedIsOwned
    <3>3. \A v \in Workers : \A d \in batch[v] :
              place'[d] = "pending" /\ owner'[d] = v /\ ~ripe'[d]
      BY <2>3, <3>2
    <3> QED BY <3>1, <3>2, <3>3 DEF ServedIsOwned
  <2>10. RunningIsOwned'
    <3>1. \A v \in Workers : \A d \in running[v] :
              d \in Entries /\ d # c.entry /\ place[d] # "none"
      <4>1. \A v \in Workers : \A d \in running[v] : d \in Entries
        BY DEF TypeOK
      <4>2. \A v \in Workers : \A d \in running[v] : place[d] # "none"
        BY DEF OwnershipInv, RunningIsOwned
      <4> QED BY <2>4, <4>1, <4>2
    <3>2. running' = running /\ acked' = acked /\ ids' = ids
      BY <1>24 DEF BuryAck, slots, tasks
    <3> SUFFICES ASSUME NEW v \in Workers, NEW d \in running[v]
                 PROVE  /\ Id(d) \in ids[v]
                        /\ IF d \in acked[v] THEN place'[d] = "done"
                           ELSE /\ place'[d] = "pending" /\ owner'[d] = v
                                /\ Id(d) \in alive'
      BY <3>2 DEF RunningIsOwned
    <3> QED BY <2>3, <3>1 DEF OwnershipInv, RunningIsOwned
  <2> QED BY <2>6, <2>7, <2>8, <2>9, <2>10 DEF OwnershipInv
<1>25. ASSUME NEW w \in Workers, ReclaimFails(w) PROVE OwnershipInv'
  BY <1>25 DEF TypeOK, OwnershipInv, UniqueIds, LoopsFollowMode,
     ServedIsOwned, ClaimedIsOwned, RunningIsOwned, AckedIsRunning,
     ExclusiveExecution, NoSlotLeaks, ReclaimFails, Fault, IsNext,
     Candidate, Ids, Working, redis, slots, consume, reclaim, tasks, life
<1>26. ASSUME NEW w \in Workers, Drain(w) PROVE OwnershipInv'
  BY <1>26 DEF TypeOK, OwnershipInv, UniqueIds, LoopsFollowMode,
     ServedIsOwned, ClaimedIsOwned, RunningIsOwned, AckedIsRunning,
     ExclusiveExecution, NoSlotLeaks, Drain, IsNext, Candidate, Ids,
     Working, redis, slots, consume, reclaim, tasks, life
<1>27. ASSUME NEW w \in Workers, Stopped(w) PROVE OwnershipInv'
  BY <1>27 DEF TypeOK, OwnershipInv, UniqueIds, LoopsFollowMode,
     ServedIsOwned, ClaimedIsOwned, RunningIsOwned, AckedIsRunning,
     ExclusiveExecution, NoSlotLeaks, Stopped, Gone, IsNext, Candidate, Ids,
     Working, redis, slots, consume, reclaim, tasks, life
<1>28. ASSUME NEW w \in Workers, NEW e \in Entries, HandBack(w, e) PROVE OwnershipInv'
  BY <1>28 DEF TypeOK, OwnershipInv, UniqueIds, LoopsFollowMode,
     ServedIsOwned, ClaimedIsOwned, RunningIsOwned, AckedIsRunning,
     ExclusiveExecution, NoSlotLeaks, HandBack, IsNext, Candidate, Ids,
     Working, redis, slots, consume, reclaim, tasks, life
<1>29. ASSUME NEW w \in Workers, NEW e \in Entries, Ack(w, e) PROVE OwnershipInv'
  <2>1. /\ AckScript(e, "done")
        /\ e \in running[w] /\ e \notin acked[w]
        /\ acked' = [acked EXCEPT ![w] = @ \cup {e}]
    BY <1>29 DEF Ack
  <2>2. place[e] = "pending" /\ owner[e] = w
    BY <2>1 DEF OwnershipInv, RunningIsOwned
  <2>3. \A d \in Entries : d # e =>
            /\ place'[d] = place[d] /\ owner'[d] = owner[d] /\ ripe'[d] = ripe[d]
            /\ place[d] # "none" => (Id(d) \in alive' <=> Id(d) \in alive)
    BY <2>1, <2>2, AckKeepsOthers
  <2>4. place'[e] = "done"
    BY <2>1, <2>2 DEF AckScript, TypeOK
  <2>5. UniqueIds'
    BY <2>2, <2>3, <2>4 DEF OwnershipInv, UniqueIds
  <2>6. LoopsFollowMode' /\ AckedIsRunning' /\ ExclusiveExecution' /\ NoSlotLeaks'
    BY <1>29 DEF TypeOK, OwnershipInv, LoopsFollowMode, AckedIsRunning,
       ExclusiveExecution, NoSlotLeaks, Working, Ack, slots, consume, reclaim, life
  <2>7. ServedIsOwned'
    <3>1. \A v \in Workers : e \notin batch[v]
      BY <2>1, <2>2 DEF OwnershipInv, ServedIsOwned
    <3> QED BY <1>29, <2>3, <3>1 DEF TypeOK, OwnershipInv, ServedIsOwned, Ack,
               slots, consume
  <2>8. ClaimedIsOwned'
    <3>1. \A v \in Workers : \A c \in cands[v] :
              rpc[v] \in {"claimed", "buried"} /\ IsNext(c, v) => c.entry # e
      BY <2>1, ClaimedIsFree
    <3> QED BY <1>29, <2>3, <3>1 DEF TypeOK, Candidate, OwnershipInv, ClaimedIsOwned,
               IsNext, Ack, slots, consume, reclaim
  <2>9. RunningIsOwned'
    <3>1. \A v \in Workers : v # w => e \notin running[v]
      BY <2>1 DEF OwnershipInv, ExclusiveExecution
    <3> QED BY <1>29, <2>1, <2>3, <2>4, <3>1 DEF TypeOK, OwnershipInv,
               RunningIsOwned, Ack, slots
  <2> QED BY <2>5, <2>6, <2>7, <2>8, <2>9 DEF OwnershipInv
<1>30. ASSUME NEW w \in Workers, NEW e \in Entries, Return(w, e) PROVE OwnershipInv'
  BY <1>30, EndTaskKeeps DEF Return, Fault, redis, life, TypeOK, OwnershipInv, AckedIsRunning
<1>31. ASSUME NEW w \in Workers, NEW e \in Entries, BrokerFails(w, e) PROVE OwnershipInv'
  BY <1>31, EndTaskKeeps DEF BrokerFails, Fault, redis, life, TypeOK, OwnershipInv, AckedIsRunning
<1>32. ASSUME NEW w \in Workers, NEW e \in Entries, RecoveryFails(w, e) PROVE OwnershipInv'
  BY <1>32, EndTaskKeeps DEF RecoveryFails, Fault, redis, life, TypeOK, OwnershipInv, AckedIsRunning
<1>33. ASSUME NEW w \in Workers, NEW e \in Entries, Cancel(w, e) PROVE OwnershipInv'
  BY <1>33, EndTaskKeeps DEF Cancel, Fault, redis, life, TypeOK, OwnershipInv, AckedIsRunning
<1>34. ASSUME NEW w \in Workers, NEW e \in Entries, CancelFails(w, e) PROVE OwnershipInv'
  BY <1>34, EndTaskKeeps DEF CancelFails, Fault, redis, life, TypeOK, OwnershipInv, AckedIsRunning
<1>35. CASE UNCHANGED vars
  BY <1>35 DEF OwnershipInv, UniqueIds, LoopsFollowMode, ServedIsOwned,
     ClaimedIsOwned, RunningIsOwned, AckedIsRunning, ExclusiveExecution,
     NoSlotLeaks, IsNext, Working, vars, redis, slots, consume, reclaim,
     tasks, life
<1> QED
  BY <1>1, <1>2, <1>3, <1>4, <1>5, <1>6, <1>7, <1>8, <1>9, <1>10, <1>11,
     <1>12, <1>13, <1>14, <1>15, <1>16, <1>17, <1>18, <1>19, <1>20, <1>21,
     <1>22, <1>23, <1>24, <1>25, <1>26, <1>27, <1>28, <1>29, <1>30, <1>31,
     <1>32, <1>33, <1>34, <1>35 DEF Next, ConsumeStep, ReclaimStep,
     TaskStep, ShutdownStep

LEMMA OwnershipInit == Init => OwnershipInv
BY DEF Init, OwnershipInv, UniqueIds, LoopsFollowMode, ServedIsOwned,
   ClaimedIsOwned, RunningIsOwned, AckedIsRunning, ExclusiveExecution,
   NoSlotLeaks, Working

(* While no worker stalls and ids are unique, whatever a worker has in hand *)
(* is pending under its name and out of its peers' reach (worker.py:223-245 *)
(* and 534-579 with reclaim.lua).                                           *)
THEOREM Ownership ==
    ASSUME Stallers = {}, Coincide = FALSE
    PROVE  Spec => []OwnershipInv
<1>1. TypeOK /\ OwnershipInv /\ [Next]_vars => OwnershipInv'
  BY OwnershipStep
<1> QED BY <1>1, OwnershipInit, TypeCorrect, PTL DEF Spec

(* Under the same conditions no entry is ever run by two workers at once,   *)
(* for any number of workers, crashes, restarts and failed commands.        *)
THEOREM Exclusive ==
    ASSUME Stallers = {}, Coincide = FALSE
    PROVE  Spec => []ExclusiveExecution
<1>1. OwnershipInv => ExclusiveExecution
  BY DEF OwnershipInv
<1> QED BY <1>1, Ownership, PTL

(* And the slots of a working worker are exactly its tasks and those it is  *)
(* about to spawn: no slot leaks, and none is missing.                      *)
THEOREM SlotsExact ==
    ASSUME Stallers = {}, Coincide = FALSE
    PROVE  Spec => []SlotsMatchTasks
<1>1. TypeOK /\ OwnershipInv => SlotsMatchTasks
  <2> SUFFICES ASSUME TypeOK, OwnershipInv, NEW w \in Workers, Working(w)
               PROVE  ids[w] = Ids(running[w])
                        \cup (IF cpc[w] = "marking" THEN Ids(batch[w]) ELSE {})
    BY DEF SlotsMatchTasks
  <2>1. \A e \in running[w] : Id(e) \in ids[w]
    BY DEF OwnershipInv, RunningIsOwned
  <2>2. cpc[w] = "marking" => \A e \in batch[w] : Id(e) \in ids[w]
    BY DEF OwnershipInv, ServedIsOwned
  <2>3. \A i \in ids[w] : \/ i \in Ids(running[w])
                          \/ cpc[w] = "marking" /\ i \in Ids(batch[w])
    BY DEF OwnershipInv, NoSlotLeaks, Ids
  <2> QED BY <2>1, <2>2, <2>3 DEF Ids
<1> QED BY <1>1, Ownership, TypeCorrect, PTL

(* No task is started for an entry that has one: not a peer's, and not the  *)
(* worker's own between a read and its slot, or a slot and its alive key.   *)
THEOREM StartsOnce ==
    ASSUME Stallers = {}, Coincide = FALSE
    PROVE  Spec => NoSecondTask
<1> DEFINE A == \A e \in Entries :
                    starts'[e] # starts[e] => \A w \in Workers : e \notin running[w]
<1>1. TypeOK /\ OwnershipInv /\ [Next]_vars => [A]_vars
  <2> SUFFICES ASSUME TypeOK, OwnershipInv, Next,
                      NEW e \in Entries, starts'[e] # starts[e], NEW v \in Workers
               PROVE  e \notin running[v]
    OBVIOUS
  <2>1. \/ \E w \in Workers : MarkAlive(w)
        \/ \E w \in Workers : TakeClaimed(w)
    <3>1. ASSUME NEW w \in Workers, ConsumeStep(w), ~MarkAlive(w)
          PROVE  starts' = starts
      BY <3>1 DEF ConsumeStep, AskForWork, WaitForSlot, Wake, ServeSome, Serve,
         ReadNothing, TakeSlots, tasks
    <3>2. ASSUME NEW w \in Workers, ReclaimStep(w), ~TakeClaimed(w)
          PROVE  starts' = starts
      BY <3>2 DEF ReclaimStep, ListPending, Skip, ClaimRefused, Claim, BuryWrite,
         BuryAck, tasks
    <3>3. ASSUME NEW w \in Workers, NEW d \in Entries,
                 \/ TaskStep(w, d) \/ HandBack(w, d) \/ RecoveryFails(w, d)
                 \/ CancelFails(w, d)
          PROVE  starts' = starts
      BY <3>3 DEF TaskStep, HandBack, RecoveryFails, CancelFails, Ack, Return,
         BrokerFails, Cancel, EndTask, tasks
    <3>4. ASSUME NEW w \in Workers,
                 \/ Start(w) \/ Signal(w) \/ DrainTimeout(w) \/ SecondSignal(w)
                 \/ Crash(w) \/ ShutdownStep(w) \/ ReadFails(w) \/ MarkFails(w)
                 \/ ReclaimFails(w)
          PROVE  starts' = starts
      BY <3>4 DEF ShutdownStep, Start, Signal, DrainTimeout, SecondSignal, CutOff,
         Crash, Drain, Stopped, Gone, ReadFails, MarkFails, ReclaimFails, tasks
    <3>5. ASSUME \/ \E d \in Entries : Enqueue(d) \/ IdleElapses(d)
                 \/ \E i \in 1..MaxId : AliveExpires(i)
          PROVE  starts' = starts
      BY <3>5 DEF Enqueue, IdleElapses, AliveExpires, tasks
    <3> QED BY <3>1, <3>2, <3>3, <3>4, <3>5 DEF Next
  <2>2. ASSUME NEW w \in Workers, MarkAlive(w) PROVE e \notin running[v]
    <3>1. e \in batch[w]
      BY <2>2 DEF MarkAlive, Spawn, TypeOK
    <3>2. place[e] = "pending" /\ owner[e] = w /\ e \notin running[w]
      BY <3>1 DEF OwnershipInv, ServedIsOwned
    <3> QED BY <3>2 DEF OwnershipInv, RunningIsOwned
  <2>3. ASSUME NEW w \in Workers, TakeClaimed(w) PROVE e \notin running[v]
    <3>1. PICK c \in cands[w] : IsNext(c, w) /\ Spawn(w, {c.entry})
      BY <2>3 DEF TakeClaimed
    <3>2. e = c.entry
      BY <3>1 DEF Spawn, TypeOK
    <3> QED BY <2>3, <3>1, <3>2, ClaimedIsFree DEF TakeClaimed
  <2> QED BY <2>1, <2>2, <2>3
<1> QED BY <1>1, Ownership, TypeCorrect, PTL DEF Spec, NoSecondTask

-----------------------------------------------------------------------------
(* Waking up.                                                               *)

(* Taking slots never makes one free.                                       *)
LEMMA FreeShrinks ==
    ASSUME TypeOK, TypeOK', NEW w \in Workers, ids[w] \subseteq ids'[w],
           Free(w)' > 0
    PROVE  Free(w) > 0
<1>1. IsFiniteSet(1..MaxId)
  BY FS_Interval, ConstantsAssumption
<1>2. ids'[w] \subseteq 1..MaxId
  BY DEF TypeOK
<1>3. IsFiniteSet(ids'[w]) /\ Cardinality(ids'[w]) \in Nat
  BY <1>1, <1>2, FS_Subset, FS_CardinalityType
<1>4. Cardinality(ids[w]) <= Cardinality(ids'[w]) /\ Cardinality(ids[w]) \in Nat
  BY <1>3, FS_Subset, FS_CardinalityType
<1> QED BY <1>3, <1>4, ConstantsAssumption DEF Free

(* A consume loop that waits was waiting, or found no slot free just now;   *)
(* only a release makes a slot free, and a release sets the event.          *)
LEMMA WakeupStep == TypeOK /\ NoLostWakeup /\ [Next]_vars => NoLostWakeup'
<1> SUFFICES ASSUME TypeOK, TypeOK', NoLostWakeup, [Next]_vars,
                    NEW v \in Workers, cpc'[v] = "waiting", Free(v)' > 0
             PROVE  freed'[v]
  BY TypeStep DEF NoLostWakeup
<1> DEFINE Kept == cpc[v] = "waiting" /\ ids[v] \subseteq ids'[v] /\ freed'[v] = freed[v]
           Goal == freed'[v] \/ Kept
<1>1. ASSUME NEW w \in Workers, ConsumeStep(w) \/ MarkFails(w) \/ ReadFails(w)
      PROVE  Goal
  <2>1. CASE WaitForSlot(w)
    <3>1. (Free(v)' = Free(v) /\ cpc[v] = cpc'[v]) \/ v = w
      BY <2>1 DEF WaitForSlot, TypeOK, slots, Free
    <3>2. v # w
      BY <2>1 DEF WaitForSlot, slots, Free
    <3> QED BY <2>1, <3>1, <3>2 DEF WaitForSlot, slots
  <2>2. CASE ServeSome(w) \/ TakeSlots(w)
    <3>1. /\ \A u \in Workers : ids[u] \subseteq ids'[u]
          /\ freed' = freed
          /\ \A u \in Workers : cpc'[u] = "waiting" => cpc[u] = "waiting"
      <4>1. CASE ServeSome(w)
        BY <4>1 DEF ServeSome, Serve, TypeOK, slots
      <4>2. CASE TakeSlots(w)
        BY <4>2 DEF TakeSlots, TypeOK
      <4> QED BY <2>2, <4>1, <4>2
    <3> QED BY <3>1
  <2>3. CASE AskForWork(w) \/ Wake(w) \/ ReadNothing(w)
    BY <2>3 DEF AskForWork, Wake, ReadNothing, TypeOK, slots
  <2>4. CASE MarkAlive(w)
    <3>1. /\ ids' = ids /\ freed' = freed
          /\ \A u \in Workers : cpc'[u] = "waiting" => cpc[u] = "waiting"
      BY <2>4 DEF MarkAlive, TypeOK, slots
    <3> QED BY <3>1
  <2>6. CASE ReadFails(w)
    <3>1. /\ ids' = ids /\ freed' = freed
          /\ \A u \in Workers : cpc'[u] = "waiting" => cpc[u] = "waiting"
      BY <2>6 DEF ReadFails, TypeOK, slots
    <3> QED BY <3>1
  <2>5. CASE MarkFails(w)
    <3>1. CASE v = w
      BY <2>5, <3>1 DEF MarkFails, TypeOK
    <3>2. CASE v # w
      <4>1. ids'[v] = ids[v] /\ freed'[v] = freed[v] /\ cpc'[v] = cpc[v]
        BY <2>5, <3>2 DEF MarkFails, TypeOK
      <4> QED BY <4>1
    <3> QED BY <3>1, <3>2
  <2> QED BY <1>1, <2>1, <2>2, <2>3, <2>4, <2>5, <2>6 DEF ConsumeStep
<1>2. ASSUME NEW w \in Workers, ReclaimStep(w) \/ ReclaimFails(w)
      PROVE  Goal
  <2>1. CASE TakeClaimed(w)
    <3>1. /\ \A u \in Workers : ids[u] \subseteq ids'[u]
          /\ freed' = freed /\ cpc' = cpc
      BY <2>1 DEF TakeClaimed, TypeOK, consume
    <3> QED BY <3>1
  <2>2. CASE ~TakeClaimed(w)
    <3>1. ids' = ids /\ freed' = freed /\ cpc' = cpc
      BY <1>2, <2>2 DEF ReclaimStep, ReclaimFails, ListPending, Skip,
         ClaimRefused, Claim, BuryWrite, BuryAck, slots, consume
    <3> QED BY <3>1
  <2> QED BY <2>1, <2>2
<1>3. ASSUME NEW w \in Workers, NEW e \in Entries,
             TaskStep(w, e) \/ HandBack(w, e) \/ RecoveryFails(w, e) \/ CancelFails(w, e)
      PROVE  Goal
  BY <1>3 DEF TaskStep, HandBack, RecoveryFails, CancelFails, Ack, Return,
     BrokerFails, Cancel, EndTask, TypeOK, slots, consume
<1>4. ASSUME NEW w \in Workers,
             \/ Start(w) \/ Signal(w) \/ DrainTimeout(w) \/ SecondSignal(w)
             \/ Crash(w) \/ ShutdownStep(w)
      PROVE  Goal
  BY <1>4 DEF ShutdownStep, Start, Signal, DrainTimeout, SecondSignal, CutOff,
     Crash, Drain, Stopped, Gone, TypeOK, slots, consume
<1>5. ASSUME \/ \E e \in Entries : Enqueue(e) \/ IdleElapses(e)
             \/ \E i \in 1..MaxId : AliveExpires(i)
             \/ UNCHANGED vars
      PROVE  Goal
  BY <1>5 DEF Enqueue, IdleElapses, AliveExpires, vars, slots, consume
<1>6. Goal
  BY <1>1, <1>2, <1>3, <1>4, <1>5 DEF Next
<1>7. CASE Kept
  <2>1. Free(v) > 0
    BY <1>7, FreeShrinks
  <2> QED BY <1>7, <2>1 DEF NoLostWakeup
<1> QED BY <1>6, <1>7

(* A consume loop never sleeps through a freed slot, whatever happens.      *)
THEOREM NoWakeupIsLost == Spec => []NoLostWakeup
<1>1. Init => NoLostWakeup
  BY DEF Init, NoLostWakeup
<1> QED BY <1>1, WakeupStep, TypeCorrect, PTL DEF Spec

-----------------------------------------------------------------------------
(* What is in flight.                                                      *)

(* Sets of ids are finite, whatever they are the ids of.                    *)
LEMMA IdsFinite ==
    ASSUME NEW S \in SUBSET (1..MaxId)
    PROVE  IsFiniteSet(S) /\ Cardinality(S) \in Nat
<1>1. IsFiniteSet(1..MaxId)
  BY FS_Interval, ConstantsAssumption
<1>2. IsFiniteSet(S)
  BY <1>1, FS_Subset
<1> QED BY <1>2, FS_CardinalityType

(* What arrives from the streams R, at most k entries from each, has at     *)
(* most k ids per stream.                                                   *)
LEMMA ReadIsBounded ==
    ASSUME NEW R, IsFiniteSet(R), NEW k \in Nat, NEW T,
           \A e \in T : e[1] \in R,
           \A s \in R : /\ IsFiniteSet({e \in T : e[1] = s})
                        /\ Cardinality({e \in T : e[1] = s}) <= k
    PROVE  IsFiniteSet(Ids(T)) /\ Cardinality(Ids(T)) <= Cardinality(R) * k
<1> DEFINE From(s)  == {e \in T : e[1] = s}
           Size(s)  == Cardinality(From(s))
           g        == [s \in R |-> CHOOSE h : h \in Bijection(1..Size(s), From(s))]
           Cells    == {x \in R \X (1..k) : x[2] <= Size(x[1])}
           f        == [x \in Cells |-> Id(g[x[1]][x[2]])]
<1>1. ASSUME NEW s \in R PROVE Size(s) \in Nat /\ g[s] \in Bijection(1..Size(s), From(s))
  <2>1. IsFiniteSet(From(s)) /\ Size(s) \in Nat
    BY FS_CardinalityType
  <2>2. ExistsBijection(1..Size(s), From(s))
    BY <2>1, FS_CardinalityType
  <2>3. \E h : h \in Bijection(1..Size(s), From(s))
    BY <2>2 DEF ExistsBijection
  <2>4. g[s] = CHOOSE h : h \in Bijection(1..Size(s), From(s))
    OBVIOUS
  <2>5. (CHOOSE h : h \in Bijection(1..Size(s), From(s))) \in Bijection(1..Size(s), From(s))
    BY <2>3
  <2> QED BY <2>1, <2>4, <2>5
<1>2. ASSUME NEW x \in Cells PROVE f[x] \in Ids(T)
  <2>1. x[1] \in R /\ x[2] \in 1..k /\ x[2] <= Size(x[1])
    OBVIOUS
  <2>2. x[2] \in 1..Size(x[1])
    BY <1>1, <2>1
  <2>3. g[x[1]] \in [1..Size(x[1]) -> From(x[1])]
    BY <1>1, <2>1 DEF Bijection, Injection
  <2>4. g[x[1]][x[2]] \in T
    BY <2>2, <2>3
  <2> QED BY <2>4 DEF Ids
<1>3. ASSUME NEW i \in Ids(T) PROVE \E x \in Cells : f[x] = i
  <2>1. PICK e \in T : Id(e) = i
    BY DEF Ids
  <2>2. e[1] \in R /\ e \in From(e[1])
    BY <2>1
  <2>3. PICK j \in 1..Size(e[1]) : g[e[1]][j] = e
    <3>1. g[e[1]] \in Surjection(1..Size(e[1]), From(e[1]))
      BY <1>1, <2>2 DEF Bijection
    <3>2. \A d \in From(e[1]) : \E j \in 1..Size(e[1]) : g[e[1]][j] = d
      BY <3>1 DEF Surjection
    <3>3. \E j \in 1..Size(e[1]) : g[e[1]][j] = e
      BY ONLY <2>2, <3>2
    <3> QED BY <3>3
  <2>4. j \in 1..k /\ j <= Size(e[1])
    <3>1. Size(e[1]) <= k /\ Size(e[1]) \in Nat
      BY <1>1, <2>2
    <3> QED BY <3>1
  <2>5. <<e[1], j>> \in Cells
    BY <2>2, <2>4
  <2>6. f[<<e[1], j>>] = i
    BY <2>1, <2>3, <2>5
  <2> QED BY <2>5, <2>6
<1>4. f \in Surjection(Cells, Ids(T))
  BY <1>2, <1>3 DEF Surjection
<1>5. IsFiniteSet(1..k) /\ Cardinality(1..k) = k
  <2>1. IsFiniteSet(1..k)
    BY FS_Interval
  <2>2. [i \in 1..k |-> i] \in Bijection(1..k, 1..k)
    <3> DEFINE h == [i \in 1..k |-> i]
    <3>1. h \in [1..k -> 1..k] /\ \A i \in 1..k : h[i] = i
      OBVIOUS
    <3> HIDE DEF h
    <3>2. h \in Injection(1..k, 1..k)
      BY <3>1 DEF Injection, IsInjective
    <3>3. h \in Surjection(1..k, 1..k)
      BY <3>1 DEF Surjection
    <3>4. h \in Bijection(1..k, 1..k)
      BY <3>2, <3>3 DEF Bijection
    <3> QED BY <3>4 DEF h
  <2>3. Cardinality(1..k) = k
    BY <2>2, FS_CountingElements DEF ExistsBijection
  <2> QED BY <2>1, <2>3
<1>6. IsFiniteSet(R \X (1..k)) /\ Cardinality(R \X (1..k)) = Cardinality(R) * k
  <2>1. /\ IsFiniteSet(R \X (1..k))
        /\ Cardinality(R \X (1..k)) = Cardinality(R) * Cardinality(1..k)
    BY <1>5, FS_Product
  <2> QED BY <1>5, <2>1
<1>7. IsFiniteSet(Cells) /\ Cardinality(Cells) <= Cardinality(R) * k
  <2>1. Cells \in SUBSET (R \X (1..k))
    OBVIOUS
  <2>2. IsFiniteSet(Cells) /\ Cardinality(Cells) <= Cardinality(R \X (1..k))
    BY <1>6, <2>1, FS_Subset
  <2> QED BY <1>6, <2>2
<1>8. IsFiniteSet(Ids(T)) /\ Cardinality(Ids(T)) <= Cardinality(Cells)
  BY <1>4, <1>7, FS_Surjection
<1>9. Cardinality(Ids(T)) \in Nat /\ Cardinality(Cells) \in Nat /\ Cardinality(R) * k \in Nat
  BY <1>7, <1>8, FS_CardinalityType
<1> QED BY <1>7, <1>8, <1>9

(* A listing has as many rows as entries, and no more.                      *)
LEMMA RowsAreBounded ==
    ASSUME NEW T, IsFiniteSet(T)
    PROVE  LET rows == {Row(e) : e \in T}
           IN  IsFiniteSet(rows) /\ Cardinality(rows) <= Cardinality(T)
<1> DEFINE rows == {Row(e) : e \in T}
           f    == [e \in T |-> Row(e)]
<1>1. f \in Surjection(T, rows)
  BY DEF Surjection
<1> QED BY <1>1, FS_Surjection

(* The numbers a worker's bounds are about are numbers.                     *)
LEMMA BoundNumbers ==
    ASSUME TypeOK, NEW w \in Workers
    PROVE  /\ IsFiniteSet(ids[w]) /\ Cardinality(ids[w]) \in Nat
           /\ IsFiniteSet(Ids(batch[w])) /\ Cardinality(Ids(batch[w])) \in Nat
           /\ IsFiniteSet(ids[w] \cup Ids(batch[w]))
           /\ Cardinality(ids[w] \cup Ids(batch[w])) \in Nat
           /\ Cardinality(ids[w] \cup Ids(batch[w])) <=
                  Cardinality(ids[w]) + Cardinality(Ids(batch[w]))
           /\ IsFiniteSet(cands[w]) => Cardinality(cands[w]) \in Nat
           /\ credit[w] \in Nat /\ credit[w] <= Concurrency
<1>1. ids[w] \in SUBSET (1..MaxId) /\ Ids(batch[w]) \in SUBSET (1..MaxId)
  BY IdType DEF TypeOK
<1>2. /\ IsFiniteSet(ids[w]) /\ Cardinality(ids[w]) \in Nat
      /\ IsFiniteSet(Ids(batch[w])) /\ Cardinality(Ids(batch[w])) \in Nat
      /\ IsFiniteSet(ids[w] \cup Ids(batch[w]))
      /\ Cardinality(ids[w] \cup Ids(batch[w])) \in Nat
      /\ Cardinality(ids[w] \cap Ids(batch[w])) \in Nat
  BY <1>1, IdsFinite
<1>3. Cardinality(ids[w] \cup Ids(batch[w])) =
          Cardinality(ids[w]) + Cardinality(Ids(batch[w]))
              - Cardinality(ids[w] \cap Ids(batch[w]))
  BY <1>2, FS_Union
<1>4. credit[w] \in Nat /\ credit[w] <= Concurrency
  BY ConstantsAssumption DEF TypeOK
<1> QED BY <1>2, <1>3, <1>4, FS_CardinalityType

(* Arithmetic of a read: a slots taken of c, the rest asked of n streams.   *)
LEMMA AskArithmetic ==
    ASSUME NEW n \in Nat, NEW c \in Nat, NEW a \in 0..c
    PROVE  /\ n * (c - a) \in Nat /\ n * (c - a) <= n * c
           /\ n # 0 => a + n * (c - a) <= n * c
           /\ n * c \in Nat /\ (n + 1) * c = n * c + c
<1>1. n * (c - a) = n * c - n * a /\ n * c \in Nat /\ n * a \in Nat
  OBVIOUS
<1>2. (n + 1) * c = n * c + c
  OBVIOUS
<1>3. c - a \in Nat
  OBVIOUS
<1>4. n * (c - a) \in Nat
  BY <1>3
<1>5. n # 0 => a <= n * a
  <2> SUFFICES ASSUME n # 0 PROVE a <= n * a
    OBVIOUS
  <2>1. n - 1 \in Nat /\ n * a = (n - 1) * a + a /\ (n - 1) * a \in Nat
    OBVIOUS
  <2> QED BY <2>1
<1> QED BY <1>1, <1>2, <1>4, <1>5

(* A worker that gives up part of what it has or asks for, and takes        *)
(* nothing, stays within its bounds.                                        *)
LEMMA BoundShrinks ==
    ASSUME TypeOK, TypeOK', NEW w \in Workers, NEW n \in Nat, WithinBound(w, n),
           ids'[w] \cup Ids(batch'[w]) \subseteq ids[w] \cup Ids(batch[w]),
           Ids(batch'[w]) \subseteq Ids(batch[w]),
           cands'[w] \subseteq cands[w],
           credit'[w] = credit[w] \/ credit'[w] = 0
    PROVE  WithinBound(w, n)'
<1> DEFINE Had == ids[w] \cup Ids(batch[w])
           Has == ids'[w] \cup Ids(batch'[w])
<1>1. Cardinality(Has) <= Cardinality(Had) /\ Cardinality(Has) \in Nat
      /\ Cardinality(Had) \in Nat
  <2>1. IsFiniteSet(Had) /\ Has \in SUBSET Had
    BY BoundNumbers
  <2>2. IsFiniteSet(Has) /\ Cardinality(Has) <= Cardinality(Had)
    BY <2>1, FS_Subset
  <2> QED BY <2>1, <2>2, FS_CardinalityType
<1>2. /\ Cardinality(Ids(batch'[w])) <= Cardinality(Ids(batch[w]))
      /\ Cardinality(Ids(batch'[w])) \in Nat /\ Cardinality(Ids(batch[w])) \in Nat
  <2>1. IsFiniteSet(Ids(batch[w])) /\ Ids(batch'[w]) \in SUBSET Ids(batch[w])
    BY BoundNumbers
  <2>2. IsFiniteSet(Ids(batch'[w]))
        /\ Cardinality(Ids(batch'[w])) <= Cardinality(Ids(batch[w]))
    BY <2>1, FS_Subset
  <2> QED BY <2>1, <2>2, FS_CardinalityType
<1>3. /\ IsFiniteSet(cands'[w]) /\ Cardinality(cands'[w]) <= Cardinality(cands[w])
      /\ Cardinality(cands'[w]) \in Nat /\ Cardinality(cands[w]) \in Nat
  <2>1. IsFiniteSet(cands[w]) /\ cands'[w] \in SUBSET cands[w]
    BY DEF WithinBound
  <2>2. IsFiniteSet(cands'[w]) /\ Cardinality(cands'[w]) <= Cardinality(cands[w])
    BY <2>1, FS_Subset
  <2> QED BY <2>1, <2>2, FS_CardinalityType
<1>4. n * credit'[w] <= n * credit[w] /\ n * credit'[w] \in Nat /\ n * credit[w] \in Nat
  <2>1. credit[w] \in Nat
    BY BoundNumbers
  <2>2. n * credit[w] \in Nat /\ n * 0 = 0
    BY <2>1
  <2> QED BY <2>1, <2>2
<1>5. n * Concurrency \in Nat /\ (n + 1) * Concurrency \in Nat /\ Concurrency \in Nat
  BY ConstantsAssumption
<1> HIDE DEF Had, Has
<1>6. /\ Cardinality(cands[w]) <= Concurrency
      /\ Cardinality(Ids(batch[w])) + n * credit[w] <= n * Concurrency
      /\ Cardinality(Had) + Cardinality(cands[w]) + n * credit[w] <= (n + 1) * Concurrency
  BY DEF WithinBound, InHand, Had
<1>7. /\ Cardinality(cands'[w]) <= Concurrency
      /\ Cardinality(Ids(batch'[w])) + n * credit'[w] <= n * Concurrency
      /\ Cardinality(Has) + Cardinality(cands'[w]) + n * credit'[w] <= (n + 1) * Concurrency
  BY <1>1, <1>2, <1>3, <1>4, <1>5, <1>6
<1> QED BY <1>3, <1>7 DEF WithinBound, InHand, Has

(* Asking: one worker's free slots, of each of at most n streams.           *)
LEMMA AskBound ==
    ASSUME TypeOK, NEW w \in Workers, NEW n \in Nat, WithinBound(w, n), LoopAsks(w),
           AskForWork(w)
    PROVE  WithinBound(w, n)'
<1> DEFINE a == Cardinality(ids[w])
<1>1. /\ credit'[w] = Concurrency - a /\ a \in 0..Concurrency
      /\ UNCHANGED <<ids, batch, cands>>
  <2>1. a \in Nat
    BY BoundNumbers
  <2>2. /\ Free(w) > 0 /\ UNCHANGED <<ids, batch, cands>>
        /\ credit' = [credit EXCEPT ![w] = Free(w)]
    BY DEF AskForWork, slots, reclaim
  <2>3. credit'[w] = Free(w)
    BY <2>2 DEF TypeOK
  <2>4. Free(w) = IF a < Concurrency THEN Concurrency - a ELSE 0
    BY DEF Free
  <2> HIDE DEF a
  <2> QED BY <2>1, <2>2, <2>3, <2>4, ConstantsAssumption
<1>2. batch[w] = {} /\ credit[w] = 0
  <2>1. credit[w] \in Nat
    BY BoundNumbers
  <2> QED BY <2>1 DEF AskForWork, LoopAsks
<1>3. Ids(batch[w]) = {} /\ ids[w] \cup Ids(batch[w]) = ids[w]
  BY <1>2 DEF Ids
<1>4. Cardinality({}) = 0
  BY FS_EmptySet
<1>5. Concurrency \in Nat
  BY ConstantsAssumption
<1> DEFINE k == Cardinality(cands[w])
<1>6. k \in Nat /\ k <= Concurrency
  BY BoundNumbers DEF WithinBound
<1>7. a + k <= (n + 1) * Concurrency
  <2>1. Cardinality(ids[w] \cup Ids(batch[w])) + k + n * credit[w] <= (n + 1) * Concurrency
    BY DEF WithinBound, InHand
  <2>2. Cardinality(ids[w] \cup Ids(batch[w])) = a /\ credit[w] = 0
    BY <1>2, <1>3
  <2>3. n * 0 = 0 /\ (n + 1) * Concurrency \in Nat
    BY <1>5
  <2> HIDE DEF a, k
  <2> QED BY <1>1, <1>6, <2>1, <2>2, <2>3
<1> HIDE DEF a, k
<1>8. /\ n * (Concurrency - a) \in Nat /\ n * (Concurrency - a) <= n * Concurrency
      /\ n # 0 => a + n * (Concurrency - a) <= n * Concurrency
      /\ n * Concurrency \in Nat /\ (n + 1) * Concurrency = n * Concurrency + Concurrency
  BY <1>1, <1>5, AskArithmetic
<1>9. a + k + n * (Concurrency - a) <= (n + 1) * Concurrency
  <2>1. CASE n = 0
    <3>1. n * (Concurrency - a) = 0 /\ (n + 1) * Concurrency = Concurrency
      BY <1>1, <1>5, <2>1
    <3> QED BY <1>1, <1>5, <1>6, <1>7, <3>1
  <2>2. CASE n # 0
    BY <1>1, <1>5, <1>6, <1>8, <2>2
  <2> QED BY <2>1, <2>2
<1>10. InHand(w)' + n * credit'[w] = a + k + n * (Concurrency - a)
  BY <1>1, <1>3 DEF InHand, a, k
<1>11. Cardinality(Ids(batch[w])) + n * credit'[w] = n * (Concurrency - a)
  BY <1>1, <1>3, <1>4, <1>8
<1> QED BY <1>1, <1>8, <1>9, <1>10, <1>11 DEF WithinBound

(* A read brings no more than its credit from each of its streams.          *)
LEMMA ServeBound ==
    ASSUME TypeOK, TypeOK', NEW w \in Workers, NEW n \in Nat, WithinBound(w, n),
           LoopAsks(w), NEW R \in ReadSets, Cardinality(R) <= n,
           NEW T \in SUBSET Queued, Serve(w, R, T)
    PROVE  WithinBound(w, n)'
<1> DEFINE k == credit[w]
<1>1. /\ batch'[w] = T /\ credit'[w] = 0 /\ UNCHANGED <<ids, cands>>
      /\ batch[w] = {}
  BY DEF Serve, TypeOK, slots, reclaim, LoopAsks
<1>2. IsFiniteSet(R) /\ Cardinality(R) \in Nat
  <2>1. R \in SUBSET Streams /\ IsFiniteSet(Streams)
    BY ConstantsAssumption
  <2>2. IsFiniteSet(R)
    BY <2>1, FS_Subset
  <2> QED BY <2>2, FS_CardinalityType
<1>3. IsFiniteSet(Entries)
  <2>1. IsFiniteSet(1..MaxId)
    BY FS_Interval, ConstantsAssumption
  <2> QED BY <2>1, FS_Product, ConstantsAssumption DEF Entries
<1>4. k \in Nat /\ k <= Concurrency
  BY BoundNumbers
<1>5. \A s \in R : /\ IsFiniteSet({e \in T : e[1] = s})
                   /\ Cardinality({e \in T : e[1] = s}) <= k
  <2> SUFFICES ASSUME NEW s \in R
               PROVE  /\ IsFiniteSet({e \in T : e[1] = s})
                      /\ Cardinality({e \in T : e[1] = s}) <= k
    OBVIOUS
  <2>1. {e \in T : e[1] = s} \in SUBSET Entries
    BY DEF Queued
  <2>2. IsFiniteSet({e \in T : e[1] = s})
    BY <1>3, <2>1, FS_Subset
  <2> QED BY <2>2 DEF Serve, IsFirst
<1>6. \A e \in T : e[1] \in R
  BY DEF Serve
<1>7. IsFiniteSet(Ids(T)) /\ Cardinality(Ids(T)) <= Cardinality(R) * k
  <2> HIDE DEF k
  <2> QED BY <1>2, <1>4, <1>5, <1>6, ReadIsBounded
<1> DEFINE t == Cardinality(Ids(T))
           r == Cardinality(R)
           a == Cardinality(ids[w])
           b == Cardinality(ids[w] \cup Ids(T))
           c == Cardinality(cands[w])
<1>8. t \in Nat /\ a \in Nat /\ b \in Nat /\ b <= a + t /\ c \in Nat
  <2>1. /\ IsFiniteSet(ids'[w]) /\ Cardinality(ids'[w]) \in Nat
        /\ Cardinality(Ids(batch'[w])) \in Nat
        /\ Cardinality(ids'[w] \cup Ids(batch'[w])) \in Nat
        /\ Cardinality(ids'[w] \cup Ids(batch'[w])) <=
               Cardinality(ids'[w]) + Cardinality(Ids(batch'[w]))
    <3>1. ids'[w] \in SUBSET (1..MaxId) /\ Ids(batch'[w]) \in SUBSET (1..MaxId)
      BY IdType DEF TypeOK
    <3>2. /\ IsFiniteSet(ids'[w]) /\ Cardinality(ids'[w]) \in Nat
          /\ IsFiniteSet(Ids(batch'[w])) /\ Cardinality(Ids(batch'[w])) \in Nat
          /\ Cardinality(ids'[w] \cup Ids(batch'[w])) \in Nat
          /\ Cardinality(ids'[w] \cap Ids(batch'[w])) \in Nat
      BY <3>1, IdsFinite
    <3>3. Cardinality(ids'[w] \cup Ids(batch'[w])) =
              Cardinality(ids'[w]) + Cardinality(Ids(batch'[w]))
                  - Cardinality(ids'[w] \cap Ids(batch'[w]))
      BY <3>2, FS_Union
    <3> QED BY <3>2, <3>3
  <2>2. c \in Nat
    BY BoundNumbers DEF WithinBound
  <2> QED BY <1>1, <2>1, <2>2
<1>9. /\ a + c + n * k <= (n + 1) * Concurrency
      /\ n * k <= n * Concurrency
      /\ IsFiniteSet(cands[w]) /\ c <= Concurrency
  <2>1. Ids(batch[w]) = {} /\ ids[w] \cup Ids(batch[w]) = ids[w]
    BY <1>1 DEF Ids
  <2>2. Cardinality({}) = 0
    BY FS_EmptySet
  <2>3. n * k \in Nat
    BY <1>4
  <2> QED BY <2>1, <2>2, <2>3 DEF WithinBound, InHand
<1>10. t <= n * k
  <2> HIDE DEF t, k
  <2>1. n - r \in Nat /\ r \in Nat /\ t <= r * k
    BY <1>2, <1>7 DEF t, r
  <2> HIDE DEF r
  <2>2. n * k = (n - r) * k + r * k /\ (n - r) * k \in Nat /\ r * k \in Nat
    BY <1>4, <2>1
  <2> QED BY <1>8, <2>1, <2>2
<1>11. n * credit'[w] = 0
  BY <1>1
<1>12. /\ InHand(w)' = b + c /\ Cardinality(Ids(batch'[w])) = t
  BY <1>1 DEF InHand
<1> HIDE DEF t, a, b, c
<1>13. n * k \in Nat /\ (n + 1) * Concurrency \in Nat /\ n * Concurrency \in Nat
  BY <1>4, ConstantsAssumption
<1> HIDE DEF k
<1>14. b + c <= (n + 1) * Concurrency /\ t <= n * Concurrency
  BY <1>8, <1>9, <1>10, <1>13
<1>15. IsFiniteSet(cands'[w]) /\ Cardinality(cands'[w]) <= Concurrency
  BY <1>1, <1>9 DEF c
<1> QED BY <1>8, <1>11, <1>12, <1>13, <1>14, <1>15 DEF WithinBound

(* Listing: as many rows as there are free slots.                           *)
LEMMA ListBound ==
    ASSUME TypeOK, NEW w \in Workers, NEW n \in Nat, WithinBound(w, n), ListPending(w)
    PROVE  WithinBound(w, n)'
<1> DEFINE a == Cardinality(ids[w])
           t == Cardinality(Ids(batch[w]))
           b == Cardinality(ids[w] \cup Ids(batch[w]))
<1>1. PICK T \in SUBSET {e \in Pending : ripe[e]} :
          /\ IsFirst(T, Free(w), {e \in Pending : ripe[e]})
          /\ cands' = [cands EXCEPT ![w] = {Row(e) : e \in T}]
  BY DEF ListPending
<1>2. UNCHANGED <<ids, batch, credit>> /\ cands[w] = {}
  BY DEF ListPending, slots, consume
<1>3. cands'[w] = {Row(e) : e \in T} /\ Cardinality(T) <= Free(w)
  BY <1>1 DEF TypeOK, IsFirst
<1>4. IsFiniteSet(T)
  <2>1. IsFiniteSet(1..MaxId)
    BY FS_Interval, ConstantsAssumption
  <2>2. IsFiniteSet(Entries)
    BY <2>1, FS_Product, ConstantsAssumption DEF Entries
  <2>3. T \in SUBSET Entries
    BY DEF Pending
  <2> QED BY <2>2, <2>3, FS_Subset
<1> DEFINE c == Cardinality(cands'[w])
<1>5. IsFiniteSet(cands'[w]) /\ c \in Nat /\ c <= Free(w)
  <2>1. IsFiniteSet({Row(e) : e \in T}) /\ Cardinality({Row(e) : e \in T}) <= Cardinality(T)
    BY <1>4, RowsAreBounded
  <2>2. Cardinality(T) \in Nat /\ Cardinality({Row(e) : e \in T}) \in Nat
    BY <1>4, <2>1, FS_CardinalityType
  <2>3. Free(w) \in Nat
    BY FreeType, ConstantsAssumption
  <2> QED BY <1>3, <2>1, <2>2, <2>3
<1>6. /\ a \in Nat /\ t \in Nat /\ b \in Nat /\ b <= a + t /\ credit[w] \in Nat
  BY BoundNumbers
<1>7. Cardinality(cands[w]) = 0
  BY <1>2, FS_EmptySet
<1>8. /\ t + n * credit[w] <= n * Concurrency
      /\ b + 0 + n * credit[w] <= (n + 1) * Concurrency
  BY <1>7 DEF WithinBound, InHand
<1>9. Free(w) = IF a < Concurrency THEN Concurrency - a ELSE 0
  BY DEF Free
<1>10. /\ InHand(w)' = b + c
       /\ Cardinality(Ids(batch'[w])) + n * credit'[w] = t + n * credit[w]
       /\ n * credit'[w] = n * credit[w]
  BY <1>2 DEF InHand
<1>11. /\ n * credit[w] \in Nat /\ n * Concurrency \in Nat /\ Concurrency \in Nat
       /\ (n + 1) * Concurrency = n * Concurrency + Concurrency
  BY <1>6, ConstantsAssumption
<1> HIDE DEF a, b, c, t
<1>12. c <= Concurrency /\ b + c + n * credit[w] <= (n + 1) * Concurrency
  BY <1>5, <1>6, <1>8, <1>9, <1>11
<1> QED BY <1>5, <1>8, <1>10, <1>12 DEF WithinBound, c

(* A claimed row becomes a task: what was listed is in hand now.            *)
LEMMA TakeBound ==
    ASSUME TypeOK, NEW w \in Workers, NEW n \in Nat, WithinBound(w, n), TakeClaimed(w)
    PROVE  WithinBound(w, n)'
<1> DEFINE Had == ids[w] \cup Ids(batch[w])
<1>1. PICK c \in cands[w] :
          /\ ids' = [ids EXCEPT ![w] = @ \cup {Id(c.entry)}]
          /\ cands' = [cands EXCEPT ![w] = @ \ {c}]
  BY DEF TakeClaimed
<1>2. /\ ids'[w] = ids[w] \cup {Id(c.entry)} /\ cands'[w] = cands[w] \ {c}
      /\ UNCHANGED <<batch, credit>>
  BY <1>1 DEF TakeClaimed, TypeOK, consume
<1>3. /\ IsFiniteSet(Had) /\ Cardinality(Had) \in Nat /\ IsFiniteSet(cands[w])
      /\ Cardinality(cands[w]) \in Nat
  BY BoundNumbers DEF WithinBound
<1>4. ids'[w] \cup Ids(batch'[w]) = Had \cup {Id(c.entry)}
  BY <1>2
<1>5. /\ Cardinality(Had \cup {Id(c.entry)}) \in Nat
      /\ Cardinality(Had \cup {Id(c.entry)}) <= Cardinality(Had) + 1
  <2> HIDE DEF Had
  <2>1. Cardinality(Had \cup {Id(c.entry)}) =
            IF Id(c.entry) \in Had THEN Cardinality(Had) ELSE Cardinality(Had) + 1
    BY <1>3, FS_AddElement
  <2> QED BY <1>3, <2>1
<1>6. /\ IsFiniteSet(cands'[w]) /\ Cardinality(cands'[w]) = Cardinality(cands[w]) - 1
  BY <1>2, <1>3, FS_RemoveElement
<1>7. credit[w] \in Nat
  BY BoundNumbers
<1>8. n * credit[w] \in Nat /\ (n + 1) * Concurrency \in Nat /\ Concurrency \in Nat
  BY <1>7, ConstantsAssumption
<1>9. /\ Cardinality(cands[w]) <= Concurrency
      /\ Cardinality(Had) + Cardinality(cands[w]) + n * credit[w] <= (n + 1) * Concurrency
      /\ Cardinality(Ids(batch'[w])) + n * credit'[w] <= n * Concurrency
      /\ n * credit'[w] = n * credit[w]
  BY <1>2 DEF WithinBound, InHand
<1>10. InHand(w)' = Cardinality(Had \cup {Id(c.entry)}) + Cardinality(cands'[w])
  BY <1>4 DEF InHand
<1> HIDE DEF Had
<1>11. /\ Cardinality(cands'[w]) <= Concurrency
       /\ InHand(w)' + n * credit'[w] <= (n + 1) * Concurrency
  BY <1>3, <1>5, <1>6, <1>8, <1>9, <1>10
<1> QED BY <1>6, <1>9, <1>11 DEF WithinBound

(* Every step keeps every worker within its bounds.                         *)
LEMMA BoundStep == TypeOK /\ BoundInv /\ [Next]_vars => BoundInv'
<1> SUFFICES ASSUME TypeOK, TypeOK', BoundInv, [Next]_vars, NEW v \in Workers
             PROVE  LoopAsks(v)' /\ \A n \in Widths : WithinBound(v, n)'
  BY TypeStep DEF BoundInv, Widths
<1> DEFINE Goal   == LoopAsks(v)' /\ \A n \in Widths : WithinBound(v, n)'
           Shrunk == /\ ids'[v] \cup Ids(batch'[v]) \subseteq ids[v] \cup Ids(batch[v])
                     /\ Ids(batch'[v]) \subseteq Ids(batch[v])
                     /\ cands'[v] \subseteq cands[v]
                     /\ credit'[v] = credit[v] \/ credit'[v] = 0
<1>1. /\ LoopAsks(v) /\ \A n \in Widths : n \in Nat /\ WithinBound(v, n)
      /\ \A n \in Widths, R \in ReadSets : Cardinality(R) <= n
      /\ credit[v] \in Nat
  BY ConstantsAssumption DEF BoundInv, Widths, TypeOK
<1>2. Shrunk => \A n \in Widths : WithinBound(v, n)'
  <2> SUFFICES ASSUME Shrunk, NEW n \in Widths PROVE WithinBound(v, n)'
    OBVIOUS
  <2> QED BY <1>1, BoundShrinks
<1>3. ASSUME NEW w \in Workers, AskForWork(w) PROVE Goal
  <2>1. LoopAsks(v)'
    BY <1>1, <1>3 DEF AskForWork, LoopAsks, TypeOK, life
  <2>2. CASE v = w
    BY <1>1, <1>3, <2>1, <2>2, AskBound
  <2>3. CASE v # w
    <3>1. Shrunk
      BY <1>3, <2>3 DEF AskForWork, TypeOK, slots, reclaim
    <3> QED BY <1>2, <2>1, <3>1
  <2> QED BY <2>2, <2>3
<1>4. ASSUME NEW w \in Workers, ServeSome(w) PROVE Goal
  <2>1. PICK R \in ReadSets, T \in SUBSET Queued : Serve(w, R, T)
    BY <1>4 DEF ServeSome
  <2>2. LoopAsks(v)'
    BY <1>1, <2>1 DEF Serve, LoopAsks, TypeOK, life
  <2>3. CASE v = w
    BY <1>1, <2>1, <2>2, <2>3, ServeBound
  <2>4. CASE v # w
    <3>1. Shrunk
      BY <2>1, <2>4 DEF Serve, TypeOK, slots, reclaim
    <3> QED BY <1>2, <2>2, <3>1
  <2> QED BY <2>3, <2>4
<1>5. ASSUME NEW w \in Workers, ListPending(w) PROVE Goal
  <2>1. LoopAsks(v)'
    BY <1>1, <1>5 DEF ListPending, LoopAsks, TypeOK, life, consume
  <2>2. CASE v = w
    BY <1>1, <1>5, <2>1, <2>2, ListBound
  <2>3. CASE v # w
    <3>1. Shrunk
      BY <1>5, <2>3 DEF ListPending, TypeOK, slots, consume
    <3> QED BY <1>2, <2>1, <3>1
  <2> QED BY <2>2, <2>3
<1>6. ASSUME NEW w \in Workers, TakeClaimed(w) PROVE Goal
  <2>1. LoopAsks(v)'
    BY <1>1, <1>6 DEF TakeClaimed, LoopAsks, TypeOK, life, consume
  <2>2. CASE v = w
    BY <1>1, <1>6, <2>1, <2>2, TakeBound
  <2>3. CASE v # w
    <3>1. Shrunk
      BY <1>6, <2>3 DEF TakeClaimed, TypeOK, consume
    <3> QED BY <1>2, <2>1, <3>1
  <2> QED BY <2>2, <2>3
<1>7. ASSUME NEW w \in Workers,
             WaitForSlot(w) \/ Wake(w) \/ ReadNothing(w) \/ ReadFails(w)
      PROVE  Goal
  <2>1. LoopAsks(v)' /\ Shrunk
    BY <1>1, <1>7 DEF WaitForSlot, Wake, ReadNothing, ReadFails, LoopAsks, Ids, TypeOK,
       life, slots, reclaim
  <2> QED BY <1>2, <2>1
<1>8. ASSUME NEW w \in Workers, TakeSlots(w) \/ MarkAlive(w) \/ MarkFails(w) PROVE Goal
  <2>1. LoopAsks(v)'
    BY <1>1, <1>8 DEF TakeSlots, MarkAlive, MarkFails, LoopAsks, TypeOK, life
  <2>2. Shrunk
    <3>1. UNCHANGED <<credit, cands>>
      BY <1>8 DEF TakeSlots, MarkAlive, MarkFails, reclaim
    <3>2. CASE TakeSlots(w)
      BY <3>1, <3>2 DEF TakeSlots, TypeOK
    <3>3. CASE MarkAlive(w) \/ MarkFails(w)
      <4>1. batch'[v] \subseteq batch[v] /\ ids'[v] \subseteq ids[v]
        <5>1. /\ batch' = [batch EXCEPT ![w] = {}]
              /\ ids' = ids \/ ids' = [ids EXCEPT ![w] = @ \ Ids(batch[w])]
          BY <3>3 DEF MarkAlive, MarkFails, slots
        <5> QED BY <5>1 DEF TypeOK
      <4> QED BY <3>1, <4>1 DEF Ids
    <3> QED BY <1>8, <3>2, <3>3
  <2> QED BY <1>2, <2>1, <2>2
<1>9. ASSUME NEW w \in Workers,
             \/ Skip(w) \/ ClaimRefused(w) \/ Claim(w) \/ BuryWrite(w) \/ BuryAck(w)
             \/ ReclaimFails(w)
      PROVE  Goal
  <2>1. UNCHANGED <<mode, consume, ids>>
    BY <1>9 DEF Skip, ClaimRefused, Claim, BuryWrite, BuryAck, ReclaimFails,
       life, slots
  <2>2. cands'[v] \subseteq cands[v]
    <3>1. \/ cands' = cands
          \/ \E c \in cands[w] : cands' = [cands EXCEPT ![w] = @ \ {c}]
          \/ cands' = [cands EXCEPT ![w] = {}]
      BY <1>9 DEF Skip, ClaimRefused, Claim, BuryWrite, BuryAck, ReclaimFails
    <3>2. \E S \in SUBSET cands[w] : cands' = [cands EXCEPT ![w] = S] \/ cands' = cands
      BY <3>1
    <3>3. cands \in [Workers -> SUBSET Candidate]
      BY DEF TypeOK
    <3> QED BY ONLY <3>2, <3>3, v \in Workers, w \in Workers
  <2>3. LoopAsks(v)' /\ Shrunk
    BY <1>1, <2>1, <2>2 DEF LoopAsks, consume
  <2> QED BY <1>2, <2>3
<1>10. ASSUME NEW w \in Workers, NEW e \in Entries,
              TaskStep(w, e) \/ HandBack(w, e) \/ RecoveryFails(w, e) \/ CancelFails(w, e)
       PROVE  Goal
  <2>1. UNCHANGED <<mode, consume, reclaim>> /\ (ids' = ids \/ EndTask(w, e))
    BY <1>10 DEF TaskStep, HandBack, RecoveryFails, CancelFails, Ack, Return,
       BrokerFails, Cancel, slots, life
  <2>2. ids'[v] \subseteq ids[v]
    BY <2>1 DEF EndTask, TypeOK
  <2>3. LoopAsks(v)' /\ Shrunk
    BY <1>1, <2>1, <2>2 DEF LoopAsks, consume, reclaim
  <2> QED BY <1>2, <2>3
<1>11. ASSUME NEW w \in Workers,
              \/ Start(w) \/ Signal(w) \/ DrainTimeout(w) \/ SecondSignal(w)
              \/ Crash(w) \/ ShutdownStep(w)
       PROVE  Goal
  <2>1. Shrunk
    BY <1>11 DEF ShutdownStep, Start, Signal, DrainTimeout, SecondSignal, CutOff,
       Crash, Drain, Stopped, Gone, Ids, TypeOK, slots, consume, reclaim
  <2>2. LoopAsks(v)'
    BY <1>1, <1>11 DEF ShutdownStep, Start, Signal, DrainTimeout, SecondSignal, CutOff,
       Crash, Drain, Stopped, Gone, LoopAsks, TypeOK, life, consume
  <2> QED BY <1>2, <2>1, <2>2
<1>12. ASSUME \/ \E e \in Entries : Enqueue(e) \/ IdleElapses(e)
              \/ \E i \in 1..MaxId : AliveExpires(i)
              \/ UNCHANGED vars
       PROVE  Goal
  <2>1. UNCHANGED <<mode, consume, reclaim, ids>>
    BY <1>12 DEF Enqueue, IdleElapses, AliveExpires, vars, slots, life
  <2>2. LoopAsks(v)' /\ Shrunk
    BY <1>1, <2>1 DEF LoopAsks, consume, reclaim
  <2> QED BY <1>2, <2>2
<1> QED
  BY <1>3, <1>4, <1>5, <1>6, <1>7, <1>8, <1>9, <1>10, <1>11, <1>12
  DEF Next, ConsumeStep, ReclaimStep

LEMMA BoundInit == Init => BoundInv
<1> SUFFICES ASSUME Init, NEW w \in Workers PROVE LoopAsks(w) /\ \A n \in Widths : WithinBound(w, n)
  BY DEF BoundInv
<1>1. /\ mode[w] = "down" /\ cpc[w] = "off" /\ batch[w] = {} /\ credit[w] = 0
      /\ cands[w] = {} /\ ids[w] = {}
  BY DEF Init
<1>2. Ids(batch[w]) = {} /\ ids[w] \cup Ids(batch[w]) = {}
  BY <1>1 DEF Ids
<1>3. IsFiniteSet({}) /\ Cardinality({}) = 0
  BY FS_EmptySet
<1>4. ASSUME NEW n \in Widths PROVE WithinBound(w, n)
  <2>1. n \in Nat /\ Concurrency \in Nat
    BY ConstantsAssumption DEF Widths
  <2>2. n * 0 = 0 /\ n * Concurrency \in Nat /\ (n + 1) * Concurrency \in Nat
    BY <2>1
  <2> QED BY <1>1, <1>2, <1>3, <2>1, <2>2 DEF WithinBound, InHand
<1> QED BY <1>1, <1>4 DEF LoopAsks

(* Whoever stalls, crashes or fails, and whatever ids the streams hand out: *)
(* a worker that reads n streams at a time never has more than              *)
(* (n + 1) * Concurrency entries in hand, listed or asked for               *)
(* (worker.py:220-245, 528-532).                                            *)
THEOREM InFlightIsBounded == Spec => []InFlightBound
<1>1. BoundInv => InFlightBound
  BY DEF BoundInv, WithinBound, InFlightBound
<1> QED BY <1>1, BoundInit, BoundStep, TypeCorrect, PTL DEF Spec
=============================================================================
