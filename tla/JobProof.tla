------------------------------ MODULE JobProof ------------------------------
(***************************************************************************)
(* Proofs about module Job, for any number of jobs, workers, entries,      *)
(* crashes and faults: no job without a deduplication key is ever lost, no *)
(* key runs twice while it lives, waiters of a buried job are told before, *)
(* and a job is buried for its attempts only when they were spent on it.   *)
(***************************************************************************)
EXTENDS JobProps, TLAPS

(* A job has at least one attempt, so an unused slot has an envelope.      *)
LEMMA BlankIsEnvelope == Blank \in Envelope /\ Blank.attempt = 0
<1>1. PICK j \in Jobs : TRUE
  BY ConstantsAssumption
<1>2. [job |-> j, attempt |-> 0] \in Envelope
  BY <1>1, ConstantsAssumption DEF Envelope
<1>3. \E e \in Envelope : e.attempt = 0
  BY <1>2
<1> QED
  BY <1>3 DEF Blank

LEMMA UpInRange ==
  ASSUME NEW most \in Nat, NEW n \in 0..most
  PROVE  Up(n, most) \in 0..most
BY DEF Up

(* The parts of TypeOK about what Redis stores, and about the tasks.       *)
StoredType ==
    /\ present \in [Slots -> BOOLEAN]
    /\ delivered \in [Slots -> 0..(MaxDeliveries + 1)]
    /\ sched \subseteq Scheduled
    /\ gates \subseteq Keys
    /\ result \in [Jobs -> {"none", "ok", "failed"}]
    /\ dlq \subseteq Jobs \X Reasons

TaskType ==
    /\ env \in [Slots -> Envelope]
    /\ by \in [Slots -> Workers \cup {NoOne}]
    /\ pc \in [Slots -> {"idle", "started", "running", "returned",
                         "failed", "burying", "acking"}]
    /\ recovering \in [Slots -> BOOLEAN]
    /\ why \in [Slots -> Reasons \cup {"none"}]
    /\ \A s \in Slots : pc[s] = "burying" => why[s] # "none"

LEMMA EndType == ASSUME TypeOK, NEW s \in Slots, End(s) PROVE TaskType'
<1>1. env' \in [Slots -> Envelope]
  <2>1. env \in [Slots -> Envelope] /\ Blank \in Envelope
    BY BlankIsEnvelope DEF TypeOK
  <2>2. env' = env \/ env' = [env EXCEPT ![s] = Blank]
    BY DEF End
  <2> QED BY <2>1, <2>2
<1>2. /\ by' \in [Slots -> Workers \cup {NoOne}]
      /\ recovering' \in [Slots -> BOOLEAN]
  BY DEF TypeOK, End
<1>3. /\ pc' \in [Slots -> {"idle", "started", "running", "returned",
                            "failed", "burying", "acking"}]
      /\ why' \in [Slots -> Reasons \cup {"none"}]
      /\ \A r \in Slots : pc'[r] = "burying" => why'[r] # "none"
  BY DEF TypeOK, End, Goto
<1> QED BY <1>1, <1>2, <1>3 DEF TaskType

LEMMA ExceptType == ASSUME TypeOK, NEW s \in Slots, Except(s) PROVE TaskType'
<1>1. CASE recovering[s]
  BY <1>1, EndType DEF Except
<1>2. CASE ~recovering[s]
  <2>1. /\ pc' = [pc EXCEPT ![s] = "failed"]
        /\ recovering' = [recovering EXCEPT ![s] = TRUE]
        /\ why' = [why EXCEPT ![s] = "none"]
        /\ env' = env /\ by' = by
    BY <1>2 DEF Except, Goto
  <2>2. \A r \in Slots : pc'[r] = "burying" => why'[r] # "none"
    BY <2>1 DEF TypeOK
  <2> QED BY <2>1, <2>2 DEF TypeOK, TaskType
<1> QED
  BY <1>1, <1>2

LEMMA CommandType == ASSUME TypeOK, NEW s \in Slots, Command(s) PROVE StoredType'
<1> USE ConstantsAssumption
<1>1. CASE Wins(s) /\ SetGate(s)
  BY <1>1 DEF TypeOK, StoredType, Wins, SetGate, Gated, Keyed, JobOf, Envelope
<1>2. ASSUME NEW o \in {"ok", "failed"}, Keep(s, o) PROVE StoredType'
  BY <1>2 DEF TypeOK, StoredType, Keep
<1>3. CASE DeferCommand(s)
  BY <1>3 DEF TypeOK, StoredType, DeferCommand, DeferredAttempt, Schedule, Scheduled,
              Envelope, JobOf, MaxAge
<1>4. CASE RetryCommand(s)
  BY <1>4 DEF TypeOK, StoredType, RetryCommand, Exhausted, Schedule, Scheduled,
              Envelope, JobOf
<1>5. CASE pc[s] = "burying" /\ DeadLetter(s)
  BY <1>5 DEF TypeOK, StoredType, DeadLetter, JobOf, Envelope
<1>6. CASE AckEntry(s)
  BY <1>6 DEF TypeOK, StoredType, AckEntry
<1> QED
  BY <1>1, <1>2, <1>3, <1>4, <1>5, <1>6 DEF Command

LEMMA TypeInit == Init => TypeOK
BY BlankIsEnvelope, ConstantsAssumption
   DEF Init, TypeOK, Reasons, MaxAge

LEMMA TypeNext == TypeOK /\ [Next]_vars => TypeOK'
<1> SUFFICES ASSUME TypeOK, [Next]_vars
             PROVE  TypeOK'
  OBVIOUS
<1> USE ConstantsAssumption
<1>1. ASSUME NEW j \in Jobs, Enqueue(j) PROVE TypeOK'
  BY <1>1 DEF TypeOK, Enqueue, Add, Envelope
<1>2. ASSUME NEW j \in Jobs, Tick(j) PROVE TypeOK'
  BY <1>2 DEF TypeOK, Tick, stored, task, past, MaxAge
<1>3. ASSUME NEW k \in Keys, GateExpires(k) PROVE TypeOK'
  BY <1>3 DEF TypeOK, GateExpires, task
<1>4. ASSUME NEW c \in sched, Promote(c) PROVE TypeOK'
  BY <1>4 DEF TypeOK, Promote, Add, Envelope, Scheduled, past
<1>5. ASSUME NEW s \in Slots, NEW w \in Workers, Take(s, w) PROVE TypeOK'
  BY <1>5 DEF TypeOK, Take, Up, past
<1>6. ASSUME NEW s \in Slots, NEW w \in Workers, TakeOverDelivered(s, w) PROVE TypeOK'
  BY <1>6 DEF TypeOK, TakeOverDelivered, stored, past, Reasons
<1>7. ASSUME NEW s \in Slots, Malformed(s) PROVE TypeOK'
  BY <1>7 DEF TypeOK, Malformed, DecideToBury, Goto, stored, past, Reasons
<1>8. ASSUME NEW s \in Slots, ExpireUnknown(s) PROVE TypeOK'
  BY <1>8 DEF TypeOK, ExpireUnknown, DecideToBury, Goto, stored, past, Reasons
<1>9. ASSUME NEW s \in Slots, RunUngated(s) PROVE TypeOK'
  BY <1>9 DEF TypeOK, RunUngated, Run, Ungated, Keyed, JobOf, Envelope, Up, Goto, stored
<1>10. ASSUME NEW s \in Slots, RunGated(s) PROVE TypeOK'
  BY <1>10 DEF TypeOK, RunGated, Run, SetGate, Wins, Gated, Keyed, JobOf, Envelope, Up, Goto
<1>11. ASSUME NEW s \in Slots, Skip(s) PROVE TypeOK'
  BY <1>11 DEF TypeOK, Skip, Goto, stored, past
<1>12. ASSUME NEW s \in Slots, Return(s) PROVE TypeOK'
  BY <1>12 DEF TypeOK, Return, JobOf, Envelope, Goto, stored
<1>13. ASSUME NEW s \in Slots, KeepOk(s) PROVE TypeOK'
  BY <1>13 DEF TypeOK, KeepOk, Keep, Done, JobOf, Goto, past
<1>14. ASSUME NEW s \in Slots, Defer(s) PROVE TypeOK'
  BY <1>14 DEF TypeOK, Defer, DeferCommand, DeferredAttempt, Schedule, Scheduled, Envelope, JobOf, MaxAge, Done, Goto, past
<1>15. ASSUME NEW s \in Slots, Retry(s) PROVE TypeOK'
  BY <1>15 DEF TypeOK, Retry, RetryCommand, Exhausted, Schedule, Scheduled, Envelope, JobOf, Done, Goto, past
<1>16. ASSUME NEW s \in Slots, Exhaust(s) PROVE TypeOK'
  BY <1>16 DEF TypeOK, Exhaust, Keep, BuryExhausted, JobOf, Goto, past, Reasons
<1>17. ASSUME NEW s \in Slots, Bury(s) PROVE TypeOK'
  BY <1>17 DEF TypeOK, Bury, DeadLetter, Done, JobOf, Envelope, Goto, past
<1>18. ASSUME NEW s \in Slots, Raise(s) PROVE TypeOK'
  BY <1>18, ExceptType DEF TypeOK, TaskType, Raise, stored, Up, JobOf, Envelope
<1>19. ASSUME NEW s \in Slots, LetGo(s) PROVE TypeOK'
  BY <1>19, EndType DEF TypeOK, TaskType, LetGo, stored, past
<1>20. ASSUME NEW s \in Slots, Ack(s) PROVE TypeOK'
  BY <1>20, EndType DEF TypeOK, TaskType, Ack, AckEntry, stored, past
<1>21. ASSUME NEW s \in Slots, Lose(s) PROVE TypeOK'
  BY <1>21, EndType DEF TypeOK, TaskType, Lose, stored, past
<1>22. ASSUME NEW s \in Slots, Fail(s) PROVE TypeOK'
  <2>1. StoredType' /\ present' \in [Slots -> BOOLEAN]
    BY <1>22, CommandType DEF Fail, StoredType, TypeOK, stored, Scheduled, Reasons
  <2> QED
    BY <1>22, <2>1, ExceptType DEF TypeOK, TaskType, Fail, StoredType, past
<1>23. CASE UNCHANGED vars
  BY <1>23 DEF TypeOK, vars, stored, task, past, JobOf
<1> QED
  BY <1>1, <1>2, <1>3, <1>4, <1>5, <1>6, <1>7, <1>8, <1>9, <1>10, <1>11, <1>12, <1>13, <1>14, <1>15, <1>16, <1>17, <1>18, <1>19, <1>20, <1>21, <1>22, <1>23 DEF Next, Offer, Handle


(* Every variable of a job's life stays in its range: in particular no     *)
(* envelope is ever sent out with more attempts than the policy has, and   *)
(* nothing is buried without a reason (worker.py:378-504).                 *)
THEOREM TypeCorrect == Spec => []TypeOK
BY TypeInit, TypeNext, PTL DEF Spec

-----------------------------------------------------------------------------
(* NoJobLost.  The inductive invariant is HandedOver.                      *)

(* The commands of a task never take anything away but its own entry, and  *)
(* that only when it stopped counting.                                     *)
Only(s) ==
    /\ \A t \in Slots \ {s} : present'[t] = present[t]
    /\ present'[s] # present[s] => pc[s] = "acking"
    /\ dlq \subseteq dlq'
    /\ \A j \in Jobs : OnTheClock(j) => OnTheClock(j)'

(* What a task does to its own place, leaving all other tasks alone.       *)
Own(s) ==
    /\ \A t \in Slots \ {s} : env'[t] = env[t] /\ pc'[t] = pc[t]
    /\ present'[s] => env'[s] = env[s]

LEMMA ScheduleOnly ==
  ASSUME TypeOK, NEW s \in Slots, NEW k, NEW i, NEW n, Schedule(s, k, i, n)
  PROVE  Only(s) /\ \E c \in sched' : c.job = JobOf(s)
<1> DEFINE new == [kind |-> k, job |-> JobOf(s), n |-> i, attempt |-> n]
<1>1. new \in sched' /\ new.job = JobOf(s)
  BY DEF Schedule
<1>2. \A c \in sched : c.job # JobOf(s) => c \in sched'
  BY DEF Schedule
<1>3. \A j \in Jobs : OnTheClock(j) => OnTheClock(j)'
  BY <1>1, <1>2 DEF OnTheClock
<1> QED
  BY <1>1, <1>3 DEF Schedule, Only

LEMMA CommandOnly ==
  ASSUME TypeOK, NEW s \in Slots, Command(s) \/ UNCHANGED stored
  PROVE  Only(s)
<1>1. CASE UNCHANGED stored
  BY <1>1 DEF Only, OnTheClock, stored
<1>2. CASE DeferCommand(s)
  BY <1>2, ScheduleOnly DEF DeferCommand
<1>3. CASE RetryCommand(s)
  BY <1>3, ScheduleOnly DEF RetryCommand
<1>4. CASE AckEntry(s) /\ pc[s] = "acking"
  BY <1>4 DEF AckEntry, Only, OnTheClock, TypeOK
<1>5. CASE SetGate(s) \/ Keep(s, "ok") \/ Keep(s, "failed") \/ DeadLetter(s)
  BY <1>5 DEF SetGate, Keep, DeadLetter, Only, OnTheClock
<1> QED
  BY <1>1, <1>2, <1>3, <1>4, <1>5 DEF Command

LEMMA EndOwn == ASSUME TypeOK, NEW s \in Slots, End(s) PROVE Own(s) /\ pc'[s] = "idle"
BY DEF End, Own, Goto, TypeOK

LEMMA ExceptOwn ==
  ASSUME TypeOK, NEW s \in Slots, Except(s)
  PROVE  Own(s) /\ pc'[s] \in {"idle", "failed"}
<1>1. CASE recovering[s]
  BY <1>1, EndOwn DEF Except
<1>2. CASE ~recovering[s]
  BY <1>2 DEF Except, Own, Goto, TypeOK
<1> QED
  BY <1>1, <1>2

LEMMA GotoOwn ==
  ASSUME TypeOK, NEW s \in Slots, NEW l, Goto(s, l), UNCHANGED env
  PROVE  Own(s) /\ pc'[s] = l
BY DEF Goto, Own, TypeOK

(* A step of one task keeps HandedOver, if it moves to "acking" only when  *)
(* something else stands for its job, and to "returned" when its handler   *)
(* has returned.                                                           *)
LEMMA TaskStep ==
  ASSUME TypeOK, HandedOver, NEW s \in Slots, Only(s), Own(s),
         completed \subseteq completed', asked' = asked,
         pc'[s] = "acking" => \/ pc[s] = "acking" /\ present'[s] = present[s]
                              \/ KeyOf[JobOf(s)] # NoKey
                              \/ \E c \in sched' : c.job = JobOf(s)
                              \/ JobOf(s) \in completed
                              \/ \E r \in Reasons : <<JobOf(s), r>> \in dlq',
         pc'[s] = "returned" => (JobOf(s) \in completed)'
  PROVE  HandedOver'
<1>1. \A t \in Slots : pc'[t] = "returned" => JobOf(t)' \in completed'
  BY DEF HandedOver, Own, JobOf
<1>2. ASSUME NEW j \in asked, KeyOf[j] = NoKey
      PROVE  (Kept(j) \/ OnTheClock(j) \/ j \in completed \/ Buried(j))'
  <2>1. j \in Jobs
    BY <1>2 DEF TypeOK
  <2>2. CASE OnTheClock(j) \/ j \in completed
    BY <2>1, <2>2 DEF Only
  <2>3. CASE Buried(j)
    BY <2>3 DEF Only, Buried
  <2>4. CASE Kept(j)
    <3>1. PICK t \in Slots : present[t] /\ JobOf(t) = j /\ pc[t] # "acking"
      BY <2>4 DEF Kept
    <3>2. CASE t # s
      BY <3>1, <3>2 DEF Only, Own, Kept, JobOf
    <3>3. CASE t = s
      <4>1. present'[s] /\ JobOf(s)' = j
        BY <3>1, <3>3 DEF Only, Own, JobOf, TypeOK
      <4>2. CASE pc'[s] # "acking"
        BY <4>1, <4>2 DEF Kept
      <4>3. CASE pc'[s] = "acking"
        BY <1>2, <3>1, <3>3, <4>3 DEF OnTheClock, Buried
      <4> QED
        BY <4>2, <4>3
    <3> QED
      BY <3>2, <3>3
  <2> QED
    BY <1>2, <2>2, <2>3, <2>4 DEF HandedOver
<1> QED
  BY <1>1, <1>2 DEF HandedOver

LEMMA KeepOnly ==
  ASSUME NEW s \in Slots, NEW o, Keep(s, o)
  PROVE  Only(s)
BY DEF Keep, Only, OnTheClock

LEMMA HandedOverInit == Init => HandedOver
BY DEF Init, HandedOver

LEMMA HandedOverNext == TypeOK /\ HandedOver /\ [Next]_vars => HandedOver'
<1> SUFFICES ASSUME TypeOK, HandedOver, [Next]_vars
             PROVE  HandedOver'
  OBVIOUS
<1>1. ASSUME NEW s \in Slots, NEW j \in Jobs, NEW n, Add(s, j, n), UNCHANGED pc,
             completed' = completed, dlq' = dlq,
             asked' \subseteq asked \cup {j},
             \A i \in Jobs : i # j /\ OnTheClock(i) => OnTheClock(i)'
      PROVE  HandedOver'
  <2>1. ~present[s] /\ pc[s] = "idle"
    BY <1>1 DEF Add, Vacant
  <2>2. \A t \in Slots \ {s} : env'[t] = env[t] /\ present'[t] = present[t]
    BY <1>1 DEF Add, TypeOK
  <2>3. present'[s] /\ env'[s].job = j
    BY <1>1 DEF Add, TypeOK
  <2>4. \A t \in Slots : pc'[t] = "returned" => JobOf(t)' \in completed'
    BY <1>1, <2>1, <2>2 DEF HandedOver, JobOf
  <2>5. ASSUME NEW i \in asked', KeyOf[i] = NoKey
        PROVE  (Kept(i) \/ OnTheClock(i) \/ i \in completed \/ Buried(i))'
    <3>1. CASE i = j
      BY <1>1, <2>1, <2>3, <3>1 DEF Kept, JobOf
    <3>2. CASE i # j
      <4>1. i \in asked /\ i \in Jobs
        BY <1>1, <2>5, <3>2 DEF TypeOK
      <4>2. Kept(i) => Kept(i)'
        BY <1>1, <2>1, <2>2 DEF Kept, JobOf
      <4>3. Buried(i) => Buried(i)'
        BY <1>1 DEF Buried
      <4>4. Kept(i) \/ OnTheClock(i) \/ i \in completed \/ Buried(i)
        BY <4>1, <2>5 DEF HandedOver
      <4> QED
        BY <1>1, <3>2, <4>1, <4>2, <4>3, <4>4
    <3> QED
      BY <3>1, <3>2
  <2> QED
    BY <2>4, <2>5 DEF HandedOver
<1>2. ASSUME NEW j \in Jobs, Enqueue(j) PROVE HandedOver'
  <2>1. PICK s \in Slots : Add(s, j, 0)
    BY <1>2 DEF Enqueue
  <2>2. \A i \in Jobs : OnTheClock(i) => OnTheClock(i)'
    BY <1>2 DEF Enqueue, OnTheClock
  <2>3. UNCHANGED pc /\ completed' = completed /\ dlq' = dlq
        /\ asked' \subseteq asked \cup {j}
    BY <1>2, <2>1 DEF Enqueue, Add
  <2> QED
    BY <1>1, <2>1, <2>2, <2>3
<1>3. ASSUME NEW c \in sched, Promote(c) PROVE HandedOver'
  <2>1. PICK s \in Slots : Add(s, c.job, c.attempt)
    BY <1>3 DEF Promote
  <2>2. c.job \in Jobs
    BY DEF TypeOK, Scheduled
  <2>3. \A i \in Jobs : i # c.job /\ OnTheClock(i) => OnTheClock(i)'
    BY <1>3 DEF Promote, OnTheClock
  <2>4. UNCHANGED pc /\ completed' = completed /\ dlq' = dlq
        /\ asked' \subseteq asked \cup {c.job}
    BY <1>3, <2>1 DEF Promote, Add, past
  <2> QED
    BY <1>1, <2>1, <2>2, <2>3, <2>4
<1>4. ASSUME UNCHANGED <<present, sched, dlq, env, pc, asked, completed>> PROVE HandedOver'
  BY <1>4 DEF HandedOver, Kept, OnTheClock, Buried, JobOf
<1>5. ASSUME NEW j \in Jobs, Tick(j) PROVE HandedOver'
  BY <1>4, <1>5 DEF Tick, stored, task, past
<1>6. ASSUME NEW k \in Keys, GateExpires(k) PROVE HandedOver'
  BY <1>4, <1>6 DEF GateExpires, task
<1>7. ASSUME NEW s \in Slots, NEW w \in Workers, Take(s, w) PROVE HandedOver'
  BY <1>7, TaskStep, GotoOwn DEF Take, Only, Own, OnTheClock, past, TypeOK
<1>8. ASSUME NEW s \in Slots, NEW w \in Workers, TakeOverDelivered(s, w)
      PROVE  HandedOver'
  BY <1>8, TaskStep DEF TakeOverDelivered, Only, Own, OnTheClock, stored, past, TypeOK
<1>9. ASSUME NEW s \in Slots, DecideToBury(s, "malformed") \/ DecideToBury(s, "unknown_task")
      PROVE  HandedOver'
  BY <1>9, TaskStep, GotoOwn, CommandOnly DEF DecideToBury, past
<1>10. ASSUME NEW s \in Slots, RunUngated(s) \/ RunGated(s) PROVE HandedOver'
  <2>1. Only(s)
    BY <1>10, CommandOnly DEF RunUngated, RunGated, Command
  <2> QED
    BY <1>10, <2>1, TaskStep, GotoOwn DEF RunUngated, RunGated, Run
<1>11. ASSUME NEW s \in Slots, Skip(s) PROVE HandedOver'
  BY <1>11, TaskStep, GotoOwn, CommandOnly DEF Skip, Gated, Keyed, past
<1>12. ASSUME NEW s \in Slots, Return(s) PROVE HandedOver'
  <2>1. (JobOf(s) \in completed)'
    BY <1>12 DEF Return, JobOf
  <2> QED
    BY <1>12, <2>1, TaskStep, GotoOwn, CommandOnly DEF Return
<1>13. ASSUME NEW s \in Slots, Raise(s) PROVE HandedOver'
  BY <1>13, TaskStep, ExceptOwn, CommandOnly DEF Raise
<1>14. ASSUME NEW s \in Slots, KeepOk(s) PROVE HandedOver'
  BY <1>14, TaskStep, GotoOwn, KeepOnly DEF KeepOk, Done, HandedOver, past
<1>15. ASSUME NEW s \in Slots, Defer(s) \/ Retry(s) PROVE HandedOver'
  BY <1>15, TaskStep, GotoOwn, ScheduleOnly
     DEF Defer, Retry, DeferCommand, RetryCommand, Done, past
<1>16. ASSUME NEW s \in Slots, Exhaust(s) PROVE HandedOver'
  BY <1>16, TaskStep, GotoOwn, KeepOnly DEF Exhaust, BuryExhausted, past
<1>17. ASSUME NEW s \in Slots, Bury(s) PROVE HandedOver'
  <2>1. Only(s)
    BY <1>17, CommandOnly DEF Bury, Command
  <2>2. why[s] \in Reasons /\ <<JobOf(s), why[s]>> \in dlq'
    BY <1>17 DEF Bury, DeadLetter, TypeOK
  <2> QED
    BY <1>17, <2>1, <2>2, TaskStep, GotoOwn DEF Bury, Done, past
<1>18. ASSUME NEW s \in Slots, LetGo(s) \/ Lose(s) PROVE HandedOver'
  BY <1>18, TaskStep, EndOwn, CommandOnly DEF LetGo, Lose, past
<1>19. ASSUME NEW s \in Slots, Ack(s) PROVE HandedOver'
  <2>1. Only(s)
    BY <1>19, CommandOnly DEF Ack, Command
  <2> QED
    BY <1>19, <2>1, TaskStep, EndOwn DEF Ack, past
<1>20. ASSUME NEW s \in Slots, Fail(s) PROVE HandedOver'
  BY <1>20, TaskStep, ExceptOwn, CommandOnly DEF Fail, past
<1>21. CASE UNCHANGED vars
  BY <1>4, <1>21 DEF vars, stored, task, past
<1> QED
  BY <1>2, <1>3, <1>5, <1>6, <1>7, <1>8, <1>9, <1>10, <1>11, <1>12, <1>13, <1>14,
     <1>15, <1>16, <1>17, <1>18, <1>19, <1>20, <1>21
     DEF Next, Offer, Handle, Malformed, ExpireUnknown

(* At least once, for every number of jobs, workers, crashes and failed    *)
(* commands: a job without a deduplication key is never without an entry,  *)
(* a place on the clock, a handler that returned or a dead letter.         *)
THEOREM NothingLost == Spec => []NoJobLost
<1>1. HandedOver => NoJobLost
  BY DEF HandedOver, NoJobLost, Traceable, Kept, OnOffer
<1> QED
  BY <1>1, TypeCorrect, HandedOverInit, HandedOverNext, PTL DEF Spec

-----------------------------------------------------------------------------
(* OncePerKey.  The inductive invariant is GateHeld: only the expiry of a  *)
(* key removes it, and it forgets what was run under it.                   *)

LEMMA GatesOnlyGrow ==
  ASSUME NEW s \in Slots, Command(s) \/ UNCHANGED stored
  PROVE  gates \subseteq gates'
BY DEF Command, SetGate, Keep, DeferCommand, RetryCommand, Schedule, DeadLetter,
       AckEntry, stored

LEMMA GateHeldInit == Init => GateHeld
BY DEF Init, GateHeld

LEMMA GateHeldNext == TypeOK /\ GateHeld /\ [Next]_vars => GateHeld'
<1> SUFFICES ASSUME TypeOK, GateHeld, [Next]_vars
             PROVE  GateHeld'
  OBVIOUS
<1>1. ASSUME gates \subseteq gates', gateRuns' = gateRuns PROVE GateHeld'
  BY <1>1 DEF GateHeld
<1>2. ASSUME NEW s \in Slots, RunGated(s) PROVE GateHeld'
  <2> DEFINE k == KeyOf[JobOf(s)]
  <2>1. k \in Keys /\ k \notin gates
    BY <1>2, ConstantsAssumption
       DEF RunGated, Wins, Gated, Keyed, JobOf, TypeOK, Envelope
  <2>2. gateRuns[k] = 0
    BY <2>1 DEF GateHeld, TypeOK
  <2>3. gateRuns' = [gateRuns EXCEPT ![k] = 1] /\ gates' = gates \cup {k}
    BY <1>2, <2>2 DEF RunGated, Run, SetGate, Wins, Gated, Up
  <2> QED
    BY <2>1, <2>3 DEF GateHeld, TypeOK
<1>3. ASSUME NEW k \in Keys, GateExpires(k) PROVE GateHeld'
  BY <1>3 DEF GateExpires, GateHeld, TypeOK
<1>4. ASSUME NEW s \in Slots, RunUngated(s) PROVE GateHeld'
  BY <1>1, <1>4 DEF RunUngated, Run, Ungated, stored
<1>5. ASSUME NEW s \in Slots,
             KeepOk(s) \/ Defer(s) \/ Retry(s) \/ Exhaust(s) \/ Bury(s) \/ Ack(s) \/ Fail(s)
      PROVE  GateHeld'
  <2>1. gates \subseteq gates'
    BY <1>5, GatesOnlyGrow
       DEF KeepOk, Defer, Retry, Exhaust, Bury, Ack, Fail, Command, Keep
  <2>2. gateRuns' = gateRuns
    BY <1>5 DEF KeepOk, Defer, Retry, Exhaust, Bury, Ack, Fail, Done, BuryExhausted, past
  <2> QED
    BY <1>1, <2>1, <2>2
<1>6. ASSUME NEW s \in Slots,
             Malformed(s) \/ ExpireUnknown(s) \/ Skip(s) \/ Return(s) \/ Raise(s)
             \/ LetGo(s) \/ Lose(s)
      PROVE  GateHeld'
  BY <1>1, <1>6 DEF Malformed, ExpireUnknown, DecideToBury, Skip, Return, Raise, LetGo,
                    Lose, stored, past
<1>7. ASSUME NEW j \in Jobs, Enqueue(j) \/ Tick(j) PROVE GateHeld'
  BY <1>1, <1>7 DEF Enqueue, Tick, stored, past
<1>8. ASSUME NEW c \in sched, Promote(c) PROVE GateHeld'
  BY <1>1, <1>8 DEF Promote, past
<1>9. ASSUME NEW s \in Slots, NEW w \in Workers, Take(s, w) \/ TakeOverDelivered(s, w)
      PROVE  GateHeld'
  BY <1>1, <1>9 DEF Take, TakeOverDelivered, stored, past
<1>10. CASE UNCHANGED vars
  BY <1>1, <1>10 DEF vars, stored, past
<1> QED
  BY <1>2, <1>3, <1>4, <1>5, <1>6, <1>7, <1>8, <1>9, <1>10 DEF Next, Offer, Handle

(* The gate holds for every number of producers, workers, retries, crashes *)
(* and lost replies: while a deduplication key lives at most one handler   *)
(* is started under it (worker.py:331).                                    *)
THEOREM RunsOncePerKey == Spec => []OncePerKey
<1>1. GateHeld => OncePerKey
  BY DEF GateHeld, OncePerKey
<1> QED
  BY <1>1, TypeCorrect, GateHeldInit, GateHeldNext, PTL DEF Spec

-----------------------------------------------------------------------------
(* WaiterTold.  The inductive invariant is ToldBeforeBurial.               *)

(* A stored result is replaced, never removed; an entry is only ever       *)
(* buried for the reason its task decided on.                              *)
Tells(s) ==
    /\ \A j \in Jobs : result[j] # "none" => result'[j] # "none"
    /\ dlq' \ dlq \subseteq IF pc[s] = "burying" THEN {<<JobOf(s), why[s]>>} ELSE {}

LEMMA CommandTells ==
  ASSUME TypeOK, NEW s \in Slots, Command(s) \/ UNCHANGED stored
  PROVE  Tells(s)
<1>1. CASE Keep(s, "ok") \/ Keep(s, "failed")
  BY <1>1 DEF Keep, Tells, TypeOK
<1>2. CASE pc[s] = "burying" /\ DeadLetter(s)
  BY <1>2 DEF DeadLetter, Tells
<1>3. CASE \/ SetGate(s) \/ DeferCommand(s) \/ RetryCommand(s) \/ AckEntry(s)
           \/ UNCHANGED stored
  BY <1>3 DEF SetGate, DeferCommand, RetryCommand, Schedule, AckEntry, Tells, stored
<1> QED
  BY <1>1, <1>2, <1>3 DEF Command

(* The step of a task keeps ToldBeforeBurial if it does not begin to bury  *)
(* for the attempts without having told the waiter.                        *)
LEMMA TellingStep ==
  ASSUME TypeOK, ToldBeforeBurial, NEW s \in Slots, Tells(s),
         \A t \in Slots \ {s} : env'[t] = env[t] /\ pc'[t] = pc[t] /\ why'[t] = why[t],
         pc'[s] = "burying" /\ why'[s] = "max_attempts" /\ env'[s].job \in Waited
             => result'[env'[s].job] # "none"
  PROVE  ToldBeforeBurial'
<1>1. Waited \subseteq Jobs
  BY ConstantsAssumption
<1>2. ASSUME NEW t \in Slots, pc'[t] = "burying", why'[t] = "max_attempts",
             env'[t].job \in Waited
      PROVE  result'[env'[t].job] # "none"
  BY <1>1, <1>2 DEF ToldBeforeBurial, Tells, JobOf
<1>3. WaiterTold'
  BY <1>1 DEF ToldBeforeBurial, WaiterTold, Tells, JobOf
<1> QED
  BY <1>2, <1>3 DEF ToldBeforeBurial, JobOf

LEMMA ToldInit == Init => ToldBeforeBurial
BY DEF Init, ToldBeforeBurial, WaiterTold

LEMMA ToldNext == TypeOK /\ ToldBeforeBurial /\ [Next]_vars => ToldBeforeBurial'
<1> SUFFICES ASSUME TypeOK, ToldBeforeBurial, [Next]_vars
             PROVE  ToldBeforeBurial'
  OBVIOUS
<1> USE ConstantsAssumption
<1>1. ASSUME UNCHANGED <<result, dlq, env, pc, why>> PROVE ToldBeforeBurial'
  BY <1>1 DEF ToldBeforeBurial, WaiterTold, JobOf
<1>2. ASSUME NEW s \in Slots, NEW j \in Jobs, NEW n, Add(s, j, n),
             UNCHANGED <<result, dlq>>
      PROVE  ToldBeforeBurial'
  <2>1. pc[s] = "idle" /\ UNCHANGED <<pc, why>>
    BY <1>2 DEF Add, Vacant
  <2>2. \A t \in Slots \ {s} : env'[t] = env[t]
    BY <1>2 DEF Add, TypeOK
  <2> QED
    BY <1>2, <2>1, <2>2 DEF ToldBeforeBurial, WaiterTold, JobOf
<1>3. ASSUME NEW j \in Jobs, Enqueue(j) PROVE ToldBeforeBurial'
  BY <1>2, <1>3 DEF Enqueue
<1>4. ASSUME NEW c \in sched, Promote(c) PROVE ToldBeforeBurial'
  <2>1. c.job \in Jobs
    BY DEF TypeOK, Scheduled
  <2> QED
    BY <1>2, <1>4, <2>1 DEF Promote
<1>5. ASSUME NEW j \in Jobs, Tick(j) PROVE ToldBeforeBurial'
  BY <1>1, <1>5 DEF Tick, stored, task
<1>6. ASSUME NEW k \in Keys, GateExpires(k) PROVE ToldBeforeBurial'
  BY <1>1, <1>6 DEF GateExpires, task
<1>7. ASSUME NEW s \in Slots, NEW l, Tells(s), Goto(s, l), UNCHANGED <<env, why>>,
             l # "burying"
      PROVE  ToldBeforeBurial'
  <2>1. pc'[s] = l /\ \A t \in Slots \ {s} : pc'[t] = pc[t]
    BY <1>7 DEF Goto, TypeOK
  <2> QED
    BY <1>7, <2>1, TellingStep
<1>8. ASSUME NEW s \in Slots, Tells(s), End(s) \/ Except(s) PROVE ToldBeforeBurial'
  <2>1. CASE End(s)
    <3>1. /\ pc'[s] = "idle"
          /\ \A t \in Slots \ {s} : env'[t] = env[t] /\ pc'[t] = pc[t] /\ why'[t] = why[t]
      BY <2>1 DEF End, Goto, TypeOK
    <3> QED
      BY <1>8, <3>1, TellingStep
  <2>2. CASE Except(s) /\ ~End(s)
    <3>1. /\ pc'[s] = "failed"
          /\ \A t \in Slots \ {s} : env'[t] = env[t] /\ pc'[t] = pc[t] /\ why'[t] = why[t]
      BY <2>2 DEF Except, Goto, TypeOK
    <3> QED
      BY <1>8, <3>1, TellingStep
  <2> QED
    BY <1>8, <2>1, <2>2
<1>9. ASSUME NEW s \in Slots, Tells(s), Goto(s, "burying"), UNCHANGED env,
             NEW r \in Reasons, why' = [why EXCEPT ![s] = r],
             r = "max_attempts" /\ JobOf(s) \in Waited => result'[JobOf(s)] # "none"
      PROVE  ToldBeforeBurial'
  <2>1. /\ why'[s] = r
        /\ \A t \in Slots \ {s} : env'[t] = env[t] /\ pc'[t] = pc[t] /\ why'[t] = why[t]
    BY <1>9 DEF Goto, TypeOK
  <2>2. pc'[s] = "burying" /\ why'[s] = "max_attempts" /\ env'[s].job \in Waited
            => result'[env'[s].job] # "none"
    BY <1>9, <2>1 DEF JobOf
  <2> QED
    BY <1>9, <2>1, <2>2, TellingStep
<1>10. ASSUME NEW s \in Slots, NEW w \in Workers, Take(s, w) PROVE ToldBeforeBurial'
  <2>1. Tells(s) /\ Goto(s, "started")
    BY <1>10 DEF Take, Tells, Goto
  <2> QED
    BY <1>7, <1>10, <2>1 DEF Take
<1>11. ASSUME NEW s \in Slots, NEW w \in Workers, TakeOverDelivered(s, w)
       PROVE  ToldBeforeBurial'
  <2>1. Tells(s) /\ Goto(s, "burying")
    BY <1>11, CommandTells DEF TakeOverDelivered, Goto
  <2> QED
    BY <1>9, <1>11, <2>1 DEF TakeOverDelivered, Reasons
<1>12. ASSUME NEW s \in Slots, DecideToBury(s, "malformed") \/ DecideToBury(s, "unknown_task")
       PROVE  ToldBeforeBurial'
  <2>1. Tells(s)
    BY <1>12, CommandTells DEF DecideToBury
  <2> QED
    BY <1>9, <1>12, <2>1 DEF DecideToBury, Reasons
<1>13. ASSUME NEW s \in Slots,
              RunUngated(s) \/ RunGated(s) \/ Skip(s) \/ Return(s) \/ Defer(s) \/ Retry(s)
              \/ KeepOk(s) \/ Bury(s)
       PROVE  ToldBeforeBurial'
  <2>1. Tells(s)
    <3>1. CASE KeepOk(s)
      BY <3>1 DEF KeepOk, Keep, Tells, TypeOK
    <3> QED
      BY <1>13, <3>1, CommandTells
         DEF RunUngated, RunGated, Skip, Return, Defer, Retry, Bury, Command
  <2>2. /\ UNCHANGED <<env, why>>
        /\ \E l \in {"running", "acking", "returned"} : Goto(s, l)
    BY <1>13 DEF RunUngated, RunGated, Run, Skip, Return, Defer, Retry, KeepOk, Bury, Done
  <2> QED
    BY <1>7, <2>1, <2>2
<1>14. ASSUME NEW s \in Slots, Exhaust(s) PROVE ToldBeforeBurial'
  <2>1. JobOf(s) \in Jobs
    BY DEF JobOf, TypeOK, Envelope
  <2>2. Tells(s) /\ (JobOf(s) \in Waited => result'[JobOf(s)] # "none")
    BY <1>14, <2>1 DEF Exhaust, Keep, Tells, TypeOK
  <2> QED
    BY <1>9, <1>14, <2>2 DEF Exhaust, BuryExhausted, Reasons
<1>15. ASSUME NEW s \in Slots, Raise(s) \/ LetGo(s) \/ Lose(s) \/ Ack(s) \/ Fail(s)
       PROVE  ToldBeforeBurial'
  <2>1. Tells(s)
    BY <1>15, CommandTells DEF Raise, LetGo, Lose, Ack, Fail, Command
  <2> QED
    BY <1>8, <1>15, <2>1 DEF Raise, LetGo, Lose, Ack, Fail
<1>16. CASE UNCHANGED vars
  BY <1>1, <1>16 DEF vars, stored, task
<1> QED
  BY <1>3, <1>4, <1>5, <1>6, <1>10, <1>11, <1>12, <1>13, <1>14, <1>15, <1>16
     DEF Next, Offer, Handle, Malformed, ExpireUnknown

(* Whoever waits for a job that is buried for its attempts finds a result, *)
(* whatever fails between the two commands and however many entries of the *)
(* job are about (worker.py:391).                                          *)
THEOREM WaitersAreTold == Spec => []WaiterTold
<1>1. ToldBeforeBurial => WaiterTold
  BY DEF ToldBeforeBurial
<1> QED
  BY <1>1, TypeCorrect, ToldInit, ToldNext, PTL DEF Spec

-----------------------------------------------------------------------------
(* AttemptsAccounted.  The inductive invariant is AttemptsPaid.            *)

LEMMA SpentIsNumber == TypeOK => \A j \in Jobs : Spent(j) \in Nat
<1> SUFFICES ASSUME TypeOK, NEW j \in Jobs PROVE Spent(j) \in Nat
  OBVIOUS
<1>1. raised[j] \in Nat /\ faults \in 0..MaxFaults /\ MaxFaults \in Nat
  BY ConstantsAssumption DEF TypeOK
<1> QED
  BY <1>1 DEF Spent

(* The history of a job only grows, so what was paid for stays paid for.   *)
LEMMA SpentGrows ==
  ASSUME TypeOK, TypeOK', [Next]_vars, NEW j \in Jobs
  PROVE  Spent(j) <= Spent(j)'
<1>1. /\ raised[j] \in 0..MaxAttempts /\ raised'[j] \in 0..MaxAttempts
      /\ faults \in Nat /\ faults' \in Nat
  BY ConstantsAssumption DEF TypeOK
<1>2. ASSUME raised[j] <= raised'[j], faults' <= faults PROVE Spent(j) <= Spent(j)'
  BY <1>1, <1>2, ConstantsAssumption DEF Spent
<1>3. ASSUME UNCHANGED <<raised, faults>> PROVE Spent(j) <= Spent(j)'
  BY <1>3, <1>2, <1>1, ConstantsAssumption
<1>4. ASSUME NEW s \in Slots, Raise(s) PROVE Spent(j) <= Spent(j)'
  <2>1. JobOf(s) \in Jobs
    BY DEF TypeOK, JobOf, Envelope
  <2>2. raised' = [raised EXCEPT ![JobOf(s)] = Up(@, MaxAttempts)] /\ faults' = faults
    BY <1>4 DEF Raise
  <2>3. raised'[j] = raised[j] \/ raised'[j] = Up(raised[j], MaxAttempts)
    BY <2>1, <2>2 DEF TypeOK
  <2> QED
    BY <1>1, <1>2, <2>2, <2>3, ConstantsAssumption DEF Up
<1>5. ASSUME NEW s \in Slots, Fail(s) PROVE Spent(j) <= Spent(j)'
  <2>1. raised' = raised /\ faults' = faults - 1
    BY <1>5 DEF Fail, past
  <2> QED
    BY <1>1, <1>2, <2>1, ConstantsAssumption
<1>6. ASSUME NEW s \in Slots, Handle(s), ~Raise(s) PROVE UNCHANGED <<raised, faults>>
  BY <1>6 DEF Handle, Malformed, ExpireUnknown, DecideToBury, RunUngated, RunGated, Run,
              Skip, Return, KeepOk, Defer, Retry, Exhaust, BuryExhausted, LetGo, Bury, Ack,
              Done, past
<1>7. ASSUME NEW s \in Slots, Offer(s) \/ Lose(s) PROVE UNCHANGED <<raised, faults>>
  BY <1>7 DEF Offer, Take, TakeOverDelivered, Lose, past
<1>8. ASSUME \/ \E i \in Jobs : Enqueue(i) \/ Tick(i)
             \/ \E k \in Keys : GateExpires(k)
             \/ \E c \in sched : Promote(c)
             \/ UNCHANGED vars
      PROVE  UNCHANGED <<raised, faults>>
  BY <1>8 DEF Enqueue, Tick, GateExpires, Promote, vars, past
<1> QED
  BY <1>3, <1>4, <1>5, <1>6, <1>7, <1>8 DEF Next

(* An entry of task s, in the state the step leaves it in, is paid for.    *)
Paid(s) ==
    /\ env[s].attempt <= Spent(JobOf(s))
    /\ pc[s] = "failed" => env[s].attempt + 1 <= Spent(JobOf(s))
    /\ pc[s] = "burying" /\ why[s] = "max_attempts" => MaxAttempts <= Spent(JobOf(s))

Same(s) == env'[s] = env[s] /\ pc'[s] = pc[s] /\ why'[s] = why[s]

(* A step keeps AttemptsPaid, if what it leaves in the slots it touches,   *)
(* on the clock and in the dead letter stream is paid for.                 *)
LEMMA PaidStep ==
  ASSUME TypeOK, TypeOK', AttemptsPaid, [Next]_vars,
         \A s \in Slots : Same(s) \/ Paid(s)',
         \A c \in sched' \ sched : c.attempt <= Spent(c.job)',
         \A j \in Jobs : <<j, "max_attempts">> \in dlq' \ dlq => MaxAttempts <= Spent(j)
  PROVE  AttemptsPaid'
<1>1. /\ \A j \in Jobs : Spent(j) \in Nat /\ Spent(j)' \in Nat /\ Spent(j) <= Spent(j)'
      /\ MaxAttempts \in Nat
  <2>1. (\A j \in Jobs : Spent(j) \in Nat)'
    BY SpentIsNumber, PTL
  <2> QED
    BY <2>1, SpentIsNumber, SpentGrows, ConstantsAssumption
<1>2. ASSUME NEW c \in sched' PROVE c.attempt <= Spent(c.job)'
  <2>1. CASE c \in sched
    <3>1. c.job \in Jobs /\ c.attempt \in Nat /\ c.attempt <= Spent(c.job)
      BY <2>1, ConstantsAssumption DEF AttemptsPaid, TypeOK, Scheduled
    <3> QED
      BY <3>1, <1>1
  <2> QED
    BY <2>1
<1>3. ASSUME NEW t \in Slots PROVE Paid(t)'
  <2>1. CASE Paid(t)'
    BY <2>1
  <2>2. CASE Same(t)
    <3>1. env'[t] = env[t] /\ pc'[t] = pc[t] /\ why'[t] = why[t] /\ JobOf(t)' = JobOf(t)
      BY <2>2 DEF Same, JobOf
    <3>2. env[t].attempt \in Nat /\ JobOf(t) \in Jobs
      BY ConstantsAssumption DEF TypeOK, Envelope, JobOf
    <3>3. Paid(t)
      BY DEF AttemptsPaid, Paid
    <3>4. Spent(JobOf(t)) \in Nat /\ Spent(JobOf(t))' \in Nat /\ Spent(JobOf(t)) <= Spent(JobOf(t))'
      <4>1. PICK j \in Jobs : j = JobOf(t)
        BY <3>2
      <4> QED
        BY <4>1, <1>1, <3>1
    <3> QED
      BY <1>1, <3>1, <3>2, <3>3, <3>4 DEF Paid
  <2> QED
    BY <2>1, <2>2
<1>4. AttemptsAccounted'
  <2> SUFFICES ASSUME NEW j \in Jobs, <<j, "max_attempts">> \in dlq'
               PROVE  Spent(j)' >= MaxAttempts
    BY DEF AttemptsAccounted, Spent
  <2>1. MaxAttempts <= Spent(j)
    BY DEF AttemptsPaid, AttemptsAccounted, Spent
  <2> QED
    BY <1>1, <2>1
<1> QED
  BY <1>2, <1>3, <1>4 DEF AttemptsPaid, Paid

LEMMA PaidInit == Init => AttemptsPaid
<1> SUFFICES ASSUME Init PROVE AttemptsPaid
  OBVIOUS
<1>1. TypeOK
  BY TypeInit
<1>2. \A s \in Slots : env[s] = Blank /\ JobOf(s) \in Jobs /\ pc[s] = "idle"
  BY BlankIsEnvelope DEF Init, JobOf, Envelope
<1>3. \A s \in Slots : env[s].attempt = 0 /\ Spent(JobOf(s)) \in Nat
  BY <1>1, <1>2, BlankIsEnvelope, SpentIsNumber
<1>4. sched = {} /\ dlq = {}
  BY DEF Init
<1> QED
  BY <1>2, <1>3, <1>4 DEF AttemptsPaid, AttemptsAccounted

LEMMA PaidNext == TypeOK /\ TypeOK' /\ AttemptsPaid /\ [Next]_vars => AttemptsPaid'
<1>a. ASSUME TypeOK' PROVE (\A j \in Jobs : Spent(j) \in Nat)'
  BY <1>a, SpentIsNumber, PTL
<1> SUFFICES ASSUME TypeOK, TypeOK', AttemptsPaid, [Next]_vars
             PROVE  AttemptsPaid'
  OBVIOUS
<1> USE ConstantsAssumption
<1>1. ASSUME NEW t \in Slots
      PROVE  /\ JobOf(t) \in Jobs /\ env[t].attempt \in 0..(MaxAttempts - 1)
             /\ JobOf(t)' \in Jobs /\ env[t].attempt \in Nat
             /\ Paid(t)
  BY DEF TypeOK, JobOf, Envelope, AttemptsPaid, Paid
<1>2. ASSUME NEW j \in Jobs
      PROVE  Spent(j) \in Nat /\ Spent(j)' \in Nat /\ Spent(j) <= Spent(j)'
  BY <1>a, SpentIsNumber, SpentGrows
(* A slot whose envelope stays, or is blank, is paid for unless it begins  *)
(* to fail or to be buried for its attempts.                               *)
<1>3. ASSUME NEW s \in Slots, env'[s] = env[s] \/ env'[s] = Blank,
             pc'[s] # "failed", ~(pc'[s] = "burying" /\ why'[s] = "max_attempts")
      PROVE  Paid(s)'
  <2>1. env'[s].attempt <= Spent(JobOf(s))'
    <3>1. CASE env'[s] = Blank
      <4>1. PICK j \in Jobs : j = JobOf(s)'
        BY <1>1
      <4> QED
        BY <3>1, <4>1, <1>2, BlankIsEnvelope
    <3>2. CASE env'[s] = env[s]
      <4>1. PICK j \in Jobs : j = JobOf(s) /\ j = JobOf(s)'
        BY <1>1, <3>2 DEF JobOf
      <4>2. env[s].attempt <= Spent(j) /\ env[s].attempt \in Nat
        BY <1>1, <4>1 DEF Paid
      <4> QED
        BY <3>2, <4>1, <4>2, <1>2
    <3> QED
      BY <1>3, <3>1, <3>2
  <2> QED
    BY <1>3, <2>1 DEF Paid
(* What stands in the dead letter stream, and on the clock, after a task's *)
(* command.                                                                *)
<1>4. ASSUME NEW s \in Slots, Command(s) \/ UNCHANGED stored
      PROVE  /\ \A c \in sched' \ sched : c.attempt <= Spent(c.job)'
             /\ \A j \in Jobs : <<j, "max_attempts">> \in dlq' \ dlq => MaxAttempts <= Spent(j)
  <2>1. PICK j \in Jobs : j = JobOf(s)
    BY <1>1
  <2>2. env[s].attempt \in Nat /\ env[s].attempt <= Spent(j)
    BY <1>1, <2>1 DEF Paid
  <2>3. CASE DeferCommand(s)
    <3>1. dlq' = dlq /\ \A c \in sched' \ sched : c.job = j /\ c.attempt = env[s].attempt
      BY <2>1, <2>3 DEF DeferCommand, DeferredAttempt, Schedule
    <3> QED
      BY <3>1, <2>2, <1>2
  <2>4. CASE RetryCommand(s)
    <3>1. dlq' = dlq /\ \A c \in sched' \ sched : c.job = j /\ c.attempt = env[s].attempt + 1
      BY <2>1, <2>4 DEF RetryCommand, Schedule
    <3>2. env[s].attempt + 1 <= Spent(j)
      BY <1>1, <2>1, <2>4 DEF RetryCommand, Failing, Paid
    <3> QED
      BY <3>1, <3>2, <2>2, <1>2
  <2>5. CASE pc[s] = "burying" /\ DeadLetter(s)
    <3>1. sched' = sched /\ dlq' \ dlq \subseteq {<<j, why[s]>>}
      BY <2>1, <2>5 DEF DeadLetter
    <3>2. why[s] = "max_attempts" => MaxAttempts <= Spent(j)
      BY <1>1, <2>1, <2>5 DEF Paid
    <3> QED
      BY <3>1, <3>2
  <2>6. CASE \/ SetGate(s) \/ Keep(s, "ok") \/ Keep(s, "failed") \/ AckEntry(s)
             \/ UNCHANGED stored
    <3>1. sched' = sched /\ dlq' = dlq
      BY <2>6 DEF SetGate, Keep, AckEntry, stored
    <3> QED
      BY <3>1
  <2> QED
    BY <1>4, <2>3, <2>4, <2>5, <2>6 DEF Command
(* The except clause is paid for by what led to it.                        *)
<1>5. ASSUME NEW s \in Slots, Except(s), NEW j \in Jobs, j = JobOf(s),
             env[s].attempt + 1 <= Spent(j)'
      PROVE  \A t \in Slots : Same(t) \/ Paid(t)'
  <2>1. CASE recovering[s]
    <3>1. End(s)
      BY <1>5, <2>1 DEF Except
    <3>2. /\ env'[s] = env[s] \/ env'[s] = Blank
          /\ pc'[s] = "idle"
          /\ \A t \in Slots \ {s} : Same(t)
      BY <3>1 DEF End, Goto, TypeOK, Same
    <3> QED
      BY <3>2, <1>3
  <2>2. CASE ~recovering[s]
    <3>1. /\ env' = env /\ pc'[s] = "failed"
          /\ \A t \in Slots \ {s} : Same(t)
      BY <1>5, <2>2 DEF Except, Goto, TypeOK, Same
    <3>2. JobOf(s)' = j
      BY <1>5, <3>1 DEF JobOf
    <3>3. env[s].attempt \in Nat /\ env[s].attempt <= Spent(j)
      BY <1>1, <1>5 DEF Paid
    <3>4. env'[s].attempt <= Spent(j)'
      BY <1>2, <3>1, <3>3
    <3> QED
      BY <1>5, <3>1, <3>2, <3>4 DEF Paid
  <2> QED
    BY <2>1, <2>2

<1>6. ASSUME sched' \subseteq sched, dlq' = dlq, \A s \in Slots : Same(s) \/ Paid(s)'
      PROVE  AttemptsPaid'
  BY <1>6, PaidStep
<1>7. ASSUME UNCHANGED <<sched, dlq, env, pc, why>> PROVE AttemptsPaid'
  BY <1>6, <1>7 DEF Same
<1>8. ASSUME NEW s \in Slots, NEW j \in Jobs, NEW n \in 0..(MaxAttempts - 1), Add(s, j, n),
             n <= Spent(j), sched' \subseteq sched, dlq' = dlq
      PROVE  AttemptsPaid'
  <2>1. /\ env'[s] = [job |-> j, attempt |-> n] /\ pc'[s] = "idle"
        /\ \A t \in Slots \ {s} : Same(t)
    BY <1>8 DEF Add, Vacant, TypeOK, Same
  <2>2. n <= Spent(j)'
    BY <1>2, <1>8
  <2> QED
    BY <1>6, <1>8, <2>1, <2>2 DEF Paid, JobOf
<1>9. ASSUME NEW j \in Jobs, Enqueue(j) PROVE AttemptsPaid'
  BY <1>2, <1>8, <1>9 DEF Enqueue
<1>10. ASSUME NEW c \in sched, Promote(c) PROVE AttemptsPaid'
  <2>1. c.job \in Jobs /\ c.attempt \in 0..(MaxAttempts - 1) /\ c.attempt <= Spent(c.job)
    BY DEF TypeOK, Scheduled, AttemptsPaid
  <2> QED
    BY <1>8, <1>10, <2>1 DEF Promote
<1>11. ASSUME NEW j \in Jobs, Tick(j) PROVE AttemptsPaid'
  BY <1>7, <1>11 DEF Tick, stored, task
<1>12. ASSUME NEW k \in Keys, GateExpires(k) PROVE AttemptsPaid'
  BY <1>7, <1>12 DEF GateExpires, task
(* A step of one task that leaves its envelope and does not begin to fail  *)
(* or to bury for the attempts.                                            *)
<1>13. ASSUME NEW s \in Slots, Command(s) \/ UNCHANGED stored,
              env'[s] = env[s] \/ env'[s] = Blank,
              pc'[s] # "failed", ~(pc'[s] = "burying" /\ why'[s] = "max_attempts"),
              \A t \in Slots \ {s} : Same(t)
       PROVE  AttemptsPaid'
  BY <1>3, <1>4, <1>13, PaidStep
<1>14. ASSUME NEW s \in Slots, NEW w \in Workers, Take(s, w) PROVE AttemptsPaid'
  <2>1. /\ env' = env /\ pc'[s] = "started" /\ \A t \in Slots \ {s} : Same(t)
        /\ sched' = sched /\ dlq' = dlq
    BY <1>14 DEF Take, TypeOK, Same
  <2> QED
    BY <1>3, <1>6, <2>1
<1>15. ASSUME NEW s \in Slots, NEW w \in Workers, TakeOverDelivered(s, w) PROVE AttemptsPaid'
  <2>1. /\ env' = env /\ why'[s] = "max_deliveries" /\ \A t \in Slots \ {s} : Same(t)
        /\ pc'[s] # "failed"
    BY <1>15 DEF TakeOverDelivered, TypeOK, Same
  <2> QED
    BY <1>13, <1>15, <2>1 DEF TakeOverDelivered
<1>16. ASSUME NEW s \in Slots, NEW r \in {"malformed", "unknown_task"}, DecideToBury(s, r)
       PROVE  AttemptsPaid'
  <2>1. /\ env' = env /\ why'[s] = r /\ \A t \in Slots \ {s} : Same(t)
        /\ pc'[s] # "failed"
    BY <1>16 DEF DecideToBury, Goto, TypeOK, Same
  <2> QED
    BY <1>13, <1>16, <2>1 DEF DecideToBury
<1>17. ASSUME NEW s \in Slots,
              RunUngated(s) \/ RunGated(s) \/ Skip(s) \/ Return(s) \/ Defer(s) \/ Retry(s)
              \/ Bury(s)
       PROVE  AttemptsPaid'
  <2>1. /\ UNCHANGED <<env, why>>
        /\ \E l \in {"running", "acking", "returned"} : Goto(s, l)
    BY <1>17 DEF RunUngated, RunGated, Run, Skip, Return, Defer, Retry, Bury, Done
  <2>2. pc'[s] \in {"running", "acking", "returned"} /\ \A t \in Slots \ {s} : Same(t)
    BY <2>1 DEF Goto, TypeOK, Same
  <2>3. Command(s) \/ UNCHANGED stored
    BY <1>17 DEF RunUngated, RunGated, Skip, Return, Defer, Retry, Bury, Command
  <2> QED
    BY <1>13, <2>1, <2>2, <2>3
<1>18. ASSUME NEW s \in Slots, KeepOk(s) PROVE AttemptsPaid'
  <2>1. /\ env' = env /\ sched' = sched /\ dlq' = dlq
        /\ pc'[s] = "acking" /\ \A t \in Slots \ {s} : Same(t)
    BY <1>18 DEF KeepOk, Keep, Done, Goto, TypeOK, Same
  <2> QED
    BY <1>3, <1>6, <2>1
<1>19. ASSUME NEW s \in Slots, Exhaust(s) PROVE AttemptsPaid'
  <2>1. /\ env' = env /\ sched' = sched /\ dlq' = dlq
        /\ pc'[s] = "burying" /\ \A t \in Slots \ {s} : Same(t)
    BY <1>19 DEF Exhaust, Keep, BuryExhausted, Goto, TypeOK, Same
  <2>2. PICK j \in Jobs : j = JobOf(s) /\ j = JobOf(s)'
    BY <1>1, <2>1 DEF JobOf
  <2>3. MaxAttempts <= env[s].attempt + 1 /\ env[s].attempt + 1 <= Spent(j)
    BY <1>1, <1>19, <2>2 DEF Exhaust, Failing, Exhausted, Paid
  <2>4. env[s].attempt \in Nat /\ Spent(j) \in Nat /\ Spent(j)' \in Nat /\ Spent(j) <= Spent(j)'
    BY <1>1, <1>2
  <2>5. env[s].attempt <= Spent(j)' /\ MaxAttempts <= Spent(j)'
    BY <2>3, <2>4
  <2>6. Paid(s)'
    BY <2>1, <2>2, <2>5 DEF Paid
  <2> QED
    BY <1>6, <2>1, <2>6
<1>20. ASSUME NEW s \in Slots, LetGo(s) \/ Lose(s) \/ Ack(s) PROVE AttemptsPaid'
  <2>1. End(s) /\ (Command(s) \/ UNCHANGED stored)
    BY <1>20 DEF LetGo, Lose, Ack, Command
  <2>2. /\ env'[s] = env[s] \/ env'[s] = Blank
        /\ pc'[s] = "idle" /\ \A t \in Slots \ {s} : Same(t)
    BY <2>1 DEF End, Goto, TypeOK, Same
  <2> QED
    BY <1>13, <2>1, <2>2
<1>21. ASSUME NEW s \in Slots, Raise(s) PROVE AttemptsPaid'
  <2>1. PICK j \in Jobs : j = JobOf(s)
    BY <1>1
  <2>2. /\ raised' = [raised EXCEPT ![j] = Up(raised[j], MaxAttempts)] /\ faults' = faults
        /\ Except(s) /\ UNCHANGED stored
    BY <1>21, <2>1 DEF Raise
  <2>3. raised[j] \in 0..MaxAttempts /\ raised'[j] = Up(raised[j], MaxAttempts)
        /\ MaxFaults - faults \in Nat
    BY <2>2 DEF TypeOK
  <2>4. env[s].attempt \in 0..(MaxAttempts - 1)
        /\ env[s].attempt <= raised[j] + (MaxFaults - faults)
    BY <1>1, <2>1 DEF Paid, Spent
  <2>5. env[s].attempt + 1 <= raised'[j] + (MaxFaults - faults)
    <3>1. CASE raised[j] < MaxAttempts
      BY <2>3, <2>4, <3>1 DEF Up
    <3>2. CASE raised[j] = MaxAttempts
      BY <2>3, <2>4, <3>2 DEF Up
    <3> QED
      BY <2>3, <3>1, <3>2
  <2>6. env[s].attempt + 1 <= Spent(j)'
    BY <2>2, <2>5 DEF Spent
  <2> QED
    BY <1>4, <1>5, <2>1, <2>2, <2>6, PaidStep
<1>22. ASSUME NEW s \in Slots, Fail(s) PROVE AttemptsPaid'
  <2>1. PICK j \in Jobs : j = JobOf(s)
    BY <1>1
  <2>2. raised' = raised /\ faults' = faults - 1 /\ Except(s)
    BY <1>22 DEF Fail, past
  <2>3. raised[j] \in Nat /\ faults \in Nat /\ MaxFaults \in Nat
    BY DEF TypeOK
  <2>4. env[s].attempt \in Nat /\ env[s].attempt <= raised[j] + (MaxFaults - faults)
    BY <1>1, <2>1 DEF Paid, Spent
  <2>5. env[s].attempt + 1 <= raised'[j] + (MaxFaults - faults')
    BY <2>2, <2>3, <2>4
  <2>6. env[s].attempt + 1 <= Spent(j)'
    BY <2>5 DEF Spent
  <2>7. Command(s) \/ UNCHANGED stored
    BY <1>22 DEF Fail
  <2> QED
    BY <1>4, <1>5, <2>1, <2>2, <2>6, <2>7, PaidStep
<1>23. CASE UNCHANGED vars
  BY <1>7, <1>23 DEF vars, stored, task
<1> QED
  BY <1>9, <1>10, <1>11, <1>12, <1>14, <1>15, <1>16, <1>17, <1>18, <1>19, <1>20, <1>21,
     <1>22, <1>23 DEF Next, Offer, Handle, Malformed, ExpireUnknown

(* No job is given up early: one that is buried for max_attempts has that  *)
(* many failures of its handler, or failed commands of its tasks, behind   *)
(* it, however often it was redelivered, handed back or lost with its      *)
(* process (worker.py:378-393, retries.md:10).                             *)
THEOREM NoneGivenUpEarly == Spec => []AttemptsAccounted
<1>1. AttemptsPaid => AttemptsAccounted
  BY DEF AttemptsPaid
<1>2. TypeOK /\ AttemptsPaid /\ [Next]_vars => AttemptsPaid'
  BY TypeNext, PaidNext
<1> QED
  BY <1>1, <1>2, TypeCorrect, PaidInit, PTL DEF Spec
=============================================================================
