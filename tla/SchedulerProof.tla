--------------------------- MODULE SchedulerProof ---------------------------
(***************************************************************************)
(* Proofs about module Scheduler, for any number of workers, jobs, cron    *)
(* jobs and instants, any lease and any limit: while nobody stalls within  *)
(* a pass, nothing is promoted twice and every pass arms what comes next.  *)
(***************************************************************************)
EXTENDS SchedulerProps, TLAPS

LEMMA InitType == Init => TypeOK
BY ConstantsAssumption DEF Init, TypeOK, Instants, NoTime

LEMMA TypeStep == TypeOK /\ [Next]_vars => TypeOK'
<1> SUFFICES ASSUME TypeOK, [Next]_vars PROVE TypeOK'
  OBVIOUS
<1> USE ConstantsAssumption DEF Instants, NoTime
<1>1. CASE Tick
  BY <1>1 DEF Tick, TypeOK, queue, budget
<1>2. ASSUME NEW j \in Jobs, NEW t \in Times, ScheduleAt(j, t) PROVE TypeOK'
  BY <1>2 DEF ScheduleAt, TypeOK, Members, lease, loop, budget
<1>3. ASSUME NEW w \in Workers, Start(w) \/ LeaseTaken(w) \/ RenewRefused(w)
      PROVE  TypeOK'
  BY <1>3 DEF Start, LeaseTaken, RenewRefused, Goto, TypeOK, lease, queue, budget
<1>4. ASSUME NEW w \in Workers, TakeLease(w) \/ Renew(w) PROVE TypeOK'
  BY <1>4 DEF TakeLease, Renew, Pass, Goto, TypeOK, lease, queue, budget
<1>5. ASSUME NEW w \in Workers, ReadClock(w) PROVE TypeOK'
  BY <1>5 DEF ReadClock, Goto, TypeOK, lease, queue, budget
<1>6. ASSUME NEW w \in Workers, NEW c \in Crons, ScheduleCron(w, c) PROVE TypeOK'
  <2>1. due' \in [Members -> 0..NoTime]
    <3>1. CASE due' = due
      BY <3>1 DEF TypeOK
    <3>2. ASSUME NEW f \in Instants, due' = [due EXCEPT ![<<c, f>>] = f]
          PROVE  due' \in [Members -> 0..NoTime]
      <4>1. f \in 0..NoTime /\ due \in [Members -> 0..NoTime]
        BY DEF TypeOK
      <4> HIDE DEF NoTime, Instants
      <4> QED BY <3>2, <4>1
    <3> QED BY <1>6, <3>1, <3>2 DEF ScheduleCron
  <2> QED BY <1>6, <2>1 DEF ScheduleCron, Goto, TypeOK, lease, budget
<1>7. ASSUME NEW w \in Workers, NEW T \in SUBSET Overdue, Promote(w, T) PROVE TypeOK'
  <2>1. moved' \in [Members -> 0..2] /\ due' \in [Members -> 0..NoTime]
    BY <1>7 DEF Promote, TypeOK
  <2> QED BY <1>7, <2>1 DEF Promote, Goto, Forget, TypeOK, lease, budget
<1>8. ASSUME NEW w \in Workers, PassFails(w) \/ Stop(w) PROVE TypeOK'
  BY <1>8 DEF PassFails, Stop, Goto, Forget, TypeOK, lease, queue
<1>9. ASSUME NEW w \in Workers, Release(w) PROVE TypeOK'
  BY <1>9 DEF Release, Goto, TypeOK, lease, queue, budget
<1>10. ASSUME NEW w \in Workers, ReleaseFails(w) \/ Crash(w) PROVE TypeOK'
  BY <1>10 DEF ReleaseFails, Crash, LeaseOrphaned, Goto, Forget, TypeOK, queue
<1>11. CASE UNCHANGED vars
  BY <1>11 DEF vars, TypeOK
<1> QED
  BY <1>1, <1>2, <1>3, <1>4, <1>5, <1>6, <1>7, <1>8, <1>9, <1>10, <1>11
     DEF Next, PassStep

(* Every variable stays in its range, whatever fails, stalls or dies.      *)
THEOREM TypeCorrect == Spec => []TypeOK
BY InitType, TypeStep, PTL DEF Spec

-----------------------------------------------------------------------------
LEMMA InitSchedule == Init => ScheduleInv
BY ConstantsAssumption DEF Init, ScheduleInv, AtMostOnce, PromotedIsOver, OccurrenceOnTime,
   SeenIsNow, PassArms, LeaderHoldsLease, Leading, Occurrences, Members, NoTime

(* An id is a delayed job's or an occurrence's, never both.                *)
LEMMA OccurrenceIsNoJob ==
    \A j \in Jobs : j \notin Occurrences
BY ConstantsAssumption DEF Occurrences, Instants

LEMMA OccurrenceOf ==
    ASSUME NEW c \in Crons, NEW f \in FiresOf[c]
    PROVE  f \in Instants /\ <<c, f>> \in Occurrences
BY ConstantsAssumption DEF Occurrences, Instants

(* The clock moves between passes only; an instant that is past stays past. *)
LEMMA TickKeeps ==
    ASSUME Stallers = {}, TypeOK, ScheduleInv, Tick
    PROVE  ScheduleInv'
<1>1. \A w \in Workers : pc[w] \in {"down", "asleep"}
  BY DEF Tick
<1>2. \A w \in Workers : pc'[w] \in {"down", "top"} /\ todo'[w] = {}
  BY <1>1 DEF Tick, TypeOK, ScheduleInv, PassArms
<1>3. now' >= now /\ now \in Nat /\ now' \in Nat
  BY ConstantsAssumption DEF Tick, TypeOK, Instants
<1>4. \A o \in Occurrences : o[2] \in Nat
  BY ConstantsAssumption DEF Occurrences, Instants
<1>5. OccurrenceOnTime'
  BY <1>3, <1>4 DEF Tick, ScheduleInv, OccurrenceOnTime, queue
<1>6. AtMostOnce' /\ PromotedIsOver'
  BY DEF Tick, ScheduleInv, AtMostOnce, PromotedIsOver, queue
<1>7. SeenIsNow' /\ LeaderHoldsLease' /\ PassArms'
  BY <1>2 DEF SeenIsNow, LeaderHoldsLease, Leading, PassArms
<1> QED BY <1>5, <1>6, <1>7 DEF ScheduleInv

(* A new occurrence lies ahead of the time that was read, so it is none     *)
(* that was promoted before: here a stall would break the argument.         *)
LEMMA CronKeeps ==
    ASSUME TypeOK, ScheduleInv, NEW w \in Workers, NEW c \in Crons,
           ScheduleCron(w, c)
    PROVE  ScheduleInv'
<1>1. /\ seen[w] = now /\ now \in Nat /\ moved' = moved /\ now' = now
      /\ holder' = holder /\ seen' = seen
  BY ConstantsAssumption DEF ScheduleCron, ScheduleInv, SeenIsNow, TypeOK, Instants, lease
<1> DEFINE Arms(S) ==
          /\ \A f \in S : f \in FiresOf[c] /\ f > now
          /\ \A f \in FiresOf[c] : IsNext(c, now, f) => f \in S
          /\ due' = [m \in Members |-> IF \E f \in S : m = <<c, f>> THEN m[2] ELSE due[m]]
<1>2. PICK S \in SUBSET Instants : Arms(S)
  <2>1. ASSUME NEW f \in Instants, IsNext(c, now, f),
               due' = [due EXCEPT ![<<c, f>>] = f]
        PROVE  \E S \in SUBSET Instants : Arms(S)
    <3>1. \A g \in FiresOf[c] : g \in Nat
      BY ConstantsAssumption
    <3>2. f \in FiresOf[c] /\ f > now
      BY <2>1 DEF IsNext
    <3>3. \A g \in FiresOf[c] : IsNext(c, now, g) => g = f
      BY <2>1, <3>1, <3>2 DEF IsNext
    <3>4. due' = [m \in Members |-> IF m = <<c, f>> THEN f ELSE due[m]]
      BY <2>1 DEF TypeOK
    <3>5. Arms({f}) /\ {f} \in SUBSET Instants
      BY <3>2, <3>3, <3>4
    <3> HIDE DEF Arms
    <3> QED BY <3>5
  <2>2. CASE due' = due /\ \A f \in Instants : ~IsNext(c, now, f)
    <3>1. due' = [m \in Members |-> IF \E f \in {} : m = <<c, f>> THEN m[2] ELSE due[m]]
      BY <2>2 DEF TypeOK
    <3>2. \A f \in FiresOf[c] : ~IsNext(c, now, f)
      BY <2>2, OccurrenceOf
    <3>3. Arms({})
      BY <3>1, <3>2
    <3> HIDE DEF Arms
    <3> QED BY <3>3
  <2>3. \/ \E f \in Instants : IsNext(c, now, f) /\ due' = [due EXCEPT ![<<c, f>>] = f]
        \/ due' = due /\ \A f \in Instants : ~IsNext(c, now, f)
    BY <1>1 DEF ScheduleCron
  <2> HIDE DEF Arms
  <2> QED BY <2>1, <2>2, <2>3
<1>3. \A f \in S : <<c, f>> \in Occurrences /\ ~(moved[<<c, f>>] > 0)
  <2> SUFFICES ASSUME NEW f \in S
               PROVE  <<c, f>> \in Occurrences /\ ~(moved[<<c, f>>] > 0)
    OBVIOUS
  <2>1. f \in FiresOf[c] /\ f > now
    BY <1>2
  <2>2. f \in Nat /\ <<c, f>> \in Occurrences /\ <<c, f>>[2] = f
    BY <2>1, OccurrenceOf, ConstantsAssumption DEF Instants
  <2>3. moved[<<c, f>>] > 0 => <<c, f>>[2] <= now
    BY <2>2 DEF ScheduleInv, OccurrenceOnTime
  <2> QED BY <1>1, <2>1, <2>2, <2>3
<1>4. AtMostOnce'
  BY <1>1 DEF ScheduleInv, AtMostOnce
<1>5. PromotedIsOver'
  BY <1>1, <1>2, <1>3 DEF ScheduleInv, PromotedIsOver
<1>6. OccurrenceOnTime'
  BY <1>1, <1>2 DEF ScheduleInv, OccurrenceOnTime, Occurrences, Members
<1>7. /\ pc' = [pc EXCEPT ![w] = IF todo[w] = {c} THEN "promote" ELSE "cron"]
      /\ todo' = [todo EXCEPT ![w] = @ \ {c}]
      /\ pc[w] = "cron" /\ c \in todo[w]
  BY DEF ScheduleCron, Goto
<1>8. SeenIsNow'
  BY <1>1, <1>7 DEF ScheduleInv, SeenIsNow, TypeOK
<1>9. LeaderHoldsLease'
  BY <1>1, <1>7 DEF ScheduleInv, LeaderHoldsLease, Leading, TypeOK
<1>10. PassArms'
  <2>1. ASSUME NEW v \in Workers, pc'[v] # "cron" PROVE todo'[v] = {}
    BY <1>7, <2>1 DEF ScheduleInv, PassArms, TypeOK
  <2>2. ASSUME NEW v \in Workers, pc'[v] \in {"cron", "promote"},
               NEW d \in Crons \ todo'[v], NEW f \in FiresOf[d], IsNext(d, now, f)
        PROVE  due'[<<d, f>>] # NoTime
    <3>1. pc[v] \in {"cron", "promote"} /\ (d \notin todo[v] \/ (v = w /\ d = c))
      BY <1>7, <2>2 DEF TypeOK
    <3>2. <<d, f>> \in Members /\ f \in Nat /\ f # NoTime
      BY OccurrenceOf, ConstantsAssumption DEF Members, Instants, NoTime
    <3>3. CASE d = c
      BY <1>2, <2>2, <3>2, <3>3
    <3>4. CASE d # c
      <4>1. due[<<d, f>>] # NoTime
        BY <2>2, <3>1, <3>4 DEF ScheduleInv, PassArms
      <4> QED BY <1>2, <3>2, <3>4, <4>1
    <3> QED BY <3>3, <3>4
  <2> QED BY <1>1, <2>1, <2>2 DEF PassArms, IsNext
<1> QED BY <1>4, <1>5, <1>6, <1>8, <1>9, <1>10 DEF ScheduleInv

(* Promotion takes what is due off the clock, and nothing of what is next. *)
LEMMA PromoteKeeps ==
    ASSUME TypeOK, ScheduleInv, NEW w \in Workers, NEW T \in SUBSET Overdue,
           Promote(w, T)
    PROVE  ScheduleInv'
<1>1. /\ now' = now /\ now \in Nat /\ holder' = holder
      /\ moved' = [m \in Members |-> IF m \in T /\ moved[m] < 2 THEN moved[m] + 1
                                                                ELSE moved[m]]
      /\ due' = [m \in Members |-> IF m \in T THEN NoTime ELSE due[m]]
  BY ConstantsAssumption DEF Promote, TypeOK, Instants, lease
<1>2. \A m \in T : m \in Members /\ due[m] <= now /\ due[m] # NoTime
  BY ConstantsAssumption DEF Overdue, NoTime, TypeOK, Instants
<1>3. \A m \in T : moved[m] = 0
  BY <1>2 DEF ScheduleInv, PromotedIsOver, TypeOK
<1>4. AtMostOnce'
  BY <1>1, <1>3 DEF ScheduleInv, AtMostOnce
<1>5. PromotedIsOver'
  BY <1>1 DEF ScheduleInv, PromotedIsOver
<1>6. OccurrenceOnTime'
  BY <1>1, <1>2 DEF ScheduleInv, OccurrenceOnTime, Occurrences, Members
<1>7. /\ pc' = [pc EXCEPT ![w] = "asleep"]
      /\ todo' = [todo EXCEPT ![w] = {}]
      /\ seen' = [seen EXCEPT ![w] = 0]
  BY DEF Promote, Goto, Forget
<1>8. SeenIsNow' /\ LeaderHoldsLease'
  BY <1>1, <1>7 DEF ScheduleInv, SeenIsNow, LeaderHoldsLease, Leading, TypeOK
<1>9. PassArms'
  <2>1. ASSUME NEW v \in Workers, pc'[v] # "cron" PROVE todo'[v] = {}
    BY <1>7, <2>1 DEF ScheduleInv, PassArms, TypeOK
  <2>2. ASSUME NEW v \in Workers, pc'[v] \in {"cron", "promote"},
               NEW d \in Crons \ todo'[v], NEW f \in FiresOf[d], IsNext(d, now, f)
        PROVE  due'[<<d, f>>] # NoTime
    <3>1. pc[v] \in {"cron", "promote"} /\ d \notin todo[v]
      BY <1>7, <2>2 DEF TypeOK
    <3>2. due[<<d, f>>] # NoTime
      BY <2>2, <3>1 DEF ScheduleInv, PassArms
    <3>3. <<d, f>> \in Occurrences /\ <<d, f>> \in Members /\ f \in Nat
      BY OccurrenceOf, ConstantsAssumption DEF Members, Instants
    <3>4. due[<<d, f>>] = f /\ f > now
      BY <2>2, <3>2, <3>3 DEF ScheduleInv, OccurrenceOnTime, IsNext
    <3>5. <<d, f>> \notin T
      BY <1>1, <1>2, <3>3, <3>4
    <3> QED BY <1>1, <3>2, <3>3, <3>5
  <2> QED BY <1>1, <2>1, <2>2 DEF PassArms, IsNext
<1> QED BY <1>4, <1>5, <1>6, <1>8, <1>9 DEF ScheduleInv

(* A step of one loop that touches neither clock nor queue keeps the        *)
(* invariant, if it leads only on its own lease and takes nobody else's.    *)
LEMMA LoopKeeps ==
    ASSUME TypeOK, TypeOK', ScheduleInv, NEW w \in Workers,
           now' = now, due' = due, moved' = moved,
           \A v \in Workers \ {w} : /\ pc'[v] = pc[v] /\ todo'[v] = todo[v]
                                    /\ seen'[v] = seen[v]
                                    /\ Leading(v) => holder' = v,
           Leading(w)' => holder' = w,
           pc'[w] = "cron" => seen'[w] = now,
           pc'[w] # "cron" => todo'[w] = {},
           pc'[w] \in {"cron", "promote"} => Crons \ todo'[w] = {}
    PROVE  ScheduleInv'
<1>1. AtMostOnce' /\ PromotedIsOver' /\ OccurrenceOnTime'
  BY DEF ScheduleInv, AtMostOnce, PromotedIsOver, OccurrenceOnTime
<1>2. SeenIsNow'
  BY DEF ScheduleInv, SeenIsNow
<1>3. LeaderHoldsLease'
  BY DEF LeaderHoldsLease, Leading
<1>4. PassArms'
  <2>1. ASSUME NEW v \in Workers, pc'[v] # "cron" PROVE todo'[v] = {}
    BY <2>1 DEF ScheduleInv, PassArms
  <2>2. ASSUME NEW v \in Workers, pc'[v] \in {"cron", "promote"},
               NEW d \in Crons \ todo'[v], NEW f \in FiresOf[d], IsNext(d, now, f)
        PROVE  due'[<<d, f>>] # NoTime
    BY <2>2 DEF ScheduleInv, PassArms
  <2> QED BY <2>1, <2>2 DEF PassArms, IsNext
<1> QED BY <1>1, <1>2, <1>3, <1>4 DEF ScheduleInv

LEMMA ScheduleAtKeeps ==
    ASSUME TypeOK, ScheduleInv, NEW j \in Jobs, NEW t \in Times, ScheduleAt(j, t)
    PROVE  ScheduleInv'
<1>1. /\ now' = now /\ moved' = moved /\ moved[j] = 0 /\ holder' = holder
      /\ due' = [due EXCEPT ![j] = t]
      /\ pc' = pc /\ todo' = todo /\ seen' = seen
  BY DEF ScheduleAt, lease, loop
<1>2. \A o \in Occurrences : o \in Members /\ due'[o] = due[o]
  BY <1>1, OccurrenceIsNoJob DEF TypeOK, Members
<1>3. AtMostOnce' /\ SeenIsNow' /\ LeaderHoldsLease'
  BY <1>1 DEF ScheduleInv, AtMostOnce, SeenIsNow, LeaderHoldsLease, Leading
<1>4. PromotedIsOver'
  BY <1>1 DEF ScheduleInv, PromotedIsOver, TypeOK
<1>5. OccurrenceOnTime'
  BY <1>1, <1>2 DEF ScheduleInv, OccurrenceOnTime
<1>6. PassArms'
  <2>1. ASSUME NEW v \in Workers, pc[v] \in {"cron", "promote"},
               NEW d \in Crons \ todo[v], NEW f \in FiresOf[d], IsNext(d, now, f)
        PROVE  due'[<<d, f>>] # NoTime
    BY <1>2, <2>1, OccurrenceOf DEF ScheduleInv, PassArms
  <2> QED BY <1>1, <2>1 DEF ScheduleInv, PassArms, IsNext
<1> QED BY <1>3, <1>4, <1>5, <1>6 DEF ScheduleInv

LEMMA ScheduleStep ==
    ASSUME Stallers = {}
    PROVE  TypeOK /\ ScheduleInv /\ [Next]_vars => ScheduleInv'
<1> SUFFICES ASSUME TypeOK, TypeOK', ScheduleInv, [Next]_vars PROVE ScheduleInv'
  BY TypeStep
<1> DEFINE Rest(w) ==
      /\ now' = now /\ due' = due /\ moved' = moved
      /\ \A v \in Workers \ {w} : /\ pc'[v] = pc[v] /\ todo'[v] = todo[v]
                                   /\ seen'[v] = seen[v]
<1>1. ASSUME NEW w \in Workers, Start(w) \/ LeaseTaken(w) \/ RenewRefused(w)
      PROVE  ScheduleInv'
  <2>1. Rest(w) /\ holder' = holder /\ pc'[w] \in {"top", "renewing", "asleep"}
        /\ todo'[w] = {}
    BY <1>1 DEF Start, LeaseTaken, RenewRefused, Goto, lease, queue, TypeOK,
       ScheduleInv, PassArms
  <2>2. \A v \in Workers \ {w} : Leading(v) => holder' = v
    BY <2>1 DEF ScheduleInv, LeaderHoldsLease
  <2> QED BY <2>1, <2>2, LoopKeeps DEF Leading
<1>2. ASSUME NEW w \in Workers, TakeLease(w) \/ Renew(w) PROVE ScheduleInv'
  <2>1. Rest(w) /\ holder' = w /\ todo'[w] = {}
        /\ pc'[w] = IF Crons = {} THEN "promote" ELSE "clock"
    BY <1>2 DEF TakeLease, Renew, Pass, Goto, queue, TypeOK, ScheduleInv, PassArms
  <2>2. \A v \in Workers \ {w} : ~Leading(v)
    BY <1>2, ConstantsAssumption DEF TakeLease, Renew, ScheduleInv, LeaderHoldsLease
  <2> QED BY <2>1, <2>2, LoopKeeps
<1>3. ASSUME NEW w \in Workers, ReadClock(w) PROVE ScheduleInv'
  <2>1. Rest(w) /\ holder' = holder /\ pc'[w] = "cron" /\ todo'[w] = Crons
        /\ seen'[w] = now
    BY <1>3 DEF ReadClock, Goto, lease, queue, TypeOK
  <2>2. \A v \in Workers : Leading(v) => holder' = v
    BY <2>1 DEF ScheduleInv, LeaderHoldsLease
  <2>3. Leading(w)
    BY <1>3 DEF ReadClock, Leading
  <2> QED BY <2>1, <2>2, <2>3, LoopKeeps
<1>4. ASSUME NEW w \in Workers, PassFails(w) \/ Stop(w) PROVE ScheduleInv'
  <2>1. Rest(w) /\ holder' = holder /\ pc'[w] \in {"asleep", "releasing"}
        /\ todo'[w] = {}
    BY <1>4 DEF PassFails, Stop, Goto, Forget, lease, queue, TypeOK
  <2>2. \A v \in Workers \ {w} : Leading(v) => holder' = v
    BY <2>1 DEF ScheduleInv, LeaderHoldsLease
  <2> QED BY <2>1, <2>2, LoopKeeps DEF Leading
<1>5. ASSUME NEW w \in Workers, Release(w) \/ ReleaseFails(w) \/ Crash(w)
      PROVE  ScheduleInv'
  <2>1. Rest(w) /\ pc'[w] = "down" /\ todo'[w] = {} /\ (holder # w => holder' = holder)
    BY <1>5 DEF Release, ReleaseFails, Crash, LeaseOrphaned, Goto, Forget, lease, queue,
       TypeOK, ScheduleInv, PassArms
  <2>2. \A v \in Workers \ {w} : Leading(v) => holder' = v
    BY <2>1 DEF ScheduleInv, LeaderHoldsLease
  <2> QED BY <2>1, <2>2, LoopKeeps DEF Leading
<1>6. CASE UNCHANGED vars
  BY <1>6 DEF vars, ScheduleInv, AtMostOnce, PromotedIsOver, OccurrenceOnTime,
     SeenIsNow, PassArms, LeaderHoldsLease, Leading, IsNext
<1> QED
  BY <1>1, <1>2, <1>3, <1>4, <1>5, <1>6, TickKeeps, CronKeeps, PromoteKeeps,
     ScheduleAtKeeps DEF Next, PassStep

-----------------------------------------------------------------------------
(* While nobody stalls within a pass, the invariant of every pass holds.   *)
THEOREM Schedule == ASSUME Stallers = {} PROVE Spec => []ScheduleInv
BY InitSchedule, ScheduleStep, TypeCorrect, PTL DEF Spec

(* No delayed job and no occurrence is promoted twice.                     *)
THEOREM PromotedOnce == ASSUME Stallers = {} PROVE Spec => []AtMostOnce
<1>1. ScheduleInv => AtMostOnce
  BY DEF ScheduleInv
<1> QED BY <1>1, Schedule, PTL

(* Passes are made under the lease, so by one worker at a time.            *)
THEOREM OneLeader == ASSUME Stallers = {} PROVE Spec => []LeaderHoldsLease
<1>1. ScheduleInv => LeaderHoldsLease
  BY DEF ScheduleInv
<1> QED BY <1>1, Schedule, PTL

(* Every pass leaves the next occurrence of every cron job on the clock.   *)
THEOREM PassesArm == ASSUME Stallers = {} PROVE Spec => []NextIsArmed
<1>1. ScheduleInv => NextIsArmed
  BY DEF ScheduleInv, PassArms, NextIsArmed
<1> QED BY <1>1, Schedule, PTL

-----------------------------------------------------------------------------
(* LeadershipIsStable.  The inductive invariant is LeaseIsFresh.           *)

LEMMA InitFresh == Init => LeaseIsFresh
BY ConstantsAssumption DEF Init, LeaseIsFresh, Leading

(* The step of one loop keeps the lease fresh, if it leaves another's      *)
(* alone and ends its own with its process.                                *)
LEMMA LoopFresh ==
    ASSUME TypeOK, LeaseIsFresh, NEW w \in Workers, faults' = faults,
           \A v \in Workers \ {w} : pc'[v] = pc[v],
           \A v \in Workers \ {w} : holder' = v => holder = v /\ left' = left,
           pc'[w] = "down" => holder' # w,
           holder' = w => \/ left' = Ttl
                          \/ /\ holder = w /\ left' = left
                             /\ \/ Leading(w)
                                \/ pc[w] = "top" /\ pc'[w] = "renewing"
                                \/ pc'[w] = "releasing"
    PROVE  LeaseIsFresh'
<1> USE ConstantsAssumption
<1>1. Ttl \in Nat /\ Failed \in Nat /\ Failed' = Failed /\ left \in Nat
  BY DEF TypeOK, Failed
<1>2. ASSUME NEW v \in Workers, v # w
      PROVE  /\ pc'[v] = "down" => holder' # v
             /\ holder' = v => /\ Leading(v)' => left' = Ttl
                               /\ pc'[v] = "asleep" => left' + Failed >= Ttl
                               /\ pc'[v] \in {"top", "renewing"} => left' + Failed + 1 >= Ttl
  BY <1>2 DEF LeaseIsFresh, Leading
<1>3. holder' = w => /\ Leading(w)' => left' = Ttl
                     /\ pc'[w] = "asleep" => left' + Failed >= Ttl
                     /\ pc'[w] \in {"top", "renewing"} => left' + Failed + 1 >= Ttl
  <2>1. CASE left' = Ttl
    BY <1>1, <2>1
  <2>2. CASE holder = w /\ left' = left /\ Leading(w)
    BY <1>1, <2>2 DEF LeaseIsFresh
  <2>3. CASE /\ holder = w /\ left' = left
             /\ \/ pc[w] = "top" /\ pc'[w] = "renewing"
                \/ pc'[w] = "releasing"
    BY <1>1, <2>3 DEF LeaseIsFresh, Leading
  <2> QED BY <2>1, <2>2, <2>3
<1> QED BY <1>1, <1>2, <1>3 DEF LeaseIsFresh

LEMMA TickFresh ==
    ASSUME Stallers = {}, MaxFaults + 1 < Ttl, TypeOK, LeaseIsFresh, Tick
    PROVE  /\ LeaseIsFresh'
           /\ \A w \in Workers : holder = w => holder' = w
<1> USE ConstantsAssumption
<1>1. /\ Ttl \in Nat /\ Failed \in 0..MaxFaults /\ Failed' = Failed /\ left \in Nat
      /\ MaxFaults \in Nat
  BY DEF TypeOK, Failed, Tick, budget
<1>2. ASSUME NEW w \in Workers
      PROVE  pc[w] \in {"down", "asleep"}
             /\ pc'[w] = IF pc[w] = "asleep" THEN "top" ELSE pc[w]
  BY DEF Tick
<1>3. ASSUME NEW w \in Workers, holder = w
      PROVE  left > 1 /\ left + Failed >= Ttl /\ pc[w] = "asleep"
  <2>1. pc[w] = "asleep" /\ left + Failed >= Ttl
    BY <1>2, <1>3 DEF LeaseIsFresh
  <2> QED BY <1>1, <2>1
<1>4. ASSUME NEW w \in Workers, holder = w
      PROVE  holder' = w /\ left' = left - 1
  BY <1>1, <1>3, <1>4 DEF Tick
<1>5. ASSUME NEW w \in Workers, holder' = w PROVE holder = w
  BY <1>5 DEF Tick
<1>6. ASSUME NEW w \in Workers
      PROVE  /\ pc'[w] = "down" => holder' # w
             /\ holder' = w => pc'[w] = "top" /\ left' + Failed' + 1 >= Ttl
  BY <1>1, <1>2, <1>3, <1>4, <1>5
<1> QED BY <1>4, <1>6 DEF LeaseIsFresh, Leading

LEMMA PassFailsFresh ==
    ASSUME TypeOK, LeaseIsFresh, NEW w \in Workers, PassFails(w) \/ ReleaseFails(w)
    PROVE  LeaseIsFresh'
<1> USE ConstantsAssumption
<1>1. /\ Ttl \in Nat /\ Failed \in Nat /\ Failed' = Failed + 1 /\ left \in Nat
      /\ left' = left
  BY DEF TypeOK, Failed, PassFails, ReleaseFails, lease
<1>2. ASSUME NEW v \in Workers, v # w
      PROVE  pc'[v] = pc[v] /\ (holder' = v <=> holder = v)
  BY <1>2 DEF TypeOK, PassFails, ReleaseFails, LeaseOrphaned, Goto, lease
<1>3. ASSUME NEW v \in Workers, v # w
      PROVE  /\ pc'[v] = "down" => holder' # v
             /\ holder' = v => /\ Leading(v)' => left' = Ttl
                               /\ pc'[v] = "asleep" => left' + Failed' >= Ttl
                               /\ pc'[v] \in {"top", "renewing"} => left' + Failed' + 1 >= Ttl
  BY <1>1, <1>2, <1>3 DEF LeaseIsFresh, Leading
<1>4. CASE PassFails(w)
  <2>1. pc'[w] = "asleep" /\ holder' = holder
    BY <1>4 DEF PassFails, Goto, lease, TypeOK
  <2>2. holder = w => left + Failed + 1 >= Ttl
    BY <1>1, <1>4 DEF PassFails, LeaseIsFresh
  <2>3. holder' = w => left' + Failed' >= Ttl
    BY <1>1, <2>1, <2>2
  <2> QED BY <1>3, <2>1, <2>3 DEF LeaseIsFresh, Leading
<1>5. CASE ReleaseFails(w)
  <2>1. pc'[w] = "down" /\ holder' # w
    BY <1>5 DEF ReleaseFails, LeaseOrphaned, Goto, TypeOK
  <2> QED BY <1>3, <2>1 DEF LeaseIsFresh
<1> QED BY <1>4, <1>5

LEMMA FreshStep ==
    ASSUME Stallers = {}, MaxFaults + 1 < Ttl
    PROVE  TypeOK /\ LeaseIsFresh /\ [Next]_vars => LeaseIsFresh'
<1> SUFFICES ASSUME TypeOK, LeaseIsFresh, [Next]_vars PROVE LeaseIsFresh'
  OBVIOUS
<1> USE ConstantsAssumption
<1>1. ASSUME NEW w \in Workers, Start(w) PROVE LeaseIsFresh'
  <2>1. holder # w
    BY <1>1 DEF Start, LeaseIsFresh
  <2> QED BY <1>1, <2>1, LoopFresh DEF Start, Goto, lease, budget, TypeOK
<1>2. ASSUME NEW w \in Workers, TakeLease(w) \/ Renew(w) PROVE LeaseIsFresh'
  <2>1. /\ holder' = w /\ left' = Ttl /\ faults' = faults /\ pc'[w] # "down"
        /\ \A v \in Workers \ {w} : pc'[v] = pc[v]
        /\ pc'[w] # "down"
    BY <1>2 DEF TakeLease, Renew, Pass, Goto, budget, TypeOK
  <2> QED BY <2>1, LoopFresh
<1>3. ASSUME NEW w \in Workers, LeaseTaken(w) \/ RenewRefused(w) PROVE LeaseIsFresh'
  BY <1>3, LoopFresh DEF LeaseTaken, RenewRefused, Goto, lease, budget, TypeOK
<1>4. ASSUME NEW w \in Workers,
             \/ ReadClock(w)
             \/ \E c \in Crons : ScheduleCron(w, c)
             \/ \E T \in SUBSET Overdue : Promote(w, T)
      PROVE  LeaseIsFresh'
  <2>1. /\ UNCHANGED <<lease, budget>> /\ Leading(w)
        /\ \E l \in {"cron", "promote", "asleep"} : Goto(w, l)
    BY <1>4 DEF ReadClock, ScheduleCron, Promote, Leading
  <2>2. pc'[w] # "down" /\ \A v \in Workers \ {w} : pc'[v] = pc[v]
    BY <2>1 DEF Goto, TypeOK
  <2> QED BY <2>1, <2>2, LoopFresh DEF lease, budget
<1>5. ASSUME NEW w \in Workers, Stop(w) PROVE LeaseIsFresh'
  BY <1>5, LoopFresh DEF Stop, Goto, lease, TypeOK
<1>6. ASSUME NEW w \in Workers, Release(w) PROVE LeaseIsFresh'
  BY <1>6, LoopFresh DEF Release, Goto, lease, budget, TypeOK
<1>7. ASSUME NEW w \in Workers, Crash(w) PROVE LeaseIsFresh'
  <2>1. /\ holder' # w /\ left' = left /\ faults' = faults
        /\ \A v \in Workers \ {w} : pc'[v] = pc[v] /\ (holder' = v => holder = v)
    BY <1>7 DEF Crash, LeaseOrphaned, Goto, TypeOK
  <2> QED BY <2>1, LoopFresh
<1>8. ASSUME UNCHANGED <<holder, left, pc, faults>> PROVE LeaseIsFresh'
  BY <1>8 DEF LeaseIsFresh, Leading, Failed
<1>9. ASSUME NEW j \in Jobs, NEW t \in Times, ScheduleAt(j, t) PROVE LeaseIsFresh'
  BY <1>8, <1>9 DEF ScheduleAt, lease, loop, budget
<1>10. CASE UNCHANGED vars
  BY <1>8, <1>10 DEF vars
<1> QED
  BY <1>1, <1>2, <1>3, <1>4, <1>5, <1>6, <1>7, <1>9, <1>10, TickFresh, PassFailsFresh
     DEF Next, PassStep

(* Whoever leads and goes on keeps its lease in every step.                *)
LEMMA HolderStays ==
    ASSUME Stallers = {}, MaxFaults + 1 < Ttl
    PROVE  TypeOK /\ LeaseIsFresh /\ [Next]_vars =>
             [\A w \in Workers : holder = w /\ Working(w) /\ Working(w)' => holder' = w]_vars
<1> SUFFICES ASSUME TypeOK, LeaseIsFresh, Next,
                    NEW w \in Workers, holder = w, Working(w), Working(w)'
             PROVE  holder' = w
  OBVIOUS
<1> USE ConstantsAssumption
<1>1. CASE Tick
  BY <1>1, TickFresh
<1>2. ASSUME NEW j \in Jobs, NEW t \in Times, ScheduleAt(j, t) PROVE holder' = w
  BY <1>2 DEF ScheduleAt, lease
<1>3. ASSUME NEW v \in Workers,
             Start(v) \/ LeaseTaken(v) \/ RenewRefused(v) \/ ReadClock(v) \/ PassFails(v)
             \/ Stop(v) \/ Renew(v)
      PROVE  holder' = w
  BY <1>3 DEF Start, LeaseTaken, RenewRefused, ReadClock, PassFails, Stop, Renew, lease
<1>4. ASSUME NEW v \in Workers, TakeLease(v) PROVE holder' = w
  BY <1>4 DEF TakeLease
<1>5. ASSUME NEW v \in Workers, NEW c \in Crons, ScheduleCron(v, c) PROVE holder' = w
  BY <1>5 DEF ScheduleCron, lease
<1>6. ASSUME NEW v \in Workers, NEW T \in SUBSET Overdue, Promote(v, T) PROVE holder' = w
  BY <1>6 DEF Promote, lease
<1>7. ASSUME NEW v \in Workers, Release(v) \/ ReleaseFails(v) \/ Crash(v)
      PROVE  holder' = w
  <2>1. pc'[v] = "down"
    BY <1>7 DEF Release, ReleaseFails, Crash, Goto, TypeOK
  <2>2. v # w
    BY <2>1 DEF Working
  <2> QED BY <1>7, <2>2 DEF Release, ReleaseFails, Crash, LeaseOrphaned, lease
<1> QED
  BY <1>1, <1>2, <1>3, <1>4, <1>5, <1>6, <1>7 DEF Next, PassStep

(* A live leader keeps leading, for any number of workers, starts and      *)
(* stops, if fewer commands fail than the lease has ticks to spare beyond  *)
(* the one that the configuration demands (worker.py:77-82).               *)
THEOREM LeaderStays ==
    ASSUME Stallers = {}, MaxFaults + 1 < Ttl
    PROVE  Spec => LeadershipIsStable
<1>1. Spec => []LeaseIsFresh
  BY InitFresh, FreshStep, TypeCorrect, PTL DEF Spec
<1> QED
  BY <1>1, HolderStays, TypeCorrect, PTL DEF Spec, LeadershipIsStable
=============================================================================
