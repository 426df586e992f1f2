-------------------------- MODULE PublicationProof --------------------------
(***************************************************************************)
(* Proofs about module Publication, for any requests, managers,            *)
(* transactions, jobs and faults.                                           *)
(***************************************************************************)
EXTENDS PublicationProps, TLAPS

Injective(q) == \A m, n \in DOMAIN q : q[m] = q[n] => m = n

LEMMA AppendFacts ==
  ASSUME NEW S, NEW q \in Seq(S), NEW i \in S
  PROVE  LET a == Append(q, i)
         IN  /\ a \in Seq(S) /\ Range(a) = Range(q) \cup {i}
             /\ Injective(q) /\ i \notin Range(q) => Injective(a)
<1> DEFINE a == Append(q, i)
<1>1. /\ a \in Seq(S) /\ DOMAIN q = 1..Len(q) /\ Len(q) \in Nat
      /\ DOMAIN a = 1..(Len(q) + 1) /\ a[Len(q) + 1] = i
      /\ \A n \in 1..Len(q) : a[n] = q[n]
  OBVIOUS
<1>2. \A n \in DOMAIN a : n \in DOMAIN q \/ n = Len(q) + 1
  BY <1>1
<1>3. Range(a) = Range(q) \cup {i}
  BY <1>1, <1>2 DEF Range
<1> HIDE DEF a
<1>4. ASSUME Injective(q), i \notin Range(q), NEW m \in DOMAIN a, NEW n \in DOMAIN a,
             a[m] = a[n]
      PROVE  m = n
  BY <1>1, <1>2, <1>4 DEF Injective, Range
<1> QED BY <1>1, <1>3, <1>4 DEF Injective, a

LEMMA TailFacts ==
  ASSUME NEW S, NEW q \in Seq(S), q # <<>>
  PROVE  LET r == Tail(q)
         IN  /\ r \in Seq(S) /\ Head(q) \in S
             /\ Range(q) = Range(r) \cup {Head(q)}
             /\ Injective(q) => Injective(r) /\ Head(q) \notin Range(r)
<1> DEFINE r == Tail(q)
<1>1. /\ r \in Seq(S) /\ DOMAIN q = 1..Len(q) /\ Len(q) \in Nat /\ Len(q) >= 1
      /\ DOMAIN r = 1..(Len(q) - 1) /\ Head(q) = q[1] /\ q[1] \in S
      /\ \A n \in 1..(Len(q) - 1) : r[n] = q[n + 1]
  OBVIOUS
<1> HIDE DEF r
<1>2. \A n \in DOMAIN q : n = 1 \/ (n - 1 \in DOMAIN r /\ r[n - 1] = q[n])
  BY <1>1
<1>3. \A n \in DOMAIN r : n + 1 \in DOMAIN q /\ n + 1 # 1 /\ r[n] = q[n + 1]
  BY <1>1
<1>4. Range(q) = Range(r) \cup {Head(q)}
  BY <1>1, <1>2, <1>3 DEF Range
<1>5. ASSUME Injective(q) PROVE Injective(r)
  <2> SUFFICES ASSUME NEW m \in DOMAIN r, NEW n \in DOMAIN r, r[m] = r[n] PROVE m = n
    BY DEF Injective
  <2>1. m + 1 = n + 1
    BY <1>3, <1>5 DEF Injective
  <2> QED BY <1>1, <2>1
<1>6. ASSUME Injective(q) PROVE Head(q) \notin Range(r)
  <2> SUFFICES ASSUME NEW n \in DOMAIN r, r[n] = Head(q) PROVE FALSE
    BY DEF Range
  <2>1. n + 1 = 1
    BY <1>1, <1>3, <1>6 DEF Injective
  <2> QED BY <1>3, <2>1
<1> QED BY <1>1, <1>4, <1>5, <1>6 DEF r

LEMMA FrontFacts ==
  ASSUME NEW S, NEW q \in Seq(S), q # <<>>
  PROVE  LET r == SubSeq(q, 1, Len(q) - 1)
         IN  /\ r \in Seq(S) /\ Len(r) = Len(q) - 1 /\ Len(q) \in Nat /\ Len(q) >= 1
             /\ DOMAIN r = 1..(Len(q) - 1) /\ DOMAIN q = 1..Len(q)
             /\ \A n \in 1..(Len(q) - 1) : r[n] = q[n]
             /\ q[Len(q)] \in S
<1>1. Len(q) \in Nat /\ Len(q) >= 1 /\ DOMAIN q = 1..Len(q) /\ q[Len(q)] \in S
      /\ \A n \in 1..Len(q) : q[n] \in S
  OBVIOUS
<1> DEFINE r == [n \in 1..(Len(q) - 1) |-> q[n]]
<1>2. SubSeq(q, 1, Len(q) - 1) = r
  BY <1>1
<1>3. Len(q) - 1 \in Nat /\ r \in [1..(Len(q) - 1) -> S]
  BY <1>1
<1>4. r \in Seq(S) /\ Len(r) = Len(q) - 1
  BY <1>3
<1> QED BY <1>1, <1>2, <1>3, <1>4

-----------------------------------------------------------------------------
(* The transport is there for the managers of the application.             *)
LifeInv ==
    /\ queue = "connecting" => app = "starting" /\ depth = 0
    /\ app \in {"starting", "stopping"} /\ depth > 0 => queue = "open"
    /\ app = "serving" => queue = "open"

LEMMA DepthGrows == ASSUME LifeInv, Connected PROVE depth' = 1
BY DEF LifeInv, Connected

LEMMA Depths ==
  ASSUME TypeOK PROVE depth \in Nat /\ depth <= Managers + 1 /\ Managers \in Nat
<1>1. depth \in 0..(Managers + 1)
  BY DEF TypeOK
<1> QED BY <1>1, PublicationAssumption

(* Which lifespan is next.                                                  *)
LEMMA WhatOpens ==
  ASSUME TypeOK
  PROVE  /\ Opens("queue") <=> app = "starting" /\ depth = 0
         /\ Opens("manager") <=> app = "starting" /\ depth \in 1..Managers
         /\ Closes("queue") <=> app = "stopping" /\ depth = 1
         /\ Closes("manager") <=> app = "stopping" /\ depth > 1
<1>1. depth \in Nat /\ depth <= Managers + 1 /\ Managers \in Nat
  BY Depths
<1>2. \A i \in 1..(Managers + 1) : Lifespans[i] = IF i = 1 THEN "queue" ELSE "manager"
  BY DEF Lifespans
<1> QED BY <1>1, <1>2 DEF Opens, Closes

LEMMA LifeNext ==
  ASSUME TypeOK, LifeInv, [Next]_vars PROVE LifeInv'
<1>0. depth \in Nat /\ depth <= Managers + 1 /\ Managers \in Nat
  BY Depths
<1>1. CASE UNCHANGED <<app, depth, queue>>
  BY <1>1 DEF LifeInv
<1>2. CASE Lifecycle
  <2>1. CASE Connect \/ Connected \/ ConnectFails
    BY <1>0, <2>1, WhatOpens DEF LifeInv, Connect, Connected, ConnectFails
  <2>2. CASE OpenManager \/ ManagerFails
    BY <1>0, <2>2, WhatOpens DEF LifeInv, OpenManager, ManagerFails
  <2>3. CASE Serve
    BY <1>0, <2>3 DEF LifeInv, Serve
  <2>5. CASE Stop \/ Stopped \/ Crash
    BY <2>5 DEF LifeInv, Stop, Stopped, Crash
  <2>4. CASE CloseManager \/ Disconnect
    BY <1>0, <2>4, WhatOpens DEF LifeInv, CloseManager, Disconnect
  <2> QED BY <1>2, <2>1, <2>2, <2>3, <2>4, <2>5 DEF Lifecycle
<1>3. [Next]_vars => UNCHANGED <<app, depth, queue>> \/ Lifecycle
  BY DEF Next, vars, EndTransaction, Discard, Flush, FlushStep, PublishNext, FlushFails,
     Flushed, LeaveBlock, EnterBlock, CallStep, WriteStaging, Rename, Buffer, SendNow,
     PutFails, Ask, Elsewhere
<1> QED BY <1>1, <1>2, <1>3

LEMMA TypeInit == Init => TypeOK
<1> SUFFICES ASSUME Init PROVE TypeOK
  OBVIOUS
<1>1. <<>> \in Seq(Units) /\ <<>> \in Seq(Jobs)
  OBVIOUS
<1> QED BY <1>1, PublicationAssumption DEF Init, TypeOK, Tasks

LEMMA FaultTyped == ASSUME TypeOK, Fault PROVE faults' \in 0..MaxFaults
<1>1. MaxFaults \in Nat /\ faults \in 0..MaxFaults /\ faults < MaxFaults /\ faults' = faults + 1
  BY PublicationAssumption DEF TypeOK, Fault
<1> QED BY <1>1

LEMMA TypeNext == TypeOK /\ LifeInv /\ [Next]_vars => TypeOK'
<1> SUFFICES ASSUME TypeOK, LifeInv, [Next]_vars PROVE TypeOK'
  OBVIOUS
<1>1. CASE UNCHANGED vars
  BY <1>1 DEF TypeOK, vars, context, call, units, redis, calls
<1>2. CASE Lifecycle
  <2>1. CASE Crash
    <3>1. <<>> \in Seq(Units) /\ <<>> \in Seq(Jobs)
      OBVIOUS
    <3>2. unit' \in [Units -> {"new", "open", "committed", "rolled back", "discarded",
                               "flushing", "flushed", "failed"}]
      BY <2>1 DEF Crash, TypeOK
    <3>3. faults' \in 0..MaxFaults
      BY <2>1, FaultTyped DEF Crash
    <3>4. 0 \in 0..(Managers + 1)
      BY PublicationAssumption
    <3> QED BY <2>1, <3>1, <3>2, <3>3, <3>4 DEF Crash, TypeOK, redis, calls
  <2>2. CASE ~Crash
    <3>1. /\ app' \in {"starting", "serving", "stopping", "stopped", "killed"}
          /\ depth' \in 0..(Managers + 1)
          /\ queue' \in {"none", "connecting", "open"}
          /\ faults' \in 0..MaxFaults
      <4>1. /\ Managers \in Nat /\ depth \in 0..(Managers + 1) /\ faults \in 0..MaxFaults
            /\ app \in {"starting", "serving", "stopping", "stopped", "killed"}
            /\ queue \in {"none", "connecting", "open"}
        BY PublicationAssumption DEF TypeOK
      <4>2. CASE ConnectFails \/ ManagerFails
        BY <4>1, <4>2, FaultTyped DEF ConnectFails, ManagerFails
      <4>3. CASE Connected
        BY <4>1, <4>3, DepthGrows DEF Connected
      <4>4. CASE Connect \/ OpenManager \/ Serve \/ Stop \/ CloseManager \/ Disconnect \/ Stopped
        BY <4>1, <4>4 DEF Connect, OpenManager, Serve, Stop, CloseManager,
           Disconnect, Stopped, Opens, Closes
      <4> QED BY <1>2, <2>2, <4>2, <4>3, <4>4 DEF Lifecycle
    <3>2. UNCHANGED <<call, context, units, redis, calls>>
      BY <1>2, <2>2 DEF Lifecycle, Connect, Connected, ConnectFails, OpenManager,
         ManagerFails, Serve, Stop, CloseManager, Disconnect, Stopped
    <3> QED BY <3>1, <3>2 DEF TypeOK, call, context, units, redis, calls
  <2> QED BY <2>1, <2>2
<1>3. ASSUME NEW t \in Requests, NEW u \in Units, EnterBlock(t, u) PROVE TypeOK'
  <2>1. t \in Tasks /\ Append(blocks[t], u) \in Seq(Units)
    BY AppendFacts DEF Tasks, TypeOK
  <2>2. blocks' \in [Tasks -> Seq(Units)]
    BY <1>3, <2>1 DEF EnterBlock, TypeOK
  <2> QED BY <1>3, <2>1, <2>2 DEF EnterBlock, TypeOK, Elsewhere, call, redis, calls
<1>4. ASSUME NEW t \in Requests, LeaveBlock(t) PROVE TypeOK'
  <2>1. t \in Tasks /\ blocks[t] \in Seq(Units) /\ blocks[t] # <<>>
    BY <1>4 DEF Tasks, TypeOK, LeaveBlock
  <2>2. /\ SubSeq(blocks[t], 1, Len(blocks[t]) - 1) \in Seq(Units)
        /\ Innermost(t) \in Units
    BY <2>1, FrontFacts DEF Innermost
  <2>3. blocks' \in [Tasks -> Seq(Units)] /\ current' \in [Tasks -> Units \cup {NoUnit}]
    BY <1>4, <2>1, <2>2 DEF LeaveBlock, Reset, TypeOK
  <2> QED BY <1>4, <2>3 DEF LeaveBlock, TypeOK, Elsewhere, call, units, redis, calls
<1>5. ASSUME NEW u \in Units, EndTransaction(u) \/ Discard(u) \/ Flush(u) \/ FlushStep(u)
      PROVE  TypeOK'
  <2>1. pending[u] \in Seq(Jobs) /\ buffered[u] \in Seq(Jobs) /\ <<>> \in Seq(Jobs)
        /\ stream \in Seq(Jobs)
    <3>1. <<>> \in Seq(Jobs)
      OBVIOUS
    <3> QED BY <3>1 DEF TypeOK
  <2>2. CASE EndTransaction(u)
    BY <2>2 DEF EndTransaction, TypeOK, Elsewhere, call, context, redis, calls
  <2>3. CASE Discard(u)
    BY <2>1, <2>3 DEF Discard, TypeOK, Elsewhere, call, context, redis, calls
  <2>4. CASE Flush(u)
    BY <2>1, <2>4 DEF Flush, TakeBuffer, TypeOK, Elsewhere, call, context, redis, calls
  <2>5. ASSUME buffered[u] # <<>>
        PROVE  /\ Tail(buffered[u]) \in Seq(Jobs)
               /\ Append(stream, Head(buffered[u])) \in Seq(Jobs)
    BY <2>1, <2>5, TailFacts, AppendFacts
  <2>6. CASE PublishNext(u)
    <3>1. stream' \in Seq(Jobs) /\ buffered' \in [Units -> Seq(Jobs)]
      BY <2>5, <2>6 DEF PublishNext, Publish, TypeOK
    <3> QED BY <2>6, <3>1 DEF PublishNext, TypeOK, Elsewhere, call, context, calls
  <2>7. CASE FlushFails(u)
    <3>1. /\ stream' \in Seq(Jobs) /\ buffered' \in [Units -> Seq(Jobs)]
          /\ faults' \in 0..MaxFaults
      BY <2>1, <2>5, <2>7, FaultTyped DEF FlushFails, Publish, TypeOK
    <3> QED BY <2>7, <3>1 DEF FlushFails, TypeOK, Elsewhere, call, context, calls
  <2>8. CASE Flushed(u)
    BY <2>8 DEF Flushed, TypeOK, Elsewhere, call, context, redis, calls
  <2> QED BY <1>5, <2>2, <2>3, <2>4, <2>6, <2>7, <2>8 DEF FlushStep
<1>6. ASSUME NEW t \in Tasks, NEW j \in Jobs, Ask(t, j) PROVE TypeOK'
  <2>1. Append(asked, j) \in Seq(Jobs)
    BY AppendFacts DEF TypeOK
  <2>2. Innermost(t) \in Units \cup {NoUnit}
    <3>1. CASE blocks[t] = <<>>
      BY <3>1 DEF Innermost
    <3>2. CASE blocks[t] # <<>>
      BY <3>2, FrontFacts DEF Innermost, TypeOK
    <3> QED BY <3>1, <3>2
  <2>3. /\ pc' \in [Tasks -> {"free", "writing", "renaming", "sending"}]
        /\ job' \in [Tasks -> Jobs \cup {NoJob}]
        /\ \A s \in Tasks : pc'[s] # "free" => job'[s] \in Jobs
        /\ via' \in [Tasks -> Units \cup {NoUnit}]
    BY <1>6 DEF Ask, TypeOK
  <2> QED BY <1>6, <2>1, <2>2, <2>3 DEF Ask, TypeOK, Elsewhere, context, units, redis
<1>7. ASSUME NEW t \in Tasks, CallStep(t) \/ PutFails(t) PROVE TypeOK'
  <2>1. ASSUME Leaves(t)
        PROVE  /\ pc' \in [Tasks -> {"free", "writing", "renaming", "sending"}]
               /\ job' \in [Tasks -> Jobs \cup {NoJob}]
               /\ \A s \in Tasks : pc'[s] # "free" => job'[s] \in Jobs
               /\ via' \in [Tasks -> Units \cup {NoUnit}]
    BY <2>1 DEF Leaves, TypeOK
  <2>2. CASE WriteStaging(t)
    BY <2>2 DEF WriteStaging, TypeOK, Elsewhere, context, units, calls
  <2>3. CASE Rename(t)
    BY <2>3 DEF Rename, TypeOK, Elsewhere, context, units, calls
  <2>4. CASE PutFails(t)
    <3>1. /\ files' \in [Jobs -> {"none", "partial", "complete"}]
          /\ faults' \in 0..MaxFaults
      BY <2>4, FaultTyped DEF PutFails, TypeOK
    <3> QED BY <2>1, <2>4, <3>1 DEF PutFails, TypeOK, Elsewhere, context, units, calls
  <2>5. CASE Buffer(t)
    <3>1. via[t] \in Units /\ job[t] \in Jobs /\ pending[via[t]] \in Seq(Jobs)
      BY <2>5 DEF Buffer, TypeOK
    <3>2. pending' \in [Units -> Seq(Jobs)]
      BY <2>5, <3>1, AppendFacts DEF Buffer, TypeOK
    <3> QED BY <2>1, <2>5, <3>2 DEF Buffer, TypeOK, Elsewhere, context, redis, calls
  <2>6. CASE SendNow(t)
    <3>1. job[t] \in Jobs
      BY <2>6 DEF SendNow, TypeOK
    <3>2. stream' \in Seq(Jobs) /\ faults' \in 0..MaxFaults
      <4>1. stream \in Seq(Jobs) /\ faults \in 0..MaxFaults
        BY DEF TypeOK
      <4>2. Append(stream, job[t]) \in Seq(Jobs)
        BY <3>1, <4>1, AppendFacts
      <4> QED BY <2>6, <4>1, <4>2, FaultTyped DEF SendNow, Publish
    <3> QED BY <2>1, <2>6, <3>2 DEF SendNow, TypeOK, Elsewhere, context, units, calls
  <2> QED BY <1>7, <2>2, <2>3, <2>4, <2>5, <2>6 DEF CallStep
<1> QED BY <1>1, <1>2, <1>3, <1>4, <1>5, <1>6, <1>7 DEF Next

(* Every variable of the publication stays in its range (plugin.py,        *)
(* deferred.py, registry.enqueue, payloads.py).                             *)
THEOREM TypeCorrect == Spec => []TypeOK
<1>1. Init => LifeInv
  BY DEF Init, LifeInv
<1>2. TypeOK /\ LifeInv /\ [Next]_vars => LifeInv'
  BY LifeNext
<1> QED BY <1>1, <1>2, TypeInit, TypeNext, PTL DEF Spec

-----------------------------------------------------------------------------
(* Who is busy: calls are made while the application serves, or by a       *)
(* manager that opens or closes; a flush by a request alone.                *)
BusyInv ==
    /\ \A t \in Tasks : pc[t] # "free" => Runs(t)
    /\ \A u \in Units : buffered[u] # <<>> => unit[u] = "flushing" /\ app = "serving"
    /\ \A u \in Units : unit[u] # "new" => owner[u] \in Requests

(* The lifespan moves on when nobody is in a call or a flush.               *)
LEMMA LifecycleQuiet ==
  ASSUME TypeOK, LifeInv, BusyInv, Lifecycle
  PROVE  /\ \A t \in Tasks : pc'[t] = "free"
         /\ \A u \in Units : buffered'[u] = <<>>
<1>0. depth \in Nat /\ depth <= Managers + 1 /\ Managers \in Nat
  BY Depths
<1>1. CASE Crash
  BY <1>1 DEF Crash
<1>2. CASE Quiet(Tasks) /\ Finished /\ UNCHANGED <<call, units>>
  BY <1>2 DEF Quiet, Finished, BusyInv, call, units
<1>3. ASSUME app \in {"starting", "stopping"}, ~Opens("manager"), ~Closes("manager"),
             UNCHANGED <<call, units>>
      PROVE  /\ \A t \in Tasks : pc'[t] = "free"
             /\ \A u \in Units : buffered'[u] = <<>>
  BY <1>3 DEF BusyInv, Runs, call, units
<1>4. CASE Connect \/ Connected \/ ConnectFails \/ Serve
  <2>1. app = "starting" /\ ~Opens("manager") /\ ~Closes("manager")
    BY <1>0, <1>4, WhatOpens DEF Connect, Connected, ConnectFails, Serve, LifeInv
  <2>2. UNCHANGED <<call, units>>
    BY <1>4 DEF Connect, Connected, ConnectFails, Serve
  <2> QED BY <1>3, <2>1, <2>2
<1>5. CASE Disconnect \/ Stopped
  <2>1. app = "stopping" /\ ~Opens("manager") /\ ~Closes("manager")
    BY <1>0, <1>5, WhatOpens DEF Disconnect, Stopped
  <2>2. UNCHANGED <<call, units>>
    BY <1>5 DEF Disconnect, Stopped
  <2> QED BY <1>3, <2>1, <2>2
<1>6. CASE OpenManager \/ ManagerFails \/ Stop \/ CloseManager
  BY <1>2, <1>6 DEF OpenManager, ManagerFails, Stop, CloseManager
<1> QED BY <1>1, <1>4, <1>5, <1>6 DEF Lifecycle

LEMMA BusyNext ==
  ASSUME TypeOK, LifeInv, BusyInv, [Next]_vars PROVE BusyInv'
<1>1. CASE UNCHANGED vars
  BY <1>1 DEF BusyInv, Runs, Opens, Closes, vars, call, units
<1>2. CASE Lifecycle
  <2>1. owner' = owner /\ \A u \in Units : unit'[u] # "new" => unit[u] # "new"
    BY <1>2 DEF Lifecycle, Connect, Connected, ConnectFails, OpenManager, ManagerFails,
       Serve, Stop, CloseManager, Disconnect, Stopped, Crash, units
  <2> QED BY <1>2, <2>1, LifecycleQuiet DEF BusyInv
<1>3. ASSUME UNCHANGED <<app, depth>> PROVE \A t \in Tasks : Runs(t)' = Runs(t)
  BY <1>3 DEF Runs, Opens, Closes
<1>4. ASSUME NEW t \in Requests, LeaveBlock(t) PROVE BusyInv'
  BY <1>3, <1>4 DEF LeaveBlock, BusyInv, Elsewhere, call, units
<1>5. ASSUME NEW t \in Requests, NEW u \in Units, EnterBlock(t, u) PROVE BusyInv'
  <2>1. \A v \in Units : /\ v # u => unit'[v] = unit[v] /\ owner'[v] = owner[v]
                         /\ v = u => unit[v] = "new" /\ owner'[v] = t
    BY <1>5 DEF EnterBlock, TypeOK
  <2>2. UNCHANGED <<app, depth, pc, buffered>>
    BY <1>5 DEF EnterBlock, Elsewhere, call
  <2> QED BY <1>3, <2>1, <2>2 DEF BusyInv
<1>6. ASSUME NEW u \in Units, EndTransaction(u) \/ Discard(u) PROVE BusyInv'
  <2>1. /\ \A v \in Units : v # u => unit'[v] = unit[v]
        /\ unit[u] \notin {"new", "flushing"}
    BY <1>6 DEF EndTransaction, Discard, TypeOK
  <2>2. UNCHANGED <<app, depth, pc, buffered, owner>>
    BY <1>6 DEF EndTransaction, Discard, Elsewhere, call
  <2> QED BY <1>3, <2>1, <2>2 DEF BusyInv
<1>7. ASSUME NEW u \in Units, Flush(u) PROVE BusyInv'
  <2>1. \A v \in Units : v # u => unit'[v] = unit[v] /\ buffered'[v] = buffered[v]
    BY <1>7 DEF Flush, TakeBuffer, TypeOK
  <2>2. UNCHANGED <<app, depth, pc, owner>> /\ unit[u] # "new" /\ unit'[u] = "flushing"
    BY <1>7 DEF Flush, Elsewhere, call, TypeOK
  <2>3. app = "serving"
    BY <1>7, <2>2, PublicationAssumption DEF BusyInv, Flush, Idle, Runs
  <2> QED BY <1>3, <2>1, <2>2, <2>3 DEF BusyInv
<1>8. ASSUME NEW u \in Units, FlushStep(u) PROVE BusyInv'
  <2>1. \A v \in Units : v # u => unit'[v] = unit[v] /\ buffered'[v] = buffered[v]
    BY <1>8 DEF FlushStep, PublishNext, FlushFails, Flushed, TypeOK
  <2>2. UNCHANGED <<app, depth, pc, owner>> /\ unit[u] = "flushing"
    BY <1>8 DEF FlushStep, PublishNext, FlushFails, Flushed, Flushing, Elsewhere, call
  <2>3. app = "serving"
    BY <1>8, <2>2, PublicationAssumption
       DEF BusyInv, FlushStep, PublishNext, FlushFails, Flushed, Flushing, Runs
  <2>4. buffered'[u] = <<>> \/ unit'[u] = "flushing"
    BY <1>8, <2>2 DEF FlushStep, PublishNext, FlushFails, Flushed, TypeOK
  <2> QED BY <1>3, <2>1, <2>2, <2>3, <2>4 DEF BusyInv
<1>9. ASSUME NEW t \in Tasks, CallStep(t) \/ PutFails(t) \/ \E j \in Jobs : Ask(t, j)
      PROVE  BusyInv'
  <2>1. /\ Runs(t)
        /\ \A s \in Tasks : s # t => pc'[s] = pc[s]
        /\ UNCHANGED <<app, depth, unit, owner, buffered>>
    BY <1>9 DEF CallStep, WriteStaging, Rename, Buffer, SendNow, PutFails, Ask, Idle,
       Leaves, Elsewhere, units, TypeOK
  <2> QED BY <1>3, <2>1 DEF BusyInv
<1> QED BY <1>1, <1>2, <1>4, <1>5, <1>6, <1>7, <1>8, <1>9 DEF Next

(* Nobody who is about to send finds the queue unconnected.                 *)
LEMMA BusyMeansOpen == ASSUME TypeOK, LifeInv, BusyInv PROVE QueueIsThere
<1>1. ASSUME NEW t \in Tasks, pc[t] = "sending" PROVE queue = "open"
  <2>1. Runs(t)
    BY <1>1 DEF BusyInv
  <2>2. depth \in Nat /\ Managers \in Nat
    BY Depths
  <2> QED BY <2>1, <2>2, WhatOpens DEF LifeInv, Runs
<1> QED BY <1>1 DEF QueueIsThere, AboutToSend, BusyInv, LifeInv

-----------------------------------------------------------------------------
(* The context variable of a task names the innermost block it is in, and   *)
(* what each block will restore is the block around it.                     *)
Around(t, i) == IF i = 1 THEN NoUnit ELSE blocks[t][i - 1]
BlockInv == \A t \in Tasks :
    /\ current[t] = Innermost(t)
    /\ \A i \in DOMAIN blocks[t] : /\ unit[blocks[t][i]] # "new"
                                   /\ token[blocks[t][i]] = Around(t, i)

LEMMA BlockUnits ==
  ASSUME TypeOK, NEW t \in Tasks, NEW i \in DOMAIN blocks[t] PROVE blocks[t][i] \in Units
<1>1. blocks[t] \in Seq(Units)
  BY DEF TypeOK
<1> QED BY <1>1

LEMMA BlocksKept ==
  ASSUME BlockInv, UNCHANGED context, TypeOK,
         \A u \in Units : unit[u] # "new" => unit'[u] # "new"
  PROVE  BlockInv'
<1>1. \A t \in Tasks : \A i \in DOMAIN blocks[t] : blocks[t][i] \in Units
  BY BlockUnits
<1> QED BY <1>1 DEF BlockInv, Innermost, Around, context

LEMMA BlockNext ==
  ASSUME TypeOK, BlockInv, [Next]_vars PROVE BlockInv'
<1>1. CASE UNCHANGED vars
  BY <1>1, BlocksKept DEF vars, units
<1>2. CASE Crash
  <2>1. \A t \in Tasks : blocks'[t] = <<>> /\ current'[t] = NoUnit
    BY <1>2 DEF Crash
  <2> QED BY <2>1 DEF BlockInv, Innermost
<1>3. CASE Lifecycle /\ ~Crash
  <2>1. UNCHANGED <<context, unit>>
    BY <1>3 DEF Lifecycle, Connect, Connected, ConnectFails, OpenManager, ManagerFails,
       Serve, Stop, CloseManager, Disconnect, Stopped, units
  <2> QED BY <2>1, BlocksKept
<1>4. ASSUME NEW t \in Requests, NEW u \in Units, EnterBlock(t, u) PROVE BlockInv'
  <2>1. t \in Tasks /\ blocks[t] \in Seq(Units) /\ unit[u] = "new"
    BY <1>4 DEF EnterBlock, TypeOK, Tasks
  <2>2. /\ blocks'[t] = Append(blocks[t], u) /\ current'[t] = u
        /\ token'[u] = current[t] /\ unit'[u] = "open"
        /\ \A s \in Tasks : s # t => blocks'[s] = blocks[s] /\ current'[s] = current[s]
        /\ \A v \in Units : v # u => token'[v] = token[v] /\ unit'[v] = unit[v]
    BY <1>4, <2>1 DEF EnterBlock, TypeOK
  <2>3. \A s \in Tasks : \A i \in DOMAIN blocks[s] : blocks[s][i] \in Units \ {u}
    BY <2>1, BlockUnits DEF BlockInv
  <2>4. ASSUME NEW s \in Tasks, s # t
        PROVE  /\ current'[s] = Innermost(s)'
               /\ \A i \in DOMAIN blocks'[s] : /\ unit'[blocks'[s][i]] # "new"
                                               /\ token'[blocks'[s][i]] = Around(s, i)'
    BY <2>2, <2>3, <2>4 DEF BlockInv, Innermost, Around
  <2>5. /\ Len(blocks[t]) \in Nat /\ Len(blocks'[t]) = Len(blocks[t]) + 1
        /\ DOMAIN blocks[t] = 1..Len(blocks[t]) /\ DOMAIN blocks'[t] = 1..(Len(blocks[t]) + 1)
        /\ blocks'[t][Len(blocks[t]) + 1] = u
        /\ \A i \in 1..Len(blocks[t]) : blocks'[t][i] = blocks[t][i]
    BY <2>1, <2>2
  <2>6. current'[t] = Innermost(t)'
    BY <2>2, <2>5 DEF Innermost
  <2>7. ASSUME NEW i \in DOMAIN blocks'[t]
        PROVE  unit'[blocks'[t][i]] # "new" /\ token'[blocks'[t][i]] = Around(t, i)'
    <3>1. CASE i \in DOMAIN blocks[t]
      BY <2>1, <2>2, <2>3, <2>5, <3>1 DEF BlockInv, Around
    <3>2. CASE i = Len(blocks[t]) + 1
      <4>1. CASE blocks[t] = <<>>
        BY <2>1, <2>2, <2>5, <3>2, <4>1 DEF BlockInv, Around, Innermost
      <4>2. CASE blocks[t] # <<>>
        BY <2>1, <2>2, <2>5, <3>2, <4>2 DEF BlockInv, Around, Innermost
      <4> QED BY <4>1, <4>2
    <3> QED BY <2>5, <3>1, <3>2
  <2> QED BY <2>4, <2>6, <2>7 DEF BlockInv
<1>5. ASSUME NEW t \in Requests, LeaveBlock(t) PROVE BlockInv'
  <2> DEFINE n == Len(blocks[t])
  <2>1. t \in Tasks /\ blocks[t] \in Seq(Units) /\ blocks[t] # <<>>
    BY <1>5 DEF LeaveBlock, TypeOK, Tasks
  <2>2. /\ blocks'[t] = SubSeq(blocks[t], 1, n - 1)
        /\ current'[t] = token[blocks[t][n]]
        /\ \A s \in Tasks : s # t => blocks'[s] = blocks[s] /\ current'[s] = current[s]
        /\ UNCHANGED <<token, unit>>
    BY <1>5, <2>1 DEF LeaveBlock, Reset, Innermost, TypeOK, units
  <2>3. ASSUME NEW s \in Tasks, s # t
        PROVE  /\ current'[s] = Innermost(s)'
               /\ \A i \in DOMAIN blocks'[s] : /\ unit'[blocks'[s][i]] # "new"
                                               /\ token'[blocks'[s][i]] = Around(s, i)'
    BY <2>2, <2>3 DEF BlockInv, Innermost, Around
  <2>4. /\ n \in Nat /\ n >= 1 /\ Len(blocks'[t]) = n - 1 /\ blocks'[t] \in Seq(Units)
        /\ DOMAIN blocks[t] = 1..n /\ DOMAIN blocks'[t] = 1..(n - 1)
        /\ \A i \in 1..(n - 1) : blocks'[t][i] = blocks[t][i]
    BY <2>1, <2>2, FrontFacts
  <2> HIDE DEF n
  <2>5. current'[t] = Around(t, n)
    BY <2>1, <2>2, <2>4 DEF BlockInv
  <2>6. current'[t] = Innermost(t)'
    <3>1. CASE n = 1
      <4>1. blocks'[t] = <<>>
        BY <2>4, <3>1
      <4> QED BY <2>5, <3>1, <4>1 DEF Innermost, Around
    <3>2. CASE n # 1
      <4>1. blocks'[t] # <<>> /\ n - 1 \in 1..(n - 1)
        BY <2>4, <3>2
      <4> QED BY <2>4, <2>5, <3>2, <4>1 DEF Innermost, Around
    <3> QED BY <3>1, <3>2
  <2>7. ASSUME NEW i \in DOMAIN blocks'[t]
        PROVE  unit'[blocks'[t][i]] # "new" /\ token'[blocks'[t][i]] = Around(t, i)'
    BY <2>1, <2>2, <2>4 DEF BlockInv, Around
  <2> QED BY <2>3, <2>6, <2>7 DEF BlockInv
<1>6. ASSUME NEW u \in Units, EndTransaction(u) \/ Discard(u) \/ Flush(u) \/ FlushStep(u)
      PROVE  BlockInv'
  <2>1. UNCHANGED context /\ \A v \in Units : unit[v] # "new" => unit'[v] # "new"
    BY <1>6 DEF EndTransaction, Discard, Flush, FlushStep, PublishNext, FlushFails,
       Flushed, TypeOK
  <2> QED BY <2>1, BlocksKept
<1>7. ASSUME NEW t \in Tasks, CallStep(t) \/ PutFails(t) \/ \E j \in Jobs : Ask(t, j)
      PROVE  BlockInv'
  <2>1. UNCHANGED <<context, unit>>
    BY <1>7 DEF CallStep, WriteStaging, Rename, Buffer, SendNow, PutFails, Ask, units
  <2> QED BY <2>1, BlocksKept
<1> QED BY <1>1, <1>2, <1>3, <1>4, <1>5, <1>6, <1>7 DEF Next

-----------------------------------------------------------------------------
(* A job is in one place: in the hands of a task, in the buffer of a unit,  *)
(* in what a flush has taken out of it, or in Redis.                        *)
Hand(t) == {job[t]} \ {NoJob}
P(u)    == Range(pending[u])
B(u)    == Range(buffered[u])
Sent    == Range(stream)

Apart ==
    /\ \A s, t \in Tasks : s # t => Hand(s) \cap Hand(t) = {}
    /\ \A u, v \in Units : u # v => (P(u) \cup B(u)) \cap (P(v) \cup B(v)) = {}
    /\ \A u \in Units : P(u) \cap B(u) = {} /\ (P(u) \cup B(u)) \cap Sent = {}
    /\ \A t \in Tasks : Hand(t) \cap Sent = {}
    /\ \A t \in Tasks, u \in Units : Hand(t) \cap (P(u) \cup B(u)) = {}
Known ==
    /\ \A t \in Tasks : Hand(t) \subseteq Range(asked)
    /\ \A u \in Units : P(u) \cup B(u) \subseteq Range(asked)
    /\ Sent \subseteq Range(asked)
NoneTwice ==
    /\ Injective(stream)
    /\ \A u \in Units : Injective(pending[u]) /\ Injective(buffered[u])
OnceInv == Apart /\ Known /\ NoneTwice

LEMMA EmptySeq == Range(<<>>) = {} /\ Injective(<<>>)
BY DEF Range, Injective

(* Places that only lose jobs stay apart.                                   *)
LEMMA Fewer ==
  ASSUME OnceInv,
         \A t \in Tasks : Hand(t)' \subseteq Hand(t),
         \A u \in Units : pending'[u] = pending[u] \/ pending'[u] = <<>>,
         \A u \in Units : buffered'[u] = buffered[u] \/ buffered'[u] = <<>>,
         stream' = stream, asked' = asked
  PROVE  OnceInv'
<1>1. \A u \in Units : P(u)' \subseteq P(u) /\ B(u)' \subseteq B(u)
  BY EmptySeq DEF P, B
<1>2. Sent' = Sent /\ Range(asked)' = Range(asked)
  BY DEF Sent
<1>3. Apart'
  BY <1>1, <1>2 DEF OnceInv, Apart
<1>4. Known'
  BY <1>1, <1>2 DEF OnceInv, Known
<1>5. NoneTwice'
  BY EmptySeq DEF OnceInv, NoneTwice
<1> QED BY <1>3, <1>4, <1>5 DEF OnceInv

(* Publishing x, which was nowhere else or is there no longer.              *)
LEMMA Publishing ==
  ASSUME TypeOK, OnceInv, NEW x \in Jobs, stream' = Append(stream, x), asked' = asked,
         \A t \in Tasks : Hand(t)' \subseteq Hand(t) /\ x \notin Hand(t)',
         \A u \in Units : P(u)' \subseteq P(u) /\ B(u)' \subseteq B(u)
                          /\ x \notin P(u)' \cup B(u)',
         \A u \in Units : Injective(pending'[u]) /\ Injective(buffered'[u]),
         x \notin Sent, x \in Range(asked)
  PROVE  OnceInv'
<1>1. stream \in Seq(Jobs)
  BY DEF TypeOK
<1>2. Sent' = Sent \cup {x} /\ Injective(stream')
  BY <1>1, AppendFacts DEF Sent, OnceInv, NoneTwice
<1>3. Apart'
  BY <1>2 DEF OnceInv, Apart
<1>4. Known'
  BY <1>2 DEF OnceInv, Known
<1> QED BY <1>2, <1>3, <1>4 DEF OnceInv, NoneTwice

LEMMA LeavesHand ==
  ASSUME TypeOK, NEW t \in Tasks, Leaves(t)
  PROVE  Hand(t)' = {} /\ \A s \in Tasks : s # t => Hand(s)' = Hand(s)
BY DEF Leaves, Hand, TypeOK

LEMMA OnceNext ==
  ASSUME TypeOK, BusyInv, OnceInv, [Next]_vars PROVE OnceInv'
<1>1. ASSUME UNCHANGED <<job, pending, buffered, stream, asked>> PROVE OnceInv'
  BY <1>1, Fewer DEF Hand
<1>2. CASE UNCHANGED vars
  BY <1>1, <1>2 DEF vars, call, units, redis, calls
<1>3. CASE Crash
  <2>1. \A t \in Tasks : Hand(t)' = {}
    BY <1>3 DEF Crash, Hand
  <2>2. UNCHANGED <<stream, asked>>
        /\ \A u \in Units : pending'[u] = <<>> /\ buffered'[u] = <<>>
    BY <1>3 DEF Crash, redis, calls
  <2> QED BY <2>1, <2>2, Fewer
<1>4. CASE Lifecycle /\ ~Crash
  BY <1>1, <1>4 DEF Lifecycle, Connect, Connected, ConnectFails, OpenManager,
     ManagerFails, Serve, Stop, CloseManager, Disconnect, Stopped, call, units, redis, calls
<1>5. ASSUME NEW t \in Requests, LeaveBlock(t) \/ \E u \in Units : EnterBlock(t, u)
      PROVE  OnceInv'
  BY <1>1, <1>5 DEF LeaveBlock, EnterBlock, call, units, redis, calls
<1>6. ASSUME NEW u \in Units, EndTransaction(u) \/ Flushed(u) PROVE OnceInv'
  BY <1>1, <1>6 DEF EndTransaction, Flushed, call, redis, calls
<1>7. ASSUME NEW u \in Units, Discard(u) PROVE OnceInv'
  <2>1. UNCHANGED <<job, buffered, stream, asked>>
    BY <1>7 DEF Discard, call, redis, calls
  <2>2. \A v \in Units : pending'[v] = pending[v] \/ pending'[v] = <<>>
    BY <1>7 DEF Discard, TypeOK
  <2> QED BY <2>1, <2>2, Fewer DEF Hand
<1>8. ASSUME NEW u \in Units, Flush(u) PROVE OnceInv'
  <2>1. UNCHANGED <<job, stream, asked>> /\ buffered[u] = <<>>
    BY <1>8 DEF Flush, BusyInv, call, redis, calls
  <2>2. /\ pending'[u] = <<>> /\ buffered'[u] = pending[u]
        /\ \A v \in Units : v # u => pending'[v] = pending[v] /\ buffered'[v] = buffered[v]
    BY <1>8 DEF Flush, TakeBuffer, TypeOK
  <2>3. /\ \A v \in Units : P(v)' \cup B(v)' = P(v) \cup B(v) /\ P(v)' \cap B(v)' \subseteq P(v) \cap B(v)
        /\ \A t \in Tasks : Hand(t)' = Hand(t)
        /\ Sent' = Sent /\ Range(asked)' = Range(asked)
    BY <2>1, <2>2, EmptySeq DEF P, B, Hand, Sent
  <2>4. Apart'
    BY <2>3 DEF OnceInv, Apart
  <2>5. Known'
    BY <2>3 DEF OnceInv, Known
  <2>6. NoneTwice'
    BY <2>1, <2>2, EmptySeq DEF OnceInv, NoneTwice
  <2> QED BY <2>4, <2>5, <2>6 DEF OnceInv
<1>9. ASSUME NEW u \in Units, NEW x \in Jobs, buffered[u] # <<>>, x = Head(buffered[u]),
             stream' = Append(stream, x), UNCHANGED <<job, pending, asked>>,
             \A v \in Units : v # u => buffered'[v] = buffered[v],
             buffered'[u] = Tail(buffered[u]) \/ buffered'[u] = <<>>
      PROVE  OnceInv'
  <2>1. buffered[u] \in Seq(Jobs)
    BY DEF TypeOK
  <2>2. /\ x \in B(u) /\ B(u)' \subseteq B(u) /\ x \notin B(u)' /\ Injective(buffered'[u])
    BY <1>9, <2>1, TailFacts, EmptySeq DEF B, OnceInv, NoneTwice
  <2>3. /\ \A v \in Units : v # u => B(v)' = B(v) /\ x \notin B(v)
        /\ \A v \in Units : P(v)' = P(v) /\ x \notin P(v)
    BY <1>9, <2>2 DEF P, B, OnceInv, Apart
  <2>4. \A t \in Tasks : Hand(t)' = Hand(t) /\ x \notin Hand(t)
    BY <1>9, <2>2 DEF Hand, OnceInv, Apart
  <2>5. x \notin Sent /\ x \in Range(asked)
    BY <2>2 DEF OnceInv, Apart, Known
  <2>6. \A v \in Units : Injective(pending'[v]) /\ Injective(buffered'[v])
    BY <1>9, <2>2 DEF OnceInv, NoneTwice
  <2>7. \A v \in Units : P(v)' \subseteq P(v) /\ B(v)' \subseteq B(v) /\ x \notin P(v)' \cup B(v)'
    BY <2>2, <2>3
  <2> QED BY <1>9, <2>4, <2>5, <2>6, <2>7, Publishing
<1>10. ASSUME NEW u \in Units, PublishNext(u) \/ FlushFails(u) PROVE OnceInv'
  <2>1. /\ buffered[u] # <<>> /\ buffered[u] \in Seq(Jobs) /\ UNCHANGED <<job, pending, asked>>
        /\ \A v \in Units : v # u => buffered'[v] = buffered[v]
        /\ buffered'[u] = Tail(buffered[u]) \/ buffered'[u] = <<>>
    BY <1>10 DEF PublishNext, FlushFails, TypeOK, call, calls
  <2>2. Head(buffered[u]) \in Jobs
    BY <2>1, TailFacts
  <2>3. CASE stream' = Append(stream, Head(buffered[u]))
    BY <1>9, <2>1, <2>2, <2>3
  <2>4. CASE stream' # Append(stream, Head(buffered[u]))
    <3>1. stream' = stream /\ buffered'[u] = <<>>
      BY <1>10, <2>4 DEF PublishNext, FlushFails, Publish, TypeOK
    <3> QED BY <2>1, <3>1, Fewer DEF Hand
  <2> QED BY <2>3, <2>4
<1>11. ASSUME NEW t \in Tasks, NEW j \in Jobs, Ask(t, j) PROVE OnceInv'
  <2>1. UNCHANGED <<pending, buffered, stream>> /\ asked \in Seq(Jobs) /\ j \notin Range(asked)
        /\ asked' = Append(asked, j)
    BY <1>11 DEF Ask, units, redis, TypeOK
  <2>2. Range(asked)' = Range(asked) \cup {j}
    BY <2>1, AppendFacts
  <2>3. /\ Hand(t)' \subseteq {j} /\ \A s \in Tasks : s # t => Hand(s)' = Hand(s)
        /\ Sent' = Sent /\ \A u \in Units : P(u)' = P(u) /\ B(u)' = B(u)
    BY <1>11, <2>1 DEF Ask, Hand, P, B, Sent, TypeOK
  <2>4. Apart'
    BY <2>1, <2>3 DEF OnceInv, Apart, Known
  <2>5. Known'
    BY <2>2, <2>3 DEF OnceInv, Known
  <2> QED BY <2>1, <2>4, <2>5 DEF OnceInv, NoneTwice
<1>12. ASSUME NEW t \in Tasks, WriteStaging(t) \/ Rename(t) PROVE OnceInv'
  BY <1>1, <1>12 DEF WriteStaging, Rename, units, calls
<1>13. ASSUME NEW t \in Tasks, PutFails(t) PROVE OnceInv'
  <2>1. UNCHANGED <<pending, buffered, stream, asked>> /\ Leaves(t)
    BY <1>13 DEF PutFails, units, calls
  <2> QED BY <2>1, LeavesHand, Fewer
<1>14. ASSUME NEW t \in Tasks, Buffer(t) PROVE OnceInv'
  <2>0. PICK u \in Units, x \in Jobs : u = via[t] /\ x = job[t]
    BY <1>14 DEF Buffer, TypeOK
  <2>1. /\ x # NoJob /\ pending[u] \in Seq(Jobs) /\ Leaves(t)
        /\ UNCHANGED <<buffered, stream, asked>>
    BY <1>14, <2>0, PublicationAssumption DEF Buffer, TypeOK, redis, calls
  <2>2. /\ pending'[u] = Append(pending[u], x)
        /\ \A v \in Units : v # u => pending'[v] = pending[v]
    BY <1>14, <2>0 DEF Buffer, TypeOK
  <2>3. x \in Hand(t)
    BY <2>0, <2>1 DEF Hand
  <2>4. /\ x \notin Sent /\ x \in Range(asked)
        /\ \A v \in Units : x \notin P(v) \cup B(v)
        /\ \A s \in Tasks : s # t => x \notin Hand(s)
    BY <2>3 DEF OnceInv, Apart, Known
  <2>5. P(u)' = P(u) \cup {x} /\ Injective(pending'[u])
    BY <2>1, <2>2, <2>4, AppendFacts DEF P, OnceInv, NoneTwice
  <2>6. /\ \A v \in Units : B(v)' = B(v) /\ (v # u => P(v)' = P(v))
        /\ Sent' = Sent /\ Range(asked)' = Range(asked)
        /\ Hand(t)' = {} /\ \A s \in Tasks : s # t => Hand(s)' = Hand(s)
    BY <2>1, <2>2, LeavesHand DEF P, B, Sent
  <2>7. Apart'
    BY <2>4, <2>5, <2>6 DEF OnceInv, Apart
  <2>8. Known'
    BY <2>4, <2>5, <2>6 DEF OnceInv, Known
  <2>9. NoneTwice'
    BY <2>1, <2>2, <2>5 DEF OnceInv, NoneTwice
  <2> QED BY <2>7, <2>8, <2>9 DEF OnceInv
<1>15. ASSUME NEW t \in Tasks, SendNow(t) PROVE OnceInv'
  <2>0. PICK x \in Jobs : x = job[t]
    BY <1>15 DEF SendNow, TypeOK
  <2>1. /\ x # NoJob /\ Leaves(t) /\ UNCHANGED <<pending, buffered, asked>>
        /\ stream' = Append(stream, x) \/ stream' = stream
    BY <1>15, <2>0, PublicationAssumption DEF SendNow, Publish, TypeOK, units, calls
  <2>2. x \in Hand(t)
    BY <2>0, <2>1 DEF Hand
  <2>3. CASE stream' = stream
    BY <2>1, <2>3, LeavesHand, Fewer
  <2>4. CASE stream' = Append(stream, x)
    <3>1. /\ x \notin Sent /\ x \in Range(asked)
          /\ \A v \in Units : x \notin P(v) \cup B(v)
          /\ \A s \in Tasks : s # t => x \notin Hand(s)
      BY <2>2 DEF OnceInv, Apart, Known
    <3>2. /\ \A s \in Tasks : Hand(s)' \subseteq Hand(s) /\ x \notin Hand(s)'
          /\ \A v \in Units : P(v)' = P(v) /\ B(v)' = B(v)
      BY <2>1, <3>1, LeavesHand DEF P, B
    <3>3. \A v \in Units : Injective(pending'[v]) /\ Injective(buffered'[v])
      BY <2>1 DEF OnceInv, NoneTwice
    <3> QED BY <2>1, <2>4, <3>1, <3>2, <3>3, Publishing
  <2> QED BY <2>1, <2>3, <2>4
<1> QED BY <1>2, <1>3, <1>4, <1>5, <1>6, <1>7, <1>8, <1>10, <1>11, <1>12, <1>13, <1>14, <1>15
        DEF Next, FlushStep, CallStep

-----------------------------------------------------------------------------
(* What a step other than Ask may do to the places of jobs, to the payload  *)
(* files and to the transactions.                                           *)
After == {"committed", "flushing", "flushed", "failed"}
Given(u) == {j \in Jobs : \E t \in Tasks : pc[t] = "sending" /\ j \in Hand(t) /\ via[t] = u}
Complete(j) == files[j] = "complete"
HandMoves == \A t \in Tasks :
    Hand(t)' = {} \/ (Hand(t)' = Hand(t) /\ via'[t] = via[t])
UnitMoves == \A u \in Units : P(u)' \cup B(u)' \subseteq P(u) \cup B(u) \cup Given(u)
SentMoves == \A j \in Sent' : \/ j \in Sent \cup Given(NoUnit)
                              \/ \E u \in Units : j \in B(u) /\ unit[u] = "flushing"
FileMoves ==
    /\ \A j \in Jobs : \/ files'[j] = files[j]
                       \/ \E t \in Tasks : pc[t] # "sending" /\ j \in Hand(t)
    /\ \A t \in Tasks : pc'[t] = "sending" =>
         \/ pc[t] = "sending"
         \/ \A j \in Hand(t)' : files'[j] = "complete"
Committed == \A u \in Units : unit[u] \in After => unit'[u] \in After
Moves == HandMoves /\ UnitMoves /\ SentMoves /\ FileMoves /\ Committed
         /\ within' = within /\ asked' = asked

LEMMA HandsKept ==
  ASSUME UNCHANGED <<call, files>> PROVE HandMoves /\ FileMoves
BY DEF HandMoves, FileMoves, Hand, call

LEMMA SentKept == ASSUME UNCHANGED stream PROVE SentMoves
BY DEF SentMoves, Sent

LEMMA UnitsKept ==
  ASSUME \A u \in Units : pending'[u] = pending[u] \/ pending'[u] = <<>>,
         \A u \in Units : buffered'[u] = buffered[u] \/ buffered'[u] = <<>>
  PROVE  UnitMoves
BY EmptySeq DEF UnitMoves, P, B

LEMMA StepMoves ==
  ASSUME TypeOK, BusyInv, [Next]_vars, ~(\E t \in Tasks, j \in Jobs : Ask(t, j))
  PROVE  Moves
<1>1. ASSUME UNCHANGED <<call, pending, buffered, redis, calls>>, Committed PROVE Moves
  BY <1>1, HandsKept, SentKept, UnitsKept DEF Moves, redis, calls
<1>2. CASE UNCHANGED vars
  BY <1>1, <1>2 DEF vars, units, Committed
<1>3. CASE Crash
  <2>1. \A t \in Tasks : Hand(t)' = {} /\ pc'[t] = "free"
    BY <1>3 DEF Crash, Hand
  <2>2. UNCHANGED <<stream, files, asked, within>>
        /\ \A u \in Units : pending'[u] = <<>> /\ buffered'[u] = <<>>
    BY <1>3 DEF Crash, redis, calls
  <2>3. Committed
    BY <1>3 DEF Crash, Committed, After
  <2>4. HandMoves /\ FileMoves
    BY <2>1, <2>2 DEF HandMoves, FileMoves
  <2> QED BY <2>2, <2>3, <2>4, SentKept, UnitsKept DEF Moves
<1>4. CASE Lifecycle /\ ~Crash
  <2>1. UNCHANGED <<call, units, redis, calls>>
    BY <1>4 DEF Lifecycle, Connect, Connected, ConnectFails, OpenManager,
       ManagerFails, Serve, Stop, CloseManager, Disconnect, Stopped
  <2> QED BY <1>1, <2>1 DEF units, Committed
<1>5. ASSUME NEW t \in Requests, LeaveBlock(t) PROVE Moves
  BY <1>1, <1>5 DEF LeaveBlock, units, Committed
<1>6. ASSUME NEW t \in Requests, NEW u \in Units, EnterBlock(t, u) PROVE Moves
  <2>1. Committed
    BY <1>6 DEF EnterBlock, Committed, After, TypeOK
  <2> QED BY <1>1, <1>6, <2>1 DEF EnterBlock
<1>7. ASSUME NEW u \in Units, EndTransaction(u) \/ Flushed(u) PROVE Moves
  <2>1. Committed
    BY <1>7 DEF EndTransaction, Flushed, Flushing, Committed, After, TypeOK
  <2> QED BY <1>1, <1>7, <2>1 DEF EndTransaction, Flushed
<1>8. ASSUME NEW u \in Units, Discard(u) PROVE Moves
  <2>1. UNCHANGED <<call, buffered, redis, calls>>
        /\ \A v \in Units : pending'[v] = pending[v] \/ pending'[v] = <<>>
    BY <1>8 DEF Discard, TypeOK
  <2>2. Committed
    BY <1>8 DEF Discard, Committed, After, TypeOK
  <2> QED BY <2>1, <2>2, HandsKept, SentKept, UnitsKept DEF Moves, redis, calls
<1>9. ASSUME NEW u \in Units, Flush(u) PROVE Moves
  <2>1. UNCHANGED <<call, redis, calls>>
    BY <1>9 DEF Flush
  <2>2. /\ pending'[u] = <<>> /\ buffered'[u] = pending[u]
        /\ \A v \in Units : v # u => pending'[v] = pending[v] /\ buffered'[v] = buffered[v]
    BY <1>9 DEF Flush, TakeBuffer, TypeOK
  <2>3. UnitMoves
    BY <2>2, EmptySeq DEF UnitMoves, P, B
  <2>4. Committed
    BY <1>9 DEF Flush, Committed, After, TypeOK
  <2> QED BY <2>1, <2>3, <2>4, HandsKept, SentKept DEF Moves, redis, calls
<1>10. ASSUME NEW u \in Units, PublishNext(u) \/ FlushFails(u) PROVE Moves
  <2>1. /\ buffered[u] # <<>> /\ buffered[u] \in Seq(Jobs) /\ stream \in Seq(Jobs)
        /\ UNCHANGED <<call, files, pending, calls>> /\ unit[u] = "flushing"
        /\ \A v \in Units : v # u => buffered'[v] = buffered[v]
        /\ buffered'[u] = Tail(buffered[u]) \/ buffered'[u] = <<>>
    BY <1>10 DEF PublishNext, FlushFails, Flushing, TypeOK
  <2>2. Head(buffered[u]) \in Jobs /\ Range(Tail(buffered[u])) \subseteq B(u)
        /\ Head(buffered[u]) \in B(u)
    BY <2>1, TailFacts DEF B
  <2>3. UnitMoves
    <3>1. B(u)' \subseteq B(u)
      BY <2>1, <2>2, EmptySeq DEF B
    <3>2. \A v \in Units : P(v)' = P(v) /\ (v # u => B(v)' = B(v))
      BY <2>1 DEF P, B
    <3> QED BY <3>1, <3>2 DEF UnitMoves
  <2>4. SentMoves
    <3>1. stream' = stream \/ stream' = Append(stream, Head(buffered[u]))
      BY <1>10 DEF PublishNext, FlushFails, Publish
    <3>2. Sent' \subseteq Sent \cup {Head(buffered[u])}
      <4>1. CASE stream' = stream
        BY <4>1 DEF Sent
      <4>2. CASE stream' = Append(stream, Head(buffered[u]))
        <5>1. Range(Append(stream, Head(buffered[u]))) = Sent \cup {Head(buffered[u])}
          BY <2>1, <2>2, AppendFacts DEF Sent
        <5> QED BY <4>2, <5>1 DEF Sent
      <4> QED BY <3>1, <4>1, <4>2
    <3> QED BY <2>1, <2>2, <3>2 DEF SentMoves
  <2>5. Committed
    BY <1>10, <2>1 DEF PublishNext, FlushFails, Committed, After, TypeOK
  <2> QED BY <2>1, <2>3, <2>4, <2>5, HandsKept DEF Moves, calls
<1>11. ASSUME NEW t \in Tasks, WriteStaging(t) \/ Rename(t) PROVE Moves
  <2>1. /\ UNCHANGED <<job, via, units, stream, calls>> /\ pc[t] \in {"writing", "renaming"}
        /\ job[t] \in Jobs /\ job[t] # NoJob
        /\ \A j \in Jobs : j # job[t] => files'[j] = files[j]
        /\ \A s \in Tasks : s # t => pc'[s] = pc[s]
        /\ pc'[t] = "sending" => files'[job[t]] = "complete"
    <3>1. pc[t] \in {"writing", "renaming"}
      BY <1>11 DEF WriteStaging, Rename
    <3>2. job[t] \in Jobs /\ job[t] # NoJob
      BY <3>1, PublicationAssumption DEF TypeOK
    <3>3. CASE WriteStaging(t)
      BY <3>1, <3>2, <3>3 DEF WriteStaging, TypeOK
    <3>4. CASE Rename(t)
      BY <3>1, <3>2, <3>4 DEF Rename, TypeOK
    <3> QED BY <1>11, <3>3, <3>4
  <2>2. HandMoves /\ Committed /\ UnitMoves
    BY <2>1, UnitsKept DEF HandMoves, Hand, Committed, units
  <2>3. FileMoves
    BY <2>1 DEF FileMoves, Hand
  <2> QED BY <2>1, <2>2, <2>3, SentKept DEF Moves, calls
<1>12. ASSUME NEW t \in Tasks, PutFails(t) PROVE Moves
  <2>1. /\ UNCHANGED <<units, stream, calls>> /\ pc[t] \in {"writing", "renaming"} /\ Leaves(t)
        /\ job[t] \in Jobs /\ job[t] # NoJob
        /\ \A j \in Jobs : j # job[t] => files'[j] = files[j]
        /\ \A s \in Tasks : s # t => pc'[s] = pc[s] /\ via'[s] = via[s]
        /\ pc'[t] = "free"
    BY <1>12, PublicationAssumption DEF PutFails, Leaves, TypeOK
  <2>2. HandMoves /\ Committed /\ UnitMoves
    BY <2>1, UnitsKept, LeavesHand DEF HandMoves, Committed, units
  <2>3. FileMoves
    BY <2>1 DEF FileMoves, Hand
  <2> QED BY <2>1, <2>2, <2>3, SentKept DEF Moves, calls
<1>13. ASSUME NEW t \in Tasks, Buffer(t) PROVE Moves
  <2>0. PICK u \in Units, x \in Jobs : u = via[t] /\ x = job[t]
    BY <1>13 DEF Buffer, TypeOK
  <2>1. /\ x \in Hand(t) /\ pending[u] \in Seq(Jobs) /\ Leaves(t) /\ pc[t] = "sending"
        /\ UNCHANGED <<unit, buffered, redis, calls>>
        /\ \A s \in Tasks : s # t => pc'[s] = pc[s] /\ via'[s] = via[s]
        /\ pc'[t] = "free"
    BY <1>13, <2>0, PublicationAssumption DEF Buffer, Leaves, Hand, TypeOK
  <2>2. /\ pending'[u] = Append(pending[u], x)
        /\ \A v \in Units : v # u => pending'[v] = pending[v]
    BY <1>13, <2>0 DEF Buffer, TypeOK
  <2>3. x \in Given(u)
    BY <2>0, <2>1 DEF Given
  <2>4. UnitMoves
    <3>1. P(u)' = P(u) \cup {x} /\ \A v \in Units : B(v)' = B(v) /\ (v # u => P(v)' = P(v))
      BY <2>1, <2>2, AppendFacts DEF P, B
    <3> QED BY <2>3, <3>1 DEF UnitMoves
  <2>5. HandMoves /\ Committed /\ FileMoves
    BY <2>1, LeavesHand DEF HandMoves, Committed, FileMoves, redis
  <2> QED BY <2>1, <2>4, <2>5, SentKept DEF Moves, redis, calls
<1>14. ASSUME NEW t \in Tasks, SendNow(t) PROVE Moves
  <2>0. PICK x \in Jobs : x = job[t]
    BY <1>14 DEF SendNow, TypeOK
  <2>1. /\ x \in Hand(t) /\ stream \in Seq(Jobs) /\ Leaves(t) /\ pc[t] = "sending"
        /\ via[t] = NoUnit /\ UNCHANGED <<units, files, calls>>
        /\ \A s \in Tasks : s # t => pc'[s] = pc[s] /\ via'[s] = via[s]
        /\ pc'[t] = "free"
        /\ stream' = stream \/ stream' = Append(stream, x)
    BY <1>14, <2>0, PublicationAssumption DEF SendNow, Publish, Leaves, Hand, TypeOK
  <2>2. x \in Given(NoUnit)
    BY <2>1 DEF Given
  <2>3. SentMoves
    <3>1. Sent' \subseteq Sent \cup {x}
      <4>1. Range(Append(stream, x)) = Sent \cup {x}
        BY <2>1, AppendFacts DEF Sent
      <4>2. Sent' = Range(stream')
        BY DEF Sent
      <4> QED BY <2>1, <4>1, <4>2 DEF Sent
    <3> QED BY <2>2, <3>1 DEF SentMoves
  <2>4. HandMoves /\ Committed /\ FileMoves
    BY <2>1, LeavesHand DEF HandMoves, Committed, FileMoves, units
  <2> QED BY <2>1, <2>3, <2>4, UnitsKept DEF Moves, units, calls
<1> QED BY <1>2, <1>3, <1>4, <1>5, <1>6, <1>7, <1>8, <1>9, <1>10, <1>11, <1>12, <1>13, <1>14
        DEF Next, FlushStep, CallStep

-----------------------------------------------------------------------------
(* A job in somebody's hands or in a buffer is there for the unit in whose  *)
(* block it was enqueued.                                                   *)
HeldInv ==
    /\ \A t \in Tasks : \A j \in Hand(t) : within[j] = via[t]
    /\ \A u \in Units : \A j \in P(u) \cup B(u) : within[j] = u

(* A payload is complete before its job goes on.                            *)
FileInv ==
    /\ \A t \in Tasks : pc[t] = "sending" => \A j \in Hand(t) \cap Offloaded : Complete(j)
    /\ \A u \in Units : \A j \in (P(u) \cup B(u)) \cap Offloaded : Complete(j)
    /\ ReferenceResolves

PubInv == TypeOK /\ LifeInv /\ BusyInv /\ BlockInv /\ OnceInv /\ HeldInv /\ FileInv
          /\ NothingUncommitted

LEMMA Places ==
  ASSUME TypeOK
  PROVE  /\ \A t \in Tasks : Hand(t) \subseteq Jobs
         /\ \A u \in Units : P(u) \cup B(u) \subseteq Jobs
         /\ Sent \subseteq Jobs
<1>1. \A q \in Seq(Jobs) : Range(q) \subseteq Jobs
  BY DEF Range
<1>2. stream \in Seq(Jobs) /\ \A u \in Units : pending[u] \in Seq(Jobs) /\ buffered[u] \in Seq(Jobs)
  BY DEF TypeOK
<1> QED BY <1>1, <1>2 DEF Hand, P, B, Sent, TypeOK

LEMMA HeldMoves == ASSUME TypeOK, HeldInv, Moves PROVE HeldInv'
<1>1. \A t \in Tasks : \A j \in Hand(t)' : within'[j] = via'[t]
  BY DEF Moves, HandMoves, HeldInv
<1>2. ASSUME NEW u \in Units, NEW j \in P(u)' \cup B(u)' PROVE within'[j] = u
  <2>1. CASE j \in P(u) \cup B(u)
    BY <2>1 DEF Moves, HeldInv
  <2>2. CASE j \in Given(u)
    BY <2>2 DEF Moves, HeldInv, Given
  <2> QED BY <2>1, <2>2 DEF Moves, UnitMoves
<1> QED BY <1>1, <1>2 DEF HeldInv

LEMMA FilesMove ==
  ASSUME TypeOK, OnceInv, FileInv, Moves PROVE FileInv'
<1>1. ASSUME NEW j \in Jobs, Complete(j),
             \A t \in Tasks : pc[t] # "sending" => j \notin Hand(t)
      PROVE  Complete(j)'
  BY <1>1 DEF Complete, Moves, FileMoves
<1>2. ASSUME NEW u \in Units \cup {NoUnit}, NEW j \in Given(u) \cap Offloaded PROVE Complete(j)'
  <2>1. PICK t \in Tasks : pc[t] = "sending" /\ j \in Hand(t)
    BY DEF Given
  <2>2. Complete(j) /\ \A s \in Tasks : s # t => j \notin Hand(s)
    BY <2>1 DEF FileInv, OnceInv, Apart
  <2> QED BY <1>1, <2>1, <2>2 DEF Given
<1>3. ASSUME NEW u \in Units, NEW j \in (P(u) \cup B(u)) \cap Offloaded PROVE Complete(j)'
  <2>1. j \in Jobs /\ Complete(j) /\ \A s \in Tasks : j \notin Hand(s)
    BY Places DEF FileInv, OnceInv, Apart
  <2> QED BY <1>1, <2>1
<1>4. ASSUME NEW j \in Sent \cap Offloaded PROVE Complete(j)'
  <2>1. j \in Jobs /\ Complete(j) /\ \A s \in Tasks : j \notin Hand(s)
    BY Places DEF FileInv, OnceInv, Apart, ReferenceResolves, Sent, Complete
  <2> QED BY <1>1, <2>1
<1>5. ASSUME NEW t \in Tasks, pc'[t] = "sending", NEW j \in Hand(t)' \cap Offloaded
      PROVE  Complete(j)'
  <2>1. j \in Hand(t) /\ j \in Jobs
    BY Places DEF Moves, HandMoves
  <2>2. CASE pc[t] = "sending"
    <3>1. Complete(j) /\ \A s \in Tasks : s # t => j \notin Hand(s)
      BY <2>1, <2>2 DEF FileInv, OnceInv, Apart
    <3> QED BY <1>1, <2>1, <2>2, <3>1
  <2>3. CASE pc[t] # "sending"
    BY <1>5, <2>3 DEF Moves, FileMoves, Complete
  <2> QED BY <2>2, <2>3
<1>6. \A u \in Units : \A j \in (P(u)' \cup B(u)') \cap Offloaded : Complete(j)'
  BY <1>2, <1>3 DEF Moves, UnitMoves
<1>7. \A j \in Sent' \cap Offloaded : Complete(j)'
  BY <1>2, <1>3, <1>4 DEF Moves, SentMoves
<1> QED BY <1>5, <1>6, <1>7 DEF FileInv, ReferenceResolves, Sent, Complete

LEMMA CommitMoves ==
  ASSUME TypeOK, HeldInv, NothingUncommitted, Moves PROVE NothingUncommitted'
<1> SUFFICES ASSUME NEW j \in Sent', within'[j] # NoUnit
             PROVE  unit'[within'[j]] \in After
  BY DEF NothingUncommitted, Sent, After
<1>1. within' = within /\ within[j] # NoUnit
  BY DEF Moves
<1>2. CASE j \in Sent
  <2>1. j \in Jobs /\ within[j] \in Units
    BY <1>1, <1>2, Places DEF TypeOK
  <2>2. unit[within[j]] \in After
    BY <1>1, <1>2 DEF NothingUncommitted, Sent, After
  <2> QED BY <1>1, <2>1, <2>2 DEF Moves, Committed
<1>3. CASE j \in Given(NoUnit)
  BY <1>1, <1>3 DEF Given, HeldInv
<1>4. ASSUME NEW u \in Units, j \in B(u), unit[u] = "flushing" PROVE unit'[within'[j]] \in After
  <2>1. within[j] = u
    BY <1>4 DEF HeldInv
  <2>2. unit[u] \in After
    BY <1>4 DEF After
  <2> QED BY <1>1, <2>1, <2>2 DEF Moves, Committed
<1> QED BY <1>2, <1>3, <1>4 DEF Moves, SentMoves

(* A new call: its job is nowhere yet, and the enqueuer it picks is that of *)
(* the innermost block.                                                     *)
LEMMA AskKeeps ==
  ASSUME TypeOK, BlockInv, OnceInv, HeldInv, FileInv, NothingUncommitted,
         NEW t \in Tasks, NEW x \in Jobs, Ask(t, x)
  PROVE  HeldInv' /\ FileInv' /\ NothingUncommitted'
<1>1. /\ UNCHANGED <<pending, buffered, stream, files, unit>>
      /\ x \notin Range(asked)
      /\ \A j \in Jobs : j # x => within'[j] = within[j]
      /\ within'[x] = current[t] /\ via'[t] = current[t]
      /\ \A s \in Tasks : s # t => /\ pc'[s] = pc[s] /\ job'[s] = job[s] /\ via'[s] = via[s]
      /\ job'[t] = x /\ (pc'[t] = "sending" => x \notin Offloaded)
  BY DEF Ask, BlockInv, TypeOK, units, redis
<1>2. /\ Sent' = Sent /\ \A u \in Units : P(u)' = P(u) /\ B(u)' = B(u)
      /\ Hand(t)' \subseteq {x} /\ \A s \in Tasks : s # t => Hand(s)' = Hand(s)
      /\ \A j \in Jobs : Complete(j)' = Complete(j)
  BY <1>1 DEF Sent, P, B, Hand, Complete
<1>3. /\ x \notin Sent /\ \A u \in Units : x \notin P(u) \cup B(u)
      /\ \A s \in Tasks : x \notin Hand(s)
  BY <1>1 DEF OnceInv, Known
<1>4. HeldInv'
  BY <1>1, <1>2, <1>3, Places DEF HeldInv
<1>5. FileInv'
  BY <1>1, <1>2, Places DEF FileInv, ReferenceResolves, Sent, Complete
<1>6. NothingUncommitted'
  BY <1>1, <1>2, <1>3, Places DEF NothingUncommitted, Sent
<1> QED BY <1>4, <1>5, <1>6

-----------------------------------------------------------------------------
(* Who owns a unit: the task in its block, and the task whose call is for   *)
(* it. A unit of work has one owner, so its jobs come one after the other.  *)
Owns(t, u) == owner[u] = t /\ unit[u] # "new"
OwnInv ==
    /\ \A t \in Tasks : pc[t] = "free" => Hand(t) = {}
    /\ \A t \in Tasks : \A i \in DOMAIN blocks[t] : Owns(t, blocks[t][i])
    /\ \A t \in Tasks : via[t] # NoUnit => Owns(t, via[t])

LEMMA OwnNext == ASSUME TypeOK, BlockInv, OwnInv, [Next]_vars PROVE OwnInv'
<1>0. \A t \in Tasks : /\ via[t] \in Units \cup {NoUnit}
                       /\ \A i \in DOMAIN blocks[t] : blocks[t][i] \in Units
  BY BlockUnits DEF TypeOK
<1>1. ASSUME UNCHANGED <<call, blocks, owner>>,
             \A u \in Units : unit[u] # "new" => unit'[u] # "new"
      PROVE  OwnInv'
  BY <1>0, <1>1 DEF OwnInv, Owns, Hand, call
<1>2. CASE UNCHANGED vars
  BY <1>1, <1>2 DEF vars, units, context
<1>3. CASE Crash
  <2>1. \A t \in Tasks : /\ Hand(t)' = {} /\ blocks'[t] = <<>> /\ via'[t] = NoUnit
    BY <1>3 DEF Crash, Hand
  <2> QED BY <2>1 DEF OwnInv
<1>4. CASE Lifecycle /\ ~Crash
  <2>1. UNCHANGED <<call, context, units>>
    BY <1>4 DEF Lifecycle, Connect, Connected, ConnectFails, OpenManager, ManagerFails,
       Serve, Stop, CloseManager, Disconnect, Stopped
  <2> QED BY <1>1, <2>1 DEF context, units
<1>5. ASSUME NEW u \in Units, EndTransaction(u) \/ Discard(u) \/ Flush(u) \/ FlushStep(u)
      PROVE  OwnInv'
  <2>1. /\ UNCHANGED <<call, blocks, owner>>
        /\ \A v \in Units : unit[v] # "new" => unit'[v] # "new"
    BY <1>5 DEF EndTransaction, Discard, Flush, FlushStep, PublishNext, FlushFails,
       Flushed, TypeOK, context
  <2> QED BY <1>1, <2>1
<1>6. ASSUME NEW t \in Requests, NEW u \in Units, EnterBlock(t, u) PROVE OwnInv'
  <2>1. t \in Tasks /\ blocks[t] \in Seq(Units) /\ unit[u] = "new"
    BY <1>6 DEF EnterBlock, TypeOK, Tasks
  <2>2. /\ blocks'[t] = Append(blocks[t], u) /\ UNCHANGED call
        /\ \A s \in Tasks : s # t => blocks'[s] = blocks[s]
        /\ unit'[u] = "open" /\ owner'[u] = t
        /\ \A v \in Units : v # u => unit'[v] = unit[v] /\ owner'[v] = owner[v]
    BY <1>6, <2>1 DEF EnterBlock, TypeOK
  <2>3. \A v \in Units : \A s \in Tasks : Owns(s, v) => Owns(s, v)'
    BY <2>1, <2>2 DEF Owns
  <2>4. ASSUME NEW s \in Tasks, NEW i \in DOMAIN blocks'[s] PROVE Owns(s, blocks[s][i])'
    <3>1. CASE s # t
      BY <1>0, <2>2, <2>3, <3>1 DEF OwnInv, Owns
    <3>2. CASE s = t
      <4>1. blocks'[t][i] = u \/ (i \in DOMAIN blocks[t] /\ blocks'[t][i] = blocks[t][i])
        BY <2>1, <2>2, <3>2
      <4> QED BY <1>0, <2>2, <2>3, <3>2, <4>1 DEF OwnInv, Owns
    <3> QED BY <3>1, <3>2
  <2>5. \A s \in Tasks : via'[s] # NoUnit => Owns(s, via[s])'
    BY <1>0, <2>2, <2>3 DEF OwnInv, Owns, call
  <2> QED BY <2>2, <2>4, <2>5 DEF OwnInv, Hand, call
<1>7. ASSUME NEW t \in Requests, LeaveBlock(t) PROVE OwnInv'
  <2>1. t \in Tasks /\ blocks[t] \in Seq(Units) /\ blocks[t] # <<>>
    BY <1>7 DEF LeaveBlock, TypeOK, Tasks
  <2>2. /\ blocks'[t] = SubSeq(blocks[t], 1, Len(blocks[t]) - 1)
        /\ \A s \in Tasks : s # t => blocks'[s] = blocks[s]
        /\ UNCHANGED <<call, units>>
    BY <1>7, <2>1 DEF LeaveBlock, TypeOK
  <2>3. \A i \in DOMAIN blocks'[t] : i \in DOMAIN blocks[t] /\ blocks'[t][i] = blocks[t][i]
    BY <2>1, <2>2, FrontFacts
  <2> QED BY <2>2, <2>3 DEF OwnInv, Owns, Hand, call, units
<1>8. ASSUME NEW t \in Tasks, CallStep(t) \/ PutFails(t) PROVE OwnInv'
  <2>1. UNCHANGED <<blocks, owner, unit>>
    BY <1>8 DEF CallStep, WriteStaging, Rename, Buffer, SendNow, PutFails, context, units
  <2>2. CASE Leaves(t)
    <3>1. via'[t] = NoUnit /\ \A s \in Tasks : s # t => via'[s] = via[s] /\ pc'[s] = pc[s]
      BY <2>2 DEF Leaves, TypeOK
    <3> QED BY <2>1, <2>2, <3>1, LeavesHand DEF OwnInv, Owns
  <2>3. CASE UNCHANGED <<job, via>> /\ pc'[t] # "free" /\ \A s \in Tasks : s # t => pc'[s] = pc[s]
    BY <2>1, <2>3 DEF OwnInv, Owns, Hand
  <2> QED BY <1>8, <2>2, <2>3 DEF CallStep, WriteStaging, Rename, Buffer, SendNow, PutFails, TypeOK
<1>9. ASSUME NEW t \in Tasks, NEW j \in Jobs, Ask(t, j) PROVE OwnInv'
  <2>1. /\ UNCHANGED <<blocks, owner, unit>> /\ pc'[t] # "free" /\ via'[t] = current[t]
        /\ \A s \in Tasks : s # t => pc'[s] = pc[s] /\ via'[s] = via[s] /\ job'[s] = job[s]
    BY <1>9 DEF Ask, context, units, TypeOK
  <2>2. current[t] # NoUnit => Owns(t, current[t])
    <3>1. ASSUME blocks[t] # <<>> PROVE Len(blocks[t]) \in DOMAIN blocks[t]
      <4>1. blocks[t] \in Seq(Units)
        BY DEF TypeOK
      <4> QED BY <3>1, <4>1
    <3> QED BY <3>1 DEF BlockInv, OwnInv, Innermost
  <2> QED BY <2>1, <2>2 DEF OwnInv, Owns, Hand
<1> QED BY <1>2, <1>3, <1>4, <1>5, <1>6, <1>7, <1>8, <1>9 DEF Next

-----------------------------------------------------------------------------
(* The order of the jobs of one unit: <<j, k>> is in Rel unless k is an     *)
(* older job of j's unit. Redis comes before a flush, a flush before the    *)
(* buffer, the buffer before the call in progress.                          *)
Rel == {p \in Jobs \X Jobs :
          within[p[1]] # NoUnit /\ within[p[1]] = within[p[2]] => ~Older(p[2], p[1])}
Sorted(q, R)    == \A m, n \in DOMAIN q : m < n => <<q[m], q[n]>> \in R
Ahead(X, Y, R) == \A x \in X, y \in Y : <<x, y>> \in R

OrderInv ==
    /\ Injective(asked) /\ Sorted(stream, Rel)
    /\ \A u \in Units : Sorted(pending[u], Rel) /\ Sorted(buffered[u], Rel)
    /\ \A u \in Units : Ahead(B(u), P(u), Rel) /\ Ahead(Sent, P(u) \cup B(u), Rel)
    /\ \A t \in Tasks : Ahead(Sent, Hand(t), Rel)
    /\ \A t \in Tasks, u \in Units : Ahead(P(u) \cup B(u), Hand(t), Rel)

LEMMA SortedEmpty == ASSUME NEW R PROVE Sorted(<<>>, R)
BY DEF Sorted

LEMMA SortedAppend ==
  ASSUME NEW S, NEW q \in Seq(S), NEW x \in S, NEW R, Sorted(q, R), Ahead(Range(q), {x}, R)
  PROVE  Sorted(Append(q, x), R)
<1> DEFINE a == Append(q, x)
<1>1. /\ DOMAIN q = 1..Len(q) /\ Len(q) \in Nat
      /\ DOMAIN a = 1..(Len(q) + 1) /\ a[Len(q) + 1] = x
      /\ \A n \in 1..Len(q) : a[n] = q[n]
  OBVIOUS
<1> HIDE DEF a
<1>2. ASSUME NEW m \in DOMAIN a, NEW n \in DOMAIN a, m < n PROVE <<a[m], a[n]>> \in R
  <2>1. m \in DOMAIN q /\ a[m] = q[m]
    BY <1>1, <1>2
  <2>2. CASE n \in DOMAIN q
    BY <1>1, <1>2, <2>1, <2>2 DEF Sorted
  <2>3. CASE n = Len(q) + 1
    BY <1>1, <2>1, <2>3 DEF Ahead, Range
  <2> QED BY <1>1, <2>2, <2>3
<1> QED BY <1>2 DEF Sorted, a

LEMMA SortedTail ==
  ASSUME NEW S, NEW q \in Seq(S), q # <<>>, NEW R, Sorted(q, R)
  PROVE  Sorted(Tail(q), R) /\ Ahead({Head(q)}, Range(Tail(q)), R)
<1> DEFINE r == Tail(q)
<1>1. /\ DOMAIN q = 1..Len(q) /\ Len(q) \in Nat /\ Len(q) >= 1
      /\ DOMAIN r = 1..(Len(q) - 1) /\ Head(q) = q[1]
      /\ \A n \in 1..(Len(q) - 1) : r[n] = q[n + 1]
  OBVIOUS
<1> HIDE DEF r
<1>2. \A n \in DOMAIN r : n \in Nat /\ n + 1 \in DOMAIN q /\ 1 < n + 1 /\ r[n] = q[n + 1]
  BY <1>1
<1>3. Sorted(r, R)
  <2> SUFFICES ASSUME NEW m \in DOMAIN r, NEW n \in DOMAIN r, m < n PROVE <<r[m], r[n]>> \in R
    BY DEF Sorted
  <2>1. m + 1 < n + 1
    BY <1>2
  <2> QED BY <1>2, <2>1 DEF Sorted
<1>4. 1 \in DOMAIN q
  BY <1>1
<1>5. Ahead({Head(q)}, Range(r), R)
  BY <1>1, <1>2, <1>4 DEF Ahead, Range, Sorted
<1> QED BY <1>3, <1>5 DEF r

LEMMA Unrelated ==
  ASSUME NEW j \in Jobs, NEW k \in Jobs, within[j] = NoUnit \/ within[j] # within[k]
  PROVE  <<j, k>> \in Rel
BY DEF Rel

(* Places that only lose jobs stay in order.                                *)
LEMMA FewerSorted ==
  ASSUME OrderInv, Rel' = Rel,
         \A t \in Tasks : Hand(t)' \subseteq Hand(t),
         \A u \in Units : pending'[u] = pending[u] \/ pending'[u] = <<>>,
         \A u \in Units : buffered'[u] = buffered[u] \/ buffered'[u] = <<>>,
         stream' = stream, asked' = asked
  PROVE  OrderInv'
<1>1. \A u \in Units : P(u)' \subseteq P(u) /\ B(u)' \subseteq B(u)
  BY EmptySeq DEF P, B
<1>2. Sent' = Sent /\ Injective(asked)' /\ Sorted(stream, Rel)'
  BY DEF Sent, OrderInv, Sorted, Injective
<1>3. \A u \in Units : Sorted(pending[u], Rel)' /\ Sorted(buffered[u], Rel)'
  <2>1. ASSUME NEW q, Sorted(q, Rel) PROVE Sorted(q, Rel')
    BY <2>1
  <2>2. Sorted(<<>>, Rel')
    BY SortedEmpty
  <2>3. \A u \in Units : Sorted(pending'[u], Rel') /\ Sorted(buffered'[u], Rel')
    BY <2>1, <2>2 DEF OrderInv
  <2> QED BY <2>3
<1>4. /\ \A u \in Units : Ahead(B(u), P(u), Rel)' /\ Ahead(Sent, P(u) \cup B(u), Rel)'
      /\ \A t \in Tasks : Ahead(Sent, Hand(t), Rel)'
      /\ \A t \in Tasks, u \in Units : Ahead(P(u) \cup B(u), Hand(t), Rel)'
  BY <1>1, <1>2 DEF OrderInv, Ahead
<1> QED BY <1>2, <1>3, <1>4 DEF OrderInv

(* Publishing x, which is ahead of what is left.                            *)
LEMMA PublishingSorted ==
  ASSUME TypeOK, OrderInv, Rel' = Rel, NEW x \in Jobs,
         stream' = Append(stream, x), asked' = asked, Ahead(Sent, {x}, Rel),
         \A t \in Tasks : Hand(t)' \subseteq Hand(t) /\ Ahead({x}, Hand(t)', Rel),
         \A u \in Units : P(u)' \subseteq P(u) /\ B(u)' \subseteq B(u)
                          /\ Ahead({x}, P(u)' \cup B(u)', Rel),
         \A u \in Units : Sorted(pending'[u], Rel) /\ Sorted(buffered'[u], Rel)
  PROVE  OrderInv'
<1>1. stream \in Seq(Jobs)
  BY DEF TypeOK
<1>2. Sent' = Sent \cup {x}
  <2>1. Range(Append(stream, x)) = Sent \cup {x}
    BY <1>1, AppendFacts DEF Sent
  <2> QED BY <2>1 DEF Sent
<1>3. Sorted(stream, Rel)'
  <2>1. Sorted(Append(stream, x), Rel)
    BY <1>1, SortedAppend DEF OrderInv, Sent
  <2> QED BY <2>1
<1>4. Injective(asked)'
  BY DEF OrderInv, Injective
<1>5. \A u \in Units : Sorted(pending[u], Rel)' /\ Sorted(buffered[u], Rel)'
  OBVIOUS
<1>6. \A u \in Units : Ahead(B(u), P(u), Rel)' /\ Ahead(Sent, P(u) \cup B(u), Rel)'
  BY <1>2 DEF OrderInv, Ahead
<1>7. \A t \in Tasks : Ahead(Sent, Hand(t), Rel)'
  BY <1>2 DEF OrderInv, Ahead
<1>8. \A t \in Tasks, u \in Units : Ahead(P(u) \cup B(u), Hand(t), Rel)'
  BY DEF OrderInv, Ahead
<1> QED BY <1>3, <1>4, <1>5, <1>6, <1>7, <1>8 DEF OrderInv

LEMMA AskSorted ==
  ASSUME TypeOK, OnceInv, OwnInv, OrderInv, NEW t \in Tasks, NEW x \in Jobs, Ask(t, x)
  PROVE  OrderInv'
<1>1. /\ UNCHANGED <<pending, buffered, stream>> /\ asked \in Seq(Jobs)
      /\ asked' = Append(asked, x) /\ x \notin Range(asked)
      /\ \A j \in Jobs : j # x => within'[j] = within[j]
  BY DEF Ask, TypeOK, units, redis
<1>2. /\ Sent' = Sent /\ \A u \in Units : P(u)' = P(u) /\ B(u)' = B(u)
      /\ Hand(t)' \subseteq {x} /\ \A s \in Tasks : s # t => Hand(s)' = Hand(s)
  BY <1>1 DEF Ask, Sent, P, B, Hand, TypeOK
<1>3. /\ Sent \subseteq Jobs \ {x} /\ \A u \in Units : P(u) \cup B(u) \subseteq Jobs \ {x}
      /\ \A s \in Tasks : Hand(s) \subseteq Jobs \ {x}
  BY <1>1, Places DEF OnceInv, Known
<1>4. /\ DOMAIN asked = 1..Len(asked) /\ Len(asked) \in Nat
      /\ DOMAIN asked' = 1..(Len(asked) + 1) /\ asked'[Len(asked) + 1] = x
      /\ \A n \in 1..Len(asked) : asked'[n] = asked[n]
  BY <1>1
<1>5. \A n \in 1..Len(asked) : asked'[n] # x
  BY <1>1, <1>4 DEF Range
<1>6. ASSUME NEW j \in Jobs PROVE <<j, x>> \in Rel'
  <2>1. ~Older(x, j)'
    BY <1>4, <1>5 DEF Older
  <2> QED BY <2>1 DEF Rel
<1>7. ASSUME NEW j \in Jobs \ {x}, NEW k \in Jobs \ {x}, <<j, k>> \in Rel PROVE <<j, k>> \in Rel'
  <2>1. Older(k, j)' => Older(k, j)
    BY <1>4 DEF Older
  <2> QED BY <1>1, <1>7, <2>1 DEF Rel
<1>8. ASSUME NEW q \in Seq(Jobs), Range(q) \subseteq Jobs \ {x}, Sorted(q, Rel)
      PROVE  Sorted(q, Rel')
  <2>1. \A n \in DOMAIN q : q[n] \in Jobs \ {x}
    BY <1>8 DEF Range
  <2> QED BY <1>7, <1>8, <2>1 DEF Sorted
<1>9. Injective(asked)'
  <2>1. Injective(Append(asked, x))
    BY <1>1, AppendFacts DEF OrderInv
  <2> QED BY <1>1, <2>1
<1>10. Sorted(stream, Rel)'
  <2>1. Sorted(stream, Rel')
    BY <1>3, <1>8 DEF OrderInv, Sent, TypeOK
  <2> QED BY <1>1, <2>1
<1>11. \A u \in Units : Sorted(pending[u], Rel)' /\ Sorted(buffered[u], Rel)'
  <2>1. \A u \in Units : Sorted(pending[u], Rel') /\ Sorted(buffered[u], Rel')
    BY <1>3, <1>8 DEF OrderInv, P, B, TypeOK
  <2> QED BY <1>1, <2>1
<1>12. \A u \in Units : Ahead(B(u), P(u), Rel)' /\ Ahead(Sent, P(u) \cup B(u), Rel)'
  BY <1>2, <1>3, <1>7 DEF OrderInv, Ahead
<1>13. ASSUME NEW X, X \subseteq Jobs \ {x}, \A s \in Tasks : Ahead(X, Hand(s), Rel)
       PROVE  \A s \in Tasks : Ahead(X, Hand(s)', Rel')
  BY <1>2, <1>3, <1>6, <1>7, <1>13 DEF Ahead
<1>14. \A s \in Tasks : Ahead(Sent, Hand(s), Rel)'
  BY <1>2, <1>3, <1>13 DEF OrderInv
<1>15. \A s \in Tasks, u \in Units : Ahead(P(u) \cup B(u), Hand(s), Rel)'
  BY <1>2, <1>3, <1>13 DEF OrderInv
<1> QED BY <1>9, <1>10, <1>11, <1>12, <1>14, <1>15 DEF OrderInv

LEMMA OrderNext ==
  ASSUME PubInv, OwnInv, OrderInv, [Next]_vars PROVE OrderInv'
<1>0. TypeOK /\ BusyInv /\ OnceInv /\ HeldInv
  BY DEF PubInv
<1>1. CASE \E t \in Tasks, j \in Jobs : Ask(t, j)
  BY <1>0, <1>1, AskSorted
<1>2. ASSUME ~(\E t \in Tasks, j \in Jobs : Ask(t, j)) PROVE OrderInv'
  <2>0. UNCHANGED <<asked, within>>
    BY <1>0, <1>2, StepMoves DEF Moves
  <2>1. Rel' = Rel
    BY <2>0 DEF Rel, Older
  <2>2. ASSUME UNCHANGED stream,
               \A t \in Tasks : Hand(t)' \subseteq Hand(t),
               \A u \in Units : pending'[u] = pending[u] \/ pending'[u] = <<>>,
               \A u \in Units : buffered'[u] = buffered[u] \/ buffered'[u] = <<>>
        PROVE  OrderInv'
    BY <2>0, <2>1, <2>2, FewerSorted
  <2>3. ASSUME UNCHANGED <<job, stream, pending, buffered>> PROVE OrderInv'
    BY <2>2, <2>3 DEF Hand
  <2>4. CASE UNCHANGED vars
    BY <2>3, <2>4 DEF vars, call, units, redis
  <2>5. CASE Crash
    <3>1. \A t \in Tasks : Hand(t)' = {}
      BY <2>5 DEF Crash, Hand
    <3>2. UNCHANGED stream /\ \A u \in Units : pending'[u] = <<>> /\ buffered'[u] = <<>>
      BY <2>5 DEF Crash, redis
    <3> QED BY <2>2, <3>1, <3>2
  <2>6. CASE Lifecycle /\ ~Crash
    BY <2>3, <2>6 DEF Lifecycle, Connect, Connected, ConnectFails, OpenManager,
       ManagerFails, Serve, Stop, CloseManager, Disconnect, Stopped, call, units, redis
  <2>7. ASSUME NEW t \in Requests, LeaveBlock(t) \/ \E u \in Units : EnterBlock(t, u)
        PROVE  OrderInv'
    BY <2>3, <2>7 DEF LeaveBlock, EnterBlock, call, units, redis
  <2>8. ASSUME NEW u \in Units, EndTransaction(u) \/ Flushed(u) \/ Discard(u) PROVE OrderInv'
    <3>1. UNCHANGED <<job, buffered, stream>>
      BY <2>8 DEF EndTransaction, Flushed, Discard, call, redis
    <3>2. \A v \in Units : pending'[v] = pending[v] \/ pending'[v] = <<>>
      BY <1>0, <2>8 DEF EndTransaction, Flushed, Discard, TypeOK
    <3> QED BY <2>2, <3>1, <3>2 DEF Hand
  <2>9. ASSUME NEW u \in Units, Flush(u) PROVE OrderInv'
    <3>1. UNCHANGED <<job, stream>> /\ buffered[u] = <<>>
      BY <1>0, <2>9 DEF Flush, BusyInv, call, redis
    <3>2. /\ pending'[u] = <<>> /\ buffered'[u] = pending[u]
          /\ \A v \in Units : v # u => pending'[v] = pending[v] /\ buffered'[v] = buffered[v]
      BY <1>0, <2>9 DEF Flush, TakeBuffer, TypeOK
    <3>3. /\ Sent' = Sent /\ P(u)' = {} /\ \A t \in Tasks : Hand(t)' = Hand(t)
          /\ \A v \in Units : P(v)' \cup B(v)' = P(v) \cup B(v)
          /\ \A v \in Units : v # u => P(v)' = P(v) /\ B(v)' = B(v)
      BY <3>1, <3>2, EmptySeq DEF P, B, Hand, Sent
    <3>4. \A v \in Units : Sorted(pending'[v], Rel) /\ Sorted(buffered'[v], Rel)
      BY <3>2, SortedEmpty DEF OrderInv
    <3>5. Injective(asked)' /\ Sorted(stream, Rel)'
      BY <2>0, <2>1, <3>1 DEF OrderInv, Injective
    <3>6. \A v \in Units : Ahead(B(v), P(v), Rel)' /\ Ahead(Sent, P(v) \cup B(v), Rel)'
      BY <2>1, <3>3 DEF OrderInv, Ahead
    <3>7. /\ \A t \in Tasks : Ahead(Sent, Hand(t), Rel)'
          /\ \A t \in Tasks, v \in Units : Ahead(P(v) \cup B(v), Hand(t), Rel)'
      BY <2>1, <3>3 DEF OrderInv
    <3>8. \A v \in Units : Sorted(pending[v], Rel)' /\ Sorted(buffered[v], Rel)'
      BY <2>1, <3>4
    <3> QED BY <3>5, <3>6, <3>7, <3>8 DEF OrderInv
  <2>10. ASSUME NEW u \in Units, PublishNext(u) \/ FlushFails(u) PROVE OrderInv'
    <3>1. /\ buffered[u] # <<>> /\ buffered[u] \in Seq(Jobs) /\ UNCHANGED <<job, pending>>
          /\ \A v \in Units : v # u => buffered'[v] = buffered[v]
          /\ buffered'[u] = Tail(buffered[u]) \/ buffered'[u] = <<>>
      BY <1>0, <2>10 DEF PublishNext, FlushFails, TypeOK, call
    <3>2. PICK x \in Jobs : x = Head(buffered[u])
      BY <3>1, TailFacts
    <3>3. CASE stream' # Append(stream, x)
      <4>1. stream' = stream /\ buffered'[u] = <<>>
        BY <1>0, <2>10, <3>2, <3>3 DEF PublishNext, FlushFails, Publish, TypeOK
      <4> QED BY <2>2, <3>1, <4>1 DEF Hand
    <3>4. CASE stream' = Append(stream, x)
      <4>1. x \in B(u) /\ Range(Tail(buffered[u])) \subseteq B(u)
        BY <3>1, <3>2, TailFacts DEF B
      <4>2. Sorted(buffered'[u], Rel) /\ Ahead({x}, B(u)', Rel) /\ B(u)' \subseteq B(u)
        <5>1. CASE buffered'[u] = <<>>
          BY <5>1, EmptySeq, SortedEmpty DEF B, Ahead
        <5>2. CASE buffered'[u] = Tail(buffered[u])
          <6>1. Sorted(buffered[u], Rel)
            BY DEF OrderInv
          <6>2. Sorted(Tail(buffered[u]), Rel) /\ Ahead({x}, Range(Tail(buffered[u])), Rel)
            BY <3>1, <3>2, <6>1, SortedTail
          <6> QED BY <4>1, <5>2, <6>2 DEF B
        <5> QED BY <3>1, <5>1, <5>2
      <4>3. /\ \A v \in Units : P(v)' = P(v) /\ (v # u => B(v)' = B(v))
            /\ \A t \in Tasks : Hand(t)' = Hand(t)
        BY <3>1 DEF P, B, Hand
      <4>4. Ahead(Sent, {x}, Rel) /\ Ahead({x}, P(u), Rel)
            /\ \A t \in Tasks : Ahead({x}, Hand(t), Rel)
        BY <4>1 DEF OrderInv, Ahead
      <4>5. ASSUME NEW v \in Units, v # u PROVE Ahead({x}, P(v) \cup B(v), Rel)
        <5>1. \A k \in P(v) \cup B(v) : k \in Jobs /\ within[k] = v
          BY <1>0, Places DEF HeldInv
        <5>2. within[x] = u
          BY <1>0, <4>1 DEF HeldInv
        <5> QED BY <4>5, <5>1, <5>2, Unrelated DEF Ahead
      <4>6. \A v \in Units : /\ P(v)' \subseteq P(v) /\ B(v)' \subseteq B(v)
                             /\ Ahead({x}, P(v)' \cup B(v)', Rel)
        BY <4>2, <4>3, <4>4, <4>5 DEF Ahead
      <4>7. \A v \in Units : Sorted(pending'[v], Rel) /\ Sorted(buffered'[v], Rel)
        BY <3>1, <4>2 DEF OrderInv
      <4> QED BY <1>0, <2>0, <2>1, <3>4, <4>3, <4>4, <4>6, <4>7, PublishingSorted
    <3> QED BY <3>3, <3>4
  <2>11. ASSUME NEW t \in Tasks, WriteStaging(t) \/ Rename(t) PROVE OrderInv'
    BY <2>3, <2>11 DEF WriteStaging, Rename, units
  <2>12. ASSUME NEW t \in Tasks, PutFails(t) PROVE OrderInv'
    <3>1. UNCHANGED <<pending, buffered, stream>> /\ Leaves(t)
      BY <2>12 DEF PutFails, units
    <3> QED BY <1>0, <2>2, <3>1, LeavesHand
  <2>13. ASSUME NEW t \in Tasks, Buffer(t) PROVE OrderInv'
    <3>0. PICK u \in Units, x \in Jobs : u = via[t] /\ x = job[t]
      BY <1>0, <2>13 DEF Buffer, TypeOK
    <3>1. /\ x \in Hand(t) /\ pending[u] \in Seq(Jobs) /\ Leaves(t) /\ UNCHANGED <<buffered, stream>>
      BY <1>0, <2>13, <3>0, PublicationAssumption DEF Buffer, Hand, TypeOK, redis
    <3>2. /\ pending'[u] = Append(pending[u], x)
          /\ \A v \in Units : v # u => pending'[v] = pending[v]
      BY <1>0, <2>13, <3>0 DEF Buffer, TypeOK
    <3>3. /\ P(u)' = P(u) \cup {x} /\ Sent' = Sent
          /\ \A v \in Units : B(v)' = B(v) /\ (v # u => P(v)' = P(v))
          /\ Hand(t)' = {} /\ \A s \in Tasks : s # t => Hand(s)' = Hand(s)
      BY <1>0, <3>1, <3>2, AppendFacts, LeavesHand DEF P, B, Sent
    <3>4. /\ Ahead(Sent, {x}, Rel) /\ Ahead(P(u), {x}, Rel) /\ Ahead(B(u), {x}, Rel)
      BY <3>1 DEF OrderInv, Ahead
    <3>5. Sorted(pending'[u], Rel)
      BY <3>1, <3>2, <3>4, SortedAppend DEF OrderInv, P
    <3>6. ASSUME NEW s \in Tasks, s # t PROVE Ahead({x}, Hand(s), Rel)
      <4>1. within[x] = u /\ owner[u] = t
        BY <1>0, <3>0, <3>1, PublicationAssumption DEF HeldInv, OwnInv, Owns
      <4>2. \A k \in Hand(s) : k \in Jobs /\ within[k] # u
        BY <1>0, <3>6, <4>1, Places, PublicationAssumption DEF HeldInv, OwnInv, Owns
      <4> QED BY <4>1, <4>2, Unrelated DEF Ahead
    <3>7. \A v \in Units : Sorted(pending[v], Rel)' /\ Sorted(buffered[v], Rel)'
      BY <2>1, <3>1, <3>2, <3>5 DEF OrderInv
    <3>8. \A v \in Units : Ahead(B(v), P(v), Rel)' /\ Ahead(Sent, P(v) \cup B(v), Rel)'
      BY <2>1, <3>3, <3>4 DEF OrderInv, Ahead
    <3>9. /\ \A s \in Tasks : Ahead(Sent, Hand(s), Rel)'
          /\ \A s \in Tasks, v \in Units : Ahead(P(v) \cup B(v), Hand(s), Rel)'
      BY <2>1, <3>3, <3>6 DEF OrderInv, Ahead
    <3>10. Injective(asked)' /\ Sorted(stream, Rel)'
      BY <2>0, <2>1, <3>1 DEF OrderInv, Injective
    <3> QED BY <3>7, <3>8, <3>9, <3>10 DEF OrderInv
  <2>14. ASSUME NEW t \in Tasks, SendNow(t) PROVE OrderInv'
    <3>0. PICK x \in Jobs : x = job[t]
      BY <1>0, <2>14 DEF SendNow, TypeOK
    <3>1. /\ x \in Hand(t) /\ Leaves(t) /\ via[t] = NoUnit /\ UNCHANGED <<pending, buffered>>
          /\ stream' = stream \/ stream' = Append(stream, x)
      BY <1>0, <2>14, <3>0, PublicationAssumption DEF SendNow, Publish, Hand, TypeOK, units
    <3>2. CASE stream' = stream
      BY <1>0, <2>2, <3>1, <3>2, LeavesHand
    <3>3. CASE stream' = Append(stream, x)
      <4>1. within[x] = NoUnit
        BY <1>0, <3>1 DEF HeldInv
      <4>2. Ahead({x}, Jobs, Rel)
        BY <4>1, Unrelated DEF Ahead
      <4>3. Ahead(Sent, {x}, Rel)
        BY <3>1 DEF OrderInv, Ahead
      <4>4. /\ \A s \in Tasks : Hand(s)' \subseteq Hand(s) /\ Ahead({x}, Hand(s)', Rel)
        BY <1>0, <3>1, <4>2, Places, LeavesHand DEF Ahead
      <4>5. \A v \in Units : /\ P(v)' \subseteq P(v) /\ B(v)' \subseteq B(v)
                             /\ Ahead({x}, P(v)' \cup B(v)', Rel)
        BY <1>0, <3>1, <4>2, Places DEF Ahead, P, B
      <4>6. \A v \in Units : Sorted(pending'[v], Rel) /\ Sorted(buffered'[v], Rel)
        BY <3>1 DEF OrderInv
      <4> QED BY <1>0, <2>0, <2>1, <3>3, <4>3, <4>4, <4>5, <4>6, PublishingSorted
    <3> QED BY <3>1, <3>2, <3>3
  <2> QED BY <1>2, <2>4, <2>5, <2>6, <2>7, <2>8, <2>9, <2>10, <2>11, <2>12, <2>13, <2>14
          DEF Next, FlushStep, CallStep
<1> QED BY <1>1, <1>2

-----------------------------------------------------------------------------
(* While nothing fails, a job leaves a place only for the next one, or with *)
(* the transaction it belongs to.                                           *)
Lost(j)  == within[j] # NoUnit /\ unit[within[j]] \in {"rolled back", "discarded"}
OnWay(j) == \/ j \in Sent
            \/ \E t \in Tasks : j \in Hand(t)
            \/ \E u \in Units : j \in P(u) \cup B(u)
ThereInv == faults = 0 => \A j \in Range(asked) : Lost(j) \/ OnWay(j)

LEMMA WayKept ==
  ASSUME Sent \subseteq Sent', \A t \in Tasks : Hand(t) \subseteq Hand(t)',
         \A u \in Units : P(u) \cup B(u) \subseteq P(u)' \cup B(u)',
         NEW j, OnWay(j)
  PROVE  OnWay(j)'
BY DEF OnWay

LEMMA WayGoesOn ==
  ASSUME PubInv, [Next]_vars, faults = 0, faults' = 0,
         ~(\E t \in Tasks, j \in Jobs : Ask(t, j)), NEW j \in Jobs, OnWay(j)
  PROVE  OnWay(j)' \/ Lost(j)'
<1>0. /\ TypeOK /\ BusyInv /\ HeldInv /\ within' = within
  BY StepMoves DEF PubInv, Moves
<1>1. ASSUME UNCHANGED <<job, pending, buffered, stream>> PROVE OnWay(j)'
  BY <1>1 DEF OnWay, Hand, P, B, Sent
<1>2. ~Fault
  BY DEF Fault
<1>3. CASE UNCHANGED vars
  BY <1>1, <1>3 DEF vars, call, units, redis
<1>4. CASE Lifecycle
  BY <1>1, <1>2, <1>4 DEF Lifecycle, Connect, Connected, ConnectFails, OpenManager,
     ManagerFails, Serve, Stop, CloseManager, Disconnect, Stopped, Crash, call, units, redis
<1>5. ASSUME NEW t \in Requests, LeaveBlock(t) \/ \E u \in Units : EnterBlock(t, u)
      PROVE  OnWay(j)'
  BY <1>1, <1>5 DEF LeaveBlock, EnterBlock, call, units, redis
<1>6. ASSUME NEW u \in Units, EndTransaction(u) \/ Flushed(u) PROVE OnWay(j)'
  BY <1>1, <1>6 DEF EndTransaction, Flushed, call, redis
<1>7. ASSUME NEW u \in Units, Discard(u) PROVE OnWay(j)' \/ Lost(j)'
  <2>1. /\ UNCHANGED <<job, buffered, stream>> /\ unit'[u] = "discarded"
        /\ \A v \in Units : v # u => pending'[v] = pending[v]
    BY <1>0, <1>7 DEF Discard, TypeOK, call, redis
  <2>2. CASE j \in P(u)
    <3>1. within[j] = u
      BY <1>0, <2>2 DEF HeldInv
    <3> QED BY <1>0, <2>1, <3>1, PublicationAssumption DEF Lost
  <2>3. CASE j \notin P(u)
    BY <2>1, <2>3 DEF OnWay, Hand, P, B, Sent
  <2> QED BY <2>2, <2>3
<1>8. ASSUME NEW u \in Units, Flush(u) PROVE OnWay(j)'
  <2>1. /\ UNCHANGED <<job, stream>> /\ buffered[u] = <<>> /\ buffered'[u] = pending[u]
        /\ \A v \in Units : v # u => pending'[v] = pending[v] /\ buffered'[v] = buffered[v]
    BY <1>0, <1>8 DEF Flush, TakeBuffer, BusyInv, TypeOK, call, redis
  <2>2. \A v \in Units : P(v) \cup B(v) \subseteq P(v)' \cup B(v)'
    BY <2>1, EmptySeq DEF P, B
  <2> QED BY <2>1, <2>2, WayKept DEF Hand, Sent
<1>9. ASSUME NEW x \in Jobs, stream' = Append(stream, x) PROVE Sent' = Sent \cup {x}
  <2>1. Range(Append(stream, x)) = Sent \cup {x}
    BY <1>0, AppendFacts DEF Sent, TypeOK
  <2> QED BY <1>9, <2>1 DEF Sent
<1>10. ASSUME NEW u \in Units, PublishNext(u) PROVE OnWay(j)'
  <2>1. /\ buffered[u] # <<>> /\ buffered[u] \in Seq(Jobs) /\ UNCHANGED <<job, pending>>
        /\ \A v \in Units : v # u => buffered'[v] = buffered[v]
        /\ buffered'[u] = Tail(buffered[u]) /\ stream' = Append(stream, Head(buffered[u]))
    BY <1>0, <1>10 DEF PublishNext, Publish, TypeOK, call
  <2>2. Head(buffered[u]) \in Jobs /\ B(u) = B(u)' \cup {Head(buffered[u])}
    BY <2>1, TailFacts DEF B
  <2>3. Sent' = Sent \cup {Head(buffered[u])}
    BY <1>9, <2>1, <2>2
  <2> QED BY <2>1, <2>2, <2>3 DEF OnWay, Hand, P, B
<1>11. ASSUME NEW u \in Units, FlushFails(u) PROVE FALSE
  BY <1>2, <1>11 DEF FlushFails
<1>12. ASSUME NEW t \in Tasks, WriteStaging(t) \/ Rename(t) \/ PutFails(t) PROVE OnWay(j)'
  BY <1>1, <1>2, <1>12 DEF WriteStaging, Rename, PutFails, units
<1>13. ASSUME NEW t \in Tasks, Buffer(t) PROVE OnWay(j)'
  <2>0. PICK u \in Units, x \in Jobs : u = via[t] /\ x = job[t]
    BY <1>0, <1>13 DEF Buffer, TypeOK
  <2>1. /\ Hand(t) \subseteq {x} /\ pending[u] \in Seq(Jobs) /\ Leaves(t)
        /\ UNCHANGED <<buffered, stream>> /\ pending'[u] = Append(pending[u], x)
        /\ \A v \in Units : v # u => pending'[v] = pending[v]
    BY <1>0, <1>13, <2>0 DEF Buffer, Hand, TypeOK, redis
  <2>2. P(u)' = P(u) \cup {x}
    BY <2>1, AppendFacts DEF P
  <2> QED BY <1>0, <2>1, <2>2, LeavesHand DEF OnWay, P, B, Sent
<1>14. ASSUME NEW t \in Tasks, SendNow(t) PROVE OnWay(j)'
  <2>0. PICK x \in Jobs : x = job[t]
    BY <1>0, <1>14 DEF SendNow, TypeOK
  <2>1. /\ Hand(t) \subseteq {x} /\ Leaves(t) /\ UNCHANGED <<pending, buffered>>
        /\ stream' = Append(stream, x)
    BY <1>2, <1>14, <2>0 DEF SendNow, Publish, Hand, units
  <2>2. Sent' = Sent \cup {x}
    BY <1>9, <2>1
  <2> QED BY <1>0, <2>1, <2>2, LeavesHand DEF OnWay, P, B
<1> QED BY <1>3, <1>4, <1>5, <1>6, <1>7, <1>8, <1>10, <1>11, <1>12, <1>13, <1>14
        DEF Next, FlushStep, CallStep

LEMMA LostKept ==
  ASSUME TypeOK, [Next]_vars, NEW u \in Units, unit[u] \in {"rolled back", "discarded"}
  PROVE  unit'[u] \in {"rolled back", "discarded"}
<1>1. ASSUME UNCHANGED unit PROVE unit'[u] \in {"rolled back", "discarded"}
  BY <1>1
<1>2. CASE UNCHANGED vars
  BY <1>1, <1>2 DEF vars, units
<1>3. CASE Lifecycle
  BY <1>1, <1>3 DEF Lifecycle, Connect, Connected, ConnectFails, OpenManager,
     ManagerFails, Serve, Stop, CloseManager, Disconnect, Stopped, Crash, units
<1>4. ASSUME NEW v \in Units,
             EndTransaction(v) \/ Discard(v) \/ Flush(v) \/ FlushStep(v)
             \/ \E t \in Requests : EnterBlock(t, v)
      PROVE  unit'[u] \in {"rolled back", "discarded"}
  BY <1>4 DEF EndTransaction, Discard, Flush, FlushStep, PublishNext, FlushFails, Flushed,
     Flushing, EnterBlock, TypeOK
<1>5. ASSUME NEW t \in Requests, LeaveBlock(t) PROVE unit'[u] \in {"rolled back", "discarded"}
  BY <1>1, <1>5 DEF LeaveBlock, units
<1>6. ASSUME NEW t \in Tasks, CallStep(t) \/ PutFails(t) \/ \E j \in Jobs : Ask(t, j)
      PROVE  unit'[u] \in {"rolled back", "discarded"}
  BY <1>1, <1>6 DEF CallStep, WriteStaging, Rename, Buffer, SendNow, PutFails, Ask, units
<1> QED BY <1>2, <1>3, <1>4, <1>5, <1>6 DEF Next

LEMMA FaultsGrow ==
  ASSUME TypeOK, [Next]_vars, faults' = 0 PROVE faults = 0
<1>1. faults \in Nat
  <2>1. faults \in 0..MaxFaults
    BY DEF TypeOK
  <2> QED BY <2>1
<1>2. faults' = faults \/ Fault
  BY DEF Next, vars, Lifecycle, Connect, Connected, ConnectFails, OpenManager, ManagerFails,
     Serve, Stop, CloseManager, Disconnect, Stopped, Crash, EndTransaction, Discard, Flush,
     FlushStep, PublishNext, FlushFails, Flushed, LeaveBlock, EnterBlock, CallStep,
     WriteStaging, Rename, Buffer, SendNow, PutFails, Ask
<1> QED BY <1>1, <1>2 DEF Fault

LEMMA ThereNext ==
  ASSUME PubInv, OwnInv, ThereInv, [Next]_vars PROVE ThereInv'
<1> SUFFICES ASSUME faults' = 0, NEW j \in Range(asked') PROVE Lost(j)' \/ OnWay(j)'
  BY DEF ThereInv
<1>0. TypeOK /\ BlockInv /\ OnceInv /\ faults = 0
  BY FaultsGrow DEF PubInv
<1>1. \A k \in Range(asked) : k \in Jobs /\ within[k] \in Units \cup {NoUnit}
  <2>1. asked \in Seq(Jobs) /\ within \in [Jobs -> Units \cup {NoUnit}]
    BY <1>0 DEF TypeOK
  <2>2. Range(asked) \subseteq Jobs
    BY <2>1 DEF Range
  <2> QED BY <2>1, <2>2
<1>2. ASSUME j \in Range(asked), within'[j] = within[j], Lost(j) PROVE Lost(j)'
  BY <1>0, <1>1, <1>2, LostKept DEF Lost
<1>3. ASSUME NEW t \in Tasks, NEW x \in Jobs, Ask(t, x) PROVE Lost(j)' \/ OnWay(j)'
  <2>1. /\ UNCHANGED <<pending, buffered, stream>> /\ x \notin Range(asked) /\ asked \in Seq(Jobs)
        /\ asked' = Append(asked, x) /\ pc[t] = "free" /\ job'[t] = x
        /\ \A k \in Jobs : k # x => within'[k] = within[k]
        /\ \A s \in Tasks : s # t => job'[s] = job[s]
    BY <1>0, <1>3 DEF Ask, Idle, TypeOK, units, redis
  <2>2. Range(asked') = Range(asked) \cup {x}
    BY <2>1, AppendFacts
  <2>3. x \in Hand(t)'
    BY <2>1, PublicationAssumption DEF Hand
  <2>4. CASE j = x
    BY <2>3, <2>4 DEF OnWay
  <2>5. CASE j \in Range(asked)
    <3>1. within'[j] = within[j]
      BY <1>1, <2>1, <2>5
    <3>2. OnWay(j) => OnWay(j)'
      <4>1. Hand(t) = {} /\ \A s \in Tasks : s # t => Hand(s)' = Hand(s)
        BY <2>1 DEF OwnInv, Hand
      <4>2. Sent' = Sent /\ \A u \in Units : P(u)' = P(u) /\ B(u)' = B(u)
        BY <2>1 DEF Sent, P, B
      <4> QED BY <4>1, <4>2 DEF OnWay
    <3> QED BY <1>0, <1>2, <2>5, <3>1, <3>2 DEF ThereInv
  <2> QED BY <2>2, <2>4, <2>5
<1>4. CASE ~(\E t \in Tasks, x \in Jobs : Ask(t, x))
  <2>1. within' = within /\ asked' = asked
    BY <1>0, <1>4, StepMoves DEF PubInv, Moves
  <2>2. CASE Lost(j)
    BY <1>2, <2>1, <2>2
  <2>3. CASE OnWay(j)
    BY <1>0, <1>1, <1>4, <2>1, <2>3, WayGoesOn
  <2> QED BY <1>0, <2>1, <2>2, <2>3 DEF ThereInv
<1> QED BY <1>3, <1>4

LEMMA PubInit == Init => PubInv
<1> SUFFICES ASSUME Init PROVE PubInv
  OBVIOUS
<1>1. LifeInv
  BY DEF Init, LifeInv
<1>2. BusyInv
  BY DEF Init, BusyInv
<1>3. BlockInv
  BY DEF Init, BlockInv, Innermost
<1>4. /\ Sent = {} /\ \A t \in Tasks : Hand(t) = {}
      /\ \A u \in Units : P(u) = {} /\ B(u) = {}
  BY EmptySeq DEF Init, Sent, Hand, P, B
<1>5. Apart /\ Known
  BY <1>4 DEF Apart, Known
<1>6. NoneTwice
  BY EmptySeq DEF Init, NoneTwice
<1>7. HeldInv /\ FileInv /\ NothingUncommitted
  BY <1>4 DEF HeldInv, FileInv, NothingUncommitted, ReferenceResolves, Sent
<1> QED BY <1>1, <1>2, <1>3, <1>5, <1>6, <1>7, TypeInit DEF PubInv, OnceInv

LEMMA PubNext == PubInv /\ [Next]_vars => PubInv'
<1> SUFFICES ASSUME PubInv, [Next]_vars PROVE PubInv'
  OBVIOUS
<1>1. TypeOK' /\ LifeInv' /\ BusyInv' /\ BlockInv' /\ OnceInv'
  BY TypeNext, LifeNext, BusyNext, BlockNext, OnceNext DEF PubInv
<1>2. CASE \E t \in Tasks, j \in Jobs : Ask(t, j)
  BY <1>1, <1>2, AskKeeps DEF PubInv
<1>3. CASE ~(\E t \in Tasks, j \in Jobs : Ask(t, j))
  <2>1. Moves
    BY <1>3, StepMoves DEF PubInv
  <2> QED BY <1>1, <2>1, HeldMoves, FilesMove, CommitMoves DEF PubInv
<1> QED BY <1>2, <1>3

LEMMA PubInvariant == Spec => []PubInv
BY PubInit, PubNext, PTL DEF Spec

(* A job enqueued in the block of a transaction is in Redis only after that *)
(* transaction committed (deferred.py:1-12, :69-81).                        *)
THEOREM CommitFirst == Spec => []NothingUncommitted
<1>1. PubInv => NothingUncommitted
  BY DEF PubInv
<1> QED BY <1>1, PubInvariant, PTL

(* No job is published twice, whatever fails half way (deferred.py:56-63).  *)
THEOREM NoneTwicePublished == Spec => []PublishedOnce
<1>1. PubInv => PublishedOnce
  BY DEF PubInv, OnceInv, NoneTwice, Injective, PublishedOnce
<1> QED BY <1>1, PubInvariant, PTL

(* The payload of a job in Redis is complete (payloads.py:45-52,            *)
(* registry.py:225-241).                                                    *)
THEOREM PayloadFirst == Spec => []ReferenceResolves
<1>1. PubInv => ReferenceResolves
  BY DEF PubInv, FileInv
<1> QED BY <1>1, PubInvariant, PTL

(* Nobody who may enqueue finds the queue unconnected (plugin.py:92-95).    *)
THEOREM QueueForAll == Spec => []QueueIsThere
<1>1. PubInv => QueueIsThere
  BY BusyMeansOpen DEF PubInv
<1> QED BY <1>1, PubInvariant, PTL

(* The jobs of one transaction are published oldest first, whatever blocks *)
(* nest and fail (deferred.py:54-63).                                       *)
THEOREM PublishedInOrder == Spec => []OldestFirst
<1>1. Init => OwnInv /\ OrderInv
  <2> SUFFICES ASSUME Init PROVE OwnInv /\ OrderInv
    OBVIOUS
  <2>1. OwnInv
    BY DEF Init, OwnInv, Hand
  <2>2. /\ Sent = {} /\ \A t \in Tasks : Hand(t) = {}
        /\ \A u \in Units : P(u) = {} /\ B(u) = {}
    BY EmptySeq DEF Init, Sent, Hand, P, B
  <2>3. \A R : Sorted(<<>>, R)
    BY SortedEmpty
  <2>4. OrderInv
    BY <2>2, <2>3, EmptySeq DEF Init, OrderInv, Ahead
  <2> QED BY <2>1, <2>4
<1>2. PubInv /\ OwnInv /\ OrderInv /\ [Next]_vars => OwnInv' /\ OrderInv'
  BY OwnNext, OrderNext DEF PubInv
<1>3. PubInv /\ OrderInv => OldestFirst
  <2> SUFFICES ASSUME PubInv, OrderInv, NEW a \in DOMAIN stream, NEW b \in DOMAIN stream,
                      within[stream[a]] # NoUnit, within[stream[a]] = within[stream[b]],
                      Older(stream[a], stream[b])
               PROVE  a < b
    BY DEF OldestFirst
  <2>0. stream \in Seq(Jobs) /\ asked \in Seq(Jobs)
    BY DEF PubInv, TypeOK
  <2>1. a \in Nat /\ b \in Nat
    BY <2>0
  <2>2. CASE b < a
    <3>1. <<stream[b], stream[a]>> \in Rel
      BY <2>2 DEF OrderInv, Sorted
    <3> QED BY <3>1 DEF Rel
  <2>3. CASE a = b
    <3>1. PICK m \in DOMAIN asked, n \in DOMAIN asked : m < n /\ asked[m] = asked[n]
      BY <2>3 DEF Older
    <3>2. m = n
      BY <3>1 DEF OrderInv, Injective
    <3>3. m \in Nat
      BY <2>0
    <3> QED BY <3>1, <3>2, <3>3
  <2> QED BY <2>1, <2>2, <2>3
<1> QED BY <1>1, <1>2, <1>3, PubInvariant, PTL DEF Spec

(* While nothing fails no job is forgotten, unless its transaction rolls   *)
(* back (deferred.py:48-67).                                                *)
THEOREM NoJobForgotten == Spec => []NoneForgotten
<1>1. Init => OwnInv /\ ThereInv
  BY EmptySeq DEF Init, OwnInv, Hand, ThereInv
<1>2. PubInv /\ OwnInv /\ ThereInv /\ [Next]_vars => OwnInv' /\ ThereInv'
  BY OwnNext, ThereNext DEF PubInv
<1>3. ThereInv => NoneForgotten
  BY DEF ThereInv, NoneForgotten, Lost, OnWay, OnTheWay, Hand, P, B, Sent
<1> QED BY <1>1, <1>2, <1>3, PubInvariant, PTL DEF Spec
=============================================================================
