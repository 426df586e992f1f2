-------------------------------- MODULE Job --------------------------------
(***************************************************************************)
(* The life of a job: what a handler task of core/worker.py does with one  *)
(* entry (_run_one and the helpers it calls), await by await, and how the  *)
(* job it carries comes back through the scheduler's sorted set as a new   *)
(* entry.  Module Delivery has the complement: how entries reach workers.  *)
(*                                                                         *)
(* One atomic step is one command executed by Redis together with the      *)
(* worker code that follows its reply, or a handler's outcome.             *)
(*                                                                         *)
(* Simplifications.                                                        *)
(*  - An entry is on offer to every worker that has no task until it is    *)
(*    acknowledged, and has one task at a time: what module Delivery shows *)
(*    when no worker stalls and ids are unique.                            *)
(*  - A worker runs one task at a time (concurrency = 1).                  *)
(*  - The clock does not move between a TIME and the command that uses it. *)
(*  - Results do not expire; deduplication keys may at any moment.         *)
(***************************************************************************)
EXTENDS Naturals, FiniteSets

CONSTANTS
    Jobs,           \* envelope ids
    Workers, NoOne,
    Knowing,        \* workers whose registry has the task
    Undecodable,    \* jobs no deployment can decode
    Waited,         \* jobs enqueued with a result_ttl_ms
    Keys, NoKey,
    KeyOf,          \* the deduplication key of a job, or NoKey
    Slots,          \* 1..n: names for the entries that exist at one time
    MaxJobs,        \* how many of Jobs are enqueued
    MaxAttempts,    \* RetryPolicy.max_attempts
    MaxDeliveries,  \* RetryPolicy.max_deliveries
    UnknownTimeout, \* RetryPolicy.unknown_task_timeout_ms, in ticks
    MaxCrashes,     \* how many tasks may be lost with their process
    MaxFaults       \* how many commands may fail

ASSUME ConstantsAssumption ==
    /\ Jobs # {} /\ NoOne \notin Workers /\ NoKey \notin Keys
    /\ Knowing \subseteq Workers
    /\ Undecodable \cup Waited \subseteq Jobs
    /\ KeyOf \in [Jobs -> Keys \cup {NoKey}]
    /\ Slots \subseteq Nat /\ MaxJobs \in Nat
    /\ MaxAttempts \in Nat \ {0} /\ MaxDeliveries \in Nat \ {0}
    /\ UnknownTimeout \in Nat /\ MaxCrashes \in Nat /\ MaxFaults \in Nat

VARIABLES
    (* Redis *)
    present,        \* does the entry exist (and, once taken, is it pending)?
    delivered,      \* its delivery counter
    sched,          \* the scheduled jobs: sorted set and hashes
    gates,          \* the deduplication keys that exist
    result,         \* the stored result of a job
    dlq,            \* the dead letter stream: which jobs, and why
    age,            \* the time since a job was enqueued, in ticks
    (* tasks *)
    env,            \* the envelope the entry carries and its task decoded
    by,             \* the worker that has a task for the entry
    pc,             \* what that task does next
    recovering,     \* does its next failure leave the entry pending?
    why,            \* the reason it is burying the entry for
    (* history and budgets *)
    asked,          \* jobs that were enqueued
    completed,      \* jobs whose handler has returned
    raised,         \* how often the handler of a job raised
    gateRuns,       \* how often handlers were started under a key since it was set
    crashes, faults

stored == <<present, delivered, sched, gates, result, dlq>>
task   == <<env, by, pc, recovering, why>>
past   == <<asked, completed, raised, gateRuns>>
vars   == <<stored, age, task, past, crashes, faults>>

Envelope  == [job : Jobs, attempt : 0..(MaxAttempts - 1)]
Scheduled == [kind : {"retry", "unknown"}, job : Jobs, n : Nat,
              attempt : 0..(MaxAttempts - 1)]
Reasons   == {"malformed", "unknown_task", "max_attempts", "max_deliveries"}
Blank     == CHOOSE e \in Envelope : e.attempt = 0
MaxAge    == UnknownTimeout + 1
Up(n, most) == IF n < most THEN n + 1 ELSE n
JobOf(s)  == env[s].job

TypeOK ==
    /\ present \in [Slots -> BOOLEAN]
    /\ delivered \in [Slots -> 0..(MaxDeliveries + 1)]
    /\ sched \subseteq Scheduled
    /\ gates \subseteq Keys
    /\ result \in [Jobs -> {"none", "ok", "failed"}]
    /\ dlq \subseteq Jobs \X Reasons
    /\ age \in [Jobs -> 0..MaxAge]
    /\ env \in [Slots -> Envelope]
    /\ by \in [Slots -> Workers \cup {NoOne}]
    /\ pc \in [Slots -> {"idle", "started", "running", "returned",
                         "failed", "burying", "acking"}]
    /\ recovering \in [Slots -> BOOLEAN]
    /\ why \in [Slots -> Reasons \cup {"none"}]
    /\ \A s \in Slots : pc[s] = "burying" => why[s] # "none"
    /\ asked \subseteq Jobs /\ completed \subseteq Jobs
    /\ raised \in [Jobs -> 0..MaxAttempts]
    /\ gateRuns \in [Keys -> 0..2]
    /\ crashes \in 0..MaxCrashes /\ faults \in 0..MaxFaults

Init ==
    /\ present = [s \in Slots |-> FALSE]
    /\ delivered = [s \in Slots |-> 0]
    /\ sched = {} /\ gates = {} /\ dlq = {}
    /\ result = [j \in Jobs |-> "none"]
    /\ age = [j \in Jobs |-> 0]
    /\ env = [s \in Slots |-> Blank]
    /\ by = [s \in Slots |-> NoOne]
    /\ pc = [s \in Slots |-> "idle"]
    /\ recovering = [s \in Slots |-> FALSE]
    /\ why = [s \in Slots |-> "none"]
    /\ asked = {} /\ completed = {}
    /\ raised = [j \in Jobs |-> 0]
    /\ gateRuns = [k \in Keys |-> 0]
    /\ crashes = MaxCrashes /\ faults = MaxFaults

-----------------------------------------------------------------------------
(* Entries appear and are offered.                                         *)

Vacant == {s \in Slots : ~present[s] /\ pc[s] = "idle"}

(* XADD: the entry gets the first vacant name.                             *)
Add(s, j, n) ==
    /\ s \in Vacant
    /\ \A t \in Vacant : s <= t
    /\ present' = [present EXCEPT ![s] = TRUE]
    /\ delivered' = [delivered EXCEPT ![s] = 0]
    /\ env' = [env EXCEPT ![s] = [job |-> j, attempt |-> n]]
    /\ UNCHANGED <<by, pc, recovering, why>>

Enqueue(j) ==
    /\ j \notin asked /\ Cardinality(asked) < MaxJobs
    /\ \E s \in Slots : Add(s, j, 0)
    /\ asked' = asked \cup {j}
    /\ UNCHANGED <<sched, gates, result, dlq, age, completed, raised, gateRuns,
                   crashes, faults>>

(* promote.lua moves a due job into its stream.  A hand-back is due later  *)
(* than the tick it was made in (unknown_task_backoff_ms).                 *)
Promote(c) ==
    /\ c \in sched
    /\ c.kind = "unknown" => age[c.job] > c.n \/ c.n = MaxAge
    /\ \E s \in Slots : Add(s, c.job, c.attempt)
    /\ sched' = sched \ {c}
    /\ UNCHANGED <<gates, result, dlq, age, past, crashes, faults>>

Tick(j) ==
    /\ j \in asked /\ age[j] < MaxAge
    /\ age' = [age EXCEPT ![j] = @ + 1]
    /\ UNCHANGED <<stored, task, past, crashes, faults>>

GateExpires(k) ==
    /\ k \in gates
    /\ gates' = gates \ {k}
    /\ gateRuns' = [gateRuns EXCEPT ![k] = 0]
    /\ UNCHANGED <<present, delivered, sched, result, dlq, age, task, asked,
                   completed, raised, crashes, faults>>

Free(w) == \A s \in Slots : by[s] # w

(* An entry is read, or claimed from a worker that lost it.                *)
Take(s, w) ==
    /\ present[s] /\ pc[s] = "idle"
    /\ Free(w)
    /\ delivered[s] <= MaxDeliveries
    /\ delivered' = [delivered EXCEPT ![s] = Up(@, MaxDeliveries + 1)]
    /\ by' = [by EXCEPT ![s] = w]
    /\ pc' = [pc EXCEPT ![s] = "started"]
    /\ UNCHANGED <<present, sched, gates, result, dlq, age, env, recovering, why,
                   past, crashes, faults>>

(* The reclaim loop buries an entry that outlived too many owners; if that *)
(* fails the entry stays pending.                                          *)
TakeOverDelivered(s, w) ==
    /\ present[s] /\ pc[s] = "idle"
    /\ Free(w)
    /\ delivered[s] > MaxDeliveries
    /\ by' = [by EXCEPT ![s] = w]
    /\ pc' = [pc EXCEPT ![s] = "burying"]
    /\ why' = [why EXCEPT ![s] = "max_deliveries"]
    /\ recovering' = [recovering EXCEPT ![s] = TRUE]
    /\ UNCHANGED <<stored, age, env, past, crashes, faults>>

-----------------------------------------------------------------------------
(* The commands a task sends, as changes of what Redis stores.             *)

(* Wrong on purpose: looks for the key and does not set it.                 *)
SetGateForgotten(s) == UNCHANGED stored

SetGate(s) ==
    /\ gates' = gates \cup {KeyOf[JobOf(s)]}
    /\ UNCHANGED <<present, delivered, sched, result, dlq>>

(* _keep_result: nothing is sent for a job nobody waits for.               *)
Keep(s, outcome) ==
    /\ result' = IF JobOf(s) \in Waited
                 THEN [result EXCEPT ![JobOf(s)] = outcome] ELSE result
    /\ UNCHANGED <<present, delivered, sched, gates, dlq>>

(* HSET and ZADD in one transaction: the same scheduled id is overwritten. *)
Schedule(s, k, i, n) ==
    /\ sched' = {c \in sched : <<c.kind, c.job, c.n>> # <<k, JobOf(s), i>>}
                \cup {[kind |-> k, job |-> JobOf(s), n |-> i, attempt |-> n]}
    /\ UNCHANGED <<present, delivered, gates, result, dlq>>

DeadLetter(s) ==
    /\ dlq' = dlq \cup {<<JobOf(s), why[s]>>}
    /\ UNCHANGED <<present, delivered, sched, gates, result>>

AckEntry(s) ==
    /\ present' = [present EXCEPT ![s] = FALSE]
    /\ UNCHANGED <<delivered, sched, gates, result, dlq>>

-----------------------------------------------------------------------------
(* _run_one.                                                               *)

Goto(s, l) == pc' = [pc EXCEPT ![s] = l]

(* The task ends and its slot is released; the entry may still be there.   *)
End(s) ==
    /\ Goto(s, "idle")
    /\ by' = [by EXCEPT ![s] = NoOne]
    /\ recovering' = [recovering EXCEPT ![s] = FALSE]
    /\ why' = [why EXCEPT ![s] = "none"]
    /\ env' = IF present'[s] THEN env ELSE [env EXCEPT ![s] = Blank]

(* The except clause is entered once; a failure in it ends the task.       *)
Except(s) ==
    IF recovering[s]
    THEN End(s)
    ELSE /\ Goto(s, "failed")
         /\ recovering' = [recovering EXCEPT ![s] = TRUE]
         /\ why' = [why EXCEPT ![s] = "none"]
         /\ UNCHANGED <<env, by>>

Knows(s)    == by[s] \in Knowing
Decodes(s)  == JobOf(s) \notin Undecodable
Keyed(s)    == KeyOf[JobOf(s)] # NoKey
Starting(s) == pc[s] = "started" /\ Decodes(s)

DecideToBury(s, reason) ==
    /\ Goto(s, "burying")
    /\ why' = [why EXCEPT ![s] = reason]
    /\ UNCHANGED <<stored, age, env, by, recovering, past, crashes, faults>>

Malformed(s) ==
    /\ pc[s] = "started" /\ ~Decodes(s)
    /\ DecideToBury(s, "malformed")

(* Wrong on purpose: an unknown task is deferred for ever.                  *)
ExpiredNever(s) == FALSE

Expired(s) == age[JobOf(s)] > UnknownTimeout

(* A rolling deploy is going on: the task waits for a peer that knows it,  *)
(* for as long as the job is young.                                        *)
Unknown(s) == Starting(s) /\ ~Knows(s)

ExpireUnknown(s) ==
    /\ Unknown(s) /\ Expired(s)
    /\ DecideToBury(s, "unknown_task")

(* The gate: SET NX.  Whoever finds the key taken acknowledges unrun,      *)
(* though the key may have been set for an earlier delivery or attempt of  *)
(* the very same job.                                                      *)
Run(s) ==
    /\ Goto(s, "running")
    /\ gateRuns' = IF Keyed(s) THEN [gateRuns EXCEPT ![KeyOf[JobOf(s)]] = Up(@, 2)]
                   ELSE gateRuns
    /\ UNCHANGED <<age, env, by, recovering, why, asked, completed, raised, crashes,
                   faults>>

Ungated(s) == Starting(s) /\ Knows(s) /\ ~Keyed(s)
Gated(s)   == Starting(s) /\ Knows(s) /\ Keyed(s)
Wins(s)    == Gated(s) /\ KeyOf[JobOf(s)] \notin gates

RunUngated(s) == Ungated(s) /\ UNCHANGED stored /\ Run(s)

RunGated(s) == Wins(s) /\ SetGate(s) /\ Run(s)

Skip(s) ==
    /\ Gated(s) /\ ~Wins(s)
    /\ Goto(s, "acking")
    /\ UNCHANGED <<stored, age, env, by, recovering, why, past, crashes, faults>>

Return(s) ==
    /\ pc[s] = "running"
    /\ Goto(s, "returned")
    /\ completed' = completed \cup {JobOf(s)}
    /\ UNCHANGED <<stored, age, env, by, recovering, why, asked, raised, gateRuns,
                   crashes, faults>>

Raise(s) ==
    /\ pc[s] = "running"
    /\ raised' = [raised EXCEPT ![JobOf(s)] = Up(@, MaxAttempts)]
    /\ Except(s)
    /\ UNCHANGED <<stored, age, asked, completed, gateRuns, crashes, faults>>

(* A command that succeeds, and the place it leads to.                     *)
Done(s, l) ==
    /\ Goto(s, l)
    /\ UNCHANGED <<age, env, by, recovering, why, past, crashes, faults>>

KeepOk(s) == pc[s] = "returned" /\ Keep(s, "ok") /\ Done(s, "acking")

(* Wrong on purpose: an unknown task counts as a failed attempt.            *)
DeferredAttemptCounts(s) == Up(env[s].attempt, MaxAttempts - 1)

(* _hand_back_unknown leaves the attempt counter untouched.                *)
DeferredAttempt(s) == env[s].attempt

DeferCommand(s) ==
    /\ Unknown(s) /\ ~Expired(s)
    /\ Schedule(s, "unknown", age[JobOf(s)], DeferredAttempt(s))

Defer(s) == DeferCommand(s) /\ Done(s, "acking")

(* _retry_or_bury.                                                         *)
Failing(s)   == pc[s] = "failed" /\ Decodes(s)

Exhausted(s) == env[s].attempt + 1 >= MaxAttempts

RetryCommand(s) ==
    /\ Failing(s) /\ ~Exhausted(s)
    /\ Schedule(s, "retry", env[s].attempt + 1, env[s].attempt + 1)

(* Wrong on purpose: lets go of the entry before the retry is on the clock. *)
RetryAfterAck(s) ==
    /\ Failing(s) /\ ~Exhausted(s)
    /\ IF present[s] THEN AckEntry(s) /\ Done(s, "failed")
       ELSE RetryCommand(s) /\ Done(s, "acking")

Retry(s) == RetryCommand(s) /\ Done(s, "acking")

BuryExhausted(s) ==
    /\ Goto(s, "burying")
    /\ why' = [why EXCEPT ![s] = "max_attempts"]
    /\ UNCHANGED <<age, env, by, recovering, past, crashes, faults>>

(* Wrong on purpose: buries without a word to the waiter.                   *)
ExhaustSilently(s) ==
    /\ Failing(s) /\ Exhausted(s)
    /\ UNCHANGED stored
    /\ BuryExhausted(s)

(* The waiter is told first, then the entry is buried.                     *)
Exhaust(s) ==
    /\ Failing(s) /\ Exhausted(s)
    /\ Keep(s, "failed")
    /\ BuryExhausted(s)

(* An undecodable entry whose burial failed cannot be retried either.      *)
LetGo(s) ==
    /\ pc[s] = "failed" /\ ~Decodes(s)
    /\ UNCHANGED stored
    /\ End(s)
    /\ UNCHANGED <<age, past, crashes, faults>>

Bury(s) == pc[s] = "burying" /\ DeadLetter(s) /\ Done(s, "acking")

Ack(s) ==
    /\ pc[s] = "acking"
    /\ AckEntry(s)
    /\ End(s)
    /\ UNCHANGED <<age, past, crashes, faults>>

-----------------------------------------------------------------------------
(* Failures.                                                               *)

(* The commands a task may be waiting for, as Redis executes them.         *)
Command(s) ==
    \/ Wins(s) /\ SetGate(s)
    \/ pc[s] = "returned" /\ JobOf(s) \in Waited /\ Keep(s, "ok")
    \/ DeferCommand(s)
    \/ RetryCommand(s)
    \/ Failing(s) /\ Exhausted(s) /\ JobOf(s) \in Waited /\ Keep(s, "failed")
    \/ pc[s] = "burying" /\ DeadLetter(s)
    \/ pc[s] = "acking" /\ AckEntry(s)

Sends(s) ==
    \/ Gated(s)
    \/ Unknown(s)
    \/ pc[s] = "returned" /\ JobOf(s) \in Waited
    \/ Failing(s) /\ (Exhausted(s) => JobOf(s) \in Waited)
    \/ pc[s] \in {"burying", "acking"}

(* The command fails, or it was executed and its reply is lost.            *)
Fail(s) ==
    /\ faults > 0 /\ faults' = faults - 1
    /\ Sends(s)
    /\ Command(s) \/ UNCHANGED stored
    /\ Except(s)
    /\ UNCHANGED <<age, past, crashes>>

(* The process dies, or a shutdown cancels the task at an await.           *)
Lose(s) ==
    /\ crashes > 0 /\ crashes' = crashes - 1
    /\ by[s] # NoOne
    /\ UNCHANGED stored
    /\ End(s)
    /\ UNCHANGED <<age, past, faults>>

-----------------------------------------------------------------------------
Handle(s) == Malformed(s) \/ ExpireUnknown(s) \/ RunUngated(s) \/ RunGated(s) \/ Skip(s)
             \/ Return(s) \/ Raise(s) \/ KeepOk(s) \/ Defer(s) \/ Retry(s)
             \/ Exhaust(s) \/ LetGo(s) \/ Bury(s) \/ Ack(s)

Offer(s) == \E w \in Workers : Take(s, w) \/ TakeOverDelivered(s, w)

Next ==
    \/ \E j \in Jobs : Enqueue(j) \/ Tick(j)
    \/ \E k \in Keys : GateExpires(k)
    \/ \E c \in sched : Promote(c)
    \/ \E s \in Slots : Offer(s) \/ Handle(s) \/ Fail(s) \/ Lose(s)

Spec == Init /\ [][Next]_vars

(* Entries are delivered (module Delivery), handlers end, the event loop   *)
(* and Redis go on, some leader promotes what is due, and time passes.     *)
Fairness ==
    /\ \A j \in Jobs : WF_vars(Tick(j))
    /\ WF_vars(\E c \in sched : Promote(c))
    /\ \A s \in Slots : WF_vars(Handle(s)) /\ SF_vars(Offer(s))

FairSpec == Spec /\ Fairness
=============================================================================
