----------------------------- MODULE Publication -----------------------------
(***************************************************************************)
(* How the jobs of one application process reach Redis: the lifespan that  *)
(* opens and closes the queue around the application's own managers        *)
(* (litestar/plugin.py), the enqueue of a task (registry.enqueue) with the  *)
(* payload store for large arguments (core/payloads.py), and the deferred   *)
(* enqueuer that holds the jobs of a transaction until it has committed     *)
(* (core/deferred.py).                                                      *)
(*                                                                         *)
(* Who calls: the requests, and the managers, one at a time, while they    *)
(* open and close; these use no transaction.  A transaction commits or     *)
(* rolls back by itself; its hooks, outside this code, call flush or       *)
(* discard.  Simplifications: a unit of work is used once, the server      *)
(* stops only when no request is under way, and a job is enqueued once     *)
(* (every call makes a new id).                                            *)
(***************************************************************************)
EXTENDS Naturals, Sequences, FiniteSets, Functions

CONSTANTS Requests,  \* the tasks that serve requests
          Lifespan,  \* the task that opens and closes the managers
          Managers,  \* how many managers the application adds
          Units,     \* deferred enqueuers, one per transaction
          Jobs,      \* calls of Task.enqueue
          Offloaded, \* those whose arguments go to the payload store
          MaxFaults, \* bound: commands and writes that fail, payloads too large, kills
          NoUnit, NoJob

ASSUME PublicationAssumption ==
    /\ NoUnit \notin Units /\ NoJob \notin Jobs
    /\ Lifespan \notin Requests /\ Managers \in Nat /\ MaxFaults \in Nat
    /\ Offloaded \subseteq Jobs

Tasks   == Requests \cup {Lifespan}

VARIABLES
  app,      \* the lifespan of the application
  depth,    \* how many of Lifespans are entered
  queue,    \* QueuePlugin._transport, and its clients
  pc,       \* where each task is in an enqueue
  job,      \* the job it enqueues
  via,      \* the enqueuer it picked: a unit, or NoUnit for the plugin
  current,  \* the context variable current_enqueuer of each task
  blocks,   \* the units whose block the task is in, innermost last
  token,    \* what entering a block found in the context variable
  unit,     \* the transaction of each unit, and its flush
  owner,    \* the task whose unit of work it is
  pending,  \* DeferredEnqueuer._pending
  buffered, \* what a flush still has to publish
  files,    \* the payload store
  stream,   \* the jobs Redis took, in order
  asked,    \* the jobs enqueued, in order of the calls
  within,   \* the unit in whose block each of them was enqueued
  faults

context == <<current, blocks, token>>
call    == <<pc, job, via>>
units   == <<unit, owner, pending, buffered>>
redis   == <<files, stream>>
calls   == <<asked, within>>
vars == <<app, depth, queue, call, context, units, redis, calls, faults>>

Init ==
    /\ app = "starting" /\ depth = 0 /\ queue = "none"
    /\ pc = [t \in Tasks |-> "free"] /\ job = [t \in Tasks |-> NoJob]
    /\ via = [t \in Tasks |-> NoUnit] /\ current = [t \in Tasks |-> NoUnit]
    /\ blocks = [t \in Tasks |-> <<>>] /\ token = [u \in Units |-> NoUnit]
    /\ unit = [u \in Units |-> "new"] /\ owner = [u \in Units |-> Lifespan]
    /\ pending = [u \in Units |-> <<>>] /\ buffered = [u \in Units |-> <<>>]
    /\ files = [j \in Jobs |-> "none"] /\ stream = <<>>
    /\ asked = <<>> /\ within = [j \in Jobs |-> NoUnit] /\ faults = 0

Fault == faults < MaxFaults /\ faults' = faults + 1

-----------------------------------------------------------------------------
(* The lifespan                                                            *)

(* Wrong on purpose: the queue is appended to the managers.                 *)
LifespansAppended == [i \in 1..(Managers + 1) |->
                        IF i = Managers + 1 THEN "queue" ELSE "manager"]

(* on_app_init inserts the queue before the managers of the application.   *)
Lifespans == [i \in 1..(Managers + 1) |-> IF i = 1 THEN "queue" ELSE "manager"]

Opens(what)  == app = "starting" /\ depth <= Managers /\ Lifespans[depth + 1] = what
Closes(what) == app = "stopping" /\ depth > 0 /\ Lifespans[depth] = what

Quiet(T) == \A t \in T : pc[t] = "free" /\ blocks[t] = <<>>
(* No transaction is between its block and the end of its flush.           *)
Finished == \A u \in Units : unit[u] \in {"new", "flushed", "failed", "discarded"}

(* connected: the transport is there before its groups are.                *)
Connect ==
    /\ Opens("queue") /\ queue = "none"
    /\ queue' = "connecting"
    /\ UNCHANGED <<app, depth, call, context, units, redis, calls, faults>>

Connected ==
    /\ queue = "connecting"
    /\ queue' = "open" /\ depth' = depth + 1
    /\ UNCHANGED <<app, call, context, units, redis, calls, faults>>

(* ensure_group fails: the finally of connected, then the managers opened. *)
ConnectFails ==
    /\ queue = "connecting" /\ Fault
    /\ queue' = "none" /\ app' = "stopping"
    /\ UNCHANGED <<depth, call, context, units, redis, calls>>

OpenManager ==
    /\ Opens("manager") /\ Quiet(Tasks) /\ Finished
    /\ depth' = depth + 1
    /\ UNCHANGED <<app, queue, call, context, units, redis, calls, faults>>

ManagerFails ==
    /\ Opens("manager") /\ Quiet(Tasks) /\ Finished /\ Fault
    /\ app' = "stopping"
    /\ UNCHANGED <<depth, queue, call, context, units, redis, calls>>

Serve ==
    /\ app = "starting" /\ depth = Managers + 1
    /\ app' = "serving"
    /\ UNCHANGED <<depth, queue, call, context, units, redis, calls, faults>>

Stop ==
    /\ app = "serving" /\ Quiet(Tasks) /\ Finished
    /\ app' = "stopping"
    /\ UNCHANGED <<depth, queue, call, context, units, redis, calls, faults>>

CloseManager ==
    /\ Closes("manager") /\ Quiet(Tasks) /\ Finished
    /\ depth' = depth - 1
    /\ UNCHANGED <<app, queue, call, context, units, redis, calls, faults>>

(* Wrong on purpose: the queue is closed and left set.                      *)
DisconnectLeavesSet ==
    /\ Closes("queue")
    /\ depth' = depth - 1
    /\ UNCHANGED <<app, queue, call, context, units, redis, calls, faults>>

(* The transport is gone before the clients are closed.                    *)
Disconnect ==
    /\ Closes("queue")
    /\ queue' = "none" /\ depth' = depth - 1
    /\ UNCHANGED <<app, call, context, units, redis, calls, faults>>

Stopped ==
    /\ app = "stopping" /\ depth = 0
    /\ app' = "stopped"
    /\ UNCHANGED <<depth, queue, call, context, units, redis, calls, faults>>

(* The process is killed: what it had in memory is lost, and the database  *)
(* rolls the open transactions back; files and stream stay.                *)
Crash ==
    /\ app \notin {"stopped", "killed"} /\ Fault
    /\ app' = "killed" /\ depth' = 0 /\ queue' = "none"
    /\ pc' = [t \in Tasks |-> "free"] /\ job' = [t \in Tasks |-> NoJob]
    /\ via' = [t \in Tasks |-> NoUnit] /\ current' = [t \in Tasks |-> NoUnit]
    /\ blocks' = [t \in Tasks |-> <<>>] /\ token' = [u \in Units |-> NoUnit]
    /\ pending' = [u \in Units |-> <<>>] /\ buffered' = [u \in Units |-> <<>>]
    /\ unit' = [u \in Units |-> IF unit[u] = "open" THEN "rolled back" ELSE unit[u]]
    /\ UNCHANGED <<owner, redis, calls>>

Lifecycle == Connect \/ Connected \/ ConnectFails \/ OpenManager \/ ManagerFails
             \/ Serve \/ Stop \/ CloseManager \/ Disconnect \/ Stopped \/ Crash

-----------------------------------------------------------------------------
(* Units of work                                                           *)

(* Requests run while the application serves, the code of a manager while  *)
(* it opens or closes.                                                      *)
Runs(t) == IF t = Lifespan THEN Opens("manager") \/ Closes("manager")
                           ELSE app = "serving"
Idle(t) == /\ Runs(t) /\ pc[t] = "free"
           /\ \A u \in Units : ~(owner[u] = t /\ unit[u] = "flushing")
Elsewhere == UNCHANGED <<app, depth, queue>>

(* DeferredEnqueuer.active                                                  *)
EnterBlock(t, u) ==
    /\ Idle(t) /\ unit[u] = "new"
    /\ unit' = [unit EXCEPT ![u] = "open"] /\ owner' = [owner EXCEPT ![u] = t]
    /\ blocks' = [blocks EXCEPT ![t] = Append(@, u)]
    /\ token' = [token EXCEPT ![u] = current[t]]
    /\ current' = [current EXCEPT ![t] = u]
    /\ UNCHANGED <<call, pending, buffered, redis, calls, faults>> /\ Elsewhere

Innermost(t) == IF blocks[t] = <<>> THEN NoUnit ELSE blocks[t][Len(blocks[t])]

(* Wrong on purpose: leaving a block forgets the one around it.             *)
ResetToNone(t) == current' = [current EXCEPT ![t] = NoUnit]

Reset(t) == current' = [current EXCEPT ![t] = token[Innermost(t)]]

LeaveBlock(t) ==
    /\ Idle(t) /\ blocks[t] # <<>>
    /\ Reset(t)
    /\ blocks' = [blocks EXCEPT ![t] = SubSeq(@, 1, Len(@) - 1)]
    /\ UNCHANGED <<token, call, units, redis, calls, faults>> /\ Elsewhere

(* Commit and rollback of the database, outside this code.                 *)
EndTransaction(u) ==
    /\ Idle(owner[u]) /\ unit[u] = "open"
    /\ \E outcome \in {"committed", "rolled back"} : unit' = [unit EXCEPT ![u] = outcome]
    /\ UNCHANGED <<call, context, owner, pending, buffered, redis, calls, faults>> /\ Elsewhere

Discard(u) ==
    /\ Idle(owner[u]) /\ unit[u] = "rolled back"
    /\ pending' = [pending EXCEPT ![u] = <<>>]
    /\ unit' = [unit EXCEPT ![u] = "discarded"]
    /\ UNCHANGED <<call, context, owner, buffered, redis, calls, faults>> /\ Elsewhere

(* Wrong on purpose: the buffer is kept until it is published.              *)
TakeBufferKeeping(u) == buffered' = [buffered EXCEPT ![u] = pending[u]] /\ UNCHANGED pending

(* The buffer is cleared before anything is published.                     *)
TakeBuffer(u) ==
    /\ buffered' = [buffered EXCEPT ![u] = pending[u]]
    /\ pending' = [pending EXCEPT ![u] = <<>>]

(* flush; it may be called again after one that failed, or after more was  *)
(* enqueued.                                                                *)
Flush(u) ==
    /\ Idle(owner[u]) /\ unit[u] \in {"committed", "failed", "flushed"}
    /\ unit[u] = "flushed" => pending[u] # <<>>
    /\ TakeBuffer(u)
    /\ unit' = [unit EXCEPT ![u] = "flushing"]
    /\ UNCHANGED <<call, context, owner, redis, calls, faults>> /\ Elsewhere

Flushing(u) == Runs(owner[u]) /\ unit[u] = "flushing"

Publish(j) == stream' = Append(stream, j)

(* Wrong on purpose: the newest buffered job goes first.                    *)
PublishNextNewest(u) ==
    /\ Flushing(u) /\ buffered[u] # <<>>
    /\ Publish(buffered[u][Len(buffered[u])])
    /\ buffered' = [buffered EXCEPT ![u] = SubSeq(@, 1, Len(@) - 1)]
    /\ UNCHANGED <<call, context, unit, owner, pending, files, calls, faults>> /\ Elsewhere

PublishNext(u) ==
    /\ Flushing(u) /\ buffered[u] # <<>>
    /\ Publish(Head(buffered[u]))
    /\ buffered' = [buffered EXCEPT ![u] = Tail(@)]
    /\ UNCHANGED <<call, context, unit, owner, pending, files, calls, faults>> /\ Elsewhere

(* Wrong on purpose: the flush ends before all is published.               *)
FlushedEarly(u) ==
    /\ Flushing(u)
    /\ unit' = [unit EXCEPT ![u] = "flushed"]
    /\ buffered' = [buffered EXCEPT ![u] = <<>>]
    /\ UNCHANGED <<call, context, owner, pending, redis, calls, faults>> /\ Elsewhere

(* A payload over max_payload_bytes, a command that fails or one whose     *)
(* reply is lost: flush raises, and what it had not published is dropped.   *)
FlushFails(u) ==
    /\ Flushing(u) /\ buffered[u] # <<>>
    /\ Fault /\ (UNCHANGED stream \/ Publish(Head(buffered[u])))
    /\ buffered' = [buffered EXCEPT ![u] = <<>>]
    /\ unit' = [unit EXCEPT ![u] = "failed"]
    /\ UNCHANGED <<call, context, owner, pending, files, calls>> /\ Elsewhere

Flushed(u) ==
    /\ Flushing(u) /\ buffered[u] = <<>>
    /\ unit' = [unit EXCEPT ![u] = "flushed"]
    /\ UNCHANGED <<call, context, owner, pending, buffered, redis, calls, faults>> /\ Elsewhere

FlushStep(u) == PublishNext(u) \/ FlushFails(u) \/ Flushed(u)

-----------------------------------------------------------------------------
(* Task.enqueue                                                            *)

(* The enqueuer is chosen before the payload is stored.                    *)
Ask(t, j) ==
    /\ Idle(t) /\ j \notin Range(asked)
    /\ asked' = Append(asked, j)
    /\ within' = [within EXCEPT ![j] = Innermost(t)]
    /\ job' = [job EXCEPT ![t] = j]
    /\ via' = [via EXCEPT ![t] = current[t]]
    /\ pc' = [pc EXCEPT ![t] = IF j \in Offloaded THEN "writing" ELSE "sending"]
    /\ UNCHANGED <<context, units, redis, faults>> /\ Elsewhere

Leaves(t) ==
    /\ pc' = [pc EXCEPT ![t] = "free"]
    /\ job' = [job EXCEPT ![t] = NoJob] /\ via' = [via EXCEPT ![t] = NoUnit]

(* Wrong on purpose: the job is sent while its payload is staged.           *)
WriteStagingSends(t) ==
    /\ Runs(t) /\ pc[t] = "writing"
    /\ files' = [files EXCEPT ![job[t]] = "partial"]
    /\ pc' = [pc EXCEPT ![t] = "sending"]
    /\ UNCHANGED <<job, via, context, units, stream, calls, faults>> /\ Elsewhere

(* FilePayloadStore.put                                                     *)
WriteStaging(t) ==
    /\ Runs(t) /\ pc[t] = "writing"
    /\ files' = [files EXCEPT ![job[t]] = "partial"]
    /\ pc' = [pc EXCEPT ![t] = "renaming"]
    /\ UNCHANGED <<job, via, context, units, stream, calls, faults>> /\ Elsewhere

Rename(t) ==
    /\ Runs(t) /\ pc[t] = "renaming"
    /\ files' = [files EXCEPT ![job[t]] = "complete"]
    /\ pc' = [pc EXCEPT ![t] = "sending"]
    /\ UNCHANGED <<job, via, context, units, stream, calls, faults>> /\ Elsewhere

PutFails(t) ==
    /\ Runs(t) /\ pc[t] \in {"writing", "renaming"} /\ Fault
    /\ files' \in {files, [files EXCEPT ![job[t]] = "partial"]}
    /\ Leaves(t)
    /\ UNCHANGED <<context, units, stream, calls>> /\ Elsewhere

(* DeferredEnqueuer.enqueue                                                 *)
Buffer(t) ==
    /\ Runs(t) /\ pc[t] = "sending" /\ via[t] # NoUnit
    /\ pending' = [pending EXCEPT ![via[t]] = Append(@, job[t])]
    /\ Leaves(t)
    /\ UNCHANGED <<context, unit, owner, buffered, redis, calls, faults>> /\ Elsewhere

(* QueuePlugin.enqueue and the transport's: a size check and XADD.         *)
SendNow(t) ==
    /\ Runs(t) /\ pc[t] = "sending" /\ via[t] = NoUnit
    /\ \/ Publish(job[t]) /\ UNCHANGED faults
       \/ Fault /\ (Publish(job[t]) \/ UNCHANGED stream)
    /\ Leaves(t)
    /\ UNCHANGED <<context, units, files, calls>> /\ Elsewhere

CallStep(t) == WriteStaging(t) \/ Rename(t) \/ Buffer(t) \/ SendNow(t)

Next ==
    \/ Lifecycle
    \/ \E u \in Units : EndTransaction(u) \/ Discard(u) \/ Flush(u) \/ FlushStep(u)
    \/ \E t \in Requests : LeaveBlock(t) \/ \E u \in Units : EnterBlock(t, u)
    \/ \E t \in Tasks : CallStep(t) \/ PutFails(t) \/ \E j \in Jobs : Ask(t, j)

Spec == Init /\ [][Next]_vars
=============================================================================
