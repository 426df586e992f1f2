----------------------------- MODULE Scheduler -----------------------------
(***************************************************************************)
(* Delayed and periodic jobs: every worker's scheduler loop                *)
(* (_scheduler_loop of core/worker.py) over the leader key, the sorted set *)
(* and the scripts of core/scheduler.py, and the calendar of core/cron.py. *)
(*                                                                         *)
(* One step is one command executed by Redis.  One tick of the clock is    *)
(* one scheduler_interval_s, which is also the pause after a failed pass.  *)
(* A worker makes one pass per tick, unless it stalls: a handler that      *)
(* keeps the event loop busy holds up the pass between two commands.       *)
(*                                                                         *)
(* Simplifications.                                                        *)
(*  - A member of the sorted set and its hash are written in one           *)
(*    transaction and removed in one script: they are one fact here.       *)
(*  - A cron expression in its time zone is the set of its instants.       *)
(*  - The cron jobs of a pass are taken in any order.                      *)
(*  - The clock stops at Horizon; the passes go on.                        *)
(***************************************************************************)
EXTENDS Naturals, FiniteSets

CONSTANTS
    Workers,
    NoOne,          \* nobody holds the lease
    Ghost,          \* the token of a process that is gone
    Jobs,           \* ids of delayed jobs
    Times,          \* the instants delayed jobs are put at
    Crons,          \* names of cron jobs
    FiresOf,        \* the instants of each
    Horizon,        \* the last instant
    Ttl,            \* leader_ttl_ms, in ticks
    Limit,          \* promote_limit
    Stallers,       \* workers that may stall within a pass
    Steady,         \* workers that are never stopped nor killed
    MaxExits,       \* how often workers are stopped or killed
    MaxFaults       \* how many commands fail

ASSUME ConstantsAssumption ==
    /\ NoOne \notin Workers /\ Ghost \notin Workers /\ Ghost # NoOne
    /\ Horizon \in Nat
    /\ Times \subseteq 0..Horizon
    /\ FiresOf \in [Crons -> SUBSET (0..Horizon)]
    /\ Jobs \cap (Crons \X (0..Horizon)) = {}
    /\ Ttl \in Nat /\ Ttl > 1       \* WorkerConfig.__post_init__
    /\ Limit \in Nat \ {0}
    /\ Stallers \cup Steady \subseteq Workers
    /\ MaxExits \in Nat /\ MaxFaults \in Nat

VARIABLES
    now,            \* Redis TIME
    holder,         \* whose token the leader key has
    left,           \* the ticks until it expires; 0 is "no expiry"
    due,            \* the score of each member of the sorted set
    moved,          \* how often each was appended to its stream, up to 2
    pc,             \* where each scheduler loop is
    seen,           \* the time its pass has read
    todo,           \* the cron jobs its pass has still to schedule
    exits, faults

lease  == <<holder, left>>
queue  == <<due, moved>>
loop   == <<pc, seen, todo>>
budget == <<exits, faults>>
vars   == <<now, holder, left, due, moved, pc, seen, todo, exits, faults>>

Instants == 0..Horizon
NoTime   == Horizon + 1

(* The id of an occurrence is its job and its instant.                     *)
Occurrences == {o \in Crons \X Instants : o[2] \in FiresOf[o[1]]}
Members     == Jobs \cup Occurrences

Live(w)    == pc[w] # "down"
Working(w) == pc[w] \notin {"down", "releasing"}
Leading(w) == pc[w] \in {"clock", "cron", "promote"}
Goto(w, l) == pc' = [pc EXCEPT ![w] = l]
Forget(w)  == seen' = [seen EXCEPT ![w] = 0] /\ todo' = [todo EXCEPT ![w] = {}]

Overdue  == {m \in Members : due[m] <= now}

TypeOK ==
    /\ now \in Instants
    /\ holder \in Workers \cup {NoOne, Ghost}
    /\ left \in 0..Ttl
    /\ due \in [Members -> 0..NoTime]
    /\ moved \in [Members -> 0..2]
    /\ pc \in [Workers -> {"down", "top", "renewing", "clock", "cron", "promote",
                           "asleep", "releasing"}]
    /\ seen \in [Workers -> Instants]
    /\ todo \in [Workers -> SUBSET Crons]
    /\ exits \in 0..MaxExits
    /\ faults \in 0..MaxFaults

Init ==
    /\ now = 0
    /\ holder = NoOne
    /\ left = 0
    /\ due = [m \in Members |-> NoTime]
    /\ moved = [m \in Members |-> 0]
    /\ pc = [w \in Workers |-> "down"]
    /\ seen = [w \in Workers |-> 0]
    /\ todo = [w \in Workers |-> {}]
    /\ exits = MaxExits
    /\ faults = MaxFaults

-----------------------------------------------------------------------------
(* Producers and the clock.                                                *)

(* ZADD: putting an id on the clock again moves it.                        *)
ScheduleAt(j, t) ==
    /\ moved[j] = 0
    /\ due' = [due EXCEPT ![j] = t]
    /\ UNCHANGED <<now, lease, moved, loop, budget>>

(* The key expires when its last tick has passed.  A worker that does not  *)
(* stall has made its pass by then, and is asleep until the tick.          *)
Tick ==
    /\ \A w \in Workers \ Stallers : pc[w] \in {"down", "asleep"}
    /\ now' = IF now < Horizon THEN now + 1 ELSE now
    /\ holder' = IF left = 1 THEN NoOne ELSE holder
    /\ left' = IF left > 0 THEN left - 1 ELSE 0
    /\ pc' = [w \in Workers |-> IF pc[w] = "asleep" THEN "top" ELSE pc[w]]
    /\ UNCHANGED <<queue, seen, todo, budget>>

-----------------------------------------------------------------------------
(* hold_leadership: SET NX PX, then the compare-and-set of renew_leader.   *)

Start(w) ==
    /\ pc[w] = "down"
    /\ Goto(w, "top")
    /\ UNCHANGED <<now, lease, queue, seen, todo, budget>>

Pass(w) == Goto(w, IF Crons = {} THEN "promote" ELSE "clock")

(* Wrong on purpose: SET NX without PX.                                     *)
TakeLeaseForever(w) ==
    /\ pc[w] = "top" /\ holder = NoOne
    /\ holder' = w /\ left' = 0
    /\ Pass(w)
    /\ UNCHANGED <<now, queue, seen, todo, budget>>

TakeLease(w) ==
    /\ pc[w] = "top" /\ holder = NoOne
    /\ holder' = w /\ left' = Ttl
    /\ Pass(w)
    /\ UNCHANGED <<now, queue, seen, todo, budget>>

LeaseTaken(w) ==
    /\ pc[w] = "top" /\ holder # NoOne
    /\ Goto(w, "renewing")
    /\ UNCHANGED <<now, lease, queue, seen, todo, budget>>

(* Wrong on purpose: PEXPIRE on whatever key is there.                      *)
RenewAnyone(w) ==
    /\ pc[w] = "renewing" /\ holder # NoOne
    /\ left' = Ttl
    /\ Pass(w)
    /\ UNCHANGED <<now, holder, queue, seen, todo, budget>>

(* Wrong on purpose: the check without the PEXPIRE.                         *)
RenewNothing(w) ==
    /\ pc[w] = "renewing" /\ holder = w
    /\ Pass(w)
    /\ UNCHANGED <<now, lease, queue, seen, todo, budget>>

Renew(w) ==
    /\ pc[w] = "renewing" /\ holder = w
    /\ left' = Ttl
    /\ Pass(w)
    /\ UNCHANGED <<now, holder, queue, seen, todo, budget>>

RenewRefused(w) ==
    /\ pc[w] = "renewing" /\ holder # w
    /\ Goto(w, "asleep")
    /\ UNCHANGED <<now, lease, queue, seen, todo, budget>>

-----------------------------------------------------------------------------
(* The pass of a leader: schedule_cron, then promote.                      *)

ReadClock(w) ==
    /\ pc[w] = "clock"
    /\ seen' = [seen EXCEPT ![w] = now]
    /\ todo' = [todo EXCEPT ![w] = Crons]
    /\ Goto(w, "cron")
    /\ UNCHANGED <<now, lease, queue, budget>>

(* Wrong on purpose: the instant asked about counts as the next one.        *)
IsNextOrNow(c, after, f) ==
    /\ f \in FiresOf[c] /\ f >= after
    /\ \A g \in FiresOf[c] : g >= after => f <= g

(* f is the next occurrence of c, strictly after the given instant.        *)
IsNext(c, after, f) ==
    /\ f \in FiresOf[c] /\ f > after
    /\ \A g \in FiresOf[c] : g > after => f <= g

(* Wrong on purpose: a job with no occurrence left ends the loop.           *)
ScheduleCronStops(w, c) ==
    /\ pc[w] = "cron" /\ c \in todo[w]
    /\ \/ \E f \in Instants :
              /\ IsNext(c, seen[w], f)
              /\ due' = [due EXCEPT ![<<c, f>>] = f]
              /\ todo' = [todo EXCEPT ![w] = @ \ {c}]
       \/ /\ \A f \in Instants : ~IsNext(c, seen[w], f)
          /\ due' = due
          /\ todo' = [todo EXCEPT ![w] = {}]
    /\ Goto(w, IF todo'[w] = {} THEN "promote" ELSE "cron")
    /\ UNCHANGED <<now, lease, moved, seen, budget>>

(* Wrong on purpose: a pass with cron jobs promotes nothing.                *)
ScheduleCronOnly(w, c) ==
    /\ pc[w] = "cron" /\ c \in todo[w]
    /\ \/ \E f \in Instants :
              IsNext(c, seen[w], f) /\ due' = [due EXCEPT ![<<c, f>>] = f]
       \/ (\A f \in Instants : ~IsNext(c, seen[w], f)) /\ due' = due
    /\ todo' = [todo EXCEPT ![w] = @ \ {c}]
    /\ Goto(w, IF todo[w] = {c} THEN "asleep" ELSE "cron")
    /\ UNCHANGED <<now, lease, moved, seen, budget>>

ScheduleCron(w, c) ==
    /\ pc[w] = "cron" /\ c \in todo[w]
    /\ \/ \E f \in Instants :
              IsNext(c, seen[w], f) /\ due' = [due EXCEPT ![<<c, f>>] = f]
       \/ (\A f \in Instants : ~IsNext(c, seen[w], f)) /\ due' = due
    /\ todo' = [todo EXCEPT ![w] = @ \ {c}]
    /\ Goto(w, IF todo[w] = {c} THEN "promote" ELSE "cron")
    /\ UNCHANGED <<now, lease, moved, seen, budget>>

(* ZRANGEBYSCORE ... LIMIT: the first of what is due, in order of score.   *)
FirstDue(T) ==
    /\ T \subseteq Overdue
    /\ Cardinality(T) <= Limit
    /\ T # Overdue => Cardinality(T) = Limit
    /\ \A m \in T, n \in Overdue : due[n] < due[m] => n \in T

(* promote.lua: XADD, DEL and ZREM of each, in one step.                   *)
Promote(w, T) ==
    /\ pc[w] = "promote"
    /\ FirstDue(T)
    /\ moved' = [m \in Members |-> IF m \in T /\ moved[m] < 2 THEN moved[m] + 1
                                                             ELSE moved[m]]
    /\ due' = [m \in Members |-> IF m \in T THEN NoTime ELSE due[m]]
    /\ Goto(w, "asleep")
    /\ Forget(w)
    /\ UNCHANGED <<now, lease, budget>>

-----------------------------------------------------------------------------
(* Failures and the end of a process.                                      *)

(* A command fails; the pass is over until the next tick.  A command whose *)
(* reply is lost is one that was executed, followed by this.               *)
PassFails(w) ==
    /\ faults > 0 /\ faults' = faults - 1
    /\ Leading(w) \/ pc[w] \in {"top", "renewing"}
    /\ Goto(w, "asleep")
    /\ Forget(w)
    /\ UNCHANGED <<now, lease, queue, exits>>

(* The supervisors are cancelled; the lease is given up in a shield.       *)
Stop(w) ==
    /\ w \notin Steady
    /\ exits > 0 /\ exits' = exits - 1
    /\ Working(w)
    /\ Goto(w, "releasing")
    /\ Forget(w)
    /\ UNCHANGED <<now, lease, queue, faults>>

Release(w) ==
    /\ pc[w] = "releasing"
    /\ IF holder = w THEN holder' = NoOne /\ left' = 0 ELSE UNCHANGED lease
    /\ Goto(w, "down")
    /\ UNCHANGED <<now, queue, seen, todo, budget>>

(* The next process of this name has a token of its own: it cannot renew.  *)
LeaseOrphaned(w) == holder' = IF holder = w THEN Ghost ELSE holder

ReleaseFails(w) ==
    /\ faults > 0 /\ faults' = faults - 1
    /\ pc[w] = "releasing"
    /\ LeaseOrphaned(w)
    /\ Goto(w, "down")
    /\ UNCHANGED <<now, left, queue, seen, todo, exits>>

Crash(w) ==
    /\ w \notin Steady
    /\ exits > 0 /\ exits' = exits - 1
    /\ Live(w)
    /\ LeaseOrphaned(w)
    /\ Goto(w, "down")
    /\ Forget(w)
    /\ UNCHANGED <<now, left, queue, faults>>

-----------------------------------------------------------------------------
PassStep(w) ==
    \/ TakeLease(w) \/ LeaseTaken(w) \/ Renew(w) \/ RenewRefused(w)
    \/ ReadClock(w) \/ Release(w)
    \/ \E c \in Crons : ScheduleCron(w, c)
    \/ \E T \in SUBSET Overdue : Promote(w, T)

Next ==
    \/ Tick
    \/ \E j \in Jobs, t \in Times : ScheduleAt(j, t)
    \/ \E w \in Workers : \/ Start(w) \/ PassStep(w) \/ PassFails(w)
                          \/ Stop(w) \/ ReleaseFails(w) \/ Crash(w)

Spec == Init /\ [][Next]_vars

(* Redis and the event loops go on, time passes, and a supervisor starts   *)
(* the processes that nobody stopped.                                      *)
FairSpec ==
    /\ Spec
    /\ WF_vars(Tick)
    /\ \A w \in Workers : WF_vars(PassStep(w))
    /\ \A w \in Steady : WF_vars(Start(w))
=============================================================================
