--------------------------- MODULE SchedulerProps ---------------------------
(***************************************************************************)
(* What the scheduler of module Scheduler promises.                        *)
(***************************************************************************)
EXTENDS Scheduler

(* A delayed job, and an occurrence of a cron job, is appended to its       *)
(* stream at most once, whoever scheduled it and however often              *)
(* (scheduler.py:94-99, cron.py:65-71, promote.lua).  It takes that nobody  *)
(* puts an occurrence back after it was promoted.                           *)
AtMostOnce == \A m \in Members : moved[m] <= 1

(* Only the holder of the lease makes a pass: neither the process it        *)
(* replaced nor the next one of its own name leads on an old token          *)
(* (scheduler.py:122-138, renew_leader.lua, release_leader.lua).            *)
LeaderHoldsLease == \A w \in Workers : Leading(w) => holder = w

(* When a pass comes to promote, the next occurrence of every cron job is   *)
(* on the clock, those after a job with no occurrence left included         *)
(* (scheduler.py:100-110).                                                   *)
NextIsArmed == \A w \in Workers : pc[w] = "promote" =>
    \A c \in Crons : \A f \in FiresOf[c] :
        IsNext(c, now, f) => due[<<c, f>>] # NoTime

(* A live leader keeps the lease from pass to pass, a failed pass included: *)
(* leadership does not flap (worker.py:77-82, scheduler.py:128-134).        *)
LeadershipIsStable ==
    [][\A w \in Workers : holder = w /\ Working(w) /\ Working(w)' => holder' = w]_vars

(* Late rather than lost: what is on the clock reaches its stream, whoever  *)
(* dies with it half done (scheduling.md:70-73; worker.py:600-610).         *)
LateNotLost ==
    \A m \in Members : due[m] # NoTime ~> moved[m] > 0

(* With one worker up, an occurrence far enough ahead is not skipped: the   *)
(* lease of a dead leader lapses, and a new leader arms the occurrence      *)
(* before its instant.  Slack is the longest the group can be without a     *)
(* pass: a lease per exit, a tick per fault, and the tick of a start.      *)
Slack == Ttl * MaxExits + MaxFaults + 1
NoneSkipped ==
    \A w \in Steady, c \in Crons : \A f \in FiresOf[c] :
        Working(w) /\ now + Slack < f ~> moved[<<c, f>>] > 0

-----------------------------------------------------------------------------
(* Why AtMostOnce, LeaderHoldsLease and NextIsArmed hold while nobody       *)
(* stalls: the inductive invariant of SchedulerProof.                       *)
(***************************************************************************)

(* What was promoted is off the clock, and an occurrence was promoted no    *)
(* earlier than its instant: an instant still to come is not used up.       *)
PromotedIsOver == \A m \in Members : moved[m] > 0 => due[m] = NoTime
OccurrenceOnTime == \A o \in Occurrences :
    /\ due[o] \in {o[2], NoTime}
    /\ moved[o] > 0 => o[2] <= now

(* The time a pass has read is still the time when it uses it.              *)
SeenIsNow == \A w \in Workers : pc[w] = "cron" => seen[w] = now

(* Every cron job the pass is done with has its next occurrence waiting.    *)
PassArms == \A w \in Workers :
    /\ pc[w] # "cron" => todo[w] = {}
    /\ pc[w] \in {"cron", "promote"} =>
           \A c \in Crons \ todo[w] : \A f \in FiresOf[c] :
               IsNext(c, now, f) => due[<<c, f>>] # NoTime

(* The inductive invariant: passes are made on a current time, by the       *)
(* holder of the lease, and what is armed lies ahead (worker.py:600-610,    *)
(* scheduler.py:94-134, promote.lua).                                       *)
ScheduleInv ==
    /\ AtMostOnce
    /\ PromotedIsOver
    /\ OccurrenceOnTime
    /\ SeenIsNow
    /\ PassArms
    /\ LeaderHoldsLease

(* Why LeadershipIsStable holds while nobody stalls and fewer commands fail *)
(* than the lease outlasts its renewals: a leader gives away one tick per   *)
(* pass that failed before it renewed (inductive; see SchedulerProof), and  *)
(* a process that is down has left no lease under its token.                *)
Failed == MaxFaults - faults
LeaseIsFresh == \A w \in Workers :
    /\ pc[w] = "down" => holder # w
    /\ holder = w =>
          /\ Leading(w) => left = Ttl
          /\ pc[w] = "asleep" => left + Failed >= Ttl
          /\ pc[w] \in {"top", "renewing"} => left + Failed + 1 >= Ttl
=============================================================================
