------------------------------ MODULE JobProps ------------------------------
(***************************************************************************)
(* What becomes of jobs: the properties of module Job.                     *)
(***************************************************************************)
EXTENDS Job

OnOffer(j)   == \E s \in Slots : present[s] /\ JobOf(s) = j
OnTheClock(j) == \E c \in sched : c.job = j
Buried(j)    == \E r \in Reasons : <<j, r>> \in dlq
Traceable(j) == OnOffer(j) \/ OnTheClock(j) \/ j \in completed \/ Buried(j)

(* At least once (design.md:8): a job without a deduplication key that was  *)
(* enqueued is always in a stream, on the clock or in the dead letter       *)
(* stream, unless its handler has returned.  A crash, a lost reply or a     *)
(* failure of the failure path between any two commands leaves a trace of   *)
(* it (worker.py:461-504: schedule or bury first, then ack).                *)
NoJobLost == \A j \in asked : KeyOf[j] = NoKey => Traceable(j)

(* Why: nothing is acknowledged before something else stands for the job.   *)
(* An entry whose acknowledgement is due no longer counts (inductive; see   *)
(* JobProof).                                                               *)
Kept(j) == \E s \in Slots : present[s] /\ JobOf(s) = j /\ pc[s] # "acking"
HandedOver ==
    /\ \A s \in Slots : pc[s] = "returned" => JobOf(s) \in completed
    /\ \A j \in asked : KeyOf[j] = NoKey =>
           Kept(j) \/ OnTheClock(j) \/ j \in completed \/ Buried(j)

(* The same for jobs with a key, one of which may stand for all that share  *)
(* it: "delivery is at-least-once" (design.md:8), the key only stops        *)
(* duplicates (results.md:80).                                              *)
KeyedWorkNotLost ==
    \A j \in asked : \E i \in Jobs :
        (i = j \/ (KeyOf[i] = KeyOf[j] /\ KeyOf[j] # NoKey)) /\ Traceable(i)

(* The gate: under one key, at most one handler is started while the key    *)
(* lives, whatever is duplicated by crashes, retries or producers           *)
(* (_may_run, worker.py:331).                                               *)
OncePerKey == \A k \in Keys : gateRuns[k] <= 1

(* Why: a handler was started under a key only if the key is still there    *)
(* (inductive; see JobProof).                                               *)
GateHeld == \A k \in Keys : gateRuns[k] <= 1 /\ (gateRuns[k] > 0 => k \in gates)

(* A waiter is never left in the dark about a job that was buried for its   *)
(* attempts: its result was stored before (worker.py:391, results.md:55).   *)
WaiterTold ==
    \A j \in Waited : <<j, "max_attempts">> \in dlq => result[j] # "none"

(* Why: the result is there before the burial begins, and a second entry of *)
(* the job only ever replaces it (inductive; see JobProof).                 *)
ToldBeforeBurial ==
    /\ \A s \in Slots :
           pc[s] = "burying" /\ why[s] = "max_attempts" /\ JobOf(s) \in Waited
               => result[JobOf(s)] # "none"
    /\ WaiterTold

(* retries.md:10: `attempt` counts application failures.  A job is buried   *)
(* for max_attempts only after that many: crashes, redeliveries and the     *)
(* hand-backs of an unknown task use up none, though a failed command of    *)
(* _run_one does (worker.py:297).                                           *)
AttemptsAccounted ==
    \A j \in Jobs : <<j, "max_attempts">> \in dlq =>
        raised[j] + (MaxFaults - faults) >= MaxAttempts

(* Why: wherever the counter of a job travels, in a scheduled copy or in    *)
(* an envelope, it never says more than was spent on the job, and a task    *)
(* that is failing has one more failure behind it (inductive; see JobProof).*)
Spent(j) == raised[j] + (MaxFaults - faults)
AttemptsPaid ==
    /\ \A c \in sched : c.attempt <= Spent(c.job)
    /\ \A s \in Slots :
           /\ env[s].attempt <= Spent(JobOf(s))
           /\ pc[s] = "failed" => env[s].attempt + 1 <= Spent(JobOf(s))
           /\ pc[s] = "burying" /\ why[s] = "max_attempts"
                  => MaxAttempts <= Spent(JobOf(s))
    /\ AttemptsAccounted

(* Every job ends: after any mixture of failures, hand-backs, lost tasks    *)
(* and retries it is neither in a stream nor on the clock any more.  With   *)
(* NoJobLost: its handler has returned, or it is in the dead letter stream. *)
JobEnds == \A j \in Jobs : j \in asked ~> ~OnOffer(j) /\ ~OnTheClock(j)
=============================================================================
