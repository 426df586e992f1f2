------------------------------ MODULE Execution ------------------------------
(***************************************************************************)
(* A task and the callers who wait for the result of one of its jobs: the  *)
(* boot of module Dependencies, its runs, the result the worker stores     *)
(* after a run, and the waiters of module Results.                          *)
(***************************************************************************)
EXTENDS Dependencies, Results

vars == <<depVars, resultVars>>

Init == DepInit /\ ResultInit

(* worker._run_one: a cancelled run leaves its job for another delivery.   *)
StoreOutcome ==
    /\ phase = "over" /\ outcome # "cancelled" /\ stores < runs
    /\ Store
    /\ UNCHANGED depVars

(* A job id to wait for exists once the application is up.                 *)
Up == phase \notin {"declared", "planning", "refused"}

Deliver == Begin(TRUE) \/ Begin(FALSE)

Next ==
    \/ (Boot \/ Run \/ Deliver) /\ UNCHANGED resultVars
    \/ StoreOutcome
    \/ Up /\ (Expire \/ \E w \in Waiters : WaitStep(w) \/ GiveUp(w) \/ Die(w))
          /\ UNCHANGED depVars

Spec == Init /\ [][Next]_vars

(* Boot and a run are straight-line code; a waiter runs on when it can.    *)
FairSpec ==
    /\ Spec
    /\ WF_vars(Boot /\ UNCHANGED resultVars)
    /\ WF_vars(Run /\ UNCHANGED resultVars)
    /\ \A w \in Waiters : WF_vars(Up /\ WaitStep(w) /\ UNCHANGED depVars)

(* Once a result is there, the token that wakes the waiters is in the list *)
(* or with a waiter about to put it back, unless that one died             *)
(* (results.py:67-75).                                                     *)
TokenKept ==
    value = "stored" /\ ~lost => tokens > 0 \/ \E w \in Waiters : wpc[w] = "woken"

(* Why: a token never lies beside clients who wait for one, and whoever is  *)
(* in the queue waits there once (inductive; see ExecutionProof).           *)
QueueInOrder ==
    /\ \A i \in DOMAIN blocked : wpc[blocked[i]] = "blocked"
    /\ \A i, j \in DOMAIN blocked : blocked[i] = blocked[j] => i = j
    /\ blocked # <<>> => tokens = 0

(* The graph is visited to its end, whatever it is.                         *)
BootEnds == <>(phase \in {"refused", "bound"})

(* Whoever blocks for a result that is there is answered, whatever the     *)
(* order of the others' steps, unless a token died with its holder         *)
(* (results.py:65, "so several waiters on one job all wake").              *)
AllWake ==
    \A w \in Waiters \ Mortal :
        value = "stored" /\ wpc[w] = "blocked" ~> wpc[w] # "blocked" \/ lost
=============================================================================
