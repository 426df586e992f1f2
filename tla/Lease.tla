------------------------------- MODULE Lease -------------------------------
(***************************************************************************)
(* What a consumer group promises about each entry, with no word about how: *)
(* an entry is held by at most one worker at a time, whoever holds it may   *)
(* lose it at any moment, only its holder settles it as done, and it is     *)
(* given up as dead only after more than MaxDeliveries tries and only while *)
(* nobody holds it.  Module Delivery implements this with stream entries,   *)
(* alive keys and reclaim.                                                  *)
(***************************************************************************)
EXTENDS Naturals

CONSTANTS Entries, Workers, NoOne, MaxDeliveries

VARIABLES
    phase,      \* absent, waiting, held, done or dead
    holder,     \* who holds it
    tries       \* how often it was handed to some worker, as far as it matters

vars == <<phase, holder, tries>>

Most == MaxDeliveries + 2

Init ==
    /\ phase = [e \in Entries |-> "absent"]
    /\ holder = [e \in Entries |-> NoOne]
    /\ tries = [e \in Entries |-> 0]

Arrive(e) ==
    /\ phase[e] = "absent"
    /\ phase' = [phase EXCEPT ![e] = "waiting"]
    /\ UNCHANGED <<holder, tries>>

(* Entries are handed out one or several at a time; that counts, whether    *)
(* or not a worker gets to run them.                                        *)
Try(S) ==
    /\ \A e \in S : phase[e] = "waiting"
    /\ tries' = [e \in Entries |->
                    IF e \in S /\ tries[e] < Most THEN tries[e] + 1 ELSE tries[e]]
    /\ UNCHANGED <<phase, holder>>

(* Nobody is given an entry that was never tried, or too often.             *)
Hold(w, S) ==
    /\ \A e \in S : phase[e] = "waiting" /\ tries[e] \in 1..(MaxDeliveries + 1)
    /\ phase' = [e \in Entries |-> IF e \in S THEN "held" ELSE phase[e]]
    /\ holder' = [e \in Entries |-> IF e \in S THEN w ELSE holder[e]]
    /\ UNCHANGED tries

(* A crash, a cancellation or a failure takes entries away from a worker.   *)
Lose(w, S) ==
    /\ \A e \in S : phase[e] = "held" /\ holder[e] = w
    /\ phase' = [e \in Entries |-> IF e \in S THEN "waiting" ELSE phase[e]]
    /\ holder' = [e \in Entries |-> IF e \in S THEN NoOne ELSE holder[e]]
    /\ UNCHANGED tries

Settle(e, how) ==
    /\ phase' = [phase EXCEPT ![e] = how]
    /\ holder' = [holder EXCEPT ![e] = NoOne]
    /\ tries' = [tries EXCEPT ![e] = 0]

Finish(e) ==
    /\ phase[e] = "held"
    /\ Settle(e, "done")

GiveUp(e) ==
    /\ phase[e] = "waiting" /\ tries[e] > MaxDeliveries
    /\ Settle(e, "dead")

Next ==
    \/ \E e \in Entries : Arrive(e) \/ Finish(e) \/ GiveUp(e)
    \/ \E S \in SUBSET Entries : Try(S)
    \/ \E w \in Workers, S \in SUBSET Entries : Hold(w, S) \/ Lose(w, S)

Spec == Init /\ [][Next]_vars
=============================================================================
