--------------------------- MODULE ExecutionProof ---------------------------
(***************************************************************************)
(* Proofs about module Execution, for any waiters and any dependencies:    *)
(* the composition implements each of its parts, and the token that wakes  *)
(* the waiters of a stored result is never out of everyone's reach.        *)
(***************************************************************************)
EXTENDS Execution, DependenciesProof

(* A task with waiters is a task of module Dependencies: what waiters do   *)
(* leaves its boot and its runs alone, and the other way round.            *)
LEMMA StepOfParts == [Next]_vars => [DepNext]_depVars /\ [ResultNext]_resultVars
<1> SUFFICES ASSUME [Next]_vars
             PROVE  [DepNext]_depVars /\ [ResultNext]_resultVars
  OBVIOUS
<1>1. CASE (Boot \/ Run \/ Deliver) /\ UNCHANGED resultVars
  BY <1>1 DEF DepNext, Deliver
<1>2. CASE StoreOutcome
  BY <1>2 DEF StoreOutcome, ResultNext
<1>3. CASE /\ Expire \/ \E w \in Waiters : WaitStep(w) \/ GiveUp(w) \/ Die(w)
           /\ UNCHANGED depVars
  BY <1>3 DEF ResultNext
<1>4. CASE UNCHANGED vars
  BY <1>4 DEF vars
<1> QED
  BY <1>1, <1>2, <1>3, <1>4 DEF Next

(* The composition implements the boot and the runs, and the protocol of   *)
(* the result: whatever holds of a part alone holds of it here             *)
(* (worker._run_one calls both, worker.py:330-393).                        *)
THEOREM PartsImplemented == Spec => DepSpec /\ ResultSpec
<1>1. Init => DepInit /\ ResultInit
  BY DEF Init
<1> QED
  BY <1>1, StepOfParts, PTL DEF Spec, DepSpec, ResultSpec

(* So the plan of a task is sound in the composition too, and its          *)
(* generators are closed in order (di.py).                                 *)
COROLLARY RunsInOrder ==
  Spec => [](PlanSound /\ RefusedForCause /\ ClosesBeforeParts /\ NothingLeftOpen)
BY PartsImplemented, PlansAreSound, RefusalsHaveCause, PartsOutliveWholes, RunsCloseAll, PTL

-----------------------------------------------------------------------------
(* TokenKept.                                                              *)

ResultTypeOK ==
    /\ value \in {"none", "stored", "expired"}
    /\ tokens \in Nat
    /\ lasting \in BOOLEAN
    /\ blocked \in Seq(Waiters)
    /\ wpc \in [Waiters -> {"asking", "told", "unserved", "blocked", "woken",
                            "reading", "gone"}]
    /\ lost \in BOOLEAN

(* What is left of a queue when its first, or any one, leaves.             *)
LEMMA TailFacts ==
  ASSUME NEW S, NEW q \in Seq(S), q # <<>>
  PROVE  /\ Head(q) = q[1] /\ 1 \in DOMAIN q /\ q[1] \in S
         /\ Tail(q) \in Seq(S)
         /\ \A i \in DOMAIN Tail(q) : i + 1 \in DOMAIN q /\ Tail(q)[i] = q[i + 1]
OBVIOUS

LEMMA RemoveAtFacts ==
  ASSUME NEW S, NEW q \in Seq(S), NEW i \in DOMAIN q,
         NEW r, r = RemoveAt(q, i)
  PROVE  /\ r \in Seq(S)
         /\ \A j \in DOMAIN r : IF j < i THEN j \in DOMAIN q /\ r[j] = q[j]
                                         ELSE j + 1 \in DOMAIN q /\ r[j] = q[j + 1]
<1> DEFINE a == SubSeq(q, 1, i - 1)
           b == SubSeq(q, i + 1, Len(q))
<1>1. Len(q) \in Nat /\ i \in 1..Len(q) /\ \A j \in 1..Len(q) : q[j] \in S
  OBVIOUS
<1>2. a = [j \in 1..(i - 1) |-> q[j]]
  BY <1>1
<1>3. a \in Seq(S) /\ Len(a) = i - 1 /\ \A j \in 1..(i - 1) : a[j] = q[j]
  BY <1>1, <1>2
<1>4. b = [j \in 1..(Len(q) - i) |-> q[i + j]]
  BY <1>1
<1>5. b \in Seq(S) /\ Len(b) = Len(q) - i /\ \A j \in 1..(Len(q) - i) : b[j] = q[i + j]
  BY <1>1, <1>4
<1>6. r = a \o b
  BY DEF RemoveAt
<1> HIDE DEF a, b
<1>7. r \in Seq(S) /\ Len(r) = Len(q) - 1
  BY <1>1, <1>3, <1>5, <1>6
<1>8. \A j \in 1..Len(r) : r[j] = IF j < i THEN a[j] ELSE b[j - (i - 1)]
  BY <1>1, <1>3, <1>5, <1>6
<1>9. ASSUME NEW j \in DOMAIN r
      PROVE  IF j < i THEN j \in DOMAIN q /\ r[j] = q[j]
                      ELSE j + 1 \in DOMAIN q /\ r[j] = q[j + 1]
  <2>1. j \in 1..(Len(q) - 1)
    BY <1>7
  <2>2. CASE j < i
    BY <1>1, <1>3, <1>7, <1>8, <2>1, <2>2
  <2>3. CASE ~(j < i)
    <3>1. j - (i - 1) \in 1..(Len(q) - i) /\ i + (j - (i - 1)) = j + 1
      BY <1>1, <2>1, <2>3
    <3>2. j \in 1..Len(r) /\ r[j] = b[j - (i - 1)]
      BY <1>1, <1>7, <1>8, <2>1, <2>3
    <3>3. b[j - (i - 1)] = q[i + (j - (i - 1))]
      BY <1>5, <3>1
    <3>4. j + 1 \in 1..Len(q)
      BY <1>1, <2>1
    <3> QED
      BY <2>3, <3>1, <3>2, <3>3, <3>4
  <2> QED
    BY <2>2, <2>3
<1> QED
  BY <1>7, <1>9

(* Whoever leaves the queue is not in it any more; the others keep their   *)
(* places.                                                                 *)
LEMMA LeaveFacts ==
  ASSUME ResultTypeOK, QueueInOrder, NEW w \in Waiters, Leave(w)
  PROVE  /\ blocked' \in Seq(Waiters)
         /\ \A i \in DOMAIN blocked' : blocked'[i] # w /\ wpc[blocked'[i]] = "blocked"
         /\ \A i, j \in DOMAIN blocked' : blocked'[i] = blocked'[j] => i = j
         /\ blocked' # <<>> => blocked # <<>>
<1>1. CASE wpc[w] # "blocked" /\ UNCHANGED blocked
  BY <1>1 DEF ResultTypeOK, QueueInOrder
<1>2. ASSUME NEW i \in DOMAIN blocked, blocked[i] = w, blocked' = RemoveAt(blocked, i)
      PROVE  /\ blocked' \in Seq(Waiters)
             /\ \A j \in DOMAIN blocked' : blocked'[j] # w /\ wpc[blocked'[j]] = "blocked"
             /\ \A j, k \in DOMAIN blocked' : blocked'[j] = blocked'[k] => j = k
             /\ blocked # <<>>
  <2>0. blocked \in Seq(Waiters)
    BY DEF ResultTypeOK
  <2>1. /\ blocked' \in Seq(Waiters)
        /\ \A j \in DOMAIN blocked' :
               IF j < i THEN j \in DOMAIN blocked /\ blocked'[j] = blocked[j]
                        ELSE j + 1 \in DOMAIN blocked /\ blocked'[j] = blocked[j + 1]
    BY <1>2, <2>0, RemoveAtFacts
  <2>2. i \in Nat /\ \A j \in DOMAIN blocked' : j \in Nat
    BY <2>0, <2>1
  <2>3. /\ \A j \in DOMAIN blocked : wpc[blocked[j]] = "blocked"
        /\ \A j, k \in DOMAIN blocked : blocked[j] = blocked[k] => j = k
    BY DEF QueueInOrder
  <2>4. ASSUME NEW j \in DOMAIN blocked'
        PROVE  blocked'[j] # w /\ wpc[blocked'[j]] = "blocked"
    BY <1>2, <2>1, <2>2, <2>3
  <2>5. ASSUME NEW j \in DOMAIN blocked', NEW k \in DOMAIN blocked',
               blocked'[j] = blocked'[k]
        PROVE  j = k
    BY <2>1, <2>2, <2>3, <2>5
  <2> QED
    BY <2>0, <2>1, <2>4, <2>5
<1> QED
  BY <1>1, <1>2 DEF Leave

(* The token keeps its place with whoever waits: a push serves the queue   *)
(* before the list, a waiter that was woken puts it back.                  *)
ResultInv == ResultTypeOK /\ QueueInOrder /\ TokenKept

LEMMA ResultInvInit == ResultInit => ResultInv
<1> SUFFICES ASSUME ResultInit PROVE ResultInv
  OBVIOUS
<1>1. blocked = <<>> /\ blocked \in Seq(Waiters) /\ DOMAIN blocked = {}
  BY DEF ResultInit
<1>2. wpc \in [Waiters -> {"asking", "told", "unserved", "blocked", "woken",
                           "reading", "gone"}]
  BY DEF ResultInit
<1>3. value = "none" /\ tokens = 0 /\ lasting = FALSE /\ lost = FALSE
  BY DEF ResultInit
<1> QED
  BY <1>1, <1>2, <1>3 DEF ResultInv, ResultTypeOK, QueueInOrder, TokenKept

(* A push: to the list when nobody waits, to the first in the queue else.  *)
LEMMA PushKeeps ==
  ASSUME ResultInv, NEW t \in BOOLEAN, Push(t)
  PROVE  /\ tokens' \in Nat /\ lasting' \in BOOLEAN /\ blocked' \in Seq(Waiters)
         /\ wpc' \in [Waiters -> {"asking", "told", "unserved", "blocked", "woken",
                                  "reading", "gone"}]
         /\ QueueInOrder'
         /\ tokens' > 0 \/ \E w \in Waiters : wpc'[w] = "woken"
<1> USE DEF ResultInv, ResultTypeOK
<1>1. CASE blocked = <<>>
  BY <1>1 DEF Push, QueueInOrder
<1>2. CASE blocked # <<>>
  <2>1. /\ blocked' = Tail(blocked) /\ wpc' = [wpc EXCEPT ![Head(blocked)] = "woken"]
        /\ UNCHANGED <<tokens, lasting>>
    BY <1>2 DEF Push, Goto
  <2>2. /\ Head(blocked) = blocked[1] /\ 1 \in DOMAIN blocked /\ blocked[1] \in Waiters
        /\ Tail(blocked) \in Seq(Waiters)
        /\ \A i \in DOMAIN Tail(blocked) :
               i + 1 \in DOMAIN blocked /\ Tail(blocked)[i] = blocked[i + 1]
    BY <1>2, TailFacts
  <2>3. \A i \in DOMAIN blocked' : i \in Nat \ {0} /\ blocked'[i] \in Waiters
    BY <2>1, <2>2
  <2>4. ASSUME NEW i \in DOMAIN blocked' PROVE wpc'[blocked'[i]] = "blocked"
    <3>1. i + 1 \in DOMAIN blocked /\ blocked'[i] = blocked[i + 1] /\ i + 1 # 1
      BY <2>1, <2>2, <2>3
    <3>2. blocked[i + 1] # blocked[1] /\ wpc[blocked[i + 1]] = "blocked"
      BY <2>2, <3>1 DEF QueueInOrder
    <3> QED
      BY <2>1, <2>2, <2>3, <3>1, <3>2
  <2>5. ASSUME NEW i \in DOMAIN blocked', NEW j \in DOMAIN blocked',
               blocked'[i] = blocked'[j]
        PROVE  i = j
    <3>1. i + 1 = j + 1
      BY <2>1, <2>2, <2>5 DEF QueueInOrder
    <3> QED
      BY <2>3, <3>1
  <2>6. tokens' = 0
    BY <1>2, <2>1 DEF QueueInOrder
  <2>7. wpc'[Head(blocked)] = "woken"
    BY <2>1, <2>2
  <2> QED
    BY <2>1, <2>2, <2>4, <2>5, <2>6, <2>7 DEF QueueInOrder
<1> QED
  BY <1>1, <1>2

LEMMA ResultInvStep == ResultInv /\ [ResultNext]_resultVars => ResultInv'
<1> SUFFICES ASSUME ResultInv, [ResultNext]_resultVars
             PROVE  ResultInv'
  OBVIOUS
<1> USE DEF ResultInv, ResultTypeOK
<1>1. CASE Store
  <2>1. Push(TRUE) /\ value' = "stored" /\ lost' = FALSE
    BY <1>1 DEF Store
  <2> QED
    BY <2>1, PushKeeps DEF TokenKept
<1>2. CASE Expire
  BY <1>2 DEF Expire, QueueInOrder, TokenKept
<1>3. ASSUME NEW w \in Waiters, Ask(w) \/ Read(w) PROVE ResultInv'
  <2>1. /\ UNCHANGED <<value, tokens, lasting, blocked, lost>>
        /\ wpc[w] \in {"asking", "reading"}
        /\ \E l \in {"told", "unserved", "gone"} : wpc' = [wpc EXCEPT ![w] = l]
    BY <1>3 DEF Ask, Read, Goto
  <2>2. QueueInOrder'
    BY <2>1 DEF QueueInOrder
  <2> QED
    BY <2>1, <2>2 DEF TokenKept
<1>4. ASSUME NEW w \in Waiters, Pop(w) PROVE ResultInv'
  <2>1. CASE tokens > 0
    <3>1. blocked = <<>>
      BY <2>1 DEF QueueInOrder
    <3>2. /\ tokens' = tokens - 1 /\ lasting' \in BOOLEAN /\ wpc' = [wpc EXCEPT ![w] = "woken"]
          /\ UNCHANGED <<blocked, value, lost>>
      BY <1>4, <2>1 DEF Pop, Goto
    <3>3. tokens' \in Nat /\ wpc'[w] = "woken"
      BY <2>1, <3>2
    <3> QED
      BY <3>1, <3>2, <3>3 DEF QueueInOrder, TokenKept
  <2>2. CASE ~(tokens > 0)
    <3>1. /\ tokens = 0 /\ wpc[w] = "unserved"
          /\ blocked' = Append(blocked, w) /\ wpc' = [wpc EXCEPT ![w] = "blocked"]
          /\ UNCHANGED <<tokens, lasting, value, lost>>
      BY <1>4, <2>2 DEF Pop, Goto
    <3>2. /\ blocked' \in Seq(Waiters)
          /\ \A i \in DOMAIN blocked' :
                 \/ i \in DOMAIN blocked /\ blocked'[i] = blocked[i] /\ blocked[i] \in Waiters
                 \/ i = Len(blocked) + 1 /\ blocked'[i] = w
      BY <3>1
    <3>3. \A i \in DOMAIN blocked : wpc[blocked[i]] = "blocked" /\ blocked[i] # w
      BY <3>1 DEF QueueInOrder
    <3>4. QueueInOrder'
      BY <3>1, <3>2, <3>3 DEF QueueInOrder
    <3>5. \A v \in Waiters : wpc[v] = "woken" => wpc'[v] = "woken"
      BY <3>1
    <3>6. TokenKept'
      BY <3>1, <3>5 DEF TokenKept
    <3> QED
      BY <3>1, <3>2, <3>4, <3>6
  <2> QED
    BY <2>1, <2>2
<1>5. ASSUME NEW w \in Waiters, PutBack(w) PROVE ResultInv'
  <2>1. wpc[w] = "woken" /\ UNCHANGED <<value, lost>>
    BY <1>5 DEF PutBack
  <2>2. CASE blocked = <<>>
    <3>1. /\ tokens' = tokens + 1 /\ lasting' \in BOOLEAN
          /\ wpc' = [wpc EXCEPT ![w] = "reading"] /\ UNCHANGED blocked
      BY <1>5, <2>2 DEF PutBack, Goto
    <3> QED
      BY <2>1, <2>2, <3>1 DEF QueueInOrder, TokenKept
  <2>3. CASE blocked # <<>>
    <3>1. /\ blocked' = Tail(blocked)
          /\ wpc' = [wpc EXCEPT ![w] = "reading", ![Head(blocked)] = "woken"]
          /\ UNCHANGED <<tokens, lasting>>
      BY <1>5, <2>3 DEF PutBack
    <3>2. /\ Head(blocked) = blocked[1] /\ 1 \in DOMAIN blocked /\ blocked[1] \in Waiters
          /\ Tail(blocked) \in Seq(Waiters)
          /\ \A i \in DOMAIN Tail(blocked) :
                 i + 1 \in DOMAIN blocked /\ Tail(blocked)[i] = blocked[i + 1]
      BY <2>3, TailFacts
    <3>3. \A i \in DOMAIN blocked' : i \in Nat \ {0} /\ blocked'[i] \in Waiters
      BY <3>1, <3>2
    <3>4. ASSUME NEW i \in DOMAIN blocked' PROVE wpc'[blocked'[i]] = "blocked"
      <4>1. i + 1 \in DOMAIN blocked /\ blocked'[i] = blocked[i + 1] /\ i + 1 # 1
        BY <3>1, <3>2, <3>3
      <4>2. blocked[i + 1] # blocked[1] /\ wpc[blocked[i + 1]] = "blocked"
        BY <3>2, <4>1 DEF QueueInOrder
      <4>3. blocked[i + 1] # w
        BY <2>1, <4>2
      <4> QED
        BY <3>1, <3>2, <3>3, <4>1, <4>2, <4>3
    <3>5. ASSUME NEW i \in DOMAIN blocked', NEW j \in DOMAIN blocked',
                 blocked'[i] = blocked'[j]
          PROVE  i = j
      <4>1. i + 1 = j + 1
        BY <3>1, <3>2, <3>5 DEF QueueInOrder
      <4> QED
        BY <3>3, <4>1
    <3>6. tokens' = 0
      BY <2>3, <3>1 DEF QueueInOrder
    <3>7. wpc'[Head(blocked)] = "woken"
      BY <3>1, <3>2
    <3> QED
      BY <2>1, <3>1, <3>2, <3>4, <3>5, <3>6, <3>7 DEF QueueInOrder, TokenKept
  <2> QED
    BY <2>2, <2>3
<1>6. ASSUME NEW w \in Waiters, GiveUp(w) \/ Die(w) PROVE ResultInv'
  <2>1. /\ Leave(w) /\ wpc' = [wpc EXCEPT ![w] = "gone"]
        /\ UNCHANGED <<value, tokens, lasting>>
        /\ lost' \in BOOLEAN
    BY <1>6 DEF GiveUp, Die, Goto
  <2>2. /\ blocked' \in Seq(Waiters)
        /\ \A i \in DOMAIN blocked' : blocked'[i] # w /\ wpc[blocked'[i]] = "blocked"
        /\ \A i, j \in DOMAIN blocked' : blocked'[i] = blocked'[j] => i = j
        /\ blocked' # <<>> => blocked # <<>>
    BY <2>1, LeaveFacts
  <2>3. \A i \in DOMAIN blocked' : blocked'[i] \in Waiters
    BY <2>2
  <2>4. QueueInOrder'
    BY <2>1, <2>2, <2>3 DEF QueueInOrder
  <2>5. TokenKept'
    <3>1. wpc[w] = "woken" => lost'
      BY <1>6 DEF GiveUp, Die
    <3>2. lost => lost'
      BY <1>6 DEF GiveUp, Die
    <3>3. \A v \in Waiters : v # w /\ wpc[v] = "woken" => wpc'[v] = "woken"
      BY <2>1
    <3> QED
      BY <2>1, <3>1, <3>2, <3>3 DEF TokenKept
  <2> QED
    BY <2>1, <2>2, <2>4, <2>5
<1>7. CASE UNCHANGED resultVars
  BY <1>7 DEF resultVars, QueueInOrder, TokenKept
<1> QED
  BY <1>1, <1>2, <1>3, <1>4, <1>5, <1>6, <1>7 DEF ResultNext, WaitStep

(* However many wait, give up or ask late, and however often the result is *)
(* stored or expires: once it is there, a token is in the list or with a   *)
(* waiter about to put it back, unless its holder died (results.py:67-75). *)
THEOREM TokenIsKept == Spec => []TokenKept
<1>1. ResultSpec => []ResultInv
  BY ResultInvInit, ResultInvStep, PTL DEF ResultSpec
<1>2. ResultInv => TokenKept
  BY DEF ResultInv
<1> QED
  BY <1>1, <1>2, PartsImplemented, PTL
=============================================================================
