------------------------------- MODULE Results -------------------------------
(***************************************************************************)
(* The result of one job and those who wait for it (core/results.py): a    *)
(* value with a TTL, and a list that holds a wake-up token.  A waiter asks  *)
(* for the value, blocks on the list, puts the token it popped back for     *)
(* the next one and asks again.  Redis serves blocked clients in the order  *)
(* they came, after the command or the transaction that pushed.             *)
(***************************************************************************)
EXTENDS Naturals, Sequences, SequencesExt

CONSTANTS Waiters, \* the calls of wait() for the job
          Hasty,   \* those whose timeout may pass
          Mortal,  \* those that may die, or lose the connection, half way
          MaxStores \* bound: how often the result is stored

ASSUME WaitersAssumption ==
  Hasty \subseteq Waiters /\ Mortal \subseteq Waiters /\ MaxStores \in Nat

VARIABLES
  value,   \* the result key
  tokens,  \* the length of the list
  lasting, \* the list exists and has no TTL
  blocked, \* the clients blocked in BLPOP, oldest first
  wpc,     \* where each waiter is
  stores,  \* how often the result was stored
  lost     \* a waiter died with the last token in its hands, since the last store

resultVars == <<value, tokens, lasting, blocked, wpc, stores, lost>>

ResultInit ==
    /\ value = "none" /\ tokens = 0 /\ lasting = FALSE /\ blocked = <<>>
    /\ wpc = [w \in Waiters |-> "asking"]
    /\ stores = 0 /\ lost = FALSE

Goto(w, l) == wpc' = [wpc EXCEPT ![w] = l]

(* One element is pushed: the oldest blocked client takes it at once.  A   *)
(* list that Redis empties is removed, with its TTL.                        *)
Push(expires) ==
    IF blocked = <<>>
    THEN /\ tokens' = tokens + 1
         /\ lasting' = (~expires /\ (tokens = 0 \/ lasting))
         /\ UNCHANGED <<blocked, wpc>>
    ELSE /\ blocked' = Tail(blocked)
         /\ Goto(Head(blocked), "woken")
         /\ UNCHANGED <<tokens, lasting>>

(* Wrong on purpose: the value is set, and nobody is woken.                 *)
StoreSilently ==
    /\ stores < MaxStores
    /\ value' = "stored" /\ stores' = stores + 1
    /\ UNCHANGED <<tokens, lasting, blocked, wpc, lost>>

(* store: the value, the token and the TTL of both, in one transaction.    *)
Store ==
    /\ stores < MaxStores
    /\ value' = "stored" /\ stores' = stores + 1
    /\ Push(TRUE)
    /\ lost' = FALSE

(* The value and a list stored with it expire together; a list put back    *)
(* after that stays.                                                        *)
Expire ==
    /\ value = "stored"
    /\ value' = "expired"
    /\ tokens' = IF lasting THEN tokens ELSE 0
    /\ UNCHANGED <<lasting, blocked, wpc, stores, lost>>

Ask(w) ==
    /\ wpc[w] = "asking"
    /\ Goto(w, IF value = "stored" THEN "told" ELSE "unserved")
    /\ UNCHANGED <<value, tokens, lasting, blocked, stores, lost>>

(* BLPOP                                                                    *)
Pop(w) ==
    /\ wpc[w] = "unserved"
    /\ IF tokens > 0
       THEN /\ tokens' = tokens - 1 /\ lasting' = (lasting /\ tokens > 1)
            /\ Goto(w, "woken") /\ UNCHANGED blocked
       ELSE /\ blocked' = Append(blocked, w)
            /\ Goto(w, "blocked") /\ UNCHANGED <<tokens, lasting>>
    /\ UNCHANGED <<value, stores, lost>>

(* Redis forgets a client that is blocked when it leaves.                   *)
Leave(w) ==
    \/ wpc[w] # "blocked" /\ UNCHANGED blocked
    \/ \E i \in DOMAIN blocked : blocked[i] = w /\ blocked' = RemoveAt(blocked, i)

GiveUp(w) ==
    /\ w \in Hasty /\ wpc[w] = "blocked"
    /\ Leave(w)
    /\ Goto(w, "gone")
    /\ UNCHANGED <<value, tokens, lasting, stores, lost>>

(* Wrong on purpose: the first waiter keeps the token.                      *)
PutBackNever(w) ==
    /\ wpc[w] = "woken"
    /\ Goto(w, "reading")
    /\ UNCHANGED <<value, tokens, lasting, blocked, stores, lost>>

(* RPUSH; the list it creates anew has no TTL.                              *)
PutBack(w) ==
    /\ wpc[w] = "woken"
    /\ IF blocked = <<>>
       THEN /\ tokens' = tokens + 1 /\ lasting' = (lasting \/ tokens = 0)
            /\ Goto(w, "reading") /\ UNCHANGED blocked
       ELSE /\ blocked' = Tail(blocked)
            /\ wpc' = [wpc EXCEPT ![w] = "reading", ![Head(blocked)] = "woken"]
            /\ UNCHANGED <<tokens, lasting>>
    /\ UNCHANGED <<value, stores, lost>>

Read(w) ==
    /\ wpc[w] = "reading"
    /\ Goto(w, IF value = "stored" THEN "told" ELSE "gone")
    /\ UNCHANGED <<value, tokens, lasting, blocked, stores, lost>>

(* The process of a waiter dies, or a command of it fails.                  *)
Die(w) ==
    /\ w \in Mortal /\ wpc[w] \in {"unserved", "blocked", "woken", "reading"}
    /\ lost' = (lost \/ wpc[w] = "woken")
    /\ Leave(w)
    /\ Goto(w, "gone")
    /\ UNCHANGED <<value, tokens, lasting, stores>>

WaitStep(w) == Ask(w) \/ Pop(w) \/ PutBack(w) \/ Read(w)
ResultNext == Store \/ Expire \/ \E w \in Waiters : WaitStep(w) \/ GiveUp(w) \/ Die(w)
ResultSpec == ResultInit /\ [][ResultNext]_resultVars
=============================================================================
