-------------------------- MODULE PublicationProps --------------------------
(***************************************************************************)
(* What the publication of jobs promises.                                  *)
(***************************************************************************)
EXTENDS Publication

(* Type correctness of the publication of jobs (deferred.py, plugin.py).   *)
TypeOK ==
    /\ app \in {"starting", "serving", "stopping", "stopped", "killed"}
    /\ depth \in 0..(Managers + 1)
    /\ queue \in {"none", "connecting", "open"}
    /\ pc \in [Tasks -> {"free", "writing", "renaming", "sending"}]
    /\ job \in [Tasks -> Jobs \cup {NoJob}]
    /\ \A t \in Tasks : pc[t] # "free" => job[t] \in Jobs
    /\ via \in [Tasks -> Units \cup {NoUnit}]
    /\ current \in [Tasks -> Units \cup {NoUnit}]
    /\ blocks \in [Tasks -> Seq(Units)]
    /\ token \in [Units -> Units \cup {NoUnit}]
    /\ unit \in [Units -> {"new", "open", "committed", "rolled back", "discarded",
                           "flushing", "flushed", "failed"}]
    /\ owner \in [Units -> Tasks]
    /\ pending \in [Units -> Seq(Jobs)] /\ buffered \in [Units -> Seq(Jobs)]
    /\ files \in [Jobs -> {"none", "partial", "complete"}]
    /\ stream \in Seq(Jobs) /\ asked \in Seq(Jobs)
    /\ within \in [Jobs -> Units \cup {NoUnit}]
    /\ faults \in 0..MaxFaults

(* A job enqueued in the block of a transaction is in Redis only after     *)
(* that transaction committed; one of a transaction that rolled back never *)
(* is, however blocks nest and requests interleave (deferred.py:1-12,      *)
(* :69-81).                                                                *)
NothingUncommitted ==
    \A j \in Range(stream) :
        within[j] # NoUnit =>
            unit[within[j]] \in {"committed", "flushing", "flushed", "failed"}

(* "A failure part way through must not leave jobs that would be published *)
(* twice by the next flush" (deferred.py:56-57), nor may anything else     *)
(* publish a job twice.                                                     *)
PublishedOnce == \A i, k \in DOMAIN stream : stream[i] = stream[k] => i = k

(* The jobs of one transaction are published "oldest first"                *)
(* (deferred.py:54).                                                        *)
Older(j, k) == \E a, b \in DOMAIN asked : a < b /\ asked[a] = j /\ asked[b] = k
OldestFirst ==
    \A a, b \in DOMAIN stream :
        /\ within[stream[a]] # NoUnit /\ within[stream[a]] = within[stream[b]]
        /\ Older(stream[a], stream[b])
        => a < b

(* A job in Redis whose arguments were offloaded has them complete in the  *)
(* store: no worker reads half a payload or none (payloads.py:45-52,       *)
(* registry.py:225-241).                                                    *)
ReferenceResolves == \A j \in Range(stream) \cap Offloaded : files[j] = "complete"

(* While nothing fails no job is forgotten on its way: one enqueued in the  *)
(* block of a transaction that was not rolled back is still being enqueued, *)
(* buffered, about to be published or in Redis (deferred.py:48-63).         *)
OnTheWay(j) ==
    \/ j \in Range(stream)
    \/ \E t \in Tasks : job[t] = j
    \/ \E u \in Units : j \in Range(pending[u]) \cup Range(buffered[u])
NoneForgotten ==
    \A j \in Range(asked) :
        faults = 0 /\ (within[j] = NoUnit \/ unit[within[j]] \notin {"rolled back", "discarded"})
            => OnTheWay(j)

(* Nobody who may enqueue finds the queue unconnected: neither the         *)
(* managers while they open and close nor a request or its flush           *)
(* (plugin.py:92-95; the error of plugin.py:46-51 is never raised).        *)
AboutToSend ==
    \/ \E t \in Tasks : pc[t] = "sending" /\ via[t] = NoUnit
    \/ \E u \in Units : unit[u] = "flushing" /\ buffered[u] # <<>>
QueueIsThere == AboutToSend => queue = "open"

(* Everything that can go on goes on: the hooks are called, calls and      *)
(* flushes run to their end, the application starts and stops.             *)
Progress(u) == EndTransaction(u) \/ Discard(u) \/ FlushStep(u)
                 \/ (Flush(u) /\ unit[u] = "committed")
FairSpec ==
    /\ Spec
    /\ \A u \in Units : WF_vars(Progress(u))
    /\ \A t \in Tasks : WF_vars(CallStep(t)) /\ WF_vars(LeaveBlock(t))
    /\ WF_vars(Connect \/ Connected \/ OpenManager \/ Serve \/ CloseManager
               \/ Disconnect \/ Stopped)

(* Whatever fails while it opens, a lifespan comes up or is unwound to the *)
(* end, and then the queue is gone (plugin.py:103-156).                     *)
UnwindEnds ==
    app = "starting" ~> app \in {"serving", "killed"} \/ (app = "stopped" /\ queue = "none")
=============================================================================
