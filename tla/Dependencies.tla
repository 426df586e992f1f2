---------------------------- MODULE Dependencies ----------------------------
(***************************************************************************)
(* One task of a Litestar application, from boot to its runs.  At boot its *)
(* signature is bound and the providers it needs are ordered by a depth-   *)
(* first visit (registry._bind, di.plan_dependencies).  A run decodes the  *)
(* payload, resolves the providers in that order, calls the task and       *)
(* closes the generators it started (registry.execute, di.resolved).       *)
(*                                                                         *)
(* The parameters of a callable are a set, visited in any order.  Those    *)
(* that name no dependency and have a default are skipped by the code and  *)
(* left out; "task needs an unknown dependency" (di.py:77-82) cannot       *)
(* happen, since only names found in the dependencies are visited.         *)
(***************************************************************************)
EXTENDS Naturals, Sequences, FiniteSets

CONSTANTS Keys,       \* the dependencies the application provides
          Generators, \* those whose provider is a generator
          MaxRuns     \* bound: deliveries of the job

ASSUME KeysAssumption == Generators \subseteq Keys /\ MaxRuns \in Nat

VARIABLES
  takes,     \* the dependencies each provider takes as parameters
  requests,  \* the providers that also take what only a request supplies
  task,      \* the signature of the task
  phase,     \* where the program is
  todo,      \* required: the dependencies of the task still to visit
  visiting,  \* the frames of visit, innermost last
  arguments, \* the dependencies visited to the end, and what they take
  order,     \* plan.order
  at,        \* how many of plan.order are resolved
  started,   \* the generators started and not closed, oldest first
  closed,    \* those closed in this run
  outcome,   \* how the call went
  abandoned, \* a teardown of this run raised
  runs       \* deliveries so far

graph == <<takes, requests, task>>
plan  == <<todo, visiting, arguments, order>>
run   == <<at, started, closed, outcome, abandoned, runs>>
depVars == <<graph, phase, plan, run>>

(* A task is unfit when a parameter that is no dependency has no           *)
(* annotation, or a synchronous function has a timeout.                     *)
Signatures == [wants : SUBSET Keys, unfit : BOOLEAN]
Frames  == [key : Keys, left : SUBSET Keys, needed : SUBSET Keys]
Phases  == {"declared", "planning", "refused", "bound", "resolving",
            "entering", "calling", "closing", "over"}
Planned == DOMAIN arguments
Path    == {visiting[i].key : i \in DOMAIN visiting}
Top     == visiting[Len(visiting)]

DepInit ==
    /\ takes \in [Keys -> SUBSET Keys] /\ requests \in SUBSET Keys
    /\ task \in Signatures
    /\ phase = "declared"
    /\ todo = {} /\ visiting = <<>> /\ arguments = [k \in {} |-> {}] /\ order = <<>>
    /\ at = 0 /\ started = <<>> /\ closed = {} /\ outcome = "none"
    /\ abandoned = FALSE /\ runs = 0

-----------------------------------------------------------------------------
(* Boot                                                                    *)

Refuse == phase' = "refused" /\ UNCHANGED <<graph, plan, run>>

BindRefused == phase = "declared" /\ task.unfit /\ Refuse

(* Wrong on purpose: every dependency is planned, needed or not.            *)
BindAll ==
    /\ phase = "declared" /\ ~task.unfit
    /\ phase' = "planning"
    /\ todo' = Keys
    /\ UNCHANGED <<graph, visiting, arguments, order, run>>

Bind ==
    /\ phase = "declared" /\ ~task.unfit
    /\ phase' = "planning"
    /\ todo' = task.wants
    /\ UNCHANGED <<graph, visiting, arguments, order, run>>

(* The parameter the innermost visit, or the loop over required, looks at. *)
LooksAt(k) ==
    /\ phase = "planning"
    /\ IF visiting = <<>> THEN k \in todo ELSE k \in Top.left

Looked(k) == [key |-> Top.key, left |-> Top.left \ {k}, needed |-> Top.needed \cup {k}]

(* Wrong on purpose: a dependency planned before is not noted as taken.    *)
ReturnsForgets(k) ==
    /\ LooksAt(k) /\ k \in Planned
    /\ IF visiting = <<>>
       THEN todo' = todo \ {k} /\ UNCHANGED visiting
       ELSE /\ visiting' = [visiting EXCEPT ![Len(visiting)].left = @ \ {k}]
            /\ UNCHANGED todo
    /\ UNCHANGED <<graph, phase, arguments, order, run>>

(* Wrong on purpose: the loop over required does not move on.               *)
ReturnsStays(k) ==
    /\ LooksAt(k) /\ k \in Planned /\ visiting # <<>>
    /\ visiting' = [visiting EXCEPT ![Len(visiting)] = Looked(k)]
    /\ UNCHANGED <<graph, phase, todo, arguments, order, run>>

(* visit returns at once for a planned dependency, and the caller goes on. *)
Returns(k) ==
    /\ LooksAt(k) /\ k \in Planned
    /\ IF visiting = <<>>
       THEN todo' = todo \ {k} /\ UNCHANGED visiting
       ELSE /\ visiting' = [visiting EXCEPT ![Len(visiting)] = Looked(k)]
            /\ UNCHANGED todo
    /\ UNCHANGED <<graph, phase, arguments, order, run>>

OnPath(k) == k \in Path

CycleRefused(k) == LooksAt(k) /\ k \notin Planned /\ OnPath(k) /\ Refuse

Visit(k) ==
    /\ LooksAt(k) /\ k \notin Planned /\ ~OnPath(k)
    /\ visiting' = Append(visiting, [key |-> k, left |-> takes[k], needed |-> {}])
    /\ UNCHANGED <<graph, phase, todo, arguments, order, run>>

(* Its parameters being in any order, a provider is refused at any point   *)
(* of its visit.                                                           *)
RequestRefused ==
    /\ phase = "planning" /\ visiting # <<>> /\ Top.key \in requests
    /\ Refuse

FinishVisit ==
    /\ phase = "planning" /\ visiting # <<>>
    /\ Top.left = {} /\ Top.key \notin requests
    /\ visiting' = SubSeq(visiting, 1, Len(visiting) - 1)
    /\ arguments' = [k \in Planned \cup {Top.key} |->
                       IF k = Top.key THEN Top.needed ELSE arguments[k]]
    /\ order' = Append(order, Top.key)
    /\ UNCHANGED <<graph, phase, todo, run>>

PlanDone ==
    /\ phase = "planning" /\ visiting = <<>> /\ todo = {}
    /\ phase' = "bound"
    /\ UNCHANGED <<graph, plan, run>>

Boot ==
    \/ BindRefused \/ Bind \/ RequestRefused \/ FinishVisit \/ PlanDone
    \/ \E k \in Keys : Returns(k) \/ CycleRefused(k) \/ Visit(k)

-----------------------------------------------------------------------------
(* A run of the task                                                       *)

RunKeeps == UNCHANGED <<graph, plan, runs>>

(* execute: the payload is fetched and decoded before any provider runs.   *)
Begin(readable) ==
    /\ phase \in {"bound", "over"} /\ runs < MaxRuns
    /\ runs' = runs + 1
    /\ at' = 0 /\ started' = <<>> /\ closed' = {} /\ abandoned' = FALSE
    /\ phase' = IF readable THEN "resolving" ELSE "over"
    /\ outcome' = IF readable THEN "none" ELSE "failed"
    /\ UNCHANGED <<graph, plan>>

Current == order[at + 1]

(* A generator is noted as started before its first step.                   *)
Provide ==
    /\ phase = "resolving" /\ at < Len(order)
    /\ IF Current \in Generators
       THEN /\ started' = Append(started, Current)
            /\ phase' = "entering" /\ at' = at
       ELSE at' = at + 1 /\ UNCHANGED <<started, phase>>
    /\ UNCHANGED <<closed, outcome, abandoned>> /\ RunKeeps

Enter ==
    /\ phase = "entering"
    /\ phase' = "resolving" /\ at' = at + 1
    /\ UNCHANGED <<started, closed, outcome, abandoned>> /\ RunKeeps

(* Wrong on purpose: no finally around the providers and the call.          *)
ToTeardownOnSuccess == phase' = IF outcome' = "ok" THEN "closing" ELSE "over"

(* The finally of resolved: whatever happened, the generators are closed.  *)
ToTeardown == phase' = "closing"

(* A provider, or its first step, raises or is cancelled.                   *)
ProvideFails ==
    /\ (phase = "resolving" /\ at < Len(order)) \/ phase = "entering"
    /\ outcome' \in {"failed", "cancelled"}
    /\ ToTeardown
    /\ UNCHANGED <<at, started, closed, abandoned>> /\ RunKeeps

Resolved ==
    /\ phase = "resolving" /\ at = Len(order)
    /\ phase' = "calling"
    /\ UNCHANGED <<at, started, closed, outcome, abandoned>> /\ RunKeeps

(* _call: a timeout is one more exception of the call.                      *)
Call ==
    /\ phase = "calling"
    /\ outcome' \in {"ok", "failed", "cancelled"}
    /\ ToTeardown
    /\ UNCHANGED <<at, started, closed, abandoned>> /\ RunKeeps

(* Wrong on purpose: generators close in the order they started.            *)
CloseNextOldest == closed' = closed \cup {Head(started)} /\ started' = Tail(started)

(* reversed(started)                                                        *)
CloseNext ==
    /\ closed' = closed \cup {started[Len(started)]}
    /\ started' = SubSeq(started, 1, Len(started) - 1)

(* A teardown that raises leaves the finally: the rest stays open, and the *)
(* run fails whatever the call returned.                                    *)
Close ==
    /\ phase = "closing" /\ started # <<>>
    /\ CloseNext
    /\ \/ UNCHANGED <<phase, outcome, abandoned>>
       \/ /\ phase' = "over" /\ abandoned' = TRUE
          /\ outcome' \in {"failed"} \cup ({outcome} \cap {"cancelled"})
    /\ UNCHANGED at /\ RunKeeps

Closed ==
    /\ phase = "closing" /\ started = <<>>
    /\ phase' = "over"
    /\ UNCHANGED <<at, started, closed, outcome, abandoned>> /\ RunKeeps

Run == Provide \/ Enter \/ ProvideFails \/ Resolved \/ Call \/ Close \/ Closed

DepNext == Boot \/ Run \/ \E readable \in BOOLEAN : Begin(readable)
DepSpec == DepInit /\ [][DepNext]_depVars

-----------------------------------------------------------------------------
(* Properties                                                              *)

DistinctFrames ==
    \A i, j \in DOMAIN visiting : visiting[i].key = visiting[j].key => i = j

(* Type correctness of a task's binding, plan and run (di.py, registry.py); *)
(* no dependency is visited within its own visit (di.py:74).               *)
DepTypeOK ==
    /\ takes \in [Keys -> SUBSET Keys] /\ requests \subseteq Keys
    /\ task \in Signatures
    /\ phase \in Phases
    /\ todo \subseteq Keys
    /\ visiting \in Seq(Frames) /\ DistinctFrames
    /\ Planned \subseteq Keys /\ arguments \in [Planned -> SUBSET Keys]
    /\ order \in Seq(Keys)
    /\ at \in 0..Len(order) /\ (phase = "entering" => at < Len(order))
    /\ started \in Seq(Generators) /\ closed \subseteq Generators
    /\ outcome \in {"none", "ok", "failed", "cancelled"}
    /\ abandoned \in BOOLEAN /\ runs \in 0..MaxRuns

(* What the dependencies S are built from, themselves included, without a  *)
(* search: the least set around S that holds what its members take.        *)
ClosedUnder(T) == \A k \in T : takes[k] \subseteq T
Parts(S) == {k \in Keys : \A T \in SUBSET Keys :
                            S \subseteq T /\ ClosedUnder(T) => k \in T}

Before(i) == {order[j] : j \in 1..(i - 1)}

(* The plan of a bound task names every dependency it needs and no other,  *)
(* each once and after all it takes, so that a run always finds the values *)
(* it passes on (di.py:60-104, :119).                                      *)
PlanSound ==
    phase \notin {"declared", "planning", "refused"} =>
        /\ {order[i] : i \in DOMAIN order} = Parts(task.wants)
        /\ \A i, j \in DOMAIN order : order[i] = order[j] => i = j
        /\ \A i \in DOMAIN order : /\ order[i] \in Planned
                                   /\ arguments[order[i]] = takes[order[i]]
                                   /\ arguments[order[i]] \subseteq Before(i)

(* A set of dependencies each of which takes one of the set: a cycle.      *)
Circular(S) == S # {} /\ \A k \in S : takes[k] \cap S # {}

Unresolvable ==
    \/ task.unfit
    \/ Parts(task.wants) \cap requests # {}
    \/ \E S \in SUBSET Parts(task.wants) : Circular(S)

(* A boot refuses exactly the tasks that could not run: no cycle, request  *)
(* parameter or empty promise of a timeout reaches a worker, and none is   *)
(* suspected because of a provider the task does not need (di.py:60-62,    *)
(* registry.py:176).                                                       *)
RefusedForCause ==
    /\ phase = "refused" => Unresolvable
    /\ phase \notin {"declared", "planning", "refused"} => ~Unresolvable

(* "A provider always closes before whatever it was built from"            *)
(* (di.py:110-111), through providers that are no generators too.          *)
ClosesBeforeParts ==
    \A d \in closed, i \in DOMAIN started : d \notin Parts({started[i]})

(* A run that is over has closed every generator it started, unless one of *)
(* the teardowns raised (di.py:129-134).                                   *)
NothingLeftOpen ==
    phase = "over" /\ ~abandoned =>
        started = <<>> /\ {order[i] : i \in 1..at} \cap Generators \subseteq closed
=============================================================================
