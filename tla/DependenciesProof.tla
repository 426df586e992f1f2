-------------------------- MODULE DependenciesProof --------------------------
(***************************************************************************)
(* Proofs about module Dependencies, for any dependencies, any graph and   *)
(* any signature: the plan is sound, a task is refused exactly for cause,  *)
(* and the generators of a run close in an order that respects the graph.  *)
(***************************************************************************)
EXTENDS Dependencies, TLAPS

LEMMA FrontFacts ==
  ASSUME NEW S, NEW s \in Seq(S), s # <<>>,
         NEW f, f = SubSeq(s, 1, Len(s) - 1)
  PROVE  /\ f \in Seq(S) /\ Len(f) = Len(s) - 1 /\ Len(s) \in Nat \ {0}
         /\ s[Len(s)] \in S
         /\ \A i \in DOMAIN f : f[i] = s[i] /\ i \in DOMAIN s /\ i < Len(s)
         /\ \A i \in DOMAIN s : i \in DOMAIN f \/ i = Len(s)
<1>1. Len(s) \in Nat \ {0} /\ DOMAIN s = 1..Len(s) /\ \A i \in DOMAIN s : s[i] \in S
  OBVIOUS
<1>2. f = [i \in 1..(Len(s) - 1) |-> s[i]]
  BY <1>1
<1>3. f \in Seq(S) /\ Len(f) = Len(s) - 1 /\ DOMAIN f = 1..(Len(s) - 1)
  BY <1>1, <1>2
<1> QED BY <1>1, <1>2, <1>3

LEMMA AppendFacts ==
  ASSUME NEW S, NEW s \in Seq(S), NEW e \in S
  PROVE  LET a == Append(s, e)
         IN  /\ a \in Seq(S) /\ Len(a) = Len(s) + 1 /\ a[Len(a)] = e /\ Len(s) \in Nat
             /\ \A i \in DOMAIN s : a[i] = s[i] /\ i \in DOMAIN a
             /\ \A i \in DOMAIN a : (i \in DOMAIN s /\ i <= Len(s)) \/ i = Len(s) + 1
OBVIOUS

LEMMA ChangeLast ==
  ASSUME NEW S, NEW s \in Seq(S), NEW e \in S, s # <<>>
  PROVE  LET c == [s EXCEPT ![Len(s)] = e]
         IN  /\ c \in Seq(S) /\ Len(c) = Len(s) /\ c[Len(s)] = e /\ Len(s) \in DOMAIN s
             /\ \A i \in DOMAIN c : i \in DOMAIN s /\ (i # Len(s) => c[i] = s[i])
OBVIOUS

(* The parts of S: they hold S, hold what their members take, and are the   *)
(* least such set.                                                          *)
LEMMA PartsFacts ==
  ASSUME DepTypeOK, NEW S \in SUBSET Keys
  PROVE  /\ S \subseteq Parts(S) /\ Parts(S) \subseteq Keys
         /\ ClosedUnder(Parts(S))
         /\ \A T \in SUBSET Keys : S \subseteq T /\ ClosedUnder(T) => Parts(S) \subseteq T
BY DEF DepTypeOK, Parts, ClosedUnder

LEMMA PartsKept ==
  ASSUME takes' = takes, NEW S PROVE Parts(S)' = Parts(S)
BY DEF Parts, ClosedUnder

-----------------------------------------------------------------------------
(* Boot                                                                    *)

(* What the visit has settled: the planned dependencies are those ordered, *)
(* each after what it takes; they are parts of the task, and neither on a  *)
(* cycle nor in need of a request.                                         *)
Settled ==
    /\ {order[i] : i \in DOMAIN order} = Planned
    /\ \A i, j \in DOMAIN order : order[i] = order[j] => i = j
    /\ \A i \in DOMAIN order : /\ arguments[order[i]] = takes[order[i]]
                               /\ arguments[order[i]] \subseteq Before(i)
    /\ Planned \subseteq Parts(task.wants)
    /\ Planned \cap requests = {}
    /\ \A S \in SUBSET Keys : Circular(S) => S \cap Planned = {}

(* The frames: each visits a parameter of the one around it, and has what  *)
(* it no longer has to look at planned.                                     *)
OnStack ==
    /\ \A i \in DOMAIN visiting :
         /\ visiting[i].key \notin Planned
         /\ visiting[i].key \in Parts(task.wants)
         /\ visiting[i].needed \subseteq Planned
         /\ visiting[i].needed \cup visiting[i].left = takes[visiting[i].key]
    /\ \A i \in DOMAIN visiting :
         i > 1 => visiting[i].key \in visiting[i - 1].left
    /\ todo \subseteq task.wants
    /\ phase # "declared" => task.wants \ todo \subseteq Planned

Fits ==
    /\ phase \notin {"declared", "refused"} => ~task.unfit
    /\ phase = "declared" => visiting = <<>>
    /\ phase \notin {"declared", "planning", "refused"} => visiting = <<>> /\ todo = {}
    /\ phase = "refused" => Unresolvable

BootInv == (phase # "refused" => Settled /\ OnStack) /\ Fits

BootVars == <<takes, requests, task, todo, visiting, arguments, order>>

LEMMA TypeInit == DepInit => DepTypeOK
<1> SUFFICES ASSUME DepInit PROVE DepTypeOK
  OBVIOUS
<1>1. Planned = {} /\ arguments \in [Planned -> SUBSET Keys]
  BY DEF DepInit, Planned
<1>2. visiting \in Seq(Frames) /\ order \in Seq(Keys) /\ started \in Seq(Generators)
  BY DEF DepInit
<1>3. DistinctFrames /\ at \in 0..Len(order) /\ phase # "entering"
  BY DEF DepInit, DistinctFrames
<1>4. /\ phase \in Phases /\ todo \subseteq Keys /\ closed \subseteq Generators
      /\ outcome \in {"none", "ok", "failed", "cancelled"}
      /\ runs \in 0..MaxRuns
  BY KeysAssumption DEF DepInit, Phases
<1>6. abandoned \in BOOLEAN
  BY DEF DepInit
<1>5. /\ takes \in [Keys -> SUBSET Keys] /\ requests \subseteq Keys
      /\ task \in Signatures /\ Planned \subseteq Keys
  BY <1>1 DEF DepInit
<1> QED BY <1>1, <1>2, <1>3, <1>4, <1>5, <1>6 DEF DepTypeOK

LEMMA BootInit == DepInit => BootInv
<1> SUFFICES ASSUME DepInit PROVE BootInv
  OBVIOUS
<1>1. DOMAIN order = {} /\ DOMAIN visiting = {} /\ Planned = {}
  BY DEF DepInit, Planned
<1>2. Settled
  BY <1>1 DEF Settled
<1>3. OnStack
  BY <1>1 DEF OnStack, DepInit
<1> QED BY <1>2, <1>3 DEF BootInv, Fits, DepInit

LEMMA OrderKept ==
  ASSUME UNCHANGED BootVars, BootInv, phase # "refused",
         phase' # "declared" => phase # "declared"
  PROVE  Settled' /\ OnStack'
<1>1. Parts(task.wants)' = Parts(task.wants)
  BY PartsKept DEF BootVars
<1>2. Settled'
  BY <1>1 DEF BootInv, Settled, BootVars, Planned, Before, Circular
<1> QED BY <1>1, <1>2 DEF BootInv, OnStack, BootVars, Planned

(* Bind: every dependency of the task is yet to visit.                     *)
LEMMA BindInv == DepTypeOK /\ BootInv /\ Bind => BootInv'
<1> SUFFICES ASSUME DepTypeOK, BootInv, Bind PROVE BootInv'
  OBVIOUS
<1>1. Parts(task.wants)' = Parts(task.wants)
  BY PartsKept DEF Bind, graph
<1>2. Settled'
  BY <1>1 DEF Bind, BootInv, Settled, Planned, Before, Circular, graph
<1>3. DOMAIN visiting' = {}
  BY DEF Bind, BootInv, Fits
<1>4. OnStack'
  BY <1>1, <1>3 DEF Bind, OnStack, graph
<1> QED BY <1>2, <1>4 DEF Bind, BootInv, Fits, graph

(* A dependency returns at once: it moves from left to needed.             *)
LEMMA ReturnsInv ==
  ASSUME DepTypeOK, BootInv, NEW k \in Keys, Returns(k) PROVE BootInv'
<1>1. /\ UNCHANGED <<graph, phase, arguments, order>>
      /\ phase = "planning" /\ k \in Planned
  BY DEF Returns, LooksAt
<1>2. Parts(task.wants)' = Parts(task.wants)
  BY <1>1, PartsKept DEF graph
<1>3. Settled'
  BY <1>1, <1>2 DEF BootInv, Settled, Planned, Before, Circular, graph
<1>4. CASE visiting = <<>>
  <2>1. DOMAIN visiting' = {} /\ todo' = todo \ {k} /\ visiting' = <<>>
    BY <1>4 DEF Returns
  <2>2. OnStack'
    BY <1>1, <1>2, <2>1 DEF OnStack, BootInv, Planned, graph
  <2> QED BY <1>1, <1>3, <2>1, <2>2 DEF BootInv, Fits, graph
<1>5. CASE visiting # <<>>
  <2> DEFINE e == Looked(k)
  <2>1. /\ visiting' = [visiting EXCEPT ![Len(visiting)] = e] /\ todo' = todo
        /\ k \in Top.left
    BY <1>5 DEF Returns, LooksAt, Top, Looked
  <2>2. visiting \in Seq(Frames) /\ Len(visiting) \in DOMAIN visiting /\ Top \in Frames
    BY <1>5 DEF DepTypeOK, Top
  <2>3. /\ e \in Frames /\ e.key = Top.key
        /\ e.left = Top.left \ {k} /\ e.needed = Top.needed \cup {k}
    BY <2>2 DEF Frames, Looked
  <2> HIDE DEF e
  <2>4. /\ Len(visiting') = Len(visiting) /\ visiting'[Len(visiting)] = e
        /\ \A i \in DOMAIN visiting' :
             i \in DOMAIN visiting /\ (i # Len(visiting) => visiting'[i] = visiting[i])
    BY <1>5, <2>1, <2>2, <2>3, ChangeLast
  <2>5. /\ k \notin {visiting[i].key : i \in DOMAIN visiting}
        /\ Top.needed \cup Top.left = takes[Top.key] /\ Top.needed \subseteq Planned
        /\ Top.key \notin Planned /\ Top.key \in Parts(task.wants)
    BY <1>1, <2>2 DEF BootInv, OnStack, Top
  <2>6. \A i \in DOMAIN visiting' :
          /\ visiting'[i].key \notin Planned'
          /\ visiting'[i].key \in Parts(task.wants)'
          /\ visiting'[i].needed \subseteq Planned'
          /\ visiting'[i].needed \cup visiting'[i].left = takes'[visiting'[i].key]
    <3> SUFFICES ASSUME NEW i \in DOMAIN visiting'
                 PROVE  /\ visiting'[i].key \notin Planned
                        /\ visiting'[i].key \in Parts(task.wants)
                        /\ visiting'[i].needed \subseteq Planned
                        /\ visiting'[i].needed \cup visiting'[i].left
                             = takes[visiting'[i].key]
      BY <1>1, <1>2 DEF Planned, graph
    <3>1. CASE i = Len(visiting)
      BY <3>1, <1>1, <2>1, <2>3, <2>4, <2>5
    <3>2. CASE i # Len(visiting)
      BY <3>2, <2>4, <1>1 DEF BootInv, OnStack
    <3> QED BY <3>1, <3>2
  <2>7. \A i \in DOMAIN visiting' :
          i > 1 => visiting'[i].key \in visiting'[i - 1].left
    <3> SUFFICES ASSUME NEW i \in DOMAIN visiting', i > 1
                 PROVE  visiting'[i].key \in visiting'[i - 1].left
      OBVIOUS
    <3>1. /\ i \in DOMAIN visiting /\ i - 1 \in DOMAIN visiting'
          /\ i - 1 # Len(visiting)
      BY <2>2, <2>4 DEF DepTypeOK
    <3>2. visiting'[i].key = visiting[i].key
      BY <2>3, <2>4 DEF Top
    <3>3. visiting'[i - 1] = visiting[i - 1]
      BY <3>1, <2>4
    <3> QED BY <3>1, <3>2, <3>3, <1>1 DEF BootInv, OnStack
  <2>8. OnStack'
    BY <2>6, <2>7, <2>1, <1>1 DEF OnStack, BootInv, Planned, graph
  <2> QED BY <1>1, <1>3, <2>8 DEF BootInv, Fits, graph
<1> QED BY <1>4, <1>5

(* A new frame: the dependency is a part of the task, as a parameter of a  *)
(* part or of the task itself.                                              *)
LEMMA VisitInv ==
  ASSUME DepTypeOK, BootInv, NEW k \in Keys, Visit(k) PROVE BootInv'
<1> DEFINE e == [key |-> k, left |-> takes[k], needed |-> {}]
<1>1. /\ UNCHANGED <<graph, phase, todo, arguments, order>>
      /\ phase = "planning" /\ k \notin Planned
      /\ visiting' = Append(visiting, e)
  BY DEF Visit, LooksAt
<1>2. Parts(task.wants)' = Parts(task.wants)
  BY <1>1, PartsKept DEF graph
<1>3. Settled'
  BY <1>1, <1>2 DEF BootInv, Settled, Planned, Before, Circular, graph
<1>4. /\ e \in Frames /\ e.key = k /\ e.left = takes[k] /\ e.needed = {}
      /\ visiting \in Seq(Frames) /\ task.wants \in SUBSET Keys
  BY DEF DepTypeOK, Frames, Signatures
<1> HIDE DEF e
<1>5. /\ Len(visiting) \in Nat /\ Len(visiting') = Len(visiting) + 1
      /\ visiting'[Len(visiting')] = e
      /\ \A i \in DOMAIN visiting : visiting'[i] = visiting[i]
      /\ \A i \in DOMAIN visiting' : i \in DOMAIN visiting \/ i = Len(visiting) + 1
  BY <1>1, <1>4, AppendFacts
<1>6. k \in Parts(task.wants)
  <2>1. CASE visiting = <<>>
    <3>1. k \in task.wants
      BY <2>1, <1>1 DEF Visit, LooksAt, BootInv, OnStack
    <3> QED BY <3>1, <1>4, PartsFacts
  <2>2. CASE visiting # <<>>
    <3>1. Len(visiting) \in DOMAIN visiting /\ k \in Top.left
      BY <2>2, <1>4 DEF Visit, LooksAt
    <3>2. k \in takes[Top.key] /\ Top.key \in Parts(task.wants)
      BY <3>1, <1>1 DEF BootInv, OnStack, Top
    <3> QED BY <3>2, <1>4, PartsFacts DEF ClosedUnder
  <2> QED BY <2>1, <2>2
<1>7. \A i \in DOMAIN visiting' :
        /\ visiting'[i].key \notin Planned /\ visiting'[i].key \in Parts(task.wants)
        /\ visiting'[i].needed \subseteq Planned
        /\ visiting'[i].needed \cup visiting'[i].left = takes[visiting'[i].key]
  <2> SUFFICES ASSUME NEW i \in DOMAIN visiting'
               PROVE  /\ visiting'[i].key \notin Planned
                      /\ visiting'[i].key \in Parts(task.wants)
                      /\ visiting'[i].needed \subseteq Planned
                      /\ visiting'[i].needed \cup visiting'[i].left
                           = takes[visiting'[i].key]
    OBVIOUS
  <2>1. CASE i \in DOMAIN visiting
    BY <2>1, <1>1, <1>5 DEF BootInv, OnStack
  <2>2. CASE i = Len(visiting) + 1
    BY <2>2, <1>1, <1>4, <1>5, <1>6
  <2> QED BY <2>1, <2>2, <1>5
<1>8. \A i \in DOMAIN visiting' : i > 1 => visiting'[i].key \in visiting'[i - 1].left
  <2> SUFFICES ASSUME NEW i \in DOMAIN visiting', i > 1
               PROVE  visiting'[i].key \in visiting'[i - 1].left
    OBVIOUS
  <2>1. CASE i \in DOMAIN visiting
    <3>1. i - 1 \in DOMAIN visiting
      BY <2>1, <1>4
    <3> QED BY <2>1, <3>1, <1>1, <1>5 DEF BootInv, OnStack
  <2>2. CASE i = Len(visiting) + 1
    <3>1. /\ visiting # <<>> /\ i - 1 = Len(visiting)
          /\ Len(visiting) \in DOMAIN visiting
      BY <2>2, <1>4, <1>5
    <3>2. k \in visiting[i - 1].left
      BY <3>1 DEF Visit, LooksAt, Top
    <3> QED BY <2>2, <3>1, <3>2, <1>4, <1>5
  <2> QED BY <2>1, <2>2, <1>5
<1>9. OnStack'
  BY <1>1, <1>2, <1>7, <1>8 DEF OnStack, BootInv, Planned, graph
<1> QED BY <1>1, <1>3, <1>9 DEF BootInv, Fits, graph

(* A finished visit: the dependency is planned, after all it takes.        *)
LEMMA FinishInv ==
  ASSUME DepTypeOK, BootInv, FinishVisit PROVE BootInv'
<1> DEFINE k == Top.key
<1>1. /\ UNCHANGED <<graph, phase, todo>> /\ phase = "planning" /\ visiting # <<>>
      /\ visiting' = SubSeq(visiting, 1, Len(visiting) - 1)
      /\ order' = Append(order, k) /\ k \notin requests /\ Top.left = {}
      /\ Planned' = Planned \cup {k}
      /\ \A d \in Planned' : arguments'[d] = IF d = k THEN Top.needed ELSE arguments[d]
  BY DEF FinishVisit, Planned
<1>2. Parts(task.wants)' = Parts(task.wants)
  BY <1>1, PartsKept DEF graph
<1>3. /\ visiting \in Seq(Frames) /\ order \in Seq(Keys)
      /\ Len(visiting) \in DOMAIN visiting /\ Top \in Frames /\ k \in Keys
  <2>1. visiting \in Seq(Frames) /\ order \in Seq(Keys)
    BY DEF DepTypeOK
  <2>2. Len(visiting) \in DOMAIN visiting
    BY <1>1, <2>1
  <2>3. Top \in Frames
    BY <2>1, <2>2 DEF Top
  <2> QED BY <2>1, <2>2, <2>3 DEF Frames
<1>4. /\ k \notin Planned /\ k \in Parts(task.wants)
      /\ Top.needed = takes[k] /\ takes[k] \subseteq Planned
  <2>1. OnStack
    BY <1>1 DEF BootInv
  <2>2. /\ k \notin Planned /\ k \in Parts(task.wants)
        /\ Top.needed \subseteq Planned /\ Top.needed \cup Top.left = takes[k]
    BY <1>3, <2>1 DEF OnStack, Top
  <2> QED BY <1>1, <2>2
<1> HIDE DEF k
<1>5. /\ order' \in Seq(Keys) /\ Len(order') = Len(order) + 1 /\ order'[Len(order) + 1] = k
      /\ Len(order) \in Nat
      /\ \A i \in DOMAIN order : order'[i] = order[i] /\ i \in DOMAIN order'
      /\ \A i \in DOMAIN order' : (i \in DOMAIN order /\ i <= Len(order)) \/ i = Len(order) + 1
  BY <1>1, <1>3, AppendFacts
<1>6. /\ {order[i] : i \in DOMAIN order} = Planned
      /\ \A i, j \in DOMAIN order : order[i] = order[j] => i = j
  BY <1>1 DEF BootInv, Settled
<1>7. {order'[i] : i \in DOMAIN order'} = Planned'
  <2>1. Len(order) + 1 \in DOMAIN order'
    BY <1>5
  <2> QED BY <1>1, <1>5, <1>6, <2>1
<1>8. \A i, j \in DOMAIN order' : order'[i] = order'[j] => i = j
  <2>1. \A i \in DOMAIN order : order'[i] # k
    BY <1>4, <1>5, <1>6
  <2> QED BY <1>5, <1>6, <2>1
<1>9. \A i \in DOMAIN order' : /\ arguments'[order'[i]] = takes[order'[i]]
                               /\ arguments'[order'[i]] \subseteq Before(i)'
  <2> SUFFICES ASSUME NEW i \in DOMAIN order'
               PROVE  /\ arguments'[order'[i]] = takes[order'[i]]
                      /\ arguments'[order'[i]] \subseteq Before(i)'
    OBVIOUS
  <2>1. CASE i \in DOMAIN order
    <3>1. order'[i] = order[i] /\ order[i] \in Planned /\ order[i] # k
      BY <2>1, <1>4, <1>5, <1>6
    <3>2. arguments'[order'[i]] = arguments[order[i]]
      BY <3>1, <1>1
    <3>3. Before(i)' = Before(i)
      <4>1. \A j \in 1..(i - 1) : order'[j] = order[j]
        BY <2>1, <1>3, <1>5
      <4> QED BY <4>1 DEF Before
    <3> QED BY <3>1, <3>2, <3>3, <2>1, <1>1 DEF BootInv, Settled
  <2>2. CASE i = Len(order) + 1
    <3>1. order'[i] = k /\ arguments'[k] = takes[k]
      BY <2>2, <1>1, <1>4, <1>5
    <3>2. Planned \subseteq Before(i)'
      <4>1. \A j \in DOMAIN order : j \in 1..(i - 1) /\ order'[j] = order[j]
        BY <2>2, <1>3, <1>5
      <4> QED BY <4>1, <1>6 DEF Before
    <3> QED BY <3>1, <3>2, <1>4
  <2> QED BY <2>1, <2>2, <1>5
<1>10. \A S \in SUBSET Keys : Circular(S)' => S \cap Planned' = {}
  BY <1>1, <1>4 DEF BootInv, Settled, Circular, graph
<1>11. Settled'
  <2>1. Planned' \subseteq Parts(task.wants)' /\ Planned' \cap requests' = {}
    BY <1>1, <1>2, <1>4 DEF BootInv, Settled, graph
  <2>2. takes' = takes
    BY <1>1 DEF graph
  <2> QED BY <1>7, <1>8, <1>9, <1>10, <2>1, <2>2 DEF Settled
<1>12. /\ visiting' \in Seq(Frames)
       /\ \A i \in DOMAIN visiting' : visiting'[i] = visiting[i] /\ i \in DOMAIN visiting
                                      /\ i < Len(visiting)
  BY <1>1, <1>3, FrontFacts
<1>13. \A i \in DOMAIN visiting' : visiting[i].key # k
  BY <1>12, <1>3 DEF DepTypeOK, DistinctFrames, k, Top
<1>14. \A i \in DOMAIN visiting' :
         i > 1 => visiting'[i].key \in visiting'[i - 1].left
  <2> SUFFICES ASSUME NEW i \in DOMAIN visiting', i > 1
               PROVE  visiting'[i].key \in visiting'[i - 1].left
    OBVIOUS
  <2>1. i - 1 \in DOMAIN visiting'
    BY <1>12
  <2> QED BY <2>1, <1>12, <1>1 DEF BootInv, OnStack
<1>15. OnStack'
  BY <1>1, <1>2, <1>12, <1>13, <1>14 DEF OnStack, BootInv, graph
<1> QED BY <1>1, <1>11, <1>15 DEF BootInv, Fits, graph

(* A refusal has a cause: the frames from the dependency met again on are  *)
(* a cycle.                                                                 *)
LEMMA RefusedInv ==
  ASSUME DepTypeOK, BootInv,
         BindRefused \/ RequestRefused \/ \E k \in Keys : CycleRefused(k)
  PROVE  BootInv'
<1>1. phase' = "refused" /\ UNCHANGED <<graph, plan>>
  BY DEF BindRefused, RequestRefused, CycleRefused, Refuse
<1>2. visiting \in Seq(Frames) /\ Parts(task.wants) \subseteq Keys
  BY PartsFacts DEF DepTypeOK, Signatures
<1>3. Unresolvable
  <2>1. CASE BindRefused
    BY <2>1 DEF BindRefused, Unresolvable
  <2>2. CASE RequestRefused
    <3>1. Len(visiting) \in DOMAIN visiting
      BY <2>2, <1>2 DEF RequestRefused
    <3>2. Top.key \in Parts(task.wants) \cap requests
      BY <2>2, <3>1 DEF RequestRefused, BootInv, OnStack, Top
    <3> QED BY <3>2 DEF Unresolvable
  <2>3. ASSUME NEW k \in Keys, CycleRefused(k) PROVE Unresolvable
    <3>1. PICK i \in DOMAIN visiting : visiting[i].key = k
      BY <2>3 DEF CycleRefused, OnPath, Path
    <3>2. /\ Len(visiting) \in DOMAIN visiting /\ k \in Top.left /\ phase = "planning"
          /\ visiting # <<>>
      BY <2>3, <3>1, <1>2 DEF CycleRefused, LooksAt
    <3> DEFINE S == {visiting[j].key : j \in i..Len(visiting)}
    <3>3. \A j \in i..Len(visiting) :
            /\ j \in DOMAIN visiting
            /\ visiting[j].key \in Parts(task.wants)
            /\ visiting[j].left \subseteq takes[visiting[j].key]
      BY <1>2, <3>1, <3>2 DEF BootInv, OnStack
    <3>4. \A j \in i..Len(visiting) : takes[visiting[j].key] \cap S # {}
      <4> SUFFICES ASSUME NEW j \in i..Len(visiting)
                   PROVE  takes[visiting[j].key] \cap S # {}
        OBVIOUS
      <4>1. CASE j = Len(visiting)
        <5>1. k \in S
          BY <3>1, <1>2
        <5> QED BY <4>1, <5>1, <3>2, <3>3 DEF Top
      <4>2. CASE j < Len(visiting)
        <5>1. j + 1 \in i..Len(visiting) /\ j + 1 > 1 /\ (j + 1) - 1 = j
          BY <4>2, <1>2, <3>1
        <5>2. visiting[j + 1].key \in visiting[j].left
          BY <5>1, <3>2, <3>3 DEF BootInv, OnStack
        <5> QED BY <5>1, <5>2, <3>3
      <4> QED BY <4>1, <4>2, <1>2, <3>1
    <3>5. S # {} /\ S \in SUBSET Parts(task.wants)
      BY <3>1, <3>3, <1>2
    <3>6. Circular(S)
      BY <3>4, <3>5 DEF Circular
    <3> QED BY <3>5, <3>6 DEF Unresolvable
  <2> QED BY <2>1, <2>2, <2>3
<1>4. Unresolvable'
  <2>1. Parts(task.wants)' = Parts(task.wants)
    BY <1>1, PartsKept DEF graph
  <2> QED BY <2>1, <1>1, <1>3 DEF Unresolvable, Circular, graph
<1> QED BY <1>1, <1>4 DEF BootInv, Fits

(* A run leaves the plan alone.                                             *)
LEMMA RunKeepsPlan ==
  ASSUME DepTypeOK, BootInv,
         \/ PlanDone \/ Run \/ Begin(TRUE) \/ Begin(FALSE) \/ UNCHANGED depVars
  PROVE  BootInv'
<1>1. UNCHANGED <<graph, plan>>
  BY DEF PlanDone, Run, Begin, Provide, Enter, ProvideFails, Resolved, Call, Close,
         Closed, RunKeeps, depVars
<1>2. \/ phase' = phase
      \/ phase = "planning" /\ phase' = "bound" /\ visiting = <<>> /\ todo = {}
      \/ /\ phase \notin {"declared", "planning", "refused"}
         /\ phase' \notin {"declared", "planning", "refused"}
  BY DEF PlanDone, Run, Begin, Provide, Enter, ProvideFails, Resolved, Call, Close,
         Closed, ToTeardown, depVars
<1>3. Parts(task.wants)' = Parts(task.wants)
  BY <1>1, PartsKept DEF graph
<1>4. phase' # "refused" => Settled' /\ OnStack'
  BY <1>1, <1>2, OrderKept DEF graph, plan, BootVars
<1>5. Fits'
  BY <1>1, <1>2, <1>3 DEF BootInv, Fits, Unresolvable, Circular, graph, plan
<1> QED BY <1>4, <1>5 DEF BootInv

LEMMA BootStep == DepTypeOK /\ BootInv /\ [DepNext]_depVars => BootInv'
<1> SUFFICES ASSUME DepTypeOK, BootInv, [DepNext]_depVars PROVE BootInv'
  OBVIOUS
<1>1. CASE Boot
  BY <1>1, BindInv, ReturnsInv, VisitInv, FinishInv, RefusedInv, RunKeepsPlan DEF Boot
<1>2. CASE Run \/ Begin(TRUE) \/ Begin(FALSE) \/ UNCHANGED depVars
  BY <1>2, RunKeepsPlan
<1> QED BY <1>1, <1>2 DEF DepNext

-----------------------------------------------------------------------------
(* Types                                                                   *)

GraphType ==
    /\ takes \in [Keys -> SUBSET Keys] /\ requests \subseteq Keys
    /\ task \in Signatures
PlanType ==
    /\ todo \subseteq Keys
    /\ visiting \in Seq(Frames) /\ DistinctFrames
    /\ Planned \subseteq Keys /\ arguments \in [Planned -> SUBSET Keys]
    /\ order \in Seq(Keys)
RunType ==
    /\ at \in 0..Len(order) /\ (phase = "entering" => at < Len(order))
    /\ started \in Seq(Generators) /\ closed \subseteq Generators
    /\ outcome \in {"none", "ok", "failed", "cancelled"}
    /\ abandoned \in BOOLEAN /\ runs \in 0..MaxRuns

LEMMA TypeParts == DepTypeOK <=> GraphType /\ PlanType /\ RunType /\ phase \in Phases
BY DEF DepTypeOK, GraphType, PlanType, RunType

LEMMA TypePartsNext ==
  (GraphType /\ PlanType /\ RunType /\ phase \in Phases)' => DepTypeOK'
BY DEF DepTypeOK, GraphType, PlanType, RunType

LEMMA BootType == ASSUME DepTypeOK, Boot PROVE DepTypeOK'
<1>1. GraphType' /\ phase' \in Phases
  BY TypeParts DEF Boot, BindRefused, Bind, RequestRefused, FinishVisit, PlanDone,
     Returns, CycleRefused, Visit, Refuse, graph, GraphType, Phases, LooksAt
<1>7. phase' # "entering"
  BY DEF Boot, BindRefused, Bind, RequestRefused, FinishVisit, PlanDone,
     Returns, CycleRefused, Visit, Refuse, LooksAt
<1>2. CASE visiting' = visiting /\ UNCHANGED <<arguments, order, run>>
  <2>1. todo' \subseteq Keys
    BY <1>2, TypeParts DEF Boot, BindRefused, Bind, RequestRefused, FinishVisit, PlanDone,
       Returns, CycleRefused, Visit, Refuse, plan, PlanType, GraphType, Signatures
  <2>2. PlanType'
    BY <1>2, <2>1, TypeParts DEF PlanType, DistinctFrames, Planned
  <2>3. RunType'
    BY <1>2, <1>7, TypeParts DEF RunType, run
  <2> QED BY <1>1, <2>2, <2>3, TypePartsNext
<1>3. ASSUME NEW k \in Keys, Returns(k), visiting # <<>> PROVE DepTypeOK'
  <2>1. visiting \in Seq(Frames) /\ Len(visiting) \in DOMAIN visiting /\ Top \in Frames
    BY <1>3 DEF DepTypeOK, Top
  <2>2. Looked(k) \in Frames /\ Looked(k).key = Top.key
    BY <2>1, <1>3 DEF Frames, Looked
  <2>3. /\ visiting' = [visiting EXCEPT ![Len(visiting)] = Looked(k)]
        /\ UNCHANGED <<todo, arguments, order, run>>
    BY <1>3 DEF Returns
  <2>4. /\ visiting' \in Seq(Frames) /\ Len(visiting') = Len(visiting)
        /\ visiting'[Len(visiting)] = Looked(k)
        /\ \A i \in DOMAIN visiting' :
             i \in DOMAIN visiting /\ (i # Len(visiting) => visiting'[i] = visiting[i])
    BY <1>3, <2>1, <2>2, <2>3, ChangeLast
  <2>5. \A i \in DOMAIN visiting' : i \in DOMAIN visiting
                                    /\ visiting'[i].key = visiting[i].key
    BY <2>2, <2>4 DEF Top
  <2>6. DistinctFrames'
    BY <2>5, TypeParts DEF PlanType, DistinctFrames
  <2>7. PlanType' /\ RunType'
    BY <1>7, <2>3, <2>4, <2>6, TypeParts DEF PlanType, RunType, Planned, run
  <2> QED BY <1>1, <2>7, TypePartsNext
<1>4. ASSUME NEW k \in Keys, Visit(k) PROVE DepTypeOK'
  <2> DEFINE e == [key |-> k, left |-> takes[k], needed |-> {}]
  <2>1. e \in Frames /\ e.key = k /\ visiting \in Seq(Frames)
    BY <1>4 DEF DepTypeOK, Frames
  <2>2. visiting' = Append(visiting, e) /\ UNCHANGED <<todo, arguments, order, run>>
        /\ \A i \in DOMAIN visiting : visiting[i].key # k
    BY <1>4 DEF Visit, OnPath, Path
  <2> HIDE DEF e
  <2>3. /\ visiting' \in Seq(Frames) /\ Len(visiting') = Len(visiting) + 1
        /\ visiting'[Len(visiting')] = e
        /\ \A i \in DOMAIN visiting : visiting'[i] = visiting[i]
        /\ \A i \in DOMAIN visiting' : i \in DOMAIN visiting \/ i = Len(visiting) + 1
    BY <2>1, <2>2, AppendFacts
  <2>4. DistinctFrames'
    BY <2>1, <2>2, <2>3, TypeParts DEF PlanType, DistinctFrames
  <2>5. PlanType' /\ RunType'
    BY <1>7, <2>2, <2>3, <2>4, TypeParts DEF PlanType, RunType, Planned, run
  <2> QED BY <1>1, <2>5, TypePartsNext
<1>5. CASE FinishVisit
  <2>1. /\ visiting # <<>> /\ visiting' = SubSeq(visiting, 1, Len(visiting) - 1)
        /\ order' = Append(order, Top.key) /\ todo' = todo /\ UNCHANGED run
        /\ arguments' = [k \in Planned \cup {Top.key} |->
                           IF k = Top.key THEN Top.needed ELSE arguments[k]]
    BY <1>5 DEF FinishVisit
  <2>2. visiting \in Seq(Frames) /\ Len(visiting) \in DOMAIN visiting
    BY <2>1 DEF DepTypeOK
  <2>3. Top \in Frames
    BY <2>2 DEF Top
  <2>10. Top.key \in Keys /\ Top.needed \subseteq Keys
    BY <2>3 DEF Frames
  <2>4. /\ visiting' \in Seq(Frames)
        /\ \A i \in DOMAIN visiting' : visiting'[i] = visiting[i] /\ i \in DOMAIN visiting
    BY <2>1, <2>2, FrontFacts
  <2>5. DistinctFrames'
    BY <2>4, TypeParts DEF PlanType, DistinctFrames
  <2>6. /\ order' \in Seq(Keys) /\ Len(order') = Len(order) + 1 /\ Len(order) \in Nat
    BY <2>1, <2>10, AppendFacts, TypeParts DEF PlanType
  <2>7. Planned' \subseteq Keys /\ arguments' \in [Planned' -> SUBSET Keys]
    BY <2>1, <2>10, TypeParts DEF PlanType, Planned
  <2>8. RunType'
    BY <1>7, <2>1, <2>6, TypeParts DEF RunType, run
  <2>9. PlanType'
    BY <2>1, <2>4, <2>5, <2>6, <2>7, TypeParts DEF PlanType
  <2> QED BY <1>1, <2>8, <2>9, TypePartsNext
<1>6. \/ visiting' = visiting /\ UNCHANGED <<arguments, order, run>>
      \/ FinishVisit
      \/ \E k \in Keys : Visit(k) \/ (Returns(k) /\ visiting # <<>>)
  BY DEF Boot, BindRefused, Bind, RequestRefused, PlanDone, Returns, CycleRefused,
         Refuse, plan
<1> QED BY <1>2, <1>3, <1>4, <1>5, <1>6

LEMMA RunningType ==
  ASSUME DepTypeOK, \/ Run \/ Begin(TRUE) \/ Begin(FALSE) \/ UNCHANGED depVars
  PROVE  DepTypeOK'
<1>1. GraphType' /\ PlanType' /\ phase' \in Phases
  <2>1. UNCHANGED <<graph, plan>>
    BY DEF Run, Begin, Provide, Enter, ProvideFails, Resolved, Call, Close, Closed,
           RunKeeps, depVars
  <2>2. phase' \in Phases
    BY TypeParts DEF Run, Begin, Provide, Enter, ProvideFails, Resolved, Call, Close,
       Closed, ToTeardown, Phases, depVars
  <2> QED BY <2>1, <2>2, TypeParts
       DEF GraphType, PlanType, DistinctFrames, Planned, graph, plan
<1>2. outcome' \in {"none", "ok", "failed", "cancelled"} /\ order' = order
  BY TypeParts DEF Run, Begin, Provide, Enter, ProvideFails, Resolved, Call, Close,
     Closed, RunKeeps, RunType, plan, depVars, run
<1>3. abandoned' \in BOOLEAN
  BY TypeParts DEF Run, Begin, Provide, Enter, ProvideFails, Resolved, Call, Close,
     Closed, RunKeeps, RunType, depVars, run
<1>4. runs' \in 0..MaxRuns
  BY TypeParts, KeysAssumption DEF Run, Begin, Provide, Enter, ProvideFails, Resolved,
     Call, Close, Closed, RunKeeps, RunType, depVars, run
<1>5. at' \in 0..Len(order)
  <2>1. at \in 0..Len(order) /\ Len(order) \in Nat
    BY TypeParts DEF RunType, PlanType
  <2>2. \/ at' = at \/ at' = 0
        \/ at' = at + 1 /\ (at < Len(order) \/ Enter)
    BY DEF Run, Begin, Provide, Enter, ProvideFails, Resolved, Call, Close, Closed,
       depVars, run
  <2>3. ASSUME Enter PROVE at < Len(order)
    BY <2>3, TypeParts DEF Enter, RunType
  <2> QED BY <2>1, <2>2, <2>3
<1>8. phase' = "entering" => at' < Len(order)
  BY TypeParts DEF Run, Begin, Provide, Enter, ProvideFails, Resolved, Call, Close,
     Closed, ToTeardown, RunType, depVars, run
<1>6. started' \in Seq(Generators) /\ closed' \subseteq Generators
  <2>1. CASE Close
    <3>1. started \in Seq(Generators) /\ started # <<>> /\ closed \subseteq Generators
      BY <2>1, TypeParts DEF Close, RunType
    <3>2. /\ started' = SubSeq(started, 1, Len(started) - 1)
          /\ closed' = closed \cup {started[Len(started)]}
      BY <2>1 DEF Close, CloseNext
    <3> QED BY <3>1, <3>2, FrontFacts
  <2>2. CASE ~Close
    <3>1. started \in Seq(Generators) /\ closed \subseteq Generators
      BY TypeParts DEF RunType
    <3>2. \/ started' = started
          \/ started' = <<>>
          \/ Current \in Generators /\ started' = Append(started, Current)
      BY <2>2 DEF Run, Begin, Provide, Enter, ProvideFails, Resolved, Call,
         Closed, depVars, run
    <3>3. closed' = closed \/ closed' = {}
      BY <2>2 DEF Run, Begin, Provide, Enter, ProvideFails, Resolved, Call,
         Closed, depVars, run
    <3>4. <<>> \in Seq(Generators)
      OBVIOUS
    <3>5. Current \in Generators => Append(started, Current) \in Seq(Generators)
      BY <3>1, AppendFacts
    <3> QED BY <3>1, <3>2, <3>3, <3>4, <3>5
  <2> QED BY <2>1, <2>2
<1>7. RunType'
  BY <1>2, <1>3, <1>4, <1>5, <1>6, <1>8 DEF RunType
<1> QED BY <1>1, <1>7, TypePartsNext

LEMMA TypeStep == DepTypeOK /\ [DepNext]_depVars => DepTypeOK'
BY BootType, RunningType DEF DepNext

(* A task's binding, plan and runs are well typed, whatever the graph.     *)
THEOREM TypeCorrect == DepSpec => []DepTypeOK
BY TypeInit, TypeStep, PTL DEF DepSpec

LEMMA BootCorrect == DepSpec => []BootInv
BY TypeInit, TypeStep, BootInit, BootStep, PTL DEF DepSpec

LEMMA PlanFollows == DepTypeOK /\ BootInv => PlanSound
<1> SUFFICES ASSUME DepTypeOK, BootInv, phase \notin {"declared", "planning", "refused"}
             PROVE  PlanSound
  BY DEF PlanSound
<1>1. task.wants \subseteq Planned /\ Planned \in SUBSET Keys
  BY DEF BootInv, Fits, OnStack, DepTypeOK
<1>2. ClosedUnder(Planned)
  <2> SUFFICES ASSUME NEW k \in Planned PROVE takes[k] \subseteq Planned
    BY DEF ClosedUnder
  <2>1. PICK i \in DOMAIN order : order[i] = k
    BY DEF BootInv, Settled
  <2>2. takes[k] \subseteq Before(i)
    BY <2>1 DEF BootInv, Settled
  <2>3. Before(i) \subseteq {order[j] : j \in DOMAIN order}
    BY <2>1 DEF Before, DepTypeOK
  <2> QED BY <2>2, <2>3 DEF BootInv, Settled
<1>3. Planned = Parts(task.wants)
  <2>1. Planned \subseteq Parts(task.wants)
    BY DEF BootInv, Settled
  <2>2. task.wants \in SUBSET Keys
    BY DEF DepTypeOK, Signatures
  <2>3. Parts(task.wants) \subseteq Planned
    BY <1>1, <1>2, <2>2, PartsFacts
  <2> QED BY <2>1, <2>3
<1>4. Settled
  BY DEF BootInv
<1>5. {order[i] : i \in DOMAIN order} = Parts(task.wants)
      /\ \A i \in DOMAIN order : order[i] \in Planned
  BY <1>3, <1>4 DEF Settled
<1> QED BY <1>4, <1>5 DEF Settled, PlanSound

(* A bound task's plan names what it needs, each once, after its parts.    *)
THEOREM PlansAreSound == DepSpec => []PlanSound
BY TypeCorrect, BootCorrect, PlanFollows, PTL

LEMMA CauseFollows == DepTypeOK /\ BootInv => RefusedForCause
<1> SUFFICES ASSUME DepTypeOK, BootInv PROVE RefusedForCause
  OBVIOUS
<1>1. phase = "refused" => Unresolvable
  BY DEF BootInv, Fits
<1>2. ASSUME phase \notin {"declared", "planning", "refused"} PROVE ~Unresolvable
  <2>1. Planned = Parts(task.wants)
    BY <1>2, PlanFollows DEF PlanSound, BootInv, Settled
  <2>2. \A S \in SUBSET Parts(task.wants) : ~Circular(S)
    BY <1>2, <2>1 DEF BootInv, Settled, Circular, DepTypeOK
  <2> QED BY <1>2, <2>1, <2>2 DEF BootInv, Settled, Fits, Unresolvable
<1> QED BY <1>1, <1>2 DEF RefusedForCause

(* A boot refuses the tasks that could not run, and no other.              *)
THEOREM RefusalsHaveCause == DepSpec => []RefusedForCause
BY TypeCorrect, BootCorrect, CauseFollows, PTL

-----------------------------------------------------------------------------
(* Runs                                                                    *)

(* The dependencies whose provider was called, and its generator started.  *)
Reached == IF phase = "resolving" THEN at ELSE at + 1
Begun   == {order[j] : j \in {i \in DOMAIN order : i <= Reached}}

(* Generators start in plan order and close from the last: the open ones   *)
(* lie before every closed one.                                             *)
RunInv ==
    /\ \A i \in DOMAIN started : started[i] \in Begun
    /\ \A i, j \in DOMAIN started, a, b \in DOMAIN order :
         i < j /\ started[i] = order[a] /\ started[j] = order[b] => a < b
    /\ \A c \in closed, i \in DOMAIN started, a, b \in DOMAIN order :
         started[i] = order[a] /\ c = order[b] => a < b
    /\ phase \in {"declared", "planning", "refused", "bound"} => started = <<>> /\ at = 0
    /\ phase \notin {"closing", "over"} => closed = {}
    /\ {order[j] : j \in 1..at} \cap Generators
         \subseteq closed \cup {started[i] : i \in DOMAIN started}
    /\ phase = "entering" => Current \in {started[i] : i \in DOMAIN started}
    /\ phase = "over" /\ ~abandoned => started = <<>>

LEMMA RunInit == DepInit => RunInv
<1> SUFFICES ASSUME DepInit PROVE RunInv
  OBVIOUS
<1>1. DOMAIN started = {} /\ 1..at = {}
  BY DEF DepInit
<1> QED BY <1>1 DEF DepInit, RunInv

(* Before the first run nothing is open.                                    *)
LEMMA NothingRuns ==
  ASSUME started' = <<>>, at' = 0, closed' = {},
         phase' # "entering"
  PROVE  RunInv'
<1>1. DOMAIN started' = {} /\ 1..at' = {}
  OBVIOUS
<1> QED BY <1>1 DEF RunInv

LEMMA BootRuns == ASSUME DepTypeOK, RunInv, Boot PROVE RunInv'
<1>1. /\ UNCHANGED run
      /\ phase \in {"declared", "planning"}
      /\ phase' \in {"planning", "refused", "bound"}
  BY DEF Boot, BindRefused, Bind, RequestRefused, FinishVisit, PlanDone,
     Returns, CycleRefused, Visit, Refuse, LooksAt
<1> QED BY <1>1, NothingRuns DEF RunInv, run

(* A provider is called, and its generator, if it is one, started.         *)
LEMMA ProvideRuns ==
  ASSUME DepTypeOK, BootInv, RunInv, Provide PROVE RunInv'
<1>1. /\ UNCHANGED <<order, closed, abandoned>> /\ phase = "resolving" /\ at < Len(order)
      /\ closed = {} /\ at \in 0..Len(order) /\ order \in Seq(Keys)
      /\ at + 1 \in DOMAIN order /\ Reached = at
  BY DEF Provide, RunKeeps, plan, RunInv, DepTypeOK, Reached
<1>2. CASE Current \in Generators
  <2>1. /\ started' = Append(started, Current) /\ phase' = "entering" /\ at' = at
        /\ started \in Seq(Generators)
    BY <1>2 DEF Provide, DepTypeOK
  <2>2. /\ Len(started) \in Nat /\ Len(started') = Len(started) + 1
        /\ started'[Len(started) + 1] = Current
        /\ \A i \in DOMAIN started : started'[i] = started[i] /\ i \in DOMAIN started'
        /\ \A i \in DOMAIN started' : (i \in DOMAIN started /\ i <= Len(started))
                                      \/ i = Len(started) + 1
    BY <1>2, <2>1, AppendFacts
  <2>3. Begun' = Begun \cup {Current}
    BY <1>1, <2>1 DEF Begun, Reached, Current
  <2>4. \A i \in DOMAIN started' : started'[i] \in Begun'
    BY <2>2, <2>3 DEF RunInv
  <2>5. \A i, j \in DOMAIN started', a, b \in DOMAIN order :
          i < j /\ started'[i] = order[a] /\ started'[j] = order[b] => a < b
    <3> SUFFICES ASSUME NEW i \in DOMAIN started', NEW j \in DOMAIN started',
                        NEW a \in DOMAIN order, NEW b \in DOMAIN order,
                        i < j, started'[i] = order[a], started'[j] = order[b]
                 PROVE  a < b
      OBVIOUS
    <3>1. i \in DOMAIN started /\ started'[i] = started[i]
      BY <2>1, <2>2
    <3>2. CASE j \in DOMAIN started
      BY <3>1, <3>2, <2>2 DEF RunInv
    <3>3. CASE j = Len(started) + 1
      <4>1. PICK c \in DOMAIN order : c <= at /\ started[i] = order[c]
        BY <3>1, <1>1 DEF RunInv, Begun
      <4>2. c \in DOMAIN order
        BY <4>1
      <4>3. a = c
        BY <3>1, <4>1, <4>2, <1>1 DEF BootInv, Settled
      <4>4. b = at + 1
        BY <3>3, <2>2, <1>1 DEF BootInv, Settled, Current
      <4> QED BY <4>1, <4>3, <4>4, <1>1
    <3> QED BY <3>2, <3>3, <2>2
  <2>6. {order[j] : j \in 1..at} \cap Generators
          \subseteq closed \cup {started'[i] : i \in DOMAIN started'}
    BY <2>2 DEF RunInv
  <2>7. Current' = Current /\ Current \in {started'[i] : i \in DOMAIN started'}
    BY <1>1, <2>1, <2>2 DEF Current
  <2>8. (\A i, j \in DOMAIN started, a, b \in DOMAIN order :
           i < j /\ started[i] = order[a] /\ started[j] = order[b] => a < b)'
    BY <1>1, <2>5
  <2>9. closed' = {}
    BY <1>1
  <2>10. ({order[j] : j \in 1..at} \cap Generators
           \subseteq closed \cup {started[i] : i \in DOMAIN started})'
    BY <1>1, <2>1, <2>6
  <2>11. (phase = "entering" => Current \in {started[i] : i \in DOMAIN started})'
    BY <2>7
  <2>12. phase' = "entering"
    BY <2>1
  <2> QED BY <2>4, <2>8, <2>9, <2>10, <2>11, <2>12 DEF RunInv
<1>3. CASE Current \notin Generators
  <2>1. at' = at + 1 /\ UNCHANGED <<started, phase>>
    BY <1>3 DEF Provide
  <2>2. {order[j] : j \in 1..at'} = {order[j] : j \in 1..at} \cup {Current}
    BY <1>1, <2>1 DEF Current
  <2>3. Begun \subseteq Begun'
    BY <1>1, <2>1 DEF Begun, Reached
  <2>4. \A i \in DOMAIN started : started[i] \in Begun'
    BY <2>3 DEF RunInv
  <2>5. {order[j] : j \in 1..at'} \cap Generators
          \subseteq closed \cup {started[i] : i \in DOMAIN started}
    BY <1>3, <2>2 DEF RunInv
  <2>6. (\A i \in DOMAIN started : started[i] \in Begun)'
    BY <2>1, <2>4
  <2>7. (\A i, j \in DOMAIN started, a, b \in DOMAIN order :
           i < j /\ started[i] = order[a] /\ started[j] = order[b] => a < b)'
    BY <1>1, <2>1 DEF RunInv
  <2>8. ({order[j] : j \in 1..at} \cap Generators
           \subseteq closed \cup {started[i] : i \in DOMAIN started})'
    BY <1>1, <2>1, <2>5
  <2>9. closed' = {} /\ phase' = "resolving"
    BY <1>1, <2>1
  <2> QED BY <2>6, <2>7, <2>8, <2>9 DEF RunInv
<1> QED BY <1>2, <1>3

(* The started generator has yielded its value.                            *)
LEMMA EnterRuns ==
  ASSUME DepTypeOK, RunInv, Enter PROVE RunInv'
<1>1. /\ UNCHANGED <<order, closed, abandoned, started>> /\ phase = "entering"
      /\ closed = {} /\ at \in 0..Len(order) /\ at < Len(order) /\ at' = at + 1
      /\ phase' = "resolving" /\ Len(order) \in Nat
  BY DEF Enter, RunKeeps, plan, RunInv, DepTypeOK
<1>2. Begun' = Begun
  BY <1>1 DEF Begun, Reached
<1>3. {order[j] : j \in 1..at'} = {order[j] : j \in 1..at} \cup {Current}
  BY <1>1 DEF Current
<1>4. {order[j] : j \in 1..at'} \cap Generators
        \subseteq closed \cup {started[i] : i \in DOMAIN started}
  BY <1>1, <1>3 DEF RunInv
<1>5. \A i \in DOMAIN started : started[i] \in Begun'
  BY <1>2 DEF RunInv
<1> QED BY <1>1, <1>4, <1>5 DEF RunInv

(* The newest open generator closes; a teardown that raises ends the run.  *)
LEMMA CloseRuns == ASSUME DepTypeOK, RunInv, Close PROVE RunInv'
<1>1. /\ UNCHANGED <<order, at>> /\ phase = "closing" /\ started # <<>>
      /\ started \in Seq(Generators) /\ order \in Seq(Keys)
      /\ started' = SubSeq(started, 1, Len(started) - 1)
      /\ closed' = closed \cup {started[Len(started)]}
      /\ phase' \in {"closing", "over"} /\ (phase' = "over" => abandoned')
  BY DEF Close, CloseNext, RunKeeps, plan, DepTypeOK
<1>2. /\ Len(started') = Len(started) - 1 /\ Len(started) \in DOMAIN started
      /\ \A i \in DOMAIN started' : started'[i] = started[i] /\ i \in DOMAIN started
                                    /\ i < Len(started)
      /\ \A i \in DOMAIN started : i \in DOMAIN started' \/ i = Len(started)
  <2>1. started' \in Seq(Generators) /\ Len(started) \in Nat \ {0}
    BY <1>1, FrontFacts
  <2>4. started' = [i \in 1..(Len(started) - 1) |-> started[i]]
    BY <1>1, <2>1
  <2>6. Len(started') = Len(started) - 1
    <3>1. \A f : f = SubSeq(started, 1, Len(started) - 1) => Len(f) = Len(started) - 1
      <4>1. started \in Seq(Generators) /\ started # <<>>
        BY <1>1
      <4> QED BY <4>1, FrontFacts
    <3>2. started' = SubSeq(started, 1, Len(started) - 1)
      BY <1>1
    <3> QED BY <3>1, <3>2
  <2>5. /\ DOMAIN started' = 1..(Len(started) - 1) /\ DOMAIN started = 1..Len(started)
        /\ Len(started') = Len(started) - 1
    <3>1. DOMAIN started' = 1..(Len(started) - 1)
      BY <2>4
    <3>2. DOMAIN started = 1..Len(started)
      BY <1>1
    <3> QED BY <2>6, <3>1, <3>2
  <2>2. /\ \A i \in DOMAIN started' : started'[i] = started[i] /\ i \in DOMAIN started
                                      /\ i < Len(started)
        /\ \A i \in DOMAIN started : i \in DOMAIN started' \/ i = Len(started)
    BY <2>1, <2>4, <2>5
  <2>3. Len(started) \in DOMAIN started
    BY <1>1, <2>1
  <2> QED BY <2>1, <2>2, <2>3, <2>5
<1>3. Begun' = Begun
  BY <1>1 DEF Begun, Reached
<1>4. \A i \in DOMAIN started' : started'[i] \in Begun'
  BY <1>2, <1>3 DEF RunInv
<1>5. \A i, j \in DOMAIN started', a, b \in DOMAIN order :
        i < j /\ started'[i] = order[a] /\ started'[j] = order[b] => a < b
  BY <1>2 DEF RunInv
<1>6. \A c \in closed', i \in DOMAIN started', a, b \in DOMAIN order :
        started'[i] = order[a] /\ c = order[b] => a < b
  BY <1>1, <1>2 DEF RunInv
<1>7. closed \cup {started[i] : i \in DOMAIN started}
        \subseteq closed' \cup {started'[i] : i \in DOMAIN started'}
  BY <1>1, <1>2
<1>8. {order[j] : j \in 1..at} \cap Generators
        \subseteq closed' \cup {started'[i] : i \in DOMAIN started'}
  BY <1>7 DEF RunInv
<1>9. phase' = "over" /\ ~abandoned' => started' = <<>>
  BY <1>1
<1>10. phase' # "entering" /\ phase' \in {"closing", "over"}
  BY <1>1
<1> QED BY <1>1, <1>4, <1>5, <1>6, <1>8, <1>9, <1>10 DEF RunInv

LEMMA OtherRuns ==
  ASSUME DepTypeOK, RunInv,
         ProvideFails \/ Resolved \/ Call \/ Closed \/ UNCHANGED depVars
  PROVE  RunInv'
<1>1. UNCHANGED <<order, at, started, closed, abandoned>>
  BY DEF ProvideFails, Resolved, Call, Closed, depVars, RunKeeps, plan, run
<1>2. \/ phase' = phase
      \/ phase' = "closing" /\ phase \in {"resolving", "entering", "calling"}
      \/ phase' = "calling" /\ phase = "resolving"
      \/ phase' = "over" /\ phase = "closing" /\ started = <<>>
  BY DEF ProvideFails, Resolved, Call, Closed, ToTeardown, depVars
<1>3. \A i \in DOMAIN started : started[i] \in Begun'
  <2>1. Reached <= Reached' /\ Reached \in Nat /\ Reached' \in Nat
    BY <1>1, <1>2 DEF Reached, DepTypeOK
  <2>2. Begun \subseteq Begun'
    BY <1>1, <2>1 DEF Begun, DepTypeOK
  <2> QED BY <2>2 DEF RunInv
<1>4. Current' = Current
  BY <1>1 DEF Current
<1> QED BY <1>1, <1>2, <1>3, <1>4 DEF RunInv

LEMMA RunStep ==
  ASSUME DepTypeOK, BootInv, RunInv, [DepNext]_depVars PROVE RunInv'
<1>1. CASE Begin(TRUE) \/ Begin(FALSE)
  <2>1. started' = <<>> /\ at' = 0 /\ closed' = {} /\ phase' # "entering"
    BY <1>1 DEF Begin
  <2> QED BY <2>1, NothingRuns
<1>2. CASE Boot \/ Run \/ UNCHANGED depVars
  BY <1>2, BootRuns, ProvideRuns, EnterRuns, CloseRuns, OtherRuns DEF Run
<1> QED BY <1>1, <1>2 DEF DepNext

LEMMA RunCorrect == DepSpec => []RunInv
BY TypeInit, TypeStep, BootInit, BootStep, RunInit, RunStep, PTL DEF DepSpec

(* What is open lies in the plan before what is closed, and its parts no   *)
(* later than itself.                                                       *)
LEMMA ClosingFollows == DepTypeOK /\ BootInv /\ RunInv => ClosesBeforeParts
<1> SUFFICES ASSUME DepTypeOK, BootInv, RunInv, NEW d \in closed,
                    NEW i \in DOMAIN started, d \in Parts({started[i]})
             PROVE  FALSE
  BY DEF ClosesBeforeParts
<1>1. phase # "refused" /\ order \in Seq(Keys)
  BY DEF RunInv, DepTypeOK
<1>2. PICK a \in DOMAIN order : started[i] = order[a]
  BY DEF RunInv, Begun
<1> DEFINE T == {order[j] : j \in 1..a}
<1>3. /\ a \in Nat /\ 1..a \subseteq DOMAIN order /\ T \in SUBSET Keys
      /\ {started[i]} \subseteq T /\ {started[i]} \in SUBSET Keys
  BY <1>1, <1>2
<1>4. ClosedUnder(T)
  <2> SUFFICES ASSUME NEW k \in T PROVE takes[k] \subseteq T
    BY DEF ClosedUnder
  <2>1. PICK j \in 1..a : k = order[j]
    OBVIOUS
  <2>2. takes[k] \subseteq Before(j)
    BY <1>1, <1>3, <2>1 DEF BootInv, Settled
  <2>3. Before(j) \subseteq T
    BY <1>3, <2>1 DEF Before
  <2> QED BY <2>2, <2>3
<1>5. PICK b \in 1..a : d = order[b]
  BY <1>3, <1>4, PartsFacts
<1>6. a < b
  BY <1>2, <1>3, <1>5 DEF RunInv
<1> QED BY <1>3, <1>5, <1>6

(* No generator is closed while something built from it is open.           *)
THEOREM PartsOutliveWholes == DepSpec => []ClosesBeforeParts
BY TypeCorrect, BootCorrect, RunCorrect, ClosingFollows, PTL

LEMMA EndFollows == DepTypeOK /\ RunInv => NothingLeftOpen
BY DEF RunInv, NothingLeftOpen

(* A run closes all it opened, unless a teardown of it raised.             *)
THEOREM RunsCloseAll == DepSpec => []NothingLeftOpen
BY TypeCorrect, RunCorrect, EndFollows, PTL
=============================================================================
