------------------------- MODULE SprintCycleProofs -------------------------
(***************************************************************************)
(* For every backlog, schedule, sequence of edits and answer of GitHub:     *)
(*                                                                         *)
(*  - no commitment is lost unnoticed (CommitmentsOutliveUpdates).  The     *)
(*    anchor: from the apply's read on, an item that is held to a title     *)
(*    has the id of an entry of that title in the reviewed field; and       *)
(*    while nothing is replaced, in the field itself;                       *)
(*  - the search for a cycle finds one exactly when there is one            *)
(*    (SearchFindsCycles), so that the backlog stays acyclic                *)
(*    (BacklogsStayAcyclic);                                                *)
(*  - a schedule GitHub stored as asked verifies (HonestUpdatesVerify):     *)
(*    what is added follows all that was there, under new titles and ids;   *)
(*  - a backlog without a cycle is ranked completely, dependencies first    *)
(*    (OrderIsComplete), next hands out the best of what can be started     *)
(*    (NextIsTheBest), and has an answer while nothing hinders the work     *)
(*    (WorkIsNeverOut);                                                     *)
(*  - a sprint fits, can be started, and if it was assigned in part the     *)
(*    next plan selects the rest (SprintsResume);                           *)
(*  - a schedule respects dependencies and lanes, is no later with another  *)
(*    lane, and lies between the critical path and the sum of the work      *)
(*    (SchedulesAreSound).                                                  *)
(***************************************************************************)
EXTENDS SprintCycle, WellFoundedInduction, FiniteSetTheorems, SequenceTheorems, TLAPS

-----------------------------------------------------------------------------
(* Commitments.                                                             *)

Shape ==
    /\ DOMAIN held = DOMAIN backlog
    /\ DOMAIN assigned = DOMAIN backlog
    /\ stage = "fetched" => plan.adds # {}

HeldIn(entries, i) == \E e \in entries : e.id = assigned[i] /\ e.title = held[i]

Anchored ==
    \A i \in DOMAIN backlog : held[i] # None =>
        /\ stage \in {"fetched", "written"} => HeldIn(Known(plan.seen), i)
        /\ stage = "written" /\ plan.adds = {} => HeldIn(field.all, i)

IInv == Shape /\ Anchored

-----------------------------------------------------------------------------
(* A plan is made of the field it was shown. *)
LEMMA PlanShowsItsField ==
    ASSUME NEW f, NEW target, NEW asof, NEW p \in IterationPlans(f, target, asof)
    PROVE  p.seen = f
  BY DEF IterationPlans, Planned

(* A plan is made of a readable field only: no two entries share an id. *)
LEMMA PlanNeedsAReadableField ==
    ASSUME NEW f, NEW target, NEW asof, NEW p \in IterationPlans(f, target, asof)
    PROVE  \A e, g \in Known(f) : e.id = g.id => e = g
  BY DEF IterationPlans, Planned, Readable

(* What is read is what GitHub has. *)
LEMMA KnownIsAll == Known(Seen) = field.all
  BY DEF Known, Seen

(* The title shown is the title of an entry with the assigned id. *)
LEMMA ShownTitleExists ==
    ASSUME NEW i, SprintOf(i) # None
    PROVE  \E e \in field.all : e.id = assigned[i] /\ e.title = SprintOf(i)
  BY DEF SprintOf

-----------------------------------------------------------------------------
(* A new Project, with no iterations and no commitments, is anchored. *)
LEMMA InitAnchored == Init => IInv
  <1>1. Init => Shape
    BY InitAssumption DEF Init, Shape
  <1>2. Init => Anchored
    BY DEF Init, Anchored
  <1> QED BY <1>1, <1>2 DEF IInv

(* Every step keeps each commitment anchored to an iteration that is there,
   the replacement of the whole iteration list included. *)
LEMMA StepAnchored == IInv /\ [Next]_vars => IInv'
  <1> SUFFICES ASSUME IInv, [Next]_vars PROVE IInv'
    OBVIOUS
  <1> USE DEF IInv
  <1>1. CASE PlanIterations
    BY <1>1 DEF PlanIterations, Spend, Shape, Anchored
  <1>2. CASE FetchIterations
    <2>1. CASE EndApply
      BY <1>2, <2>1 DEF FetchIterations, EndApply, Shape, Anchored
    <2>2. CASE ~EndApply
      <3>1. /\ plan' = plan /\ plan.seen = Seen
            /\ held' = [i \in DOMAIN backlog |-> SprintOf(i)]
            /\ stage' = IF plan.adds = {} THEN "written" ELSE "fetched"
            /\ UNCHANGED <<backlog, assigned, field>>
        BY <1>2, <2>2, PlanShowsItsField DEF FetchIterations
      <3>2. ASSUME NEW i \in DOMAIN backlog, held'[i] # None
            PROVE  \E e \in field.all : e.id = assigned[i] /\ e.title = held'[i]
        BY <3>1, <3>2, ShownTitleExists
      <3>3. Known(plan'.seen) = field.all
        BY <3>1, KnownIsAll
      <3>4. Anchored'
        BY <3>1, <3>2, <3>3 DEF Anchored, HeldIn
      <3>5. Shape'
        BY <3>1 DEF Shape
      <3> QED BY <3>4, <3>5
    <2> QED BY <2>1, <2>2
  <1>3. CASE ReplaceIterations
    <2>1. Shape'
      BY <1>3 DEF ReplaceIterations, Shape
    <2>2. plan' = plan /\ plan.adds # {} /\ held' = held /\ assigned' = assigned
          /\ backlog' = backlog /\ stage = "fetched"
      BY <1>3 DEF ReplaceIterations, Shape
    <2>3. Anchored'
      BY <2>2 DEF Anchored, HeldIn
    <2> QED BY <2>1, <2>3
  <1>4. CASE ReplaceFails
    BY <1>4 DEF ReplaceFails, EndApply, Shape, Anchored
  <1>5. CASE CheckIterations
    BY <1>5 DEF CheckIterations, EndApply, Shape, Anchored
  <1>6. ASSUME NEW i \in DOMAIN backlog, Commit(i) PROVE IInv'
    BY <1>6 DEF Commit, Shape, Anchored, HeldIn
  <1>7. ASSUME NEW i \in DOMAIN backlog, NEW id, Move(i, id) PROVE IInv'
    BY <1>7 DEF Move, Shape, Anchored, HeldIn
  <1>8. ASSUME NEW i, NEW item, EditBacklog(i, item) PROVE IInv'
    BY <1>8 DEF EditBacklog, Shape, Anchored, HeldIn
  <1>9. CASE WorkOnNext
    BY <1>9 DEF WorkOnNext, Shape, Anchored, HeldIn
  <1>10. ASSUME NEW i, CloseParent(i) PROVE IInv'
    BY <1>10 DEF CloseParent, Shape, Anchored, HeldIn
  <1>11. CASE PassDay
    BY <1>11 DEF PassDay, Shape, Anchored, HeldIn
  <1>12. ASSUME NEW title, AddIteration(title) PROVE IInv'
    BY <1>12 DEF AddIteration, Shape, Anchored, HeldIn
  <1>13. ASSUME NEW e \in field.all, RemoveIteration(e) PROVE IInv'
    BY <1>13 DEF RemoveIteration, Shape, Anchored, HeldIn
  <1>14. CASE People
    BY <1>7, <1>8, <1>12, <1>13, <1>14 DEF People, SetStatus, Refine, Depend
  <1>15. CASE UNCHANGED vars
    BY <1>15 DEF vars, Shape, Anchored, HeldIn
  <1> QED
    BY <1>1, <1>2, <1>3, <1>4, <1>5, <1>6, <1>9, <1>10, <1>11, <1>14, <1>15 DEF Next

(* Where the anchor holds, a verified update leaves every held item in the *)
(* iteration of its title.                                                 *)
LEMMA AnchoredIsKept == IInv => VerifiedKeepsAssignments
  <1> SUFFICES ASSUME IInv, stage = "written", Verified(plan, Seen),
                      NEW i \in Items, held[i] # None
               PROVE  SprintOf(i) = held[i]
    BY DEF VerifiedKeepsAssignments
  <1>1. HeldIn(field.all, i)
    <2>1. CASE plan.adds = {}
      BY <2>1 DEF IInv, Anchored, Items
    <2>2. CASE plan.adds # {}
      <3>1. Known(plan.seen) \subseteq Known(Seen)
        BY <2>2 DEF Verified, Known
      <3> QED BY <3>1, KnownIsAll DEF IInv, Anchored, HeldIn, Items
    <2> QED BY <2>1, <2>2
  <1>2. \A e, g \in field.all : e.id = g.id => e = g
    BY PlanNeedsAReadableField, KnownIsAll DEF Verified
  <1> QED BY <1>1, <1>2 DEF HeldIn, SprintOf

(* Whatever GitHub makes of a replaced schedule, days and people in between, *)
(* an update counts as verified only if every item held at its read is still *)
(* in the iteration of that title.                                           *)
THEOREM CommitmentsOutliveUpdates == Spec => []VerifiedKeepsAssignments
  <1>1. Spec => []IInv
    BY InitAnchored, StepAnchored, PTL DEF Spec
  <1> QED BY <1>1, AnchoredIsKept, PTL

-----------------------------------------------------------------------------
(* Numbers and finite sets, and the search for a cycle.                    *)

(* Every set of natural numbers but the empty one has a least element.      *)
LEMMA LeastNumber ==
    ASSUME NEW S \in SUBSET Nat, S # {}
    PROVE  \E n \in S : \A k \in S : n <= k
<1>1. PICK n \in S : \A k \in S : ~ (<<k, n>> \in OpToRel(<, Nat))
  BY NatLessThanWellFounded, WFMin
<1>2. \A k \in S : ~ (k < n)
  BY <1>1 DEF OpToRel
<1> QED BY <1>2

(* A finite set of integers has a least element, and Min is it.             *)
LEMMA MinIs ==
    ASSUME NEW S \in SUBSET Int, IsFiniteSet(S), S # {}
    PROVE  Min(S) \in S /\ \A y \in S : Min(S) <= y
<1> DEFINE Has(T) == \E x \in T : \A y \in T : x <= y
           Bad == {n \in Nat : \E T \in SUBSET Int : /\ IsFiniteSet(T) /\ T # {}
                                                     /\ Cardinality(T) = n /\ ~Has(T)}
<1>1. Bad = {}
  <2> SUFFICES ASSUME Bad # {} PROVE FALSE
    OBVIOUS
  <2>1. PICK n \in Bad : \A k \in Bad : n <= k
    BY LeastNumber
  <2>2. PICK T \in SUBSET Int : IsFiniteSet(T) /\ T # {} /\ Cardinality(T) = n /\ ~Has(T)
    BY <2>1
  <2>3. PICK x \in T : TRUE
    BY <2>2
  <2> DEFINE R == T \ {x}
  <2>4. IsFiniteSet(R) /\ Cardinality(R) = n - 1 /\ n \in Nat
    BY <2>1, <2>2, <2>3, FS_RemoveElement
  <2>5. n - 1 \in Nat
    BY <2>4, FS_CardinalityType
  <2>6. n - 1 \notin Bad
    BY <2>1, <2>4
  <2>7. R = {} \/ Has(R)
    BY <2>4, <2>5, <2>6
  <2>8. CASE R = {}
    BY <2>2, <2>3, <2>8
  <2>9. CASE Has(R)
    <3>1. PICK y \in R : \A z \in R : y <= z
      BY <2>9
    <3>2. \A z \in T : z = x \/ z \in R
      OBVIOUS
    <3>3. CASE x <= y
      BY <2>2, <2>3, <3>1, <3>2, <3>3
    <3>4. CASE ~(x <= y)
      BY <2>2, <2>3, <3>1, <3>2, <3>4
    <3> QED BY <3>3, <3>4
  <2> QED BY <2>7, <2>8, <2>9
<1>2. Cardinality(S) \in Nat /\ Cardinality(S) \notin Bad
  BY <1>1, FS_CardinalityType
<1>3. Has(S)
  BY <1>2
<1> QED BY <1>3 DEF Min

-----------------------------------------------------------------------------
(* The states the search goes through.                                      *)
Begin(m) == [path |-> <<>>, mark |-> [i \in DOMAIN m |-> 0], found |-> FALSE]
Trace(m, n) ==
    CHOOSE g : g = [k \in 0..n |-> IF k = 0 THEN Begin(m) ELSE SearchStep(m, g[k - 1])]
Steps(m) == 2 * Cardinality(DOMAIN m) + 1

(* FindsCycle is what the last state of the search found.                   *)
LEMMA SearchIsTrace ==
    ASSUME NEW m
    PROVE  FindsCycle(m) = Trace(m, Steps(m))[Steps(m)].found
  BY DEF FindsCycle, Trace, Steps, Begin

(* The recursive definition of the search has a solution: the states can be *)
(* listed up to any number, as otherwise not up to some least one.          *)
LEMMA TraceExists ==
    ASSUME NEW m, NEW n \in Nat
    PROVE  Trace(m, n) = [k \in 0..n |-> IF k = 0 THEN Begin(m)
                                         ELSE SearchStep(m, Trace(m, n)[k - 1])]
<1> DEFINE Is(g, j) == g = [k \in 0..j |-> IF k = 0 THEN Begin(m) ELSE SearchStep(m, g[k - 1])]
           Bad == {j \in Nat : ~\E g : Is(g, j)}
<1>1. Bad = {}
  <2> SUFFICES ASSUME Bad # {} PROVE FALSE
    OBVIOUS
  <2>1. PICK j \in Bad : \A k \in Bad : j <= k
    BY LeastNumber
  <2>2. CASE j = 0
    <3> DEFINE g == [k \in 0..0 |-> Begin(m)]
    <3>1. Is(g, 0)
      OBVIOUS
    <3> QED BY <2>1, <2>2, <3>1
  <2>3. CASE j # 0
    <3>1. j \in Nat /\ j - 1 \in Nat
      BY <2>3
    <3>a. j - 1 \notin Bad
      <4> HIDE DEF Bad
      <4> QED BY <2>1, <3>1
    <3>2. PICK h : Is(h, j - 1)
      BY <3>1, <3>a
    <3> DEFINE g == [k \in 0..j |-> IF k = j THEN SearchStep(m, h[j - 1]) ELSE h[k]]
    <3>3. \A k \in 0..(j - 1) : h[k] = IF k = 0 THEN Begin(m) ELSE SearchStep(m, h[k - 1])
      BY <3>2
    <3>4. \A k \in 0..j : g[k] = IF k = 0 THEN Begin(m) ELSE SearchStep(m, g[k - 1])
      <4> SUFFICES ASSUME NEW k \in 0..j
                   PROVE  g[k] = IF k = 0 THEN Begin(m) ELSE SearchStep(m, g[k - 1])
        OBVIOUS
      <4>1. CASE k = j
        <5>1. j - 1 \in 0..j /\ j - 1 # j
          BY <3>1
        <5> QED BY <4>1, <2>3, <5>1
      <4>2. CASE k # j
        <5>1. k \in 0..(j - 1) /\ (k # 0 => k - 1 \in 0..j /\ k - 1 # j)
          BY <3>1, <4>2
        <5> QED BY <4>2, <3>3, <5>1
      <4> QED BY <4>1, <4>2
    <3>5. Is(g, j)
      <4> DEFINE e == [k \in 0..j |-> IF k = 0 THEN Begin(m) ELSE SearchStep(m, g[k - 1])]
      <4>1. \A k \in 0..j : g[k] = e[k]
        BY <3>4
      <4> QED BY <4>1
    <3> QED BY <2>1, <3>5
  <2> QED BY <2>2, <2>3
<1> QED BY <1>1 DEF Trace

-----------------------------------------------------------------------------
(* What holds along the search: exactly the items on the path are marked 1, *)
(* each of them once.                                                       *)
Graph(m) ==
    /\ DOMAIN m \subseteq Int /\ IsFiniteSet(DOMAIN m)
    /\ \A i \in DOMAIN m : m[i].deps \subseteq DOMAIN m
Cyclic(m) == \E S \in SUBSET DOMAIN m : S # {} /\ \A i \in S : m[i].deps \cap S # {}
Along(m, s) ==
    /\ s \in [path : Seq(DOMAIN m), mark : [DOMAIN m -> 0..2], found : BOOLEAN]
    /\ \A k \in 1..Len(s.path) : s.mark[s.path[k]] = 1
    /\ \A j, k \in 1..Len(s.path) : j # k => s.path[j] # s.path[k]
    /\ \A i \in DOMAIN m : s.mark[i] = 1 => \E k \in 1..Len(s.path) : s.path[k] = i
    /\ \A k \in 2..Len(s.path) : s.path[k] \in m[s.path[k - 1]].deps
    /\ s.found => Cyclic(m)
Through(m, s) == s.found \/ (s.path = <<>> /\ \A i \in DOMAIN m : s.mark[i] # 0)

(* A step of the search marks one item more, or is the last one; and an     *)
(* item gets its second mark only after all it depends on.                  *)
Forward(m, s, t) ==
    /\ Along(m, t)
    /\ \A i \in DOMAIN m : s.mark[i] <= t.mark[i]
    /\ s.found => t.found
    /\ Through(m, s) => Through(m, t)
    /\ ~Through(m, s) => t.found \/ \E i \in DOMAIN m : t.mark[i] > s.mark[i]
    /\ \A i \in DOMAIN m : t.mark[i] = 2 /\ s.mark[i] # 2 => \A d \in m[i].deps : s.mark[d] = 2

(* A path without its last item.                                            *)
LEMMA FrontIs ==
    ASSUME NEW D, NEW p \in Seq(D), p # <<>>
    PROVE  /\ Front(p) \in Seq(D) /\ Len(Front(p)) = Len(p) - 1
           /\ \A k \in 1..(Len(p) - 1) : Front(p)[k] = p[k]
<1>1. Len(p) \in Nat /\ Len(p) > 0 /\ 1 \in 1..(Len(p) + 1) /\ Len(p) - 1 \in 0..Len(p)
  OBVIOUS
<1>2. \A k \in 1..(Len(p) - 1) : 1 + k - 1 = k
  OBVIOUS
<1>3. /\ SubSeq(p, 1, Len(p) - 1) \in Seq(D)
      /\ Len(SubSeq(p, 1, Len(p) - 1)) = IF 1 <= Len(p) - 1 THEN (Len(p) - 1) - 1 + 1 ELSE 0
      /\ \A k \in 1 .. (Len(p) - 1) - 1 + 1 : SubSeq(p, 1, Len(p) - 1)[k] = p[1 + k - 1]
  BY <1>1, SubSeqProperties
<1>4. 1..(Len(p) - 1) = 1..((Len(p) - 1) - 1 + 1)
  BY <1>1
<1>5. \A k \in 1..(Len(p) - 1) : Front(p)[k] = p[k]
  BY <1>2, <1>3, <1>4 DEF Front
<1>6. Len(SubSeq(p, 1, Len(p) - 1)) = Len(p) - 1
  <2>1. CASE 1 <= Len(p) - 1
    BY <1>1, <1>3, <2>1
  <2>2. CASE Len(p) = 1
    BY <1>1, <1>3, <2>2
  <2>3. Len(p) - 1 \in Nat /\ (Len(p) - 1 = 0 \/ 1 <= Len(p) - 1)
    <3> DEFINE n == Len(p)
    <3>1. n \in Nat /\ n > 0
      BY <1>1
    <3> HIDE DEF n
    <3>2. n - 1 \in Nat /\ (n - 1 = 0 \/ 1 <= n - 1)
      BY <3>1
    <3> QED BY <3>2 DEF n
  <2> QED BY <1>1, <2>1, <2>2, <2>3
<1> QED BY <1>3, <1>5, <1>6 DEF Front

(* A state with one mark changed.                                           *)
LEMMA MarkedState ==
    ASSUME NEW D, NEW s \in [path : Seq(D), mark : [D -> 0..2], found : BOOLEAN],
           NEW p \in Seq(D), NEW x \in D, NEW v \in 0..2,
           NEW t, t = [path |-> p, mark |-> [s.mark EXCEPT ![x] = v], found |-> s.found]
    PROVE  /\ t.path = p /\ t.mark = [s.mark EXCEPT ![x] = v] /\ t.found = s.found
           /\ t \in [path : Seq(D), mark : [D -> 0..2], found : BOOLEAN]
  OBVIOUS

(* SearchStep: the next item of the path, the end of a visit, or a cycle.   *)
LEMMA StepIsForward ==
    ASSUME NEW m, Graph(m), NEW s, Along(m, s)
    PROVE  Forward(m, s, SearchStep(m, s))
<1> DEFINE t == SearchStep(m, s)
           D == DOMAIN m
<1> SUFFICES Forward(m, s, t)
  OBVIOUS
<1>0. /\ s \in [path : Seq(D), mark : [D -> 0..2], found : BOOLEAN]
      /\ \A k \in 1..Len(s.path) : s.mark[s.path[k]] = 1
      /\ \A j, k \in 1..Len(s.path) : j # k => s.path[j] # s.path[k]
      /\ \A i \in D : s.mark[i] = 1 => \E k \in 1..Len(s.path) : s.path[k] = i
  BY DEF Along
<1>a. /\ \A k \in 2..Len(s.path) : s.path[k] \in m[s.path[k - 1]].deps
      /\ s.found => Cyclic(m)
  BY DEF Along
<1>1. CASE t = s /\ Through(m, s)
  BY <1>0, <1>a, <1>1 DEF Forward, Along
<1>2. CASE ~s.found /\ s.path = <<>>
  <2> DEFINE fresh == {i \in D : s.mark[i] = 0}
             x == Min(fresh)
  <2>1. CASE fresh = {}
    <3>1. t = s
      BY <1>2, <2>1 DEF SearchStep
    <3> QED BY <1>1, <1>2, <2>1, <3>1 DEF Through
  <2>2. CASE fresh # {}
    <3>1. x \in D /\ s.mark[x] = 0
      <4>1. fresh \in SUBSET Int /\ IsFiniteSet(fresh)
        BY FS_Subset DEF Graph
      <4>2. x \in fresh
        <5> HIDE DEF fresh
        <5> QED BY <2>2, <4>1, MinIs
      <4> QED BY <4>2
    <3>2. t = [path |-> <<x>>, mark |-> [s.mark EXCEPT ![x] = 1], found |-> s.found]
      BY <1>0, <1>2, <2>2 DEF SearchStep
    <3> HIDE DEF x, t
    <3>3. t.path = <<x>> /\ t.mark = [s.mark EXCEPT ![x] = 1] /\ t.found = s.found
          /\ t \in [path : Seq(D), mark : [D -> 0..2], found : BOOLEAN]
      <4>1. <<x>> \in Seq(D)
        BY <3>1
      <4> QED BY <1>0, <3>1, <3>2, <4>1, MarkedState
    <3>4. \A i \in D : t.mark[i] = IF i = x THEN 1 ELSE s.mark[i]
      BY <1>0, <3>1, <3>3
    <3>5. \A i \in D : s.mark[i] # 1
      BY <1>0, <1>2
    <3>6. Len(t.path) = 1 /\ t.path[1] = x
      BY <3>3
    <3>7. Along(m, t)
      <4>1. 2..1 = {}
        OBVIOUS
      <4> QED BY <1>a, <3>1, <3>3, <3>4, <3>5, <3>6, <4>1 DEF Along
    <3>8. ~Through(m, s) /\ t.mark[x] > s.mark[x]
      BY <1>2, <3>1, <3>4 DEF Through
    <3>9. \A i \in D : s.mark[i] \in 0..2
      BY <1>0
    <3> QED BY <1>2, <3>1, <3>3, <3>4, <3>7, <3>8, <3>9 DEF Forward
  <2> QED BY <2>1, <2>2
<1>3. CASE ~s.found /\ s.path # <<>>
  <2> DEFINE n == Len(s.path)
             item == Last(s.path)
             pending == {d \in m[item].deps : s.mark[d] # 2}
             x == Min(pending)
  <2>1. n \in Nat /\ n > 0 /\ item = s.path[n] /\ item \in D /\ s.mark[item] = 1
    BY <1>0, <1>3 DEF Last
  <2>2. ~Through(m, s)
    BY <1>3 DEF Through
  <2>3. m[item].deps \subseteq D
    BY <2>1 DEF Graph
  <2>4. CASE pending = {}
    <3>1. t = [s EXCEPT !.path = Front(@), !.mark[item] = 2]
      BY <1>3, <2>4 DEF SearchStep
    <3> HIDE DEF item, t
    <3>2. /\ Front(s.path) \in Seq(D) /\ Len(Front(s.path)) = n - 1
          /\ \A k \in 1..(n - 1) : Front(s.path)[k] = s.path[k]
      BY <1>0, <2>1, FrontIs
    <3>3. t.path = Front(s.path) /\ t.mark = [s.mark EXCEPT ![item] = 2] /\ t.found = s.found
          /\ t \in [path : Seq(D), mark : [D -> 0..2], found : BOOLEAN]
      <4>1. t = [path |-> Front(s.path), mark |-> [s.mark EXCEPT ![item] = 2], found |-> s.found]
        BY <1>0, <3>1
      <4> QED BY <1>0, <2>1, <3>2, <4>1, MarkedState
    <3>4. \A i \in D : t.mark[i] = IF i = item THEN 2 ELSE s.mark[i]
      BY <1>0, <2>1, <3>3
    <3>5. \A k \in 1..(n - 1) : s.path[k] # item /\ s.path[k] \in D
      BY <1>0, <2>1
    <3>6. \A i \in D : t.mark[i] = 1 => \E k \in 1..(n - 1) : t.path[k] = i
      <4> SUFFICES ASSUME NEW i \in D, t.mark[i] = 1
                   PROVE  \E k \in 1..(n - 1) : t.path[k] = i
        OBVIOUS
      <4>1. i # item /\ s.mark[i] = 1
        BY <3>4
      <4>2. PICK k \in 1..n : s.path[k] = i
        BY <1>0, <4>1
      <4>3. k \in 1..(n - 1)
        BY <2>1, <4>1, <4>2
      <4> QED BY <3>2, <3>3, <4>2, <4>3
    <3>7. Along(m, t)
      <4>1. Len(t.path) = n - 1
        BY <3>2, <3>3
      <4>2. \A k \in 1..(n - 1) : t.path[k] = s.path[k] /\ k \in 1..n
        BY <2>1, <3>2, <3>3
      <4>3. \A k \in 1..(n - 1) : t.mark[t.path[k]] = 1
        BY <1>0, <3>4, <3>5, <4>2
      <4>4. \A j, k \in 1..(n - 1) : j # k => t.path[j] # t.path[k]
        BY <1>0, <4>2
      <4>5. \A k \in 2..(n - 1) : t.path[k] \in m[t.path[k - 1]].deps
        <5>1. \A k \in 2..(n - 1) : k \in 1..(n - 1) /\ k - 1 \in 1..(n - 1) /\ k \in 2..n
          BY <2>1
        <5> QED BY <1>a, <4>2, <5>1
      <4> QED BY <1>a, <3>3, <3>6, <4>1, <4>3, <4>4, <4>5 DEF Along
    <3>8. \A i \in D : s.mark[i] \in 0..2
      BY <1>0
    <3>9. \A d \in m[item].deps : s.mark[d] = 2
      BY <2>4
    <3> QED BY <1>3, <2>1, <2>2, <3>3, <3>4, <3>7, <3>8, <3>9 DEF Forward
  <2>5. CASE pending # {}
    <3>1. x \in D /\ x \in m[item].deps /\ s.mark[x] # 2
      <4>1. pending \in SUBSET Int /\ IsFiniteSet(pending)
        BY <2>3, FS_Subset DEF Graph
      <4>2. x \in pending
        <5> HIDE DEF pending
        <5> QED BY <2>5, <4>1, MinIs
      <4> QED BY <2>3, <4>2
    <3>2. CASE s.mark[x] = 1
      <4>1. t = [s EXCEPT !.found = TRUE]
        BY <1>3, <2>5, <3>2 DEF SearchStep
      <4> HIDE DEF t
      <4>2. t.path = s.path /\ t.mark = s.mark /\ t.found
            /\ t \in [path : Seq(D), mark : [D -> 0..2], found : BOOLEAN]
        BY <1>0, <4>1
      <4>a. Cyclic(m)
        <5>1. PICK j \in 1..n : s.path[j] = x
          BY <1>0, <3>1, <3>2
        <5> DEFINE S == {s.path[k] : k \in j..n}
        <5>2. \A k \in j..n : k \in 1..n /\ s.path[k] \in D
          BY <1>0, <2>1
        <5>3. S \in SUBSET D /\ x \in S
          <6>1. j \in j..n
            BY <2>1
          <6> QED BY <5>1, <5>2, <6>1
        <5>4. ASSUME NEW k \in j..n PROVE \E d \in m[s.path[k]].deps : d \in S
          <6>1. CASE k = n
            BY <2>1, <3>1, <5>3, <6>1
          <6>2. CASE k # n
            <7>1. k + 1 \in j..n /\ k + 1 \in 2..n /\ (k + 1) - 1 = k
              BY <2>1, <6>2
            <7>2. s.path[k + 1] \in m[s.path[k]].deps
              <8>1. s.path[k + 1] \in m[s.path[(k + 1) - 1]].deps
                BY <1>a, <7>1
              <8> QED BY <7>1, <8>1
            <7>3. s.path[k + 1] \in S
              BY <7>1
            <7> QED BY <7>2, <7>3
          <6> QED BY <6>1, <6>2
        <5>5. \A i \in S : m[i].deps \cap S # {}
          BY <5>4
        <5> HIDE DEF S
        <5> QED BY <5>3, <5>5 DEF Cyclic
      <4>3. Along(m, t)
        BY <1>0, <1>a, <4>2, <4>a DEF Along
      <4>4. \A i \in D : s.mark[i] \in 0..2
        BY <1>0
      <4> QED BY <4>2, <4>3, <4>4 DEF Forward, Through
    <3>3. CASE s.mark[x] # 1
      <4>1. t = [s EXCEPT !.path = Append(@, x), !.mark[x] = 1]
        BY <1>3, <2>5, <3>3 DEF SearchStep
      <4> HIDE DEF item, x, pending, t
      <4>0. s.mark[x] = 0
        BY <1>0, <3>1, <3>3
      <4>2. /\ Append(s.path, x) \in Seq(D) /\ Len(Append(s.path, x)) = n + 1
            /\ \A k \in 1..n : Append(s.path, x)[k] = s.path[k]
            /\ Append(s.path, x)[n + 1] = x
        BY <1>0, <2>1, <3>1
      <4>3. t.path = Append(s.path, x) /\ t.mark = [s.mark EXCEPT ![x] = 1] /\ t.found = s.found
            /\ t \in [path : Seq(D), mark : [D -> 0..2], found : BOOLEAN]
        <5>1. t = [path |-> Append(s.path, x), mark |-> [s.mark EXCEPT ![x] = 1], found |-> s.found]
          BY <1>0, <4>1
        <5> QED BY <1>0, <3>1, <4>2, <5>1, MarkedState
      <4>4. \A i \in D : t.mark[i] = IF i = x THEN 1 ELSE s.mark[i]
        BY <1>0, <3>1, <4>3
      <4>5. \A k \in 1..n : s.path[k] # x /\ s.path[k] \in D
        BY <1>0, <2>1, <4>0
      <4>6. Along(m, t)
        <5>1. Len(t.path) = n + 1 /\ t.path[n + 1] = x
          BY <4>2, <4>3
        <5>2. \A k \in 1..(n + 1) : k = n + 1 \/ (k \in 1..n /\ t.path[k] = s.path[k])
          BY <2>1, <4>2, <4>3
        <5>3. \A k \in 1..(n + 1) : t.mark[t.path[k]] = 1
          BY <1>0, <3>1, <4>4, <4>5, <5>1, <5>2
        <5>4. \A j, k \in 1..(n + 1) : j # k => t.path[j] # t.path[k]
          BY <1>0, <4>5, <5>1, <5>2
        <5>5. \A i \in D : t.mark[i] = 1 => \E k \in 1..(n + 1) : t.path[k] = i
          <6> SUFFICES ASSUME NEW i \in D, t.mark[i] = 1, i # x
                       PROVE  \E k \in 1..(n + 1) : t.path[k] = i
            BY <2>1, <5>1
          <6>1. PICK k \in 1..n : s.path[k] = i
            BY <1>0, <4>4
          <6>2. k \in 1..(n + 1) /\ t.path[k] = i
            BY <2>1, <4>2, <4>3, <6>1
          <6> QED BY <6>2
        <5>6. \A k \in 2..(n + 1) : t.path[k] \in m[t.path[k - 1]].deps
          <6> SUFFICES ASSUME NEW k \in 2..(n + 1) PROVE t.path[k] \in m[t.path[k - 1]].deps
            OBVIOUS
          <6>1. k - 1 \in 1..n /\ t.path[k - 1] = s.path[k - 1]
            BY <2>1, <4>2, <4>3
          <6>2. CASE k = n + 1
            <7>1. k - 1 = n
              BY <2>1, <6>2
            <7> QED BY <2>1, <3>1, <5>1, <6>1, <6>2, <7>1
          <6>3. CASE k # n + 1
            <7>1. k \in 2..n /\ k \in 1..n
              BY <2>1, <6>3
            <7> QED BY <1>a, <4>2, <4>3, <6>1, <7>1
          <6> QED BY <6>2, <6>3
        <5> QED BY <1>a, <4>3, <5>1, <5>3, <5>4, <5>5, <5>6 DEF Along
      <4>7. \A i \in D : s.mark[i] \in 0..2
        BY <1>0
      <4> QED BY <1>3, <2>2, <3>1, <4>0, <4>3, <4>4, <4>6, <4>7 DEF Forward
    <3> QED BY <3>2, <3>3
  <2> QED BY <2>4, <2>5
<1>4. CASE s.found
  BY <1>1, <1>4 DEF SearchStep, Through
<1> QED BY <1>0, <1>2, <1>3, <1>4

(* The items that are marked, and those marked twice; each step counts.     *)
Work(m, s) ==
    Cardinality({i \in DOMAIN m : s.mark[i] # 0}) + Cardinality({i \in DOMAIN m : s.mark[i] = 2})

(* A step that goes forward and does not end the search adds one to its     *)
(* work, which is bounded by two for each item.                             *)
LEMMA ForwardCounts ==
    ASSUME NEW m, Graph(m), NEW s, Along(m, s), NEW t, Forward(m, s, t)
    PROVE  /\ Work(m, s) \in 0..(2 * Cardinality(DOMAIN m))
           /\ Through(m, t) \/ Work(m, t) >= Work(m, s) + 1
<1> DEFINE D == DOMAIN m
           A(u) == {i \in D : u.mark[i] # 0}
           B(u) == {i \in D : u.mark[i] = 2}
<1>1. /\ \A i \in D : s.mark[i] \in 0..2 /\ t.mark[i] \in 0..2 /\ s.mark[i] <= t.mark[i]
      /\ IsFiniteSet(D)
  BY DEF Along, Forward, Graph
<1>2. ASSUME NEW u
      PROVE  /\ IsFiniteSet(A(u)) /\ Cardinality(A(u)) \in 0..Cardinality(D)
             /\ IsFiniteSet(B(u)) /\ Cardinality(B(u)) \in 0..Cardinality(D)
             /\ Cardinality(D) \in Nat
  <2>1. A(u) \in SUBSET D /\ B(u) \in SUBSET D
    OBVIOUS
  <2> HIDE DEF D, A, B
  <2> QED BY <1>1, <2>1, FS_Subset, FS_CardinalityType
<1>3. \A u : Work(m, u) = Cardinality(A(u)) + Cardinality(B(u))
  BY DEF Work
<1>4. A(s) \in SUBSET A(t) /\ B(s) \in SUBSET B(t)
  BY <1>1
<1>5. CASE Through(m, t)
  <2> HIDE DEF A, B
  <2> QED BY <1>2, <1>3, <1>5
<1>6. CASE ~Through(m, t)
  <2>1. PICK i \in D : t.mark[i] > s.mark[i]
    BY <1>6 DEF Forward, Through
  <2>2. A(s) # A(t) \/ B(s) # B(t)
    <3>1. CASE s.mark[i] = 0
      <4>1. i \in A(t) /\ i \notin A(s)
        BY <1>1, <2>1, <3>1
      <4> QED BY <4>1
    <3>2. CASE s.mark[i] # 0
      <4>1. i \in B(t) /\ i \notin B(s)
        BY <1>1, <2>1, <3>2
      <4> QED BY <4>1
    <3> QED BY <3>1, <3>2
  <2> HIDE DEF A, B
  <2>3. /\ Cardinality(A(s)) <= Cardinality(A(t)) /\ Cardinality(B(s)) <= Cardinality(B(t))
        /\ Cardinality(A(s)) = Cardinality(A(t)) => A(s) = A(t)
        /\ Cardinality(B(s)) = Cardinality(B(t)) => B(s) = B(t)
    BY <1>2, <1>4, FS_Subset
  <2> QED BY <1>2, <1>3, <2>2, <2>3
<1> QED BY <1>5, <1>6

(* The states of the whole search.                                          *)
LEMMA SearchStates ==
    ASSUME NEW m, Graph(m)
    PROVE  LET f == Trace(m, Steps(m))
           IN  /\ Steps(m) \in Nat /\ f[0] = Begin(m)
               /\ \A k \in 0..Steps(m) : Along(m, f[k])
               /\ \A k \in 1..Steps(m) : Forward(m, f[k - 1], f[k])
               /\ Through(m, f[Steps(m)])
<1> DEFINE f == Trace(m, Steps(m))
           N == Steps(m)
<1>1. N \in Nat /\ N = 2 * Cardinality(DOMAIN m) + 1 /\ Cardinality(DOMAIN m) \in Nat
  BY FS_CardinalityType DEF Steps, Graph
<1>2. f[0] = Begin(m) /\ \A k \in 1..N : f[k] = SearchStep(m, f[k - 1])
  <2>1. f = [k \in 0..N |-> IF k = 0 THEN Begin(m) ELSE SearchStep(m, f[k - 1])]
    BY <1>1, TraceExists
  <2> HIDE DEF f, N
  <2>2. 0 \in 0..N /\ \A k \in 1..N : k \in 0..N /\ k # 0
    BY <1>1
  <2> QED BY <2>1, <2>2
<1> HIDE DEF f, N
<1>3. \A k \in 0..N : Along(m, f[k]) /\ (Through(m, f[k]) \/ Work(m, f[k]) >= k)
  <2> DEFINE Good(k) == Along(m, f[k]) /\ (Through(m, f[k]) \/ Work(m, f[k]) >= k)
             Bad == {k \in 0..N : ~Good(k)}
  <2>1. Good(0)
    <3>1. Along(m, f[0])
      <4>1. Len(<<>>) = 0 /\ <<>> \in Seq(DOMAIN m) /\ 1..0 = {} /\ 2..0 = {}
        OBVIOUS
      <4> QED BY <1>2, <4>1 DEF Along, Begin
    <3>2. Forward(m, f[0], SearchStep(m, f[0]))
      BY <3>1, StepIsForward
    <3> QED BY <3>1, <3>2, ForwardCounts
  <2>2. ASSUME NEW k \in 1..N, Good(k - 1) PROVE Good(k)
    <3>1. Forward(m, f[k - 1], f[k]) /\ k - 1 \in Nat
      BY <1>2, <2>2, StepIsForward
    <3>2. Along(m, f[k])
      BY <3>1 DEF Forward
    <3>3. CASE Through(m, f[k - 1])
      BY <3>1, <3>2, <3>3 DEF Forward
    <3>4. CASE ~Through(m, f[k - 1])
      <4>1. Work(m, f[k - 1]) >= k - 1 /\ Work(m, f[k - 1]) \in Nat
        BY <2>2, <3>1, <3>4, ForwardCounts
      <4>2. Through(m, f[k]) \/ Work(m, f[k]) >= Work(m, f[k - 1]) + 1
        BY <2>2, <3>1, ForwardCounts
      <4>3. Work(m, f[k]) \in Nat
        BY <3>2, StepIsForward, ForwardCounts
      <4> QED BY <3>2, <4>1, <4>2, <4>3
    <3> QED BY <3>3, <3>4
  <2>3. Bad = {}
    <3> SUFFICES ASSUME Bad # {} PROVE FALSE
      OBVIOUS
    <3> HIDE DEF Good
    <3>0. Bad \subseteq Nat
      BY <1>1
    <3>1. PICK k \in Bad : \A j \in Bad : k <= j
      <4> HIDE DEF Bad
      <4> QED BY <3>0, LeastNumber
    <3>2. k # 0 /\ k \in 0..N /\ ~Good(k)
      BY <2>1, <3>1
    <3>3. k \in 1..N /\ k - 1 \in 0..N /\ ~(k <= k - 1)
      BY <1>1, <3>2
    <3>4. k - 1 \notin Bad
      BY <3>1, <3>3
    <3> QED BY <2>2, <3>2, <3>3, <3>4
  <2> QED BY <2>3
<1>4. \A k \in 1..N : Forward(m, f[k - 1], f[k])
  <2> SUFFICES ASSUME NEW k \in 1..N PROVE Forward(m, f[k - 1], f[k])
    OBVIOUS
  <2>1. k - 1 \in 0..N
    BY <1>1
  <2> QED BY <1>2, <1>3, <2>1, StepIsForward
<1>5. Through(m, f[N])
  <2>1. Along(m, f[N]) /\ (Through(m, f[N]) \/ Work(m, f[N]) >= N)
    BY <1>1, <1>3
  <2>2. Work(m, f[N]) \in 0..(2 * Cardinality(DOMAIN m))
    BY <2>1, StepIsForward, ForwardCounts
  <2> QED BY <1>1, <2>1, <2>2
<1> QED BY <1>1, <1>2, <1>3, <1>4, <1>5 DEF f, N

(* The search misses no cycle: when it finds none, every set of items has   *)
(* one that depends on none of the others, the first to get its second mark.*)
LEMMA SearchMissesNothing ==
    ASSUME NEW m, Graph(m), ~FindsCycle(m), NEW S \in SUBSET DOMAIN m, S # {}
    PROVE  \E i \in S : m[i].deps \cap S = {}
<1> DEFINE f == Trace(m, Steps(m))
           N == Steps(m)
           D == DOMAIN m
           Marked == {k \in 0..N : \E i \in S : f[k].mark[i] = 2}
<1>1. /\ N \in Nat /\ f[0] = Begin(m) /\ ~f[N].found
      /\ \A k \in 0..N : Along(m, f[k])
      /\ \A k \in 1..N : Forward(m, f[k - 1], f[k])
      /\ Through(m, f[N])
  BY SearchStates, SearchIsTrace
<1> HIDE DEF f, N
<1>2. \A i \in D : f[N].mark[i] = 2
  <2>1. Along(m, f[N]) /\ f[N].path = <<>> /\ \A i \in D : f[N].mark[i] # 0
    BY <1>1 DEF Through
  <2>2. 1..Len(f[N].path) = {}
    BY <2>1
  <2>3. \A i \in D : f[N].mark[i] \in 0..2 /\ f[N].mark[i] # 1
    BY <2>1, <2>2 DEF Along
  <2> QED BY <2>1, <2>3
<1>3. Marked # {} /\ Marked \subseteq Nat
  <2>1. N \in Marked
    BY <1>1, <1>2
  <2> QED BY <1>1, <2>1
<1>4. PICK k \in Marked : \A j \in Marked : k <= j
  <2> HIDE DEF Marked
  <2> QED BY <1>3, LeastNumber
<1>5. PICK i \in S : f[k].mark[i] = 2
  BY <1>4
<1>6. k # 0
  <2>1. f[0].mark[i] = 0
    BY <1>1, <1>5 DEF Begin
  <2> QED BY <1>5, <2>1
<1>7. k \in 1..N /\ k - 1 \in 0..N /\ ~(k <= k - 1)
  BY <1>1, <1>4, <1>6
<1>8. \A j \in S : f[k - 1].mark[j] # 2
  BY <1>4, <1>7
<1>9. \A d \in m[i].deps : f[k - 1].mark[d] = 2
  BY <1>1, <1>5, <1>7, <1>8 DEF Forward
<1> QED BY <1>5, <1>8, <1>9

(* The search finds a cycle exactly when there is one: some items that each *)
(* wait for another of them.                                                *)
THEOREM SearchFindsCycles ==
    ASSUME NEW m, Graph(m)
    PROVE  FindsCycle(m) <=> Cyclic(m)
<1>1. ASSUME FindsCycle(m) PROVE Cyclic(m)
  <2>1. Steps(m) \in Nat /\ Along(m, Trace(m, Steps(m))[Steps(m)])
    BY SearchStates
  <2> QED BY <1>1, <2>1, SearchIsTrace DEF Along
<1>2. ASSUME Cyclic(m) PROVE FindsCycle(m)
  BY <1>2, SearchMissesNothing DEF Cyclic
<1> QED BY <1>1, <1>2

-----------------------------------------------------------------------------
(* More on finite sets.                                                     *)

(* The values a function takes on a finite set are finitely many.           *)
LEMMA ValuesAreFinite ==
    ASSUME NEW S, IsFiniteSet(S), NEW f, f = [x \in S |-> f[x]]
    PROVE  IsFiniteSet({f[x] : x \in S})
<1>1. f \in Surjection(S, {f[x] : x \in S})
  BY DEF Surjection
<1> QED BY <1>1, FS_Surjection

(* A finite set of integers has a greatest element, and Max is it.          *)
LEMMA MaxIs ==
    ASSUME NEW S \in SUBSET Int, IsFiniteSet(S), S # {}
    PROVE  Max(S) \in S /\ \A y \in S : Max(S) >= y
<1> DEFINE T == {0 - x : x \in S}
<1>1. T \in SUBSET Int /\ IsFiniteSet(T) /\ T # {}
  <2>1. IsFiniteSet(T)
    <3> DEFINE f == [z \in S |-> 0 - z]
    <3>1. IsFiniteSet({f[x] : x \in S})
      <4>1. f = [x \in S |-> f[x]]
        OBVIOUS
      <4> HIDE DEF f
      <4> QED BY <4>1, ValuesAreFinite
    <3>2. {f[x] : x \in S} = T
      <4>1. \A x \in S : f[x] = 0 - x
        <5> SUFFICES ASSUME NEW x \in S PROVE f[x] = 0 - x
          OBVIOUS
        <5> QED BY Zenon
      <4> HIDE DEF f
      <4> QED BY <4>1
    <3> QED BY <3>1, <3>2
  <2>2. T \in SUBSET Int
    OBVIOUS
  <2>3. T # {}
    BY Zenon
  <2> QED BY <2>1, <2>2, <2>3
<1>2. PICK x \in S : \A y \in T : 0 - x <= y
  <2>1. Min(T) \in T /\ \A y \in T : Min(T) <= y
    <3> HIDE DEF T
    <3> QED BY <1>1, MinIs
  <2> QED BY <2>1
<1>3. \A y \in S : x >= y
  <2> SUFFICES ASSUME NEW y \in S PROVE x >= y
    OBVIOUS
  <2>1. 0 - y \in T /\ x \in Int /\ y \in Int
    OBVIOUS
  <2> HIDE DEF T
  <2>2. 0 - x <= 0 - y
    BY <1>2, <2>1
  <2> QED BY <2>1, <2>2
<1> QED BY <1>3 DEF Max

-----------------------------------------------------------------------------
(* Plans of a schedule.                                                     *)
SeenField == [days : Nat, active : SUBSET IterationEntry, done : SUBSET IterationEntry]

(* The starts of finitely many entries.                                     *)
LEMMA StartsAreFinite ==
    ASSUME NEW S \in SUBSET IterationEntry, IsFiniteSet(S), S # {}
    PROVE  LET starts == {e.start : e \in S}
           IN  starts \in SUBSET Int /\ IsFiniteSet(starts) /\ starts # {}
<1>1. IsFiniteSet({e.start : e \in S})
  <2> DEFINE f == [e \in S |-> e.start]
  <2>1. IsFiniteSet({f[e] : e \in S})
    <3>1. f = [e \in S |-> f[e]]
      OBVIOUS
    <3> HIDE DEF f
    <3> QED BY <3>1, ValuesAreFinite
  <2>2. {f[e] : e \in S} = {e.start : e \in S}
    OBVIOUS
  <2> QED BY <2>1, <2>2
<1>2. {e.start : e \in S} \in SUBSET Int
  BY DEF IterationEntry
<1> QED BY <1>1, <1>2

(* The first and the last of a schedule's entries. *)
LEMMA EarliestIs ==
    ASSUME NEW S \in SUBSET IterationEntry, IsFiniteSet(S), S # {}
    PROVE  Earliest(S) \in S /\ \A e \in S : Earliest(S).start <= e.start
<1> DEFINE starts == {e.start : e \in S}
<1>1. Min(starts) \in starts /\ \A y \in starts : Min(starts) <= y
  <2>1. starts \in SUBSET Int /\ IsFiniteSet(starts) /\ starts # {}
    BY StartsAreFinite
  <2> HIDE DEF starts
  <2> QED BY <2>1, MinIs
<1>2. PICK e \in S : \A g \in S : e.start <= g.start
  BY <1>1
<1> QED BY <1>2 DEF Earliest

(* The one that starts last.                                                *)
LEMMA LatestIs ==
    ASSUME NEW S \in SUBSET IterationEntry, IsFiniteSet(S), S # {}
    PROVE  Latest(S) \in S /\ \A e \in S : Latest(S).start >= e.start
<1> DEFINE starts == {e.start : e \in S}
<1>1. Max(starts) \in starts /\ \A y \in starts : Max(starts) >= y
  <2>1. starts \in SUBSET Int /\ IsFiniteSet(starts) /\ starts # {}
    BY StartsAreFinite
  <2> HIDE DEF starts
  <2> QED BY <2>1, MaxIs
<1>2. PICK e \in S : \A g \in S : e.start >= g.start
  BY <1>1
<1> QED BY <1>2 DEF Latest

(* What an addition is: one entry or two, end to end, after all there is;   *)
(* and one of them is what the target asks for.                             *)
Answers(a, target, asof) ==
    \/ target = a.title
    \/ target = AtCurrent /\ a.start <= asof /\ asof < Ends(a)
    \/ target = AtNext /\ asof < a.start
Extension(f, p) ==
    \E t \in Nat, d \in Int :
        /\ \/ p.adds = {NewEntry(t, d)}
           \/ p.adds = {NewEntry(t, d), NewEntry(t + 1, d + Days)}
        /\ \E a \in p.adds : Answers(a, p.target, p.asof)
        /\ Known(f) = {} => d = ManifestStart
        /\ Known(f) # {} =>
              /\ \E l \in Known(f) : /\ \A g \in Known(f) : l.start >= g.start
                                     /\ l.title # Unnumbered /\ t = l.title + 1 /\ d = Ends(l)
              /\ \A e \in f.done : e.title # p.target

(* The first sequence of a new field. *)
LEMMA FirstEntriesAre ==
    ASSUME NEW target \in Nat \cup {AtCurrent, AtNext}, NEW asof \in Int,
           NEW first, first = FirstEntries(target, asof),
           NEW k \in {Len(first)} \cap DOMAIN first
    PROVE  \E t \in Nat :
              /\ \/ ToSet(first) = {NewEntry(t, ManifestStart)}
                 \/ ToSet(first) = {NewEntry(t, ManifestStart), NewEntry(t + 1, ManifestStart + Days)}
              /\ Answers(first[k], target, asof)
              /\ first[k] \in ToSet(first)
<1>0. Days \in Nat /\ Days > 0 /\ ManifestStart \in Int
  BY DaysAssumption
<1>1. CASE ~IsAlias(target)
  <2>1. first = <<NewEntry(target, ManifestStart)>> /\ target \in Nat
    BY <1>1 DEF FirstEntries, IsAlias
  <2>2. k = 1 /\ ToSet(first) = {NewEntry(target, ManifestStart)}
    BY <2>1 DEF ToSet
  <2>3. first[k] = NewEntry(target, ManifestStart)
    BY <2>1, <2>2
  <2> QED BY <2>1, <2>2, <2>3 DEF Answers, NewEntry
<1>2. CASE IsAlias(target)
  <2> DEFINE elapsed == IF asof < ManifestStart THEN -1 ELSE (asof - ManifestStart) \div Days
             wanted == IF target = AtCurrent THEN elapsed ELSE elapsed + 1
  <2>1. first = IF wanted < 0 \/ (target = AtCurrent /\ wanted > 0) \/ wanted > 1 THEN <<>>
                ELSE [j \in 1..(wanted + 1) |-> NewEntry(j, ManifestStart + Days * (j - 1))]
    BY <1>2 DEF FirstEntries
  <2>2. /\ elapsed \in Int
        /\ elapsed = -1 => asof < ManifestStart
        /\ elapsed = 0 => ManifestStart <= asof /\ asof < ManifestStart + Days
    <3>1. CASE asof < ManifestStart
      BY <3>1
    <3>2. CASE ~(asof < ManifestStart)
      <4>1. asof - ManifestStart \in Nat
        BY <1>0, <3>2
      <4>2. \A r \in Nat : /\ r \div Days \in Nat
                           /\ (r \div Days) * Days <= r /\ r < (r \div Days) * Days + Days
        BY <1>0
      <4> DEFINE q == (asof - ManifestStart) \div Days
      <4>3. q \in Nat /\ (q = 0 => asof - ManifestStart < Days)
        BY <1>0, <4>1, <4>2
      <4> QED BY <1>0, <3>2, <4>3
    <3> QED BY <3>1, <3>2
  <2> HIDE DEF elapsed
  <2>3. first # <<>>
    <3>1. DOMAIN <<>> = {}
      OBVIOUS
    <3> QED BY <3>1
  <2>4. /\ wanted \in {0, 1} /\ (target = AtCurrent => wanted = 0)
        /\ first = [j \in 1..(wanted + 1) |-> NewEntry(j, ManifestStart + Days * (j - 1))]
    BY <2>1, <2>2, <2>3
  <2>5. CASE wanted = 0
    <3>1. first = [j \in 1..1 |-> NewEntry(j, ManifestStart + Days * (j - 1))]
      BY <2>4, <2>5
    <3>2. Len(first) = 1 /\ DOMAIN first = 1..1 /\ first[1] = NewEntry(1, ManifestStart)
      BY <1>0, <3>1
    <3>3. k = 1 /\ ToSet(first) = {NewEntry(1, ManifestStart)}
      BY <3>2 DEF ToSet
    <3>4. Answers(first[k], target, asof)
      BY <1>0, <1>2, <2>2, <2>5, <3>2, <3>3 DEF IsAlias, Answers, NewEntry, Ends
    <3> QED BY <3>2, <3>3, <3>4
  <2>6. CASE wanted = 1
    <3>1. first = [j \in 1..2 |-> NewEntry(j, ManifestStart + Days * (j - 1))]
      BY <2>4, <2>6
    <3>2. Len(first) = 2 /\ DOMAIN first = 1..2 /\ first[1] = NewEntry(1, ManifestStart)
          /\ first[2] = NewEntry(2, ManifestStart + Days)
      BY <1>0, <3>1
    <3>3. k = 2 /\ ToSet(first) = {NewEntry(1, ManifestStart), NewEntry(2, ManifestStart + Days)}
      BY <3>2 DEF ToSet
    <3>4. Answers(first[k], target, asof)
      BY <1>0, <1>2, <2>2, <2>4, <2>6, <3>2, <3>3 DEF IsAlias, Answers, NewEntry, Ends
    <3> QED BY <3>2, <3>3, <3>4
  <2> QED BY <2>4, <2>5, <2>6
<1> QED BY <1>1, <1>2

(* A plan of the schedule it was shown: it names an entry that is there, or *)
(* adds what comes next.                                                    *)
LEMMA PlansAre ==
    ASSUME NEW f \in SeenField, IsFiniteSet(Known(f)),
           NEW target \in Nat \cup {AtCurrent, AtNext}, NEW asof \in Int,
           NEW p \in IterationPlans(f, target, asof)
    PROVE  /\ p.seen = f /\ p.target = target /\ p.asof = asof
           /\ Readable(f) /\ f.days \in {0, Days}
           /\ p.adds = {} => Known(f) # {} /\ \E e \in f.active : p.id = e.id
           /\ p.adds # {} => Extension(f, p)
           /\ p \in IterationPlan
<1> DEFINE first == FirstEntries(target, asof)
           adds == NextEntries(f, asof)
<1>0. /\ Days \in Nat /\ Days > 0 /\ ManifestStart \in Int
      /\ f.active \subseteq IterationEntry /\ f.done \subseteq IterationEntry
      /\ Known(f) \subseteq IterationEntry
      /\ IsFiniteSet(f.active) /\ IsFiniteSet(f.done)
  <2>1. f.active \subseteq IterationEntry /\ f.done \subseteq IterationEntry
    BY DEF SeenField
  <2>2. f.active \in SUBSET Known(f) /\ f.done \in SUBSET Known(f)
    BY DEF Known
  <2> QED BY <2>1, <2>2, DaysAssumption, FS_Subset DEF Known
<1>1. Readable(f) /\ f.days \in {0, Days}
  BY DEF IterationPlans
<1>2. /\ Found(f, target, asof) \subseteq f.active
  <2>1. Upcoming(f, asof) \in SUBSET IterationEntry /\ IsFiniteSet(Upcoming(f, asof))
        /\ Upcoming(f, asof) \subseteq f.active
    BY <1>0, FS_Subset DEF Upcoming
  <2>2. Current(f, asof) \subseteq f.active
    BY DEF Current
  <2>3. Upcoming(f, asof) # {} => Earliest(Upcoming(f, asof)) \in f.active
    BY <2>1, EarliestIs
  <2> QED BY <2>1, <2>2, <2>3 DEF Found
<1>3. CASE Known(f) = {}
  <2>1. PICK k \in {Len(first)} \cap DOMAIN first : p = Planned(f, target, asof, ToSet(first), first[k])
    BY <1>1, <1>3 DEF IterationPlans
  <2>2. PICK t \in Nat :
              /\ \/ ToSet(first) = {NewEntry(t, ManifestStart)}
                 \/ ToSet(first) = {NewEntry(t, ManifestStart), NewEntry(t + 1, ManifestStart + Days)}
              /\ Answers(first[k], target, asof)
              /\ first[k] \in ToSet(first)
    BY <2>1, FirstEntriesAre
  <2> HIDE DEF first
  <2>3. /\ p.seen = f /\ p.target = target /\ p.asof = asof /\ p.adds = ToSet(first)
        /\ p.title = first[k].title /\ p.id = first[k].id
        /\ p = [target |-> target, asof |-> asof, seen |-> f, adds |-> ToSet(first),
                title |-> first[k].title, id |-> first[k].id]
    BY <2>1 DEF Planned
  <2>4. Extension(f, p)
    BY <1>0, <1>3, <2>2, <2>3 DEF Extension
  <2>5. ToSet(first) \subseteq IterationEntry
    BY <1>0, <2>2 DEF NewEntry, IterationEntry, NoId
  <2>6. first[k].title \in Nat /\ first[k].id \in Nat
    BY <2>2, <2>5 DEF IterationEntry
  <2>7. p \in IterationPlan
    BY <2>3, <2>5, <2>6 DEF IterationPlan, SeenField
  <2> QED BY <1>1, <2>2, <2>3, <2>4, <2>7
<1>4. CASE Known(f) # {} /\ Found(f, target, asof) # {}
  <2>1. PICK e \in Found(f, target, asof) : p = Planned(f, target, asof, {}, e)
    BY <1>1, <1>4 DEF IterationPlans
  <2>2. e \in f.active /\ e.title \in Nat /\ e.id \in Nat
    BY <1>0, <1>2, <2>1 DEF IterationEntry
  <2>3. p = [target |-> target, asof |-> asof, seen |-> f, adds |-> {}, title |-> e.title, id |-> e.id]
    BY <2>1 DEF Planned
  <2>4. p.seen = f /\ p.target = target /\ p.asof = asof /\ p.adds = {} /\ p.id = e.id
    BY <2>3
  <2>5. p \in IterationPlan
    BY <2>2, <2>3 DEF IterationPlan, SeenField
  <2> QED BY <1>1, <1>4, <2>2, <2>4, <2>5
<1>5. CASE Known(f) # {} /\ Found(f, target, asof) = {}
  <2>1. PICK k \in Meant(target, adds) : p = Planned(f, target, asof, ToSet(adds), adds[k])
    BY <1>1, <1>5 DEF IterationPlans
  <2>2. \A e \in f.done : e.title # target
    BY <1>1, <1>5 DEF IterationPlans
  <2> DEFINE l == Latest(Known(f))
             d == Ends(l)
             t == l.title + 1
  <2>3. /\ l \in Known(f) /\ \A g \in Known(f) : l.start >= g.start
        /\ l.title \in Nat /\ l.start \in Int /\ l.days \in Nat
    BY <1>0, <1>5, LatestIs DEF IterationEntry
  <2>4. d \in Int /\ t \in Nat
    BY <2>3 DEF Ends
  <2>5. adds # <<>>
    <3>1. DOMAIN <<>> = {}
      OBVIOUS
    <3> QED BY <2>1, <3>1 DEF Meant
  <2>6. /\ l.title # Unnumbered
        /\ \/ Current(f, asof) # {} /\ adds = <<NewEntry(t, d)>>
           \/ /\ Current(f, asof) = {} /\ d = asof
              /\ adds = <<NewEntry(t, d), NewEntry(t + 1, d + Days)>>
    <3>1. NewEntry(t, d).title = t /\ Ends(NewEntry(t, d)) = d + Days
      BY DEF NewEntry, Ends
    <3> HIDE DEF l
    <3> QED BY <2>5, <3>1 DEF NextEntries, l
  <2> HIDE DEF adds, l, d, t
  <2>7. /\ k \in DOMAIN adds
        /\ \/ ToSet(adds) = {NewEntry(t, d)}
           \/ ToSet(adds) = {NewEntry(t, d), NewEntry(t + 1, d + Days)}
        /\ Answers(adds[k], target, asof)
    <3>1. CASE Current(f, asof) # {} /\ adds = <<NewEntry(t, d)>>
      <4>1. Len(adds) = 1 /\ DOMAIN adds = {1} /\ adds[1] = NewEntry(t, d)
        BY <3>1
      <4>2. k = 1 /\ ToSet(adds) = {NewEntry(t, d)}
        BY <2>1, <4>1 DEF Meant, ToSet
      <4>3. target # AtCurrent
        BY <1>5, <3>1 DEF Found, AtCurrent, AtNext
      <4>4. asof < d
        <5>1. PICK e \in f.active : e.start <= asof /\ asof < Ends(e)
          BY <3>1 DEF Current
        <5>2. e \in Known(f) /\ e.start \in Int /\ e.days \in Nat /\ Ends(e) \in Int
          BY <1>0, <5>1 DEF Known, IterationEntry, Ends
        <5>3. e = l \/ Ends(e) <= l.start \/ Ends(l) <= e.start
          BY <1>1, <2>3, <5>2 DEF Readable
        <5>4. l.days > 0
          BY <1>1, <2>3 DEF Readable
        <5>5. l.start >= e.start
          BY <2>3, <5>2
        <5>6. Ends(e) <= d
          <6>1. CASE e = l
            BY <5>2, <6>1 DEF d
          <6>2. CASE e # l
            BY <2>3, <5>2, <5>3, <5>4, <5>5, <6>2 DEF d, Ends
          <6> QED BY <6>1, <6>2
        <5> QED BY <2>4, <5>1, <5>2, <5>6
      <4>5. CASE target = AtNext
        BY <4>1, <4>2, <4>4, <4>5 DEF Answers, NewEntry
      <4>6. CASE target # AtNext
        BY <2>1, <4>1, <4>2, <4>3, <4>6 DEF Answers, Meant, IsAlias
      <4> QED BY <4>1, <4>2, <4>5, <4>6
    <3>2. CASE Current(f, asof) = {} /\ d = asof /\ adds = <<NewEntry(t, d), NewEntry(t + 1, d + Days)>>
      <4>1. Len(adds) = 2 /\ DOMAIN adds = {1, 2} /\ adds[1] = NewEntry(t, d)
            /\ adds[2] = NewEntry(t + 1, d + Days)
        BY <3>2
      <4>2. k \in {1, 2} /\ ToSet(adds) = {NewEntry(t, d), NewEntry(t + 1, d + Days)}
        BY <2>1, <4>1 DEF Meant, ToSet
      <4>3. CASE target = AtCurrent
        <5>1. k = 1
          BY <2>1, <4>1, <4>3 DEF Meant
        <5> QED BY <1>0, <2>4, <3>2, <4>1, <4>2, <4>3, <5>1 DEF Answers, NewEntry, Ends
      <4>4. CASE target = AtNext
        <5>1. k = 2
          BY <2>1, <2>4, <4>1, <4>4 DEF Meant, AtCurrent, AtNext, NewEntry
        <5> QED BY <1>0, <2>4, <3>2, <4>1, <4>2, <4>4, <5>1 DEF Answers, NewEntry, Ends
      <4>5. CASE ~IsAlias(target)
        BY <2>1, <4>1, <4>2, <4>5 DEF Answers, Meant
      <4> QED BY <4>3, <4>4, <4>5 DEF IsAlias
    <3> QED BY <2>6, <3>1, <3>2
  <2>8. adds[k] \in ToSet(adds)
    BY <2>7 DEF ToSet
  <2>9. /\ p.seen = f /\ p.target = target /\ p.asof = asof /\ p.adds = ToSet(adds)
        /\ p = [target |-> target, asof |-> asof, seen |-> f, adds |-> ToSet(adds),
                title |-> adds[k].title, id |-> adds[k].id]
    BY <2>1 DEF Planned
  <2>10. Extension(f, p)
    BY <1>5, <2>2, <2>3, <2>4, <2>6, <2>7, <2>8, <2>9 DEF Extension, d, t
  <2>11. ToSet(adds) \subseteq IterationEntry
    BY <1>0, <2>4, <2>7 DEF NewEntry, IterationEntry, NoId
  <2>12. adds[k].title \in Nat /\ adds[k].id \in Nat
    BY <2>8, <2>11 DEF IterationEntry
  <2>13. p \in IterationPlan
    BY <2>9, <2>11, <2>12 DEF IterationPlan, SeenField
  <2> QED BY <1>1, <2>8, <2>9, <2>10, <2>13
<1> QED BY <1>3, <1>4, <1>5

-----------------------------------------------------------------------------
(* What verifies.                                                           *)

(* The element that is least is the one Min chooses.                        *)
LEMMA MinFound ==
    ASSUME NEW S \in SUBSET Int, NEW m \in S, \A y \in S : m <= y
    PROVE  Min(S) = m
<1>1. Min(S) \in S /\ \A y \in S : Min(S) <= y
  BY DEF Min
<1>2. Min(S) <= m /\ m <= Min(S) /\ m \in Int /\ Min(S) \in Int
  BY <1>1
<1> QED BY <1>2

(* Additions are one or two.                                                *)
LEMMA AdditionsAreFew ==
    ASSUME NEW f, NEW p, Extension(f, p)
    PROVE  p.adds # {} /\ IsFiniteSet(p.adds)
<1>1. PICK t \in Nat, d \in Int : \/ p.adds = {NewEntry(t, d)}
                                  \/ p.adds = {NewEntry(t, d), NewEntry(t + 1, d + Days)}
  BY DEF Extension
<1>2. \A x, y : IsFiniteSet({x}) /\ IsFiniteSet({x} \cup {y})
  BY FS_Singleton, FS_AddElement
<1>3. \A x, y : IsFiniteSet({x, y})
  <2> SUFFICES ASSUME NEW x, NEW y PROVE IsFiniteSet({x, y})
    OBVIOUS
  <2>1. {x, y} = {x} \cup {y}
    OBVIOUS
  <2> QED BY <1>2, <2>1
<1>4. NewEntry(t, d) \in p.adds
  BY <1>1
<1>5. CASE p.adds = {NewEntry(t, d)}
  BY <1>2, <1>4, <1>5
<1>6. CASE p.adds = {NewEntry(t, d), NewEntry(t + 1, d + Days)}
  BY <1>3, <1>4, <1>6
<1> QED BY <1>1, <1>5, <1>6

(* Additions come after everything that was there, under titles of their own.*)
LEMMA AdditionsFollow ==
    ASSUME NEW f \in SeenField, Readable(f), Rising(f), NEW p, Extension(f, p)
    PROVE  /\ \A a \in p.adds : a = NewEntry(a.title, a.start) /\ a.title \in Nat /\ a.start \in Int
           /\ \A e \in Known(f), a \in p.adds :
                 e.title # a.title /\ Ends(e) <= a.start /\ e.start < a.start
           /\ \A a, b \in p.adds : a # b =>
                 /\ a.title # b.title
                 /\ a.start < b.start \/ b.start < a.start
                 /\ Ends(a) <= b.start \/ Ends(b) <= a.start
           /\ p.adds # {} /\ IsFiniteSet(p.adds)
           /\ Known(f) = {} => /\ \A a \in p.adds : ManifestStart <= a.start
                               /\ \E a \in p.adds : ManifestStart = a.start
<1>0. /\ Days \in Nat /\ Days > 0 /\ ManifestStart \in Int
      /\ \A e \in Known(f) : e.title \in Nat /\ e.start \in Int /\ e.days \in Nat /\ e.days > 0
  BY DaysAssumption DEF SeenField, Known, IterationEntry, Readable
<1>1. PICK t \in Nat, d \in Int :
        /\ \/ p.adds = {NewEntry(t, d)}
           \/ p.adds = {NewEntry(t, d), NewEntry(t + 1, d + Days)}
        /\ Known(f) = {} => d = ManifestStart
        /\ Known(f) # {} =>
              \E l \in Known(f) : /\ \A g \in Known(f) : l.start >= g.start
                                  /\ l.title # Unnumbered /\ t = l.title + 1 /\ d = Ends(l)
  BY DEF Extension
<1>2. \A a \in p.adds : /\ a = NewEntry(a.title, a.start) /\ a.title \in Nat /\ a.start \in Int
                        /\ a.title >= t /\ a.start >= d /\ Ends(a) = a.start + Days
                        /\ (a.title = t /\ a.start = d) \/ (a.title = t + 1 /\ a.start = d + Days)
  BY <1>0, <1>1 DEF NewEntry, Ends
<1>3. ASSUME NEW e \in Known(f)
      PROVE  e.title < t /\ Ends(e) <= d /\ e.start < d
  <2>1. PICK l \in Known(f) : /\ \A g \in Known(f) : l.start >= g.start
                              /\ l.title # Unnumbered /\ t = l.title + 1 /\ d = Ends(l)
    BY <1>1
  <2>2. CASE e = l
    BY <1>0, <2>1, <2>2 DEF Ends
  <2>3. CASE e # l
    <3>1. Ends(e) <= l.start
      <4>1. Ends(e) <= l.start \/ Ends(l) <= e.start
        BY <2>3 DEF Readable
      <4> QED BY <1>0, <2>1, <4>1 DEF Ends
    <3>2. e.start < l.start
      BY <1>0, <3>1 DEF Ends
    <3>3. e.title = Unnumbered \/ e.title < l.title
      BY <3>2 DEF Rising
    <3> QED BY <1>0, <2>1, <3>1, <3>2, <3>3 DEF Ends, Unnumbered
  <2> QED BY <2>2, <2>3
<1>4. \A e \in Known(f), a \in p.adds :
         e.title # a.title /\ Ends(e) <= a.start /\ e.start < a.start
  <2> SUFFICES ASSUME NEW e \in Known(f), NEW a \in p.adds
               PROVE  e.title # a.title /\ Ends(e) <= a.start /\ e.start < a.start
    OBVIOUS
  <2>1. e.title \in Nat /\ e.start \in Int /\ Ends(e) \in Int
    BY <1>0 DEF Ends
  <2> QED BY <1>1, <1>2, <1>3, <2>1
<1>5. \A a, b \in p.adds : a # b =>
         /\ a.title # b.title
         /\ a.start < b.start \/ b.start < a.start
         /\ Ends(a) <= b.start \/ Ends(b) <= a.start
  <2> SUFFICES ASSUME NEW a \in p.adds, NEW b \in p.adds, a # b
               PROVE  /\ a.title # b.title
                      /\ a.start < b.start \/ b.start < a.start
                      /\ Ends(a) <= b.start \/ Ends(b) <= a.start
    OBVIOUS
  <2>1. a.title # b.title \/ a.start # b.start
    BY <1>2
  <2> QED BY <1>0, <1>1, <1>2, <2>1
<1>6. p.adds # {} /\ IsFiniteSet(p.adds)
  BY AdditionsAreFew
<1>7. Known(f) = {} => /\ \A a \in p.adds : ManifestStart <= a.start
                       /\ \E a \in p.adds : ManifestStart = a.start
  <2> SUFFICES ASSUME Known(f) = {} PROVE /\ \A a \in p.adds : ManifestStart <= a.start
                                          /\ \E a \in p.adds : ManifestStart = a.start
    OBVIOUS
  <2>1. NewEntry(t, d) \in p.adds /\ NewEntry(t, d).start = d
    BY <1>1 DEF NewEntry
  <2> QED BY <1>1, <1>2, <2>1
<1> QED BY <1>2, <1>4, <1>5, <1>6, <1>7

(* Additions that got their ids. *)
Numbered(adds, new) == {[a EXCEPT !.id = new[a]] : a \in adds}

(* A field that kept all it had, and has the additions under new ids, is    *)
(* read back, and found to be what was planned.                             *)
LEMMA ExtendedVerifies ==
    ASSUME NEW f \in SeenField, IsFiniteSet(Known(f)), Readable(f), Rising(f),
           NEW p \in IterationPlan, p.seen = f, p.adds # {}, Extension(f, p),
           NEW n \in Nat, \A e \in Known(f) : e.id <= n,
           NEW new \in [p.adds -> Nat], \A a \in p.adds : new[a] > n,
           \A a, b \in p.adds : a # b => new[a] # new[b],
           NEW g \in SeenField, g.days = Days, g.done = f.done,
           g.active = f.active \cup Numbered(p.adds, new)
    PROVE  Verified(p, g)
<1> USE DEF Numbered
<1> DEFINE B(a) == [a EXCEPT !.id = new[a]]
<1>0. /\ Days \in Nat /\ Days > 0 /\ ManifestStart \in Int
      /\ Known(f) \subseteq IterationEntry /\ Known(g) \subseteq IterationEntry
      /\ \A e \in Known(f) : /\ e.title \in Nat /\ e.start \in Int /\ e.days \in Nat /\ e.id \in Nat
                             /\ e.days > 0 /\ e.id # NoId /\ e.id <= n
      /\ \A e \in Known(g) : e.title \in Nat /\ e.start \in Int /\ e.days \in Nat /\ e.id \in Nat
      /\ p.target \in Nat \cup {AtCurrent, AtNext} /\ p.asof \in Int
  BY DaysAssumption DEF SeenField, Known, IterationEntry, Readable, IterationPlan
<1>1. /\ \A a \in p.adds : a = NewEntry(a.title, a.start) /\ a.title \in Nat /\ a.start \in Int
      /\ \A e \in Known(f), a \in p.adds :
            e.title # a.title /\ Ends(e) <= a.start /\ e.start < a.start
      /\ \A a, b \in p.adds : a # b =>
            /\ a.title # b.title
            /\ Ends(a) <= b.start \/ Ends(b) <= a.start
      /\ IsFiniteSet(p.adds)
      /\ Known(f) = {} => /\ \A a \in p.adds : ManifestStart <= a.start
                          /\ \E a \in p.adds : ManifestStart = a.start
  BY AdditionsFollow
<1>2. \A a \in p.adds : /\ B(a).title = a.title /\ B(a).start = a.start /\ B(a).days = Days
                        /\ B(a).id = new[a] /\ new[a] \in Nat /\ new[a] > n
                        /\ Ends(B(a)) = Ends(a) /\ Ends(a) = a.start + Days
                        /\ [B(a) EXCEPT !.id = NoId] = a
                        /\ B(a) \in g.active
  <2> SUFFICES ASSUME NEW a \in p.adds
               PROVE  /\ B(a).title = a.title /\ B(a).start = a.start /\ B(a).days = Days
                      /\ B(a).id = new[a] /\ new[a] \in Nat /\ new[a] > n
                      /\ Ends(B(a)) = Ends(a) /\ Ends(a) = a.start + Days
                      /\ [B(a) EXCEPT !.id = NoId] = a
                      /\ B(a) \in g.active
    OBVIOUS
  <2>1. a = [id |-> NoId, title |-> a.title, start |-> a.start, days |-> Days]
    BY <1>1 DEF NewEntry
  <2>2. B(a) = [id |-> new[a], title |-> a.title, start |-> a.start, days |-> Days]
    BY <2>1
  <2>4. B(a) \in g.active /\ new[a] \in Nat /\ new[a] > n
    OBVIOUS
  <2> HIDE DEF B
  <2>3. [B(a) EXCEPT !.id = NoId] = a
    <3>1. [B(a) EXCEPT !.id = NoId]
          = [id |-> NoId, title |-> a.title, start |-> a.start, days |-> Days]
      BY <2>2
    <3> QED BY <2>1, <3>1
  <2>5. a.days = Days
    BY <2>1
  <2>6. /\ B(a).title = a.title /\ B(a).start = a.start /\ B(a).days = Days
        /\ B(a).id = new[a]
    BY <2>2
  <2>7. Ends(B(a)) = Ends(a) /\ Ends(a) = a.start + Days
    BY <2>5, <2>6 DEF Ends
  <2> QED BY <2>3, <2>4, <2>6, <2>7, Zenon
<1>3. \A e \in Known(g) : e \in Known(f) \/ \E a \in p.adds : e = B(a)
  BY DEF Known
<1>4. Known(f) \subseteq Known(g)
  BY DEF Known
<1> HIDE DEF B
<1>5. Readable(g)
  <2>1. \A e \in Known(g) : e.id # NoId /\ e.days > 0
    BY <1>0, <1>2, <1>3 DEF NoId
  <2>2. ASSUME NEW e \in Known(g), NEW h \in Known(g), e # h
        PROVE  e.id # h.id /\ e.title # h.title /\ (Ends(e) <= h.start \/ Ends(h) <= e.start)
    <3>1. CASE e \in Known(f) /\ h \in Known(f)
      BY <2>2, <3>1 DEF Readable
    <3>2. ASSUME NEW a \in p.adds, e \in Known(f), h = B(a)
          PROVE  e.id # h.id /\ e.title # h.title /\ (Ends(e) <= h.start \/ Ends(h) <= e.start)
      BY <1>0, <1>1, <1>2, <3>2
    <3>3. ASSUME NEW a \in p.adds, h \in Known(f), e = B(a)
          PROVE  e.id # h.id /\ e.title # h.title /\ (Ends(e) <= h.start \/ Ends(h) <= e.start)
      BY <1>0, <1>1, <1>2, <3>3
    <3>4. ASSUME NEW a \in p.adds, NEW b \in p.adds, e = B(a), h = B(b)
          PROVE  e.id # h.id /\ e.title # h.title /\ (Ends(e) <= h.start \/ Ends(h) <= e.start)
      <4>1. a # b
        BY <2>2, <3>4
      <4> QED BY <1>1, <1>2, <3>4, <4>1
    <3> QED BY <1>3, <3>1, <3>2, <3>3, <3>4
  <2> QED BY <1>0, <2>1, <2>2 DEF Readable
<1>6. /\ Known(g) # {} /\ \A e \in g.done : e.title # p.target
  <2>1. Known(g) # {}
    BY <1>2 DEF Known
  <2>2. Known(f) = {} => f.done = {}
    BY DEF Known
  <2> QED BY <2>1, <2>2 DEF Extension
<1>7. PICK e \in Found(g, p.target, p.asof) : e \in g.active
  <2>1. PICK a \in p.adds : Answers(a, p.target, p.asof)
    BY DEF Extension
  <2>2. a.title \in Nat
    BY <1>1
  <2>3. CASE p.target = AtCurrent
    <3>1. B(a) \in Current(g, p.asof)
      BY <1>2, <2>1, <2>2, <2>3 DEF Answers, Current, AtCurrent, AtNext
    <3> QED BY <1>2, <2>3, <3>1 DEF Found, AtCurrent, AtNext
  <2>4. CASE p.target = AtNext
    <3>1. B(a) \in Upcoming(g, p.asof)
      BY <1>0, <1>2, <2>1, <2>2, <2>4 DEF Answers, Upcoming, AtCurrent, AtNext, Known
    <3>2. Upcoming(g, p.asof) \in SUBSET IterationEntry /\ IsFiniteSet(Upcoming(g, p.asof))
      <4>1. IsFiniteSet({B(x) : x \in p.adds})
        <5> DEFINE h == [x \in p.adds |-> B(x)]
        <5>1. h = [x \in p.adds |-> h[x]]
          OBVIOUS
        <5>2. {h[x] : x \in p.adds} = {B(x) : x \in p.adds}
          OBVIOUS
        <5> HIDE DEF h
        <5>3. IsFiniteSet(p.adds)
          BY <1>1
        <5>4. IsFiniteSet({h[x] : x \in p.adds})
          BY <5>1, <5>3, ValuesAreFinite
        <5> QED BY <5>2, <5>4
      <4>2. IsFiniteSet(Known(f) \cup {B(x) : x \in p.adds})
        BY <4>1, FS_Union
      <4>3. Upcoming(g, p.asof) \in SUBSET (Known(f) \cup {B(x) : x \in p.adds})
        BY DEF Upcoming, Known, B
      <4>4. IsFiniteSet(Upcoming(g, p.asof))
        BY <4>2, <4>3, FS_Subset
      <4>5. Upcoming(g, p.asof) \in SUBSET IterationEntry
        BY <1>0 DEF Upcoming, Known
      <4> QED BY <4>4, <4>5
    <3>3. Earliest(Upcoming(g, p.asof)) \in Upcoming(g, p.asof)
      BY <3>1, <3>2, EarliestIs
    <3>4. Earliest(Upcoming(g, p.asof)) \in Found(g, p.target, p.asof)
      BY <2>4, <3>1 DEF Found, AtCurrent, AtNext
    <3>5. Earliest(Upcoming(g, p.asof)) \in g.active
      BY <3>3 DEF Upcoming
    <3> QED BY <3>4, <3>5
  <2>5. CASE p.target \notin {AtCurrent, AtNext}
    <3>1. B(a).title = p.target
      BY <1>2, <2>1, <2>5 DEF Answers
    <3> QED BY <1>2, <2>5, <3>1 DEF Found
  <2> QED BY <2>3, <2>4, <2>5
<1>8. \E q \in IterationPlans(g, p.target, p.asof) : Ready(q)
  <2> DEFINE q == Planned(g, p.target, p.asof, {}, e)
  <2>1. q \in IterationPlans(g, p.target, p.asof)
    BY <1>5, <1>6, <1>7 DEF IterationPlans
  <2>2. e.id # NoId
    BY <1>5, <1>7 DEF Readable, Known
  <2>3. Ready(q)
    BY <2>2 DEF Ready, Planned
  <2> QED BY <2>1, <2>3
<1>9. StartOf(g) = IF Known(f) = {} THEN ManifestStart ELSE StartOf(f)
  <2> DEFINE S(x) == {h.start : h \in Known(x)}
  <2>1. S(g) \in SUBSET Int
    BY <1>0
  <2>2. \A h \in Known(g) : h \in Known(f) \/ \E a \in p.adds : h.start = a.start
    BY <1>2, <1>3
  <2>3. \A a \in p.adds : B(a) \in Known(g) /\ B(a).start = a.start
    BY <1>2 DEF Known
  <2>4. CASE Known(f) = {}
    <3>1. ManifestStart \in S(g)
      BY <1>1, <2>3, <2>4
    <3>2. \A y \in S(g) : ManifestStart <= y
      BY <1>1, <2>2, <2>4
    <3> QED BY <2>1, <2>4, <3>1, <3>2, MinFound DEF StartOf
  <2>5. CASE Known(f) # {}
    <3>1. StartOf(f) \in S(f) /\ \A y \in S(f) : StartOf(f) <= y
      <4>1. S(f) \in SUBSET Int /\ IsFiniteSet(S(f)) /\ S(f) # {}
        BY <1>0, <2>5, StartsAreFinite
      <4> HIDE DEF S
      <4>2. Min(S(f)) \in S(f) /\ \A y \in S(f) : Min(S(f)) <= y
        BY <4>1, MinIs
      <4> QED BY <4>2 DEF StartOf, S
    <3>2. PICK h \in Known(f) : StartOf(f) = h.start
      BY <3>1
    <3>3. StartOf(f) \in S(g)
      BY <1>4, <3>2
    <3>4. \A y \in S(g) : StartOf(f) <= y
      <4> SUFFICES ASSUME NEW k \in Known(g) PROVE StartOf(f) <= k.start
        OBVIOUS
      <4>1. CASE k \in Known(f)
        BY <3>1, <4>1
      <4>2. CASE \E a \in p.adds : k.start = a.start
        BY <1>0, <1>1, <3>2, <4>2
      <4> QED BY <2>2, <4>1, <4>2
    <3> QED BY <2>1, <2>5, <3>3, <3>4, MinFound DEF StartOf
  <2> QED BY <2>4, <2>5
<1>10. \A a \in p.adds : \E h \in g.active : [h EXCEPT !.id = NoId] = a
  BY <1>2
<1> QED BY <1>8, <1>9, <1>10 DEF Verified

-----------------------------------------------------------------------------
(* The inductive invariant, and what GitHub stores.                         *)

(* The reviewed plan is a plan of the field it was shown, and all sets are  *)
(* finite.                                                                  *)
Reviewed(p) ==
    /\ p \in IterationPlan /\ IsFiniteSet(Known(p.seen)) /\ IsFiniteSet(p.adds)
    /\ p \in IterationPlans(p.seen, p.target, p.asof)
Settled ==
    /\ IsFiniteSet(Items) /\ Items \subseteq Nat \ {NoItem}
    /\ IsFiniteSet(field.all)
    /\ plan = None \/ Reviewed(plan)
    /\ stage = "fetched" => plan.adds # {}
Formed == TypeOK /\ Settled

(* What is read is a field of entries. *)
LEMMA SeenIs ==
    ASSUME Formed
    PROVE  /\ Seen \in SeenField /\ Known(Seen) = field.all /\ IsFiniteSet(Known(Seen))
           /\ \A e \in Known(Seen) : e.id \in 1..issued
  BY DEF Formed, TypeOK, Settled, Seen, SeenField, Known, IterationField

(* A plan made now is reviewed as one. *)
LEMMA PlansAreReviewed ==
    ASSUME Formed, NEW target \in Nat \cup {AtCurrent, AtNext}, NEW asof \in Int,
           NEW p \in IterationPlans(Seen, target, asof)
    PROVE  /\ Reviewed(p) /\ p # None /\ p.seen = Seen
           /\ Ready(p) => p.id \in 1..issued
<1>1. /\ p.seen = Seen /\ p.target = target /\ p.asof = asof
      /\ p.adds = {} => \E e \in Seen.active : p.id = e.id
      /\ p.adds # {} => Extension(Seen, p)
      /\ p \in IterationPlan
  BY SeenIs, PlansAre
<1>2. IsFiniteSet(p.adds)
  BY <1>1, AdditionsAreFew, FS_EmptySet
<1>3. Reviewed(p)
  BY <1>1, <1>2, SeenIs DEF Reviewed
<1>4. Ready(p) => p.id \in 1..issued
  BY <1>1, SeenIs DEF Ready, Known
<1> QED BY <1>1, <1>3, <1>4, NoneAssumption

(* A changed item is an item. *)
LEMMA EditsAreItems ==
    ASSUME NEW ids, NEW x \in BacklogItem(ids)
    PROVE  /\ \A s \in {"Ready", Blocked, Done} : [x EXCEPT !.status = s] \in BacklogItem(ids)
           /\ [x EXCEPT !.ready = TRUE] \in BacklogItem(ids)
           /\ \A d \in SUBSET ids : [x EXCEPT !.deps = d] \in BacklogItem(ids)
  BY DEF BacklogItem

(* A backlog with one item changed is well formed.                          *)
LEMMA EditFormed ==
    ASSUME Formed, NEW i \in Items, NEW x \in BacklogItem(Items),
           backlog' = [backlog EXCEPT ![i] = x],
           UNCHANGED <<assigned, field, issued, today, plan, stage>>, events' \in 0..MaxEvents
    PROVE  Formed'
<1>1. Items' = Items
  BY DEF Items
<1>2. \A j \in Items : backlog'[j] \in BacklogItem(Items)
  BY DEF Formed, TypeOK, Items
<1>3. TypeOK'
  BY <1>1, <1>2 DEF Formed, TypeOK
<1>4. Settled'
  BY <1>1 DEF Formed, Settled
<1> QED BY <1>3, <1>4 DEF Formed

-----------------------------------------------------------------------------
(* What GitHub stores.                                                      *)
Number(e) == issued + Cardinality({g \in Request : g.start <= e.start})

(* The new ids are all above those given out, and differ where starts do.   *)
LEMMA NumbersAreNew ==
    ASSUME Formed, plan # None
    PROVE  /\ IsFiniteSet(Request) /\ Request \subseteq IterationEntry
           /\ Cardinality(Request) \in Nat
           /\ \A e \in Request : Number(e) \in (issued + 1)..(issued + Cardinality(Request))
           /\ \A a, b \in Request : a.start < b.start => Number(a) # Number(b)
<1> DEFINE Upto(e) == {g \in Request : g.start <= e.start}
<1>1. /\ plan.seen.active \subseteq IterationEntry /\ plan.adds \subseteq IterationEntry
      /\ IsFiniteSet(Known(plan.seen)) /\ IsFiniteSet(plan.adds) /\ issued \in Nat
  BY DEF Formed, TypeOK, Settled, Reviewed, IterationPlan
<1>2. IsFiniteSet(plan.seen.active)
  <2>1. plan.seen.active \in SUBSET Known(plan.seen)
    BY DEF Known
  <2> QED BY <1>1, <2>1, FS_Subset
<1>3. IsFiniteSet(Request) /\ Request \subseteq IterationEntry /\ Cardinality(Request) \in Nat
  <2>1. IsFiniteSet(Request)
    BY <1>1, <1>2, FS_Union DEF Request
  <2> QED BY <1>1, <2>1, FS_CardinalityType DEF Request
<1>4. ASSUME NEW e \in Request
      PROVE  /\ IsFiniteSet(Upto(e)) /\ e \in Upto(e)
             /\ Cardinality(Upto(e)) \in 1..Cardinality(Request)
  <2>1. Upto(e) \in SUBSET Request
    OBVIOUS
  <2>2. e \in Upto(e)
    BY <1>3 DEF IterationEntry
  <2> HIDE DEF Upto
  <2>3. IsFiniteSet(Upto(e)) /\ Cardinality(Upto(e)) <= Cardinality(Request)
    BY <1>3, <2>1, FS_Subset
  <2>4. Cardinality(Upto(e)) \in Nat /\ Cardinality(Upto(e)) # 0
    BY <2>2, <2>3, FS_CardinalityType, FS_EmptySet
  <2> QED BY <1>3, <2>2, <2>3, <2>4
<1>5. \A e : Number(e) = issued + Cardinality(Upto(e))
  BY DEF Number
<1>6. ASSUME NEW a \in Request, NEW b \in Request, a.start < b.start
      PROVE  Number(a) # Number(b)
  <2>1. \A g \in Request : g.start \in Int
    BY <1>3 DEF IterationEntry
  <2>2. Upto(a) \in SUBSET Upto(b) /\ b \notin Upto(a)
    BY <1>6, <2>1
  <2> HIDE DEF Upto
  <2>3. Cardinality(Upto(a)) # Cardinality(Upto(b))
    BY <1>4, <2>2, FS_Subset
  <2> QED BY <1>1, <1>4, <1>5, <2>3
<1> HIDE DEF Upto
<1> QED BY <1>1, <1>3, <1>4, <1>5, <1>6

(* What is stored is finitely many entries, with ids that were given out.   *)
LEMMA StoredIs ==
    ASSUME Formed, stage = "fetched", NEW keepIds, NEW keepDone
    PROVE  LET all == Stored(keepIds) \cup Untouched(keepDone)
           IN  /\ all \subseteq IterationEntry /\ IsFiniteSet(all)
               /\ \A e \in all : e.id \in 1..(issued + Cardinality(Request))
<1>0. plan # None
  BY DEF Formed, TypeOK
<1>1. /\ IsFiniteSet(Request) /\ Request \subseteq IterationEntry
      /\ Cardinality(Request) \in Nat /\ issued \in Nat
      /\ \A e \in Request : Number(e) \in (issued + 1)..(issued + Cardinality(Request))
      /\ field.all \subseteq IterationEntry /\ IsFiniteSet(field.all)
      /\ \A e \in field.all : e.id \in 1..issued
  BY <1>0, NumbersAreNew DEF Formed, TypeOK, Settled, IterationField
<1> DEFINE id == [e \in Request |->
                    IF keepIds /\ \E g \in field.all : SameEntry(e, g)
                    THEN (CHOOSE g \in field.all : SameEntry(e, g)).id
                    ELSE Number(e)]
<1>2. \A e \in Request : id[e] \in 1..(issued + Cardinality(Request))
  <2> SUFFICES ASSUME NEW e \in Request PROVE id[e] \in 1..(issued + Cardinality(Request))
    OBVIOUS
  <2>1. CASE keepIds /\ \E g \in field.all : SameEntry(e, g)
    <3>1. (CHOOSE g \in field.all : SameEntry(e, g)) \in field.all
      BY <2>1
    <3>2. id[e] \in 1..issued
      BY <1>1, <2>1, <3>1
    <3> HIDE DEF id
    <3> QED BY <1>1, <3>2
  <2>2. CASE ~(keepIds /\ \E g \in field.all : SameEntry(e, g))
    <3>1. id[e] = Number(e)
      BY <2>2
    <3> HIDE DEF id
    <3> QED BY <1>1, <3>1
  <2> QED BY <2>1, <2>2
<1> DEFINE new == [e \in Request |-> [e EXCEPT !.id = id[e]]]
<1>3. Stored(keepIds) = {new[e] : e \in Request}
  BY DEF Stored, Number
<1> HIDE DEF id
<1>4. \A e \in Request : new[e] \in IterationEntry /\ new[e].id = id[e]
  BY <1>1, <1>2 DEF IterationEntry
<1>5. IsFiniteSet(Stored(keepIds))
  <2>1. new = [e \in Request |-> new[e]]
    OBVIOUS
  <2> HIDE DEF new
  <2> QED BY <1>1, <1>3, <2>1, ValuesAreFinite
<1>6. Untouched(keepDone) \in SUBSET field.all
  BY DEF Untouched
<1>7. IsFiniteSet(Stored(keepIds) \cup Untouched(keepDone))
  <2>1. IsFiniteSet(Untouched(keepDone))
    BY <1>1, <1>6, FS_Subset
  <2> QED BY <1>5, <2>1, FS_Union
<1> HIDE DEF new
<1>8. \A e \in Stored(keepIds) : e \in IterationEntry /\ e.id \in 1..(issued + Cardinality(Request))
  BY <1>2, <1>3, <1>4
<1>9. \A e \in Untouched(keepDone) : e \in IterationEntry /\ e.id \in 1..(issued + Cardinality(Request))
  BY <1>1, <1>6
<1> QED BY <1>7, <1>8, <1>9

(* A manifest that was validated, and a field that was read, are well       *)
(* formed.                                                                  *)
LEMMA InitFormed == Init => Formed
<1> SUFFICES ASSUME Init PROVE Formed
  OBVIOUS
<1>1. PICK s \in InitStates :
        /\ backlog = s.backlog /\ assigned = s.assigned /\ field = s.field
        /\ today = s.today /\ events = s.events /\ issued = LastId(s.field)
  BY DEF Init
<1>2. /\ IsFiniteSet(Items) /\ Items \subseteq Nat \ {NoItem}
      /\ \A i \in Items : backlog[i] \in BacklogItem(Items)
      /\ field \in IterationField /\ IsFiniteSet(field.all)
      /\ \A e \in field.all : e.id # NoId
      /\ assigned \in [Items -> 0..issued] /\ issued = LastId(field)
      /\ today \in Int /\ today <= MaxDay /\ events \in 0..MaxEvents
  BY <1>1, InitAssumption DEF Items
<1>3. issued \in Nat /\ \A e \in field.all : e.id \in 1..issued
  <2> DEFINE f == [e \in field.all |-> e.id]
             ids == {e.id : e \in field.all}
             S == {NoId} \cup ids
  <2>1. \A e \in field.all : e.id \in Nat
    BY <1>2 DEF IterationField, IterationEntry
  <2>2. IsFiniteSet(ids)
    <3>1. f = [e \in field.all |-> f[e]] /\ {f[e] : e \in field.all} = ids
      OBVIOUS
    <3> HIDE DEF f, ids
    <3> QED BY <1>2, <3>1, ValuesAreFinite
  <2>3. IsFiniteSet(S) /\ S # {} /\ S \in SUBSET Int
    <3>1. S \in SUBSET Int
      BY <2>1 DEF NoId
    <3>2. IsFiniteSet({NoId})
      BY FS_Singleton
    <3>3. IsFiniteSet(S)
      BY <2>2, <3>2, FS_Union
    <3> QED BY <3>1, <3>3
  <2>4. LastId(field) = Max(S)
    BY DEF LastId
  <2>5. Max(S) \in S /\ \A y \in S : Max(S) >= y
    <3> HIDE DEF S
    <3> QED BY <2>3, MaxIs
  <2>6. Max(S) \in Nat
    BY <2>1, <2>5 DEF NoId
  <2>7. \A e \in field.all : e.id \in 1..Max(S)
    BY <1>2, <2>1, <2>5, <2>6 DEF NoId
  <2> HIDE DEF S
  <2> QED BY <1>2, <2>4, <2>6, <2>7
<1>4. stage = "idle" /\ plan = None
  BY DEF Init
<1>5. TypeOK
  BY <1>2, <1>3, <1>4 DEF TypeOK
<1>6. Settled
  BY <1>2, <1>4 DEF Settled
<1> QED BY <1>5, <1>6 DEF Formed

(* ... and remain so.                                                       *)
LEMMA NextFormed == Formed /\ [Next]_vars => Formed'
<1> SUFFICES ASSUME Formed, [Next]_vars PROVE Formed'
  OBVIOUS
<1>0. MaxEvents \in Nat /\ MaxDay \in Int /\ Title \subseteq Nat /\ Days \in Nat
  BY BoundsAssumption, DaysAssumption
<1>a. ASSUME Spend PROVE events' \in 0..MaxEvents
  BY <1>0, <1>a DEF Spend, Formed, TypeOK
<1>1. CASE PlanIterations
  <2>1. PICK target \in Title \cup {AtCurrent, AtNext}, asof \in {today, today + 1} :
          plan' \in IterationPlans(Seen, target, asof)
    BY <1>1 DEF PlanIterations
  <2>2. target \in Nat \cup {AtCurrent, AtNext} /\ asof \in Int
    BY <1>0, <2>1 DEF Formed, TypeOK
  <2>3. Reviewed(plan') /\ plan' # None
    BY <2>1, <2>2, PlansAreReviewed
  <2>4. events' \in 0..MaxEvents
    BY <1>1, <1>a DEF PlanIterations
  <2>5. TypeOK'
    BY <1>1, <2>3, <2>4 DEF PlanIterations, Formed, TypeOK, Items
  <2>6. Settled'
    BY <1>1, <2>3 DEF PlanIterations, Formed, Settled, Items
  <2> QED BY <2>5, <2>6 DEF Formed
<1>b. ASSUME EndApply, UNCHANGED <<backlog, assigned, field, issued, today, events>> PROVE Formed'
  <2>1. TypeOK'
    BY <1>b DEF EndApply, Formed, TypeOK, Items
  <2>2. Settled'
    BY <1>b DEF EndApply, Formed, Settled, Items
  <2> QED BY <2>1, <2>2 DEF Formed
<1>2. CASE FetchIterations
  <2>1. CASE EndApply
    BY <1>2, <1>b, <2>1 DEF FetchIterations
  <2>2. CASE ~EndApply
    <3>1. /\ plan' = plan /\ stage = "reviewed"
          /\ stage' = IF plan.adds = {} THEN "written" ELSE "fetched"
          /\ UNCHANGED <<backlog, assigned, field, issued, today, events>>
      BY <1>2, <2>2 DEF FetchIterations
    <3>2. TypeOK'
      BY <3>1 DEF Formed, TypeOK, Items
    <3>3. Settled'
      BY <3>1 DEF Formed, Settled, Items
    <3> QED BY <3>2, <3>3 DEF Formed
  <2> QED BY <2>1, <2>2
<1>3. CASE ReplaceIterations
  <2>1. /\ stage = "fetched" /\ stage' = "written" /\ issued' = issued + Cardinality(Request)
        /\ UNCHANGED <<backlog, assigned, today, plan, events>>
    BY <1>3 DEF ReplaceIterations
  <2>2. PICK keepIds \in BOOLEAN, keepDone \in BOOLEAN :
          field' = [days |-> Days, all |-> Stored(keepIds) \cup Untouched(keepDone)]
    BY <1>3 DEF ReplaceIterations
  <2>3. /\ field'.all \subseteq IterationEntry /\ IsFiniteSet(field'.all)
        /\ \A e \in field'.all : e.id \in 1..issued'
    BY <2>1, <2>2, StoredIs
  <2>4. Cardinality(Request) \in Nat /\ issued \in Nat /\ issued' \in Nat
    <3>1. plan # None
      BY <2>1 DEF Formed, TypeOK
    <3> QED BY <2>1, <3>1, NumbersAreNew DEF Formed, TypeOK
  <2>5. field' \in IterationField
    BY <1>0, <2>2, <2>3 DEF IterationField
  <2>6. assigned \in [Items -> 0..issued']
    BY <2>1, <2>4 DEF Formed, TypeOK
  <2>7. TypeOK'
    BY <2>1, <2>3, <2>4, <2>5, <2>6 DEF Formed, TypeOK, Items
  <2>8. Settled'
    BY <2>1, <2>3 DEF Formed, Settled, Items
  <2> QED BY <2>7, <2>8 DEF Formed
<1>4. CASE ReplaceFails
  BY <1>4, <1>b DEF ReplaceFails
<1>5. CASE CheckIterations
  BY <1>5, <1>b DEF CheckIterations
<1>6. ASSUME NEW i \in Items, Commit(i) PROVE Formed'
  <2>1. PICK target \in {AtCurrent, AtNext} :
          \E p \in IterationPlans(Seen, target, today) :
             Ready(p) /\ assigned' = [assigned EXCEPT ![i] = p.id]
    BY <1>6 DEF Commit
  <2>2. PICK p \in IterationPlans(Seen, target, today) :
             Ready(p) /\ assigned' = [assigned EXCEPT ![i] = p.id]
    BY <2>1
  <2>3. p.id \in 1..issued /\ issued \in Nat
    BY <2>2, PlansAreReviewed DEF Formed, TypeOK
  <2>4. assigned' \in [Items -> 0..issued]
    BY <2>2, <2>3 DEF Formed, TypeOK
  <2>5. TypeOK'
    BY <1>6, <2>4 DEF Commit, Formed, TypeOK, Items
  <2>6. Settled'
    BY <1>6 DEF Commit, Formed, Settled, Items
  <2> QED BY <2>5, <2>6 DEF Formed
<1>c. \A i \in Items : backlog[i] \in BacklogItem(Items)
  BY DEF Formed, TypeOK
<1>7. ASSUME NEW i \in Items, CloseParent(i) PROVE Formed'
  <2>1. backlog' = [backlog EXCEPT ![i] = [backlog[i] EXCEPT !.status = Done]]
    BY <1>7 DEF CloseParent
  <2>2. events' \in 0..MaxEvents
    BY <1>7 DEF CloseParent, Formed, TypeOK
  <2>3. [backlog[i] EXCEPT !.status = Done] \in BacklogItem(Items)
    BY <1>c, EditsAreItems
  <2> QED BY <1>7, <2>1, <2>2, <2>3, EditFormed DEF CloseParent
<1>8. CASE WorkOnNext
  <2> DEFINE i == NextItem(Observed)
  <2>1. backlog' = [backlog EXCEPT ![i].status = Done] /\ events' \in 0..MaxEvents
    BY <1>8 DEF WorkOnNext, Formed, TypeOK
  <2>2. UNCHANGED <<assigned, field, issued, today, plan, stage, held, honoured, events>>
    BY <1>8 DEF WorkOnNext
  <2> HIDE DEF i
  <2>3. CASE i \in Items
    <3>1. backlog' = [backlog EXCEPT ![i] = [backlog[i] EXCEPT !.status = Done]]
      BY <2>1
    <3>2. [backlog[i] EXCEPT !.status = Done] \in BacklogItem(Items)
      BY <1>c, <2>3, EditsAreItems
    <3> QED BY <2>1, <2>2, <2>3, <3>1, <3>2, EditFormed
  <2>4. CASE i \notin Items
    <3>1. Items' = Items /\ \A j \in Items : backlog'[j] = backlog[j]
      BY <2>1, <2>4 DEF Items
    <3>2. TypeOK'
      BY <2>1, <2>2, <3>1 DEF Formed, TypeOK
    <3>3. Settled'
      BY <2>2, <3>1 DEF Formed, Settled
    <3> QED BY <3>2, <3>3 DEF Formed
  <2> QED BY <2>3, <2>4
<1>9. CASE PassDay
  <2>1. today' \in Int /\ today' <= MaxDay
    BY <1>0, <1>9 DEF PassDay, Formed, TypeOK
  <2>2. TypeOK'
    BY <1>9, <2>1 DEF PassDay, Formed, TypeOK, Items
  <2>3. Settled'
    BY <1>9 DEF PassDay, Formed, Settled, Items
  <2> QED BY <2>2, <2>3 DEF Formed
<1>10. ASSUME NEW i \in Items, NEW x \in BacklogItem(Items), EditBacklog(i, x) PROVE Formed'
  <2>1. events' \in 0..MaxEvents
    BY <1>10, <1>a DEF EditBacklog
  <2> QED BY <1>10, <2>1, EditFormed DEF EditBacklog
<1>11. ASSUME NEW i \in Items, NEW id \in {NoId} \cup {e.id : e \in field.all}, Move(i, id)
       PROVE  Formed'
  <2>1. events' \in 0..MaxEvents
    BY <1>11, <1>a DEF Move
  <2>2. id \in 0..issued
    BY <1>11 DEF Formed, TypeOK, NoId
  <2>3. assigned' \in [Items -> 0..issued]
    BY <1>11, <2>2 DEF Move, Formed, TypeOK
  <2>4. TypeOK'
    BY <1>11, <2>1, <2>3 DEF Move, Formed, TypeOK, Items
  <2>5. Settled'
    BY <1>11 DEF Move, Formed, Settled, Items
  <2> QED BY <2>4, <2>5 DEF Formed
<1>12. ASSUME NEW title \in Title, AddIteration(title) PROVE Formed'
  <2> DEFINE e == [id |-> issued + 1, title |-> title,
                   start |-> Ends(Latest(field.all)), days |-> field.days]
  <2>1. /\ field' = [field EXCEPT !.all = field.all \cup {e}] /\ issued' = issued + 1
        /\ field.all # {} /\ UNCHANGED <<backlog, assigned, today, plan, stage>>
    BY <1>12 DEF AddIteration
  <2>2. /\ field.all \in SUBSET IterationEntry /\ IsFiniteSet(field.all) /\ field.days \in Nat
        /\ issued \in Nat /\ field \in [days : Nat, all : SUBSET IterationEntry]
        /\ \A g \in field.all : g.id \in 1..issued
    BY DEF Formed, TypeOK, Settled, IterationField
  <2>3. Ends(Latest(field.all)) \in Int
    <3>1. Latest(field.all) \in IterationEntry
      BY <2>1, <2>2, LatestIs
    <3> QED BY <3>1 DEF Ends, IterationEntry
  <2>4. e \in IterationEntry /\ e.id = issued + 1
    BY <1>0, <2>2, <2>3 DEF IterationEntry
  <2> HIDE DEF e
  <2>5. field'.all = field.all \cup {e} /\ field' \in IterationField
    BY <2>1, <2>2, <2>4 DEF IterationField
  <2>6. IsFiniteSet(field'.all)
    BY <2>2, <2>5, FS_AddElement
  <2>7. issued' \in Nat /\ \A g \in field'.all : g.id \in 1..issued'
    BY <2>1, <2>2, <2>4, <2>5
  <2>8. assigned' \in [Items -> 0..issued']
    BY <2>1, <2>2 DEF Formed, TypeOK
  <2>9. events' \in 0..MaxEvents
    BY <1>12, <1>a DEF AddIteration
  <2>10. TypeOK'
    BY <2>1, <2>5, <2>7, <2>8, <2>9 DEF Formed, TypeOK, Items
  <2>11. Settled'
    BY <2>1, <2>6 DEF Formed, Settled, Items
  <2> QED BY <2>10, <2>11 DEF Formed
<1>13. ASSUME NEW e \in field.all, RemoveIteration(e) PROVE Formed'
  <2>1. /\ field' = [field EXCEPT !.all = field.all \ {e}]
        /\ UNCHANGED <<backlog, assigned, issued, today, plan, stage>>
    BY <1>13 DEF RemoveIteration
  <2>2. field'.all \in SUBSET field.all /\ field' \in IterationField
    BY <2>1 DEF Formed, TypeOK, IterationField
  <2>3. IsFiniteSet(field'.all)
    BY <2>2, FS_Subset DEF Formed, Settled
  <2>4. events' \in 0..MaxEvents
    BY <1>13, <1>a DEF RemoveIteration
  <2>5. TypeOK'
    BY <2>1, <2>2, <2>4 DEF Formed, TypeOK, Items
  <2>6. Settled'
    BY <2>1, <2>3 DEF Formed, Settled, Items
  <2> QED BY <2>5, <2>6 DEF Formed
<1>14. CASE People
  <2>1. ASSUME NEW i \in Items, NEW status \in {"Ready", Blocked, Done}, SetStatus(i, status)
        PROVE  Formed'
    <3>1. [backlog[i] EXCEPT !.status = status] \in BacklogItem(Items)
      BY <1>c, EditsAreItems
    <3> QED BY <1>10, <2>1, <3>1 DEF SetStatus
  <2>2. ASSUME NEW i \in Items, Refine(i) PROVE Formed'
    <3>1. [backlog[i] EXCEPT !.ready = TRUE] \in BacklogItem(Items)
      BY <1>c, EditsAreItems
    <3> QED BY <1>10, <2>2, <3>1 DEF Refine
  <2>3. ASSUME NEW i \in Items, NEW deps \in SUBSET Items, Depend(i, deps) PROVE Formed'
    <3>1. [backlog[i] EXCEPT !.deps = deps] \in BacklogItem(Items)
      BY <1>c, EditsAreItems
    <3> QED BY <1>10, <2>3, <3>1 DEF Depend
  <2> QED BY <1>11, <1>12, <1>13, <1>14, <2>1, <2>2, <2>3 DEF People, Items
<1>15. CASE UNCHANGED vars
  <2>1. TypeOK'
    BY <1>15 DEF vars, Formed, TypeOK, Items
  <2>2. Settled'
    BY <1>15 DEF vars, Formed, Settled, Items
  <2> QED BY <2>1, <2>2 DEF Formed
<1> QED
  BY <1>1, <1>2, <1>3, <1>4, <1>5, <1>6, <1>7, <1>8, <1>9, <1>14, <1>15 DEF Next, Items

-----------------------------------------------------------------------------
(* No cycle.                                                                *)

(* A well-formed backlog is a graph the search is right about.              *)
LEMMA BacklogIsGraph == Formed => Graph(backlog)
  BY DEF Formed, TypeOK, Settled, BacklogItem, Graph, Items

(* The backlog that was validated has no cycle.                             *)
LEMMA InitAcyclic == Init => Acyclic
<1> SUFFICES ASSUME Init PROVE Acyclic
  OBVIOUS
<1>1. ~FindsCycle(backlog)
  BY InitAssumption DEF Init
<1>2. Graph(backlog)
  BY InitFormed, BacklogIsGraph
<1>3. \A S \in SUBSET DOMAIN backlog : S # {} => \E i \in S : backlog[i].deps \cap S = {}
  BY <1>1, <1>2, SearchMissesNothing
<1> QED BY <1>3 DEF Acyclic, Items

(* Every action keeps the dependencies of every item but Depend, which      *)
(* searches first.                                                          *)
LEMMA NextAcyclic == Formed /\ Acyclic /\ [Next]_vars => Acyclic'
<1> SUFFICES ASSUME Formed, Acyclic, [Next]_vars PROVE Acyclic'
  OBVIOUS
<1>0. Formed'
  BY NextFormed
<1>1. ASSUME Items' = Items, \A i \in Items : backlog'[i].deps = backlog[i].deps
      PROVE  Acyclic'
  <2> SUFFICES ASSUME NEW S \in SUBSET Items, S # {}
               PROVE  \E i \in S : backlog'[i].deps \cap S = {}
    BY <1>1 DEF Acyclic
  <2>1. PICK i \in S : backlog[i].deps \cap S = {}
    BY DEF Acyclic
  <2>2. backlog'[i].deps = backlog[i].deps
    BY <1>1
  <2> QED BY <2>1, <2>2
<1>2. \A i \in Items : backlog[i] \in BacklogItem(Items)
  BY DEF Formed, TypeOK
<1>3. ASSUME NEW i, NEW x, backlog' = [backlog EXCEPT ![i] = x], i \in Items => x.deps = backlog[i].deps
      PROVE  Acyclic'
  BY <1>1, <1>3 DEF Items
<1>4. ASSUME UNCHANGED backlog PROVE Acyclic'
  BY <1>1, <1>4 DEF Items
<1>5. ASSUME NEW i \in Items, NEW status
      PROVE  [backlog[i] EXCEPT !.status = status].deps = backlog[i].deps
  BY <1>2 DEF BacklogItem
<1>6. CASE WorkOnNext
  <2> DEFINE i == NextItem(Observed)
  <2>1. backlog' = [backlog EXCEPT ![i] = [backlog[i] EXCEPT !.status = Done]]
    BY <1>6 DEF WorkOnNext
  <2> HIDE DEF i
  <2> QED BY <1>3, <1>5, <2>1
<1>7. ASSUME NEW i \in Items, CloseParent(i) PROVE Acyclic'
  <2>1. backlog' = [backlog EXCEPT ![i] = [backlog[i] EXCEPT !.status = Done]]
    BY <1>7 DEF CloseParent
  <2> QED BY <1>3, <1>5, <2>1
<1>8. CASE People
  <2>1. ASSUME NEW i \in Items, NEW status, SetStatus(i, status) PROVE Acyclic'
    BY <1>3, <1>5, <2>1 DEF SetStatus, EditBacklog
  <2>2. ASSUME NEW i \in Items, Refine(i) PROVE Acyclic'
    <3>1. [backlog[i] EXCEPT !.ready = TRUE].deps = backlog[i].deps
      BY <1>2 DEF BacklogItem
    <3> QED BY <1>3, <2>2, <3>1 DEF Refine, EditBacklog
  <2>3. ASSUME NEW i \in Items, NEW deps \in SUBSET Items, Depend(i, deps) PROVE Acyclic'
    <3>1. backlog' = [backlog EXCEPT ![i].deps = deps]
      BY <2>3 DEF Depend, EditBacklog
    <3>2. ~FindsCycle(backlog')
      BY <2>3, <3>1 DEF Depend
    <3>3. Graph(backlog')
      BY <1>0 DEF Formed, TypeOK, Settled, BacklogItem, Graph, Items
    <3> QED BY <3>2, <3>3, SearchMissesNothing DEF Acyclic, Items
  <2>4. ASSUME NEW i \in Items, NEW id, Move(i, id) PROVE Acyclic'
    BY <1>4, <2>4 DEF Move
  <2>5. ASSUME NEW title, AddIteration(title) PROVE Acyclic'
    BY <1>4, <2>5 DEF AddIteration
  <2>6. ASSUME NEW e \in field.all, RemoveIteration(e) PROVE Acyclic'
    BY <1>4, <2>6 DEF RemoveIteration
  <2> QED BY <1>8, <2>1, <2>2, <2>3, <2>4, <2>5, <2>6 DEF People, Items
<1>9. ASSUME \/ PlanIterations \/ FetchIterations \/ ReplaceIterations \/ ReplaceFails
             \/ CheckIterations \/ PassDay \/ UNCHANGED vars
             \/ \E i \in DOMAIN backlog : Commit(i)
      PROVE  Acyclic'
  BY <1>4, <1>9 DEF PlanIterations, FetchIterations, ReplaceIterations, ReplaceFails,
     CheckIterations, PassDay, vars, Commit
<1> QED BY <1>6, <1>7, <1>8, <1>9 DEF Next, Items

-----------------------------------------------------------------------------
(* What an honest GitHub stores.                                            *)
LEMMA HonestlyStored ==
    ASSUME Formed, stage = "fetched", Seen = plan.seen, Rising(plan.seen),
           \A a \in plan.adds : ~Over(a),
           NEW all, all = Stored(TRUE) \cup Untouched(TRUE),
           NEW g, g = [days |-> Days, active |-> {e \in all : ~Over(e)},
                       done |-> {e \in all : Over(e)}]
    PROVE  Verified(plan, g)
<1> DEFINE f == plan.seen
           p == plan
           new == [a \in plan.adds |-> Number(a)]
           B(a) == [a EXCEPT !.id = new[a]]
<1>0. p # None /\ p.adds # {} /\ Reviewed(p)
  BY DEF Formed, TypeOK, Settled
<1>1. /\ f \in SeenField /\ IsFiniteSet(Known(f)) /\ Known(f) = field.all
      /\ \A e \in Known(f) : e.id \in 1..issued
      /\ field.all \subseteq IterationEntry /\ issued \in Nat
  BY SeenIs DEF Formed, TypeOK, IterationField
<1>2. Readable(f) /\ Extension(f, p) /\ p \in IterationPlan
  <2>1. /\ p.target \in Nat \cup {AtCurrent, AtNext} /\ p.asof \in Int
        /\ p \in IterationPlans(f, p.target, p.asof) /\ p \in IterationPlan
    BY <1>0 DEF Reviewed, IterationPlan
  <2> QED BY <1>0, <1>1, <2>1, PlansAre
<1>3. /\ \A a \in p.adds : a = NewEntry(a.title, a.start) /\ a.title \in Nat /\ a.start \in Int
      /\ \A e \in Known(f), a \in p.adds :
            e.title # a.title /\ Ends(e) <= a.start /\ e.start < a.start
      /\ \A a, b \in p.adds : a # b => a.start < b.start \/ b.start < a.start
  BY <1>1, <1>2, AdditionsFollow
<1>4. /\ new \in [p.adds -> Nat] /\ \A a \in p.adds : new[a] > issued
      /\ \A a, b \in p.adds : a # b => new[a] # new[b]
  <2>1. \A a \in p.adds : a \in Request
    BY DEF Request
  <2>2. /\ Cardinality(Request) \in Nat
        /\ \A e \in Request : Number(e) \in (issued + 1)..(issued + Cardinality(Request))
        /\ \A a, b \in Request : a.start < b.start => Number(a) # Number(b)
    BY <1>0, NumbersAreNew
  <2>3. \A a \in p.adds : Number(a) \in Nat /\ Number(a) > issued
    BY <1>1, <2>1, <2>2
  <2>4. \A a, b \in p.adds : a # b => Number(a) # Number(b)
    BY <1>3, <2>1, <2>2
  <2> QED BY <2>3, <2>4
<1>5. \A e, h \in field.all : SameEntry(e, h) => e = h
  BY <1>1, <1>2 DEF Readable, SameEntry
<1>6. \A a \in p.adds, h \in field.all : ~SameEntry(a, h) /\ ~SameEntry(h, a)
  BY <1>1, <1>3 DEF SameEntry
<1>7. f.active = {e \in field.all : ~Over(e)} /\ f.done = {e \in field.all : Over(e)}
  BY DEF Seen
<1>8. Stored(TRUE) = f.active \cup {B(a) : a \in p.adds}
  <2> DEFINE S(e) == [e EXCEPT !.id =
                        IF \E h \in field.all : SameEntry(e, h)
                        THEN (CHOOSE h \in field.all : SameEntry(e, h)).id
                        ELSE Number(e)]
  <2>1. Stored(TRUE) = {S(e) : e \in Request}
    BY DEF Stored, Number
  <2>2. ASSUME NEW e \in f.active PROVE S(e) = e
    <3>1. e \in field.all /\ SameEntry(e, e) /\ e \in IterationEntry
      BY <1>1, <1>7 DEF SameEntry
    <3>2. (CHOOSE h \in field.all : SameEntry(e, h)) = e
      BY <1>5, <3>1
    <3>3. S(e) = [e EXCEPT !.id = e.id]
      BY <3>1, <3>2
    <3> HIDE DEF S
    <3> QED BY <3>1, <3>3 DEF IterationEntry
  <2>3. ASSUME NEW a \in p.adds PROVE S(a) = B(a)
    BY <1>6
  <2> HIDE DEF S, B
  <2> QED BY <2>1, <2>2, <2>3 DEF Request
<1>9. Untouched(TRUE) = f.done
  <2>1. ASSUME NEW e \in f.done, NEW h \in Request PROVE ~SameEntry(h, e)
    BY <1>1, <1>5, <1>6, <1>7 DEF Request
  <2> QED BY <1>7, <2>1 DEF Untouched
<1>10. \A a \in p.adds : ~Over(B(a))
  <2> SUFFICES ASSUME NEW a \in p.adds PROVE ~Over(B(a))
    OBVIOUS
  <2>1. a = [id |-> NoId, title |-> a.title, start |-> a.start, days |-> Days]
    BY <1>3 DEF NewEntry
  <2>2. B(a).start = a.start /\ B(a).days = a.days
    BY <2>1
  <2>3. ~Over(a)
    OBVIOUS
  <2> QED BY <2>2, <2>3 DEF Over, Ends
<1> HIDE DEF B
<1>a. /\ g.days = Days /\ g.active = {e \in all : ~Over(e)} /\ g.done = {e \in all : Over(e)}
  OBVIOUS
<1>b. all = (f.active \cup {B(a) : a \in p.adds}) \cup f.done
  BY <1>8, <1>9
<1>11. g.active = f.active \cup {B(a) : a \in p.adds} /\ g.done = f.done
  <2> HIDE DEF new
  <2>1. \A e \in f.active : ~Over(e)
    BY <1>7
  <2>2. \A e \in f.done : Over(e)
    BY <1>7
  <2>3. g.active = f.active \cup {B(a) : a \in p.adds}
    BY <1>10, <1>a, <1>b, <2>1, <2>2
  <2>4. g.done = f.done
    <3>1. \A e \in g.done : e \in f.done
      BY <1>10, <1>a, <1>b, <2>1
    <3>2. \A e \in f.done : e \in g.done
      BY <1>a, <1>b, <2>2
    <3> QED BY <3>1, <3>2, Zenon
  <2> QED BY <2>3, <2>4
<1>12. g \in SeenField
  <2>1. all \subseteq IterationEntry
    BY StoredIs
  <2>2. Days \in Nat
    BY DaysAssumption
  <2> QED BY <2>1, <2>2 DEF SeenField
<1>13. \A e \in Known(f) : e.id <= issued
  BY <1>1
<1>14. g.active = f.active \cup Numbered(p.adds, new)
  BY <1>11 DEF B, Numbered
<1>16. p.seen = f /\ p.adds # {} /\ Rising(f) /\ issued \in Nat /\ IsFiniteSet(Known(f))
  BY <1>0, <1>1
<1>17. /\ \A a \in p.adds : new[a] > issued
       /\ \A a, b \in p.adds : a # b => new[a] # new[b]
  BY <1>4
<1>18. new \in [p.adds -> Nat] /\ f \in SeenField /\ p \in IterationPlan
  BY <1>1, <1>2, <1>4
<1>19. Readable(f) /\ Extension(f, p) /\ g.days = Days /\ g.done = f.done
  BY <1>2, <1>11, <1>a
<1> HIDE DEF f, p, new, B
<1>15. Verified(p, g)
  BY <1>12, <1>13, <1>14, <1>16, <1>17, <1>18, <1>19, ExtendedVerifies
<1> QED BY <1>15 DEF p

(* A plan that needs no change is verified by the field it was made of.     *)
LEMMA UnchangedVerifies ==
    ASSUME Formed, NEW target \in Nat \cup {AtCurrent, AtNext}, NEW asof \in Int,
           NEW p \in IterationPlans(Seen, target, asof), p.adds = {}
    PROVE  Verified(p, Seen)
<1>1. /\ p.target = target /\ p.asof = asof /\ Readable(Seen)
      /\ \E e \in Seen.active : p.id = e.id
  BY SeenIs, PlansAre
<1>2. Ready(p)
  BY <1>1 DEF Readable, Known, Ready
<1> QED BY <1>1, <1>2 DEF Verified

(* The four steps that matter: a plan without additions is checked against  *)
(* the field it was just made from; a replaced schedule against what an     *)
(* honest GitHub made of it; and whatever else changes the schedule or the  *)
(* day, no longer leaves it honoured.                                       *)
LEMMA NextHonoured ==
    ASSUME Formed, HonouredUpdatesVerify, [Next]_vars
    PROVE  HonouredUpdatesVerify'
<1>1. ASSUME stage' # "written" \/ honoured' = FALSE PROVE HonouredUpdatesVerify'
  BY <1>1 DEF HonouredUpdatesVerify
<1>2. ASSUME UNCHANGED <<field, today, plan, stage, honoured>> PROVE HonouredUpdatesVerify'
  <2>1. Seen' = Seen /\ \A a : Over(a)' = Over(a)
    BY <1>2 DEF Seen, Over
  <2> QED BY <1>2, <2>1 DEF HonouredUpdatesVerify
<1>3. CASE FetchIterations
  <2>1. CASE EndApply
    BY <1>1, <2>1 DEF EndApply
  <2>2. CASE ~EndApply
    <3>1. /\ plan \in IterationPlans(Seen, plan.target, plan.asof) /\ plan' = plan
          /\ honoured' = (plan.adds = {}) /\ stage = "reviewed"
          /\ UNCHANGED <<field, today>>
      BY <1>3, <2>2 DEF FetchIterations
    <3>2. CASE plan.adds # {}
      BY <1>1, <3>1, <3>2
    <3>3. CASE plan.adds = {}
      <4>1. plan.target \in Nat \cup {AtCurrent, AtNext} /\ plan.asof \in Int
        BY <3>1 DEF Formed, TypeOK, Settled, Reviewed, IterationPlan
      <4>2. Verified(plan, Seen)
        BY <3>1, <3>3, <4>1, UnchangedVerifies
      <4>3. Seen' = Seen
        BY <3>1 DEF Seen, Over
      <4> QED BY <3>1, <4>2, <4>3 DEF HonouredUpdatesVerify
    <3> QED BY <3>2, <3>3
  <2> QED BY <2>1, <2>2
<1>4. CASE ReplaceIterations
  <2>1. PICK keepIds \in BOOLEAN, keepDone \in BOOLEAN :
          /\ field' = [days |-> Days, all |-> Stored(keepIds) \cup Untouched(keepDone)]
          /\ honoured' = (keepIds /\ keepDone /\ Seen = plan.seen)
    BY <1>4 DEF ReplaceIterations
  <2>2. stage = "fetched" /\ plan' = plan /\ today' = today
    BY <1>4 DEF ReplaceIterations
  <2>3. CASE ~(keepIds /\ keepDone /\ Seen = plan.seen)
    BY <1>1, <2>1, <2>3
  <2>4. CASE keepIds /\ keepDone /\ Seen = plan.seen
    <3> SUFFICES ASSUME Rising(plan'.seen), \A a \in plan'.adds : ~Over(a)'
                 PROVE  Verified(plan', Seen')
      BY DEF HonouredUpdatesVerify
    <3> DEFINE all == Stored(TRUE) \cup Untouched(TRUE)
               g == [days |-> Days, active |-> {e \in all : ~Over(e)},
                     done |-> {e \in all : Over(e)}]
    <3>1. Rising(plan.seen) /\ \A a \in plan.adds : ~Over(a)
      BY <2>2 DEF Over
    <3>2. field' = [days |-> Days, all |-> all]
      BY <2>1, <2>4
    <3>3. Seen' = g
      <4>1. \A e : Over(e)' <=> Over(e)
        BY <2>2 DEF Over
      <4> HIDE DEF all
      <4> QED BY <3>2, <4>1 DEF Seen
    <3>4. Verified(plan, g)
      BY <2>2, <2>4, <3>1, HonestlyStored
    <3> HIDE DEF g
    <3> QED BY <2>2, <3>3, <3>4
  <2> QED BY <2>3, <2>4
<1>5. ASSUME \/ PlanIterations \/ ReplaceFails \/ CheckIterations \/ PassDay
             \/ \E title : AddIteration(title)
             \/ \E e : RemoveIteration(e)
      PROVE  HonouredUpdatesVerify'
  BY <1>1, <1>5 DEF PlanIterations, ReplaceFails, CheckIterations, PassDay, EndApply,
     AddIteration, RemoveIteration
<1>6. ASSUME NEW i, NEW item, EditBacklog(i, item) PROVE HonouredUpdatesVerify'
  BY <1>2, <1>6 DEF EditBacklog
<1>7. ASSUME \/ WorkOnNext \/ UNCHANGED vars
             \/ \E i : CloseParent(i)
             \/ \E i : Commit(i)
             \/ \E i, id : Move(i, id)
      PROVE  HonouredUpdatesVerify'
  BY <1>2, <1>7 DEF WorkOnNext, CloseParent, Commit, Move, vars
<1>8. CASE People
  BY <1>5, <1>6, <1>7, <1>8 DEF People, SetStatus, Refine, Depend
<1> QED BY <1>3, <1>4, <1>5, <1>7, <1>8 DEF Next

-----------------------------------------------------------------------------
(* The backlog and the schedule stay well formed, and no sequence of edits  *)
(* closes a cycle of dependencies past the search that guards them.         *)
THEOREM BacklogsStayAcyclic == Spec => []Inv
<1>1. Init => Formed /\ Acyclic
  BY InitFormed, InitAcyclic
<1>2. Formed /\ Acyclic /\ [Next]_vars => (Formed /\ Acyclic)'
  BY NextFormed, NextAcyclic
<1>3. Formed /\ Acyclic => Inv
  BY DEF Formed, Inv
<1> QED BY <1>1, <1>2, <1>3, PTL DEF Spec

(* If GitHub did as it was asked, and nothing came between, an update of    *)
(* the schedule verifies: for every schedule whose titles rise, every       *)
(* target and every day on which the additions are not over yet.            *)
THEOREM HonestUpdatesVerify == Spec => []HonouredUpdatesVerify
<1>1. Init => Formed /\ HonouredUpdatesVerify
  <2>1. Init => HonouredUpdatesVerify
    BY DEF Init, HonouredUpdatesVerify
  <2> QED BY <2>1, InitFormed
<1>2. Formed /\ HonouredUpdatesVerify /\ [Next]_vars => (Formed /\ HonouredUpdatesVerify)'
  BY NextFormed, NextHonoured
<1> QED BY <1>1, <1>2, PTL DEF Spec

(* The sums of the scores g over the subsets of S, as FoldSet computes them. *)
Adding(g, S) ==
    CHOOSE f : f = [s \in SUBSET S |->
        IF s = {} THEN 0 ELSE f[s \ {CHOOSE x \in s : TRUE}] + g[CHOOSE x \in s : TRUE]]

(* FoldSet gives the sum over the whole set. *)
LEMMA SumIsAdding ==
    ASSUME NEW g, NEW S
    PROVE  FoldSet(LAMBDA d, sum : sum + g[d], 0, S) = Adding(g, S)[S]
BY DEF FoldSet, MapThenFoldSet, Adding

(* The recursive definition of the sums has a solution: they can be listed  *)
(* for the subsets up to any size.                                          *)
LEMMA AddingExists ==
    ASSUME NEW g, NEW S, IsFiniteSet(S)
    PROVE  \A s \in SUBSET S : Adding(g, S)[s] =
              IF s = {} THEN 0
              ELSE Adding(g, S)[s \ {CHOOSE x \in s : TRUE}] + g[CHOOSE x \in s : TRUE]
<1> DEFINE One(s) == CHOOSE x \in s : TRUE
           Upto(n) == {s \in SUBSET S : Cardinality(s) <= n}
           Value(f, s) == IF s = {} THEN 0 ELSE f[s \ {One(s)}] + g[One(s)]
           Is(f, n) == f = [s \in Upto(n) |-> Value(f, s)]
           Bad == {n \in Nat : ~\E f : Is(f, n)}
<1>0. \A s \in SUBSET S : IsFiniteSet(s) /\ Cardinality(s) \in Nat
  BY FS_Subset, FS_CardinalityType
<1>1. Bad = {}
  <2> SUFFICES ASSUME Bad # {} PROVE FALSE
    OBVIOUS
  <2>1. PICK n \in Bad : \A k \in Bad : n <= k
    BY LeastNumber
  <2>2. CASE n = 0
    <3>1. \A s \in Upto(0) : s = {}
      BY <1>0, FS_EmptySet
    <3> DEFINE f == [s \in Upto(0) |-> 0]
    <3>2. Is(f, 0)
      <4>1. f = [s \in Upto(0) |-> Value(f, s)]
        BY <3>1
      <4> QED BY <4>1
    <3> QED BY <2>1, <2>2, <3>2
  <2>3. CASE n # 0
    <3>1. n \in Nat /\ n - 1 \in Nat
      BY <2>3
    <3>2. n - 1 \notin Bad
      <4> HIDE DEF Bad
      <4> QED BY <2>1, <3>1
    <3>3. PICK h : Is(h, n - 1)
      BY <3>1, <3>2
    <3> DEFINE f == [s \in Upto(n) |-> IF Cardinality(s) = n THEN Value(h, s) ELSE h[s]]
    <3>4. ASSUME NEW s \in Upto(n), s # {}
          PROVE  s \ {One(s)} \in Upto(n - 1) /\ Cardinality(s \ {One(s)}) # n
                 /\ s \ {One(s)} \in Upto(n)
      <4>1. One(s) \in s
        BY <3>4
      <4>2. Cardinality(s \ {One(s)}) = Cardinality(s) - 1 /\ Cardinality(s) \in Nat
        BY <4>1, <1>0, FS_RemoveElement
      <4>3. Cardinality(s) <= n /\ s \ {One(s)} \in SUBSET S
        OBVIOUS
      <4> HIDE DEF One
      <4> QED BY <4>2, <4>3, <3>1
    <3>5. ASSUME NEW s \in Upto(n) PROVE f[s] = Value(f, s)
      <4>1. CASE Cardinality(s) = n
        <5>1. f[s] = Value(h, s)
          BY <4>1
        <5>2. s # {}
          BY <4>1, <2>3, FS_EmptySet
        <5>3. f[s \ {One(s)}] = h[s \ {One(s)}]
          BY <5>2, <3>4
        <5> QED BY <5>1, <5>2, <5>3
      <4>2. CASE Cardinality(s) # n
        <5>1. s \in Upto(n - 1)
          BY <4>2, <1>0, <3>1
        <5>2. f[s] = h[s] /\ h[s] = Value(h, s)
          BY <5>1, <4>2, <3>3
        <5>3. s # {} => f[s \ {One(s)}] = h[s \ {One(s)}]
          BY <3>4
        <5> QED BY <5>2, <5>3
      <4> QED BY <4>1, <4>2
    <3>6. Is(f, n)
      <4>1. [s \in Upto(n) |-> Value(f, s)] = [s \in Upto(n) |-> f[s]]
        BY <3>5
      <4>2. f = [s \in Upto(n) |-> f[s]]
        OBVIOUS
      <4> HIDE DEF f, Value
      <4> QED BY <4>1, <4>2
    <3> QED BY <2>1, <3>6
  <2> QED BY <2>2, <2>3
<1>2. Upto(Cardinality(S)) = SUBSET S
  BY FS_Subset, <1>0
<1>3. \E f : f = [s \in SUBSET S |-> Value(f, s)]
  <2>1. Cardinality(S) \in Nat /\ Cardinality(S) \notin Bad
    BY <1>0, <1>1
  <2>2. PICK f : Is(f, Cardinality(S))
    BY <2>1
  <2> HIDE DEF Upto, Value
  <2> QED BY <2>2, <1>2
<1> DEFINE sum == Adding(g, S)
<1>4. sum = [s \in SUBSET S |-> Value(sum, s)]
  BY <1>3 DEF Adding
<1>5. \A s \in SUBSET S : sum[s] = Value(sum, s)
  <2> HIDE DEF sum, Value
  <2> QED BY <1>4
<1> QED BY <1>5

(* Only the scores of the members count. *)
LEMMA SumsAgree ==
    ASSUME NEW g, NEW h, NEW S, \A x \in S : g[x] = h[x]
    PROVE  Adding(g, S) = Adding(h, S)
<1> DEFINE One(s) == CHOOSE x \in s : TRUE
           Value(e, f, s) == IF s = {} THEN 0 ELSE f[s \ {One(s)}] + e[One(s)]
           G(f) == f = [s \in SUBSET S |-> Value(g, f, s)]
           H(f) == f = [s \in SUBSET S |-> Value(h, f, s)]
<1>1. ASSUME NEW f PROVE G(f) <=> H(f)
  <2>1. \A s \in SUBSET S : Value(g, f, s) = Value(h, f, s)
    <3> SUFFICES ASSUME NEW s \in SUBSET S, s # {} PROVE g[One(s)] = h[One(s)]
      OBVIOUS
    <3>1. One(s) \in S
      OBVIOUS
    <3> QED BY <3>1
  <2> HIDE DEF Value
  <2> QED BY <2>1
<1>2. (CHOOSE f : G(f)) = (CHOOSE f : H(f))
  <2>1. \A f : G(f) <=> H(f)
    BY <1>1
  <2> HIDE DEF G, H
  <2> QED BY <2>1
<1> QED BY <1>2 DEF Adding

(* A sum of integers is one. *)
LEMMA SumIsInt ==
    ASSUME NEW g, NEW S, IsFiniteSet(S), \A x \in S : g[x] \in Int
    PROVE  Adding(g, S)[S] \in Int
<1> DEFINE One(s) == CHOOSE x \in s : TRUE
           sum == Adding(g, S)
           Bad == {n \in Nat : \E s \in SUBSET S : Cardinality(s) = n /\ sum[s] \notin Int}
<1>0. \A s \in SUBSET S : sum[s] = IF s = {} THEN 0 ELSE sum[s \ {One(s)}] + g[One(s)]
  BY AddingExists, Zenon
<1> HIDE DEF sum
<1>1. Bad = {}
  <2> SUFFICES ASSUME Bad # {} PROVE FALSE
    OBVIOUS
  <2>1. PICK n \in Bad : \A k \in Bad : n <= k
    BY LeastNumber
  <2>2. PICK s \in SUBSET S : Cardinality(s) = n /\ sum[s] \notin Int
    BY <2>1
  <2>3. IsFiniteSet(s) /\ s # {}
    BY <2>2, <1>0, FS_Subset
  <2>4. One(s) \in s /\ One(s) \in S
    BY <2>3
  <2>5. Cardinality(s \ {One(s)}) = n - 1 /\ n - 1 \in Nat
    <3>1. IsFiniteSet(s \ {One(s)}) /\ Cardinality(s \ {One(s)}) = n - 1
      BY <2>2, <2>3, <2>4, FS_RemoveElement
    <3> QED BY <3>1, FS_CardinalityType
  <2>6. n - 1 \notin Bad
    <3>1. n \in Nat
      BY <2>1
    <3> HIDE DEF Bad
    <3> QED BY <2>1, <2>5, <3>1
  <2>7. sum[s \ {One(s)}] \in Int
    <3>1. s \ {One(s)} \in SUBSET S
      OBVIOUS
    <3> HIDE DEF One
    <3> QED BY <2>5, <2>6, <3>1
  <2>8. sum[s] = sum[s \ {One(s)}] + g[One(s)] /\ g[One(s)] \in Int
    <3> HIDE DEF One
    <3> QED BY <2>3, <2>4, <1>0
  <2> HIDE DEF One
  <2> QED BY <2>2, <2>7, <2>8
<1>2. Cardinality(S) \in Nat /\ Cardinality(S) \notin Bad
  BY <1>1, FS_CardinalityType
<1> QED BY <1>2 DEF sum

(* What depends on an item, and its score in terms of theirs. *)
Dependents(m, i) == {d \in DOMAIN m : i \in m[d].deps}
ScoreAt(m, status, f, i) ==
    IF status[i] = Done THEN 0
    ELSE m[i].impact + FoldSet(LAMBDA d, sum : sum + f[d], 0, Dependents(m, i))

(* Scores is a solution of its own recursive definition, if there is one. *)
LEMMA ScoresAre ==
    ASSUME NEW m, NEW status
    PROVE  Scores(m, status) = CHOOSE f : f = [i \in DOMAIN m |-> ScoreAt(m, status, f, i)]
BY DEF Scores, ScoreAt, Dependents

(* An item's score is fixed by the scores of what depends on it. *)
LEMMA ScoreDepends ==
    ASSUME NEW m, NEW status, NEW f, NEW g, NEW i,
           \A d \in Dependents(m, i) : f[d] = g[d]
    PROVE  ScoreAt(m, status, f, i) = ScoreAt(m, status, g, i)
<1>1. Adding(f, Dependents(m, i)) = Adding(g, Dependents(m, i))
  BY SumsAgree
<1>2. FoldSet(LAMBDA d, sum : sum + f[d], 0, Dependents(m, i)) = Adding(f, Dependents(m, i))[Dependents(m, i)]
  BY SumIsAdding
<1>3. FoldSet(LAMBDA d, sum : sum + g[d], 0, Dependents(m, i)) = Adding(g, Dependents(m, i))[Dependents(m, i)]
  BY SumIsAdding
<1> QED BY <1>1, <1>2, <1>3 DEF ScoreAt

(* It is an integer if theirs are. *)
LEMMA ScoreIsInt ==
    ASSUME NEW m, NEW status, NEW f, NEW i, IsFiniteSet(DOMAIN m), m[i].impact \in Int,
           \A d \in Dependents(m, i) : f[d] \in Int
    PROVE  ScoreAt(m, status, f, i) \in Int
<1>1. IsFiniteSet(Dependents(m, i))
  BY FS_Subset DEF Dependents
<1>2. Adding(f, Dependents(m, i))[Dependents(m, i)] \in Int
  BY <1>1, SumIsInt
<1>3. FoldSet(LAMBDA d, sum : sum + f[d], 0, Dependents(m, i)) = Adding(f, Dependents(m, i))[Dependents(m, i)]
  BY SumIsAdding
<1>4. FoldSet(LAMBDA d, sum : sum + f[d], 0, Dependents(m, i)) \in Int
  BY <1>2, <1>3
<1> DEFINE v == FoldSet(LAMBDA d, sum : sum + f[d], 0, Dependents(m, i))
<1>5. ScoreAt(m, status, f, i) = IF status[i] = Done THEN 0 ELSE m[i].impact + v
  BY DEF ScoreAt
<1>6. v \in Int
  BY <1>4
<1> HIDE DEF v
<1> QED BY <1>5, <1>6

Impacts(m) == \A i \in DOMAIN m : m[i].impact \in Int
Whole(m, U) == \A i \in U : Dependents(m, i) \subseteq U

(* A set of items that holds all that depends on its members has one that   *)
(* depends on none of them, and what remains without it is such a set.      *)
LEMMA WholeShrinks ==
    ASSUME NEW m, Graph(m), ~Cyclic(m), NEW U \in SUBSET DOMAIN m, Whole(m, U), U # {}
    PROVE  \E x \in U : /\ Whole(m, U \ {x}) /\ \A i \in U : Dependents(m, i) \subseteq U \ {x}
                        /\ Cardinality(U \ {x}) \in Nat
                        /\ Cardinality(U \ {x}) = Cardinality(U) - 1
<1>1. PICK x \in U : m[x].deps \cap U = {}
  BY DEF Cyclic
<1>2. \A i \in U : Dependents(m, i) \subseteq U \ {x}
  BY <1>1 DEF Whole, Dependents
<1>3. IsFiniteSet(U)
  BY FS_Subset DEF Graph
<1>4. IsFiniteSet(U \ {x}) /\ Cardinality(U \ {x}) = Cardinality(U) - 1
  BY <1>3, <1>1, FS_RemoveElement
<1>5. Cardinality(U \ {x}) \in Nat
  BY <1>4, FS_CardinalityType
<1> QED BY <1>1, <1>2, <1>4, <1>5 DEF Whole

(* Backlogs without a cycle have scores, every one an integer. *)
LEMMA ScoresExist ==
    ASSUME NEW m, NEW status, Graph(m), ~Cyclic(m), Impacts(m)
    PROVE  \A i \in DOMAIN m : Scores(m, status)[i] \in Int
<1> DEFINE at(f, i) == ScoreAt(m, status, f, i)
           Sol(f, U) == f = [i \in U |-> at(f, i)]
           Bad == {n \in Nat : \E U \in SUBSET DOMAIN m :
                      Cardinality(U) = n /\ Whole(m, U) /\ ~\E f : Sol(f, U)}
           s == Scores(m, status)
           Odd == {n \in Nat : \E U \in SUBSET DOMAIN m :
                      Cardinality(U) = n /\ Whole(m, U) /\ \E i \in U : s[i] \notin Int}
<1>1. Bad = {}
  <2> SUFFICES ASSUME Bad # {} PROVE FALSE
    OBVIOUS
  <2>1. PICK n \in Bad : \A k \in Bad : n <= k
    BY LeastNumber
  <2>2. PICK U \in SUBSET DOMAIN m : Cardinality(U) = n /\ Whole(m, U) /\ ~\E f : Sol(f, U)
    BY <2>1
  <2>3. U # {}
    <3> SUFFICES ASSUME U = {} PROVE FALSE
      OBVIOUS
    <3>1. Sol([i \in {} |-> 0], {})
      OBVIOUS
    <3> QED BY <2>2, <3>1
  <2>4. PICK x \in U : /\ Whole(m, U \ {x}) /\ \A i \in U : Dependents(m, i) \subseteq U \ {x}
                       /\ Cardinality(U \ {x}) \in Nat
                       /\ Cardinality(U \ {x}) = Cardinality(U) - 1
    BY <2>2, <2>3, WholeShrinks
  <2> DEFINE V == U \ {x}
  <2>6. n - 1 \notin Bad /\ n - 1 = Cardinality(V)
    <3>1. n \in Nat
      BY <2>1
    <3> HIDE DEF Bad
    <3> QED BY <2>1, <2>2, <2>4, <3>1
  <2>7. V \in SUBSET DOMAIN m
    OBVIOUS
  <2>9. PICK f : Sol(f, V)
    <3>1. Whole(m, V) /\ Cardinality(V) \in Nat
      BY <2>4
    <3> HIDE DEF Sol, V
    <3> QED BY <3>1, <2>6, <2>7
  <2> DEFINE g == [i \in U |-> IF i = x THEN at(f, x) ELSE f[i]]
  <2>10. \A i \in V : g[i] = f[i]
    OBVIOUS
  <2>11. \A i \in U : at(g, i) = at(f, i)
    <3> SUFFICES ASSUME NEW i \in U PROVE at(g, i) = at(f, i)
      OBVIOUS
    <3>1. \A d \in Dependents(m, i) : g[d] = f[d]
      BY <2>4, <2>10
    <3> HIDE DEF g
    <3> QED BY <3>1, ScoreDepends
  <2>12. \A i \in U : g[i] = at(f, i)
    <3>1. \A i \in V : f[i] = at(f, i)
      <4> HIDE DEF at, V
      <4> QED BY <2>9
    <3>2. x \in U
      BY <2>4
    <3> HIDE DEF at
    <3> QED BY <3>1, <3>2
  <2>14. Sol(g, U)
    <3>1. g = [i \in U |-> g[i]]
      OBVIOUS
    <3>2. \A i \in U : g[i] = at(g, i)
      <4> HIDE DEF g, at
      <4> QED BY <2>11, <2>12
    <3> HIDE DEF g, at
    <3>3. [i \in U |-> g[i]] = [i \in U |-> at(g, i)]
      BY <3>2
    <3> QED BY <3>1, <3>3
  <2> QED BY <2>2, <2>14
<1>2. Cardinality(DOMAIN m) \in Nat /\ Whole(m, DOMAIN m)
  BY FS_CardinalityType DEF Graph, Whole, Dependents
<1>3. \A i \in DOMAIN m : s[i] = at(s, i)
  <2>1. \E f : Sol(f, DOMAIN m)
    <3> HIDE DEF Sol
    <3> QED BY <1>1, <1>2
  <2>2. s = [i \in DOMAIN m |-> at(s, i)]
    BY <2>1, ScoresAre
  <2> HIDE DEF s, at
  <2> QED BY <2>2
<1> HIDE DEF s
<1>4. Odd = {}
  <2> SUFFICES ASSUME Odd # {} PROVE FALSE
    OBVIOUS
  <2>1. PICK n \in Odd : \A k \in Odd : n <= k
    BY LeastNumber
  <2>2. PICK U \in SUBSET DOMAIN m : Cardinality(U) = n /\ Whole(m, U) /\ \E i \in U : s[i] \notin Int
    BY <2>1
  <2>3. PICK x \in U : /\ Whole(m, U \ {x}) /\ \A i \in U : Dependents(m, i) \subseteq U \ {x}
                       /\ Cardinality(U \ {x}) \in Nat
                       /\ Cardinality(U \ {x}) = Cardinality(U) - 1
    BY <2>2, WholeShrinks
  <2>4. Cardinality(U \ {x}) \notin Odd
    <3>1. n \in Nat
      BY <2>1
    <3> HIDE DEF Odd
    <3> QED BY <2>1, <2>2, <2>3, <3>1
  <2>5. \A i \in U \ {x} : s[i] \in Int
    <3>1. U \ {x} \in SUBSET DOMAIN m
      OBVIOUS
    <3> QED BY <2>3, <2>4, <3>1
  <2>6. \A i \in U : at(s, i) \in Int
    <3> SUFFICES ASSUME NEW i \in U PROVE at(s, i) \in Int
      OBVIOUS
    <3>1. \A d \in Dependents(m, i) : s[d] \in Int
      BY <2>3, <2>5
    <3>2. m[i].impact \in Int /\ IsFiniteSet(DOMAIN m)
      BY DEF Graph, Impacts
    <3> QED BY <3>1, <3>2, ScoreIsInt
  <2> HIDE DEF at
  <2> QED BY <1>3, <2>2, <2>6
<1>5. \A i \in DOMAIN m : s[i] \in Int
  BY <1>2, <1>4
<1> QED BY <1>5 DEF s

-----------------------------------------------------------------------------
(* The loop of ReleaseOrder, with the order of the heap as a relation R: the *)
(* lists it has made after each set of turns.                               *)
Released(m, S, out) == {i \in S \ ToSet(out) : m[i].deps \cap S \subseteq ToSet(out)}
First(T, R) == CHOOSE i \in T : \A j \in T \ {i} : <<i, j>> \in R
Turn(m, S, R, out) == Append(out, First(Released(m, S, out), R))
Turns(m, S, R) ==
    CHOOSE f : f = [s \in SUBSET (1..Cardinality(S)) |->
        IF s = {} THEN <<>> ELSE Turn(m, S, R, f[s \ {Max(s)}])]

(* Done items first, then by score, then by id. *)
Outranks(m, score, i, j) ==
    IF IsDone(m, i) # IsDone(m, j) THEN IsDone(m, i)
    ELSE score[i] > score[j] \/ (score[i] = score[j] /\ i < j)
ByScore(m) ==
    {p \in (DOMAIN m) \X (DOMAIN m) : Outranks(m, Scores(m, StatusOf(m)), p[1], p[2])}

(* ByScore says which of two items comes first.                             *)
LEMMA ByScoreIs ==
    ASSUME NEW m, NEW i \in DOMAIN m, NEW j \in DOMAIN m
    PROVE  <<i, j>> \in ByScore(m) <=> Outranks(m, Scores(m, StatusOf(m)), i, j)
<1> DEFINE score == Scores(m, StatusOf(m))
           D == DOMAIN m
<1>1. \A p : p \in ByScore(m) <=> p \in D \X D /\ Outranks(m, score, p[1], p[2])
  BY DEF ByScore
<1> HIDE DEF score, D
<1>2. <<i, j>>[1] = i /\ <<i, j>>[2] = j /\ <<i, j>> \in D \X D
  BY DEF D
<1> QED BY <1>1, <1>2 DEF score

(* The order is what the turns over all items, by score, lead to.           *)
LEMMA PrioritizedIsTurns ==
    ASSUME NEW m
    PROVE  Prioritized(m) = Turns(m, DOMAIN m, ByScore(m))[1..Cardinality(DOMAIN m)]
<1> DEFINE D == DOMAIN m
           score == Scores(m, StatusOf(m))
           Before(i, j) == Outranks(m, score, i, j)
           Lead(T) == CHOOSE i \in T : \A j \in T \ {i} : Before(i, j)
           n == Cardinality(D)
           F(f) == f = [s \in SUBSET (1..n) |->
                      IF s = {} THEN <<>>
                      ELSE Append(f[s \ {Max(s)}], Lead(Released(m, D, f[s \ {Max(s)}])))]
           G(f) == f = [s \in SUBSET (1..n) |->
                      IF s = {} THEN <<>> ELSE Turn(m, D, ByScore(m), f[s \ {Max(s)}])]
<1>1. ASSUME NEW T \in SUBSET D PROVE Lead(T) = First(T, ByScore(m))
  <2>1. \A i, j \in D : Before(i, j) <=> <<i, j>> \in ByScore(m)
    BY ByScoreIs
  <2> HIDE DEF Before
  <2>2. \A i \in T : (\A j \in T \ {i} : Before(i, j)) <=> (\A j \in T \ {i} : <<i, j>> \in ByScore(m))
    BY <2>1
  <2> DEFINE P(i) == i \in T /\ \A j \in T \ {i} : Before(i, j)
             Q(i) == i \in T /\ \A j \in T \ {i} : <<i, j>> \in ByScore(m)
  <2>3. \A i : P(i) <=> Q(i)
    BY <2>2
  <2>4. (CHOOSE i : P(i)) = (CHOOSE i : Q(i))
    <3> HIDE DEF P, Q
    <3> QED BY <2>3
  <2> QED BY <2>4 DEF First
<1>2. \A out : Lead(Released(m, D, out)) = First(Released(m, D, out), ByScore(m))
  <2> SUFFICES ASSUME NEW out PROVE Lead(Released(m, D, out)) = First(Released(m, D, out), ByScore(m))
    OBVIOUS
  <2>1. Released(m, D, out) \in SUBSET D
    BY DEF Released
  <2> HIDE DEF Lead, D
  <2> QED BY <2>1, <1>1
<1>3. Prioritized(m) = (CHOOSE f : F(f))[1..n]
  BY DEF Prioritized, ReleaseOrder, FoldLeft, MapThenFoldSet, Released, Outranks
<1>4. \A f : F(f) <=> G(f)
  <2> HIDE DEF Lead, D, n
  <2> QED BY <1>2 DEF Turn
<1>5. (CHOOSE f : F(f)) = (CHOOSE f : G(f))
  <2> HIDE DEF F, G
  <2> QED BY <1>4
<1> QED BY <1>3, <1>5 DEF Turns

(* The loop of ReleaseOrder ends: its lists can be made for the sets of     *)
(* turns of any size.                                                       *)
TurnsAreMade(m, S, R) ==
    \A s \in SUBSET (1..Cardinality(S)) : Turns(m, S, R)[s] =
        IF s = {} THEN <<>> ELSE Turn(m, S, R, Turns(m, S, R)[s \ {Max(s)}])

(* The turns are a function: there is one that takes turn after turn.       *)
LEMMA TurnsExist ==
    ASSUME NEW m, NEW S, NEW R, IsFiniteSet(S)
    PROVE  TurnsAreMade(m, S, R)
<1> DEFINE N == 1..Cardinality(S)
           Upto(n) == {s \in SUBSET N : Cardinality(s) <= n}
           Value(f, s) == IF s = {} THEN <<>> ELSE Turn(m, S, R, f[s \ {Max(s)}])
           Is(f, n) == f = [s \in Upto(n) |-> Value(f, s)]
           Bad == {n \in Nat : ~\E f : Is(f, n)}
<1>a. IsFiniteSet(N) /\ N \subseteq Int
  BY FS_CardinalityType, FS_Interval
<1>0. \A s \in SUBSET N : IsFiniteSet(s) /\ Cardinality(s) \in Nat /\ s \in SUBSET Int
  <2> HIDE DEF N
  <2> QED BY <1>a, FS_Subset, FS_CardinalityType
<1> HIDE DEF N
<1>1. Bad = {}
  <2> SUFFICES ASSUME Bad # {} PROVE FALSE
    OBVIOUS
  <2>1. PICK n \in Bad : \A k \in Bad : n <= k
    BY LeastNumber
  <2>2. CASE n = 0
    <3>1. \A s \in Upto(0) : s = {}
      BY <1>0, FS_EmptySet
    <3> DEFINE f == [s \in Upto(0) |-> <<>>]
    <3>2. Is(f, 0)
      <4>1. f = [s \in Upto(0) |-> Value(f, s)]
        BY <3>1
      <4> QED BY <4>1
    <3> QED BY <2>1, <2>2, <3>2
  <2>3. CASE n # 0
    <3>1. n \in Nat /\ n - 1 \in Nat
      BY <2>3
    <3>2. n - 1 \notin Bad
      <4> HIDE DEF Bad
      <4> QED BY <2>1, <3>1
    <3>3. PICK h : Is(h, n - 1)
      BY <3>1, <3>2
    <3> DEFINE f == [s \in Upto(n) |-> IF Cardinality(s) = n THEN Value(h, s) ELSE h[s]]
    <3>4. ASSUME NEW s \in Upto(n), s # {}
          PROVE  s \ {Max(s)} \in Upto(n - 1) /\ Cardinality(s \ {Max(s)}) # n
                 /\ s \ {Max(s)} \in Upto(n)
      <4>1. Max(s) \in s
        BY <3>4, <1>0, MaxIs
      <4>2. Cardinality(s \ {Max(s)}) = Cardinality(s) - 1 /\ Cardinality(s) \in Nat
        BY <4>1, <1>0, FS_RemoveElement
      <4>3. Cardinality(s) <= n /\ s \ {Max(s)} \in SUBSET N
        OBVIOUS
      <4> QED BY <4>2, <4>3, <3>1
    <3>5. ASSUME NEW s \in Upto(n) PROVE f[s] = Value(f, s)
      <4>1. CASE Cardinality(s) = n
        <5>1. f[s] = Value(h, s)
          BY <4>1
        <5>2. s # {}
          BY <4>1, <2>3, FS_EmptySet
        <5>3. f[s \ {Max(s)}] = h[s \ {Max(s)}]
          BY <5>2, <3>4
        <5> QED BY <5>1, <5>2, <5>3
      <4>2. CASE Cardinality(s) # n
        <5>1. s \in Upto(n - 1)
          BY <4>2, <1>0, <3>1
        <5>2. f[s] = h[s] /\ h[s] = Value(h, s)
          BY <5>1, <4>2, <3>3
        <5>3. s # {} => f[s \ {Max(s)}] = h[s \ {Max(s)}]
          BY <3>4
        <5> QED BY <5>2, <5>3
      <4> QED BY <4>1, <4>2
    <3>6. Is(f, n)
      <4>1. [s \in Upto(n) |-> Value(f, s)] = [s \in Upto(n) |-> f[s]]
        BY <3>5
      <4>2. f = [s \in Upto(n) |-> f[s]]
        OBVIOUS
      <4> HIDE DEF f, Value
      <4> QED BY <4>1, <4>2
    <3> QED BY <2>1, <3>6
  <2> QED BY <2>2, <2>3
<1>2. Upto(Cardinality(N)) = SUBSET N
  BY <1>a, FS_Subset, <1>0
<1>3. \E f : f = [s \in SUBSET N |-> Value(f, s)]
  <2>1. Cardinality(N) \in Nat /\ Cardinality(N) \notin Bad
    BY <1>0, <1>1
  <2>2. PICK f : Is(f, Cardinality(N))
    BY <2>1
  <2> HIDE DEF Upto, Value
  <2> QED BY <2>2, <1>2
<1> DEFINE t == Turns(m, S, R)
<1>4. t = [s \in SUBSET N |-> Value(t, s)]
  BY <1>3 DEF Turns, N
<1>5. \A s \in SUBSET N : t[s] = Value(t, s)
  <2> HIDE DEF t, Value
  <2> QED BY <1>4
<1> QED BY <1>5 DEF N, TurnsAreMade

-----------------------------------------------------------------------------
(* What the loop makes: every item of S once, after what it depends on.     *)
Leads(S, R) == \A T \in (SUBSET S) \ {{}} : \E i \in T : \A j \in T \ {i} : <<i, j>> \in R
InTurn(m, S, o) ==
    /\ o \in Seq(S)
    /\ IsFiniteSet(ToSet(o)) /\ Cardinality(ToSet(o)) = Len(o)
    /\ \A k \in 1..Len(o) : o[k] \notin {o[j] : j \in 1..(k - 1)}
    /\ \A k \in 1..Len(o) : m[o[k]].deps \cap S \subseteq {o[j] : j \in 1..(k - 1)}

(* What is out is what came at some place.                                  *)
LEMMA ToSetIs ==
    ASSUME NEW S, NEW o \in Seq(S)
    PROVE  ToSet(o) = {o[j] : j \in 1..Len(o)}
BY DEF ToSet

(* Each turn adds an item that is not out yet and whose dependencies are.   *)
LEMMA TurnIs ==
    ASSUME NEW m, NEW S, NEW R, Graph(m), ~Cyclic(m), S \subseteq DOMAIN m, Leads(S, R),
           NEW o, InTurn(m, S, o), Len(o) < Cardinality(S)
    PROVE  /\ InTurn(m, S, Turn(m, S, R, o)) /\ Len(Turn(m, S, R, o)) = Len(o) + 1
<1> DEFINE out == ToSet(o)
           able == Released(m, S, o)
           x == First(able, R)
           t == Append(o, x)
<1>0. IsFiniteSet(S) /\ out \subseteq S /\ Cardinality(S) \in Nat
  BY FS_Subset, FS_CardinalityType, ToSetIs DEF Graph, InTurn
<1>1. S \ out # {}
  <2> SUFFICES ASSUME S \ out = {} PROVE FALSE
    OBVIOUS
  <2>1. S = out
    BY <1>0
  <2> QED BY <2>1, <1>0 DEF InTurn
<1>2. able # {}
  <2>1. PICK i \in S \ out : m[i].deps \cap (S \ out) = {}
    BY <1>1 DEF Cyclic
  <2>2. i \in able
    BY <2>1 DEF Released
  <2> QED BY <2>2
<1>3. x \in able
  <2>1. able \in (SUBSET S) \ {{}}
    BY <1>2 DEF Released
  <2> HIDE DEF able
  <2> QED BY <2>1 DEF Leads, First
<1>4. x \in S /\ x \notin out /\ m[x].deps \cap S \subseteq out
  BY <1>3 DEF Released
<1> HIDE DEF x, able
<1>5. t \in Seq(S) /\ Len(t) = Len(o) + 1 /\ t[Len(o) + 1] = x /\ Len(o) \in Nat
      /\ \A k \in 1..Len(o) : t[k] = o[k]
  BY <1>4 DEF InTurn
<1>6. out = {o[j] : j \in 1..Len(o)}
  BY ToSetIs DEF InTurn
<1>7. ToSet(t) = out \cup {x}
  <2>1. ToSet(t) = {t[j] : j \in 1..Len(t)}
    BY <1>5, ToSetIs
  <2> HIDE DEF t, out
  <2> QED BY <2>1, <1>5, <1>6
<1>8. IsFiniteSet(ToSet(t)) /\ Cardinality(ToSet(t)) = Len(t)
  <2>1. IsFiniteSet(out) /\ Cardinality(out) = Len(o)
    BY DEF InTurn
  <2> HIDE DEF t, out
  <2>2. IsFiniteSet(out \cup {x}) /\ Cardinality(out \cup {x}) = Cardinality(out) + 1
    BY <1>4, <2>1, FS_AddElement
  <2> QED BY <1>5, <1>7, <2>1, <2>2
<1>9. ASSUME NEW k \in 1..Len(t) PROVE {t[j] : j \in 1..(k - 1)} = {o[j] : j \in 1..(k - 1)}
  <2>1. \A j \in 1..(k - 1) : t[j] = o[j]
    BY <1>5
  <2> HIDE DEF t
  <2> QED BY <2>1
<1>10. ASSUME NEW k \in 1..Len(t)
       PROVE  t[k] \notin {o[j] : j \in 1..(k - 1)} /\ m[t[k]].deps \cap S \subseteq {o[j] : j \in 1..(k - 1)}
  <2>1. CASE k = Len(o) + 1
    <3>1. k - 1 = Len(o) /\ t[k] = x
      BY <2>1, <1>5
    <3> HIDE DEF t, out
    <3> QED BY <3>1, <1>4, <1>6
  <2>2. CASE k # Len(o) + 1
    <3>1. k \in 1..Len(o) /\ t[k] = o[k]
      BY <2>2, <1>5
    <3> QED BY <3>1 DEF InTurn
  <2> QED BY <2>1, <2>2
<1>11. InTurn(m, S, t)
  <2> HIDE DEF t
  <2> QED BY <1>5, <1>8, <1>9, <1>10 DEF InTurn
<1>12. Turn(m, S, R, o) = t
  BY DEF Turn, x, able
<1> HIDE DEF t
<1> QED BY <1>5, <1>11, <1>12

(* Before the first turn nothing is out; the k-th turn adds to the list.    *)
LEMMA NoTurn ==
    ASSUME NEW m, NEW S, NEW R, IsFiniteSet(S)
    PROVE  Turns(m, S, R)[{}] = <<>>
BY TurnsExist DEF TurnsAreMade

(* After k turns, what came before and the item of the last turn.           *)
LEMMA TurnAt ==
    ASSUME NEW m, NEW S, NEW R, IsFiniteSet(S), NEW k \in Nat, k # 0, k <= Cardinality(S)
    PROVE  Turns(m, S, R)[1..k] = Turn(m, S, R, Turns(m, S, R)[1..(k - 1)])
<1> DEFINE s == 1..k
           t == Turns(m, S, R)
<1>1. s \in SUBSET Int /\ IsFiniteSet(s) /\ s # {} /\ s \in SUBSET (1..Cardinality(S))
  <2>1. Cardinality(S) \in Nat
    BY FS_CardinalityType
  <2>2. IsFiniteSet(s)
    BY FS_Interval
  <2> QED BY <2>1, <2>2
<1>2. Max(s) = k
  <2>1. k \in s
    OBVIOUS
  <2>2. Max(s) \in s /\ \A y \in s : Max(s) >= y
    <3> HIDE DEF s
    <3> QED BY <1>1, MaxIs
  <2>3. Max(s) \in Int /\ Max(s) <= k
    BY <2>2
  <2>4. Max(s) >= k
    <3> HIDE DEF s
    <3> QED BY <2>1, <2>2
  <2> QED BY <2>3, <2>4
<1>3. t[s] = Turn(m, S, R, t[s \ {Max(s)}])
  <2> DEFINE N == 1..Cardinality(S)
             v(u) == IF u = {} THEN <<>> ELSE Turn(m, S, R, t[u \ {Max(u)}])
  <2>1. \A u \in SUBSET N : t[u] = v(u)
    <3>1. TurnsAreMade(m, S, R)
      BY TurnsExist
    <3> QED BY <3>1 DEF TurnsAreMade
  <2>2. s \in SUBSET N /\ s # {}
    BY <1>1
  <2>3. t[s] = v(s)
    <3> HIDE DEF s, v, N, t
    <3> QED BY <2>1, <2>2
  <2> HIDE DEF s
  <2> QED BY <2>2, <2>3
<1>4. s \ {k} = 1..(k - 1)
  OBVIOUS
<1> HIDE DEF s
<1>5. t[s] = Turn(m, S, R, t[1..(k - 1)])
  BY <1>1, <1>2, <1>3, <1>4
<1> QED BY <1>5 DEF s

(* So the whole list holds every item of S once. *)
LEMMA AllAreReleased ==
    ASSUME NEW m, NEW S, NEW R, Graph(m), ~Cyclic(m), S \subseteq DOMAIN m, Leads(S, R)
    PROVE  /\ InTurn(m, S, Turns(m, S, R)[1..Cardinality(S)])
           /\ Len(Turns(m, S, R)[1..Cardinality(S)]) = Cardinality(S)
           /\ ToSet(Turns(m, S, R)[1..Cardinality(S)]) = S
<1> DEFINE n == Cardinality(S)
           o(k) == Turns(m, S, R)[1..k]
           Good(k) == InTurn(m, S, o(k)) /\ Len(o(k)) = k
           Bad == {k \in Nat : k <= n /\ ~Good(k)}
<1>0. IsFiniteSet(S) /\ n \in Nat
  BY FS_Subset, FS_CardinalityType DEF Graph
<1>1. Bad = {}
  <2> SUFFICES ASSUME Bad # {} PROVE FALSE
    OBVIOUS
  <2>1. PICK k \in Bad : \A j \in Bad : k <= j
    BY LeastNumber
  <2>2. k \in Nat /\ k <= n /\ 1..k \in SUBSET (1..n)
    BY <1>0, <2>1
  <2>3. CASE k = 0
    <3>1. o(0) = <<>>
      <4>1. 1..0 = {} /\ {} \in SUBSET (1..n)
        OBVIOUS
      <4> QED BY <4>1, <1>0, NoTurn
    <3>2. ToSet(<<>>) = {} /\ Len(<<>>) = 0
      BY DEF ToSet
    <3>3. InTurn(m, S, <<>>)
      <4>1. <<>> \in Seq(S) /\ 1..Len(<<>>) = {}
        OBVIOUS
      <4>2. IsFiniteSet(ToSet(<<>>)) /\ Cardinality(ToSet(<<>>)) = Len(<<>>)
        BY <3>2, FS_EmptySet
      <4> QED BY <4>1, <4>2 DEF InTurn
    <3> QED BY <2>1, <2>3, <3>1, <3>2, <3>3
  <2>4. CASE k # 0
    <3>1. k - 1 \in Nat /\ k - 1 \notin Bad
      <4>1. k - 1 \in Nat
        BY <2>2, <2>4
      <4> HIDE DEF Bad
      <4> QED BY <2>1, <2>2, <4>1
    <3>2. InTurn(m, S, o(k - 1)) /\ Len(o(k - 1)) = k - 1
      <4>1. k - 1 <= n
        BY <1>0, <2>2
      <4> HIDE DEF o
      <4> QED BY <3>1, <4>1
    <3>3. o(k) = Turn(m, S, R, o(k - 1))
      BY <1>0, <2>2, <2>4, TurnAt
    <3>4. Len(o(k - 1)) < n
      <4> HIDE DEF o, n
      <4> QED BY <1>0, <2>2, <3>2
    <3> DEFINE p == o(k - 1)
    <3>5. InTurn(m, S, Turn(m, S, R, p)) /\ Len(Turn(m, S, R, p)) = Len(p) + 1
      <4>1. InTurn(m, S, p) /\ Len(p) < Cardinality(S)
        BY <3>2, <3>4
      <4> HIDE DEF p
      <4> QED BY <4>1, TurnIs
    <3>6. Good(k)
      <4> HIDE DEF o
      <4> QED BY <2>2, <3>2, <3>3, <3>5 DEF p
    <3> QED BY <2>1, <3>6
  <2> QED BY <2>3, <2>4
<1>2. Good(n)
  <2> HIDE DEF Good
  <2> QED BY <1>0, <1>1
<1> DEFINE all == o(n)
<1>3. InTurn(m, S, all) /\ Len(all) = n
  BY <1>2
<1>4. ToSet(all) = S
  <2>1. ToSet(all) \in SUBSET S /\ IsFiniteSet(ToSet(all)) /\ Cardinality(ToSet(all)) = n
    <3> HIDE DEF all
    <3> QED BY <1>3, ToSetIs DEF InTurn
  <2> HIDE DEF all
  <2> QED BY <2>1, <1>0, FS_Subset
<1> QED BY <1>3, <1>4

(* Some item of a finite set comes before all others: scores are integers,  *)
(* and the ids that share the highest have a least.                         *)
LEMMA OneLeads ==
    ASSUME NEW m, Graph(m), ~Cyclic(m), Impacts(m)
    PROVE  Leads(DOMAIN m, ByScore(m))
<1> DEFINE score == Scores(m, StatusOf(m))
           D == DOMAIN m
<1>0. (\A i \in D : score[i] \in Int) /\ IsFiniteSet(D) /\ D \subseteq Int
  BY ScoresExist DEF Graph
<1> HIDE DEF score
<1> SUFFICES ASSUME NEW T \in (SUBSET D) \ {{}}
             PROVE  \E i \in T : \A j \in T \ {i} : <<i, j>> \in ByScore(m)
  BY DEF Leads
<1> DEFINE done == {i \in T : IsDone(m, i)}
           top == IF done # {} THEN done ELSE T
           values == {score[i] : i \in top}
<1>1. top \subseteq T /\ top # {} /\ IsFiniteSet(top)
  BY <1>0, FS_Subset
<1>2. \A i \in top : \A j \in T : /\ IsDone(m, j) => IsDone(m, i)
                                  /\ IsDone(m, i) = IsDone(m, j) => j \in top
  OBVIOUS
<1> HIDE DEF top
<1>3. values \in SUBSET Int /\ values # {} /\ IsFiniteSet(values)
  <2> DEFINE f == [i \in top |-> score[i]]
  <2>1. IsFiniteSet({f[x] : x \in top})
    <3>1. f = [x \in top |-> f[x]]
      OBVIOUS
    <3> HIDE DEF f
    <3> QED BY <3>1, <1>1, ValuesAreFinite
  <2>2. {f[x] : x \in top} = values
    OBVIOUS
  <2> QED BY <2>1, <2>2, <1>0, <1>1
<1> DEFINE best == {i \in top : score[i] = Max(values)}
<1>4. Max(values) \in values /\ \A v \in values : Max(values) >= v
  <2> HIDE DEF values
  <2> QED BY <1>3, MaxIs
<1>5. best \in SUBSET Int /\ best # {} /\ IsFiniteSet(best)
  <2>1. best # {}
    BY <1>4
  <2>2. best \in SUBSET top
    OBVIOUS
  <2> HIDE DEF best
  <2> QED BY <2>1, <2>2, <1>0, <1>1, FS_Subset
<1>6. PICK i \in best : \A j \in best : i <= j
  <2> HIDE DEF best
  <2> QED BY <1>5, MinIs
<1>7. i \in top /\ i \in T /\ i \in D /\ score[i] = Max(values)
  BY <1>1, <1>6
<1>8. ASSUME NEW j \in T \ {i} PROVE Outranks(m, score, i, j)
  <2>0. j \in T /\ j \in D /\ j # i /\ i \in Int /\ j \in Int /\ score[i] \in Int /\ score[j] \in Int
    BY <1>0, <1>7
  <2>1. CASE IsDone(m, i) # IsDone(m, j)
    <3>1. IsDone(m, i) \in BOOLEAN /\ IsDone(m, j) \in BOOLEAN
      BY DEF IsDone
    <3>2. IsDone(m, j) => IsDone(m, i)
      BY <1>2, <1>7, <2>0
    <3>3. IsDone(m, i)
      BY <2>1, <3>1, <3>2
    <3> QED BY <2>1, <3>3 DEF Outranks
  <2>2. CASE IsDone(m, i) = IsDone(m, j)
    <3>1. j \in top
      BY <1>2, <1>7, <2>0, <2>2
    <3>2. score[j] \in values
      BY <3>1
    <3>3. score[i] >= score[j]
      <4> HIDE DEF values
      <4> QED BY <1>4, <1>7, <3>2
    <3>4. CASE score[i] = score[j]
      <4>1. j \in best
        <5> HIDE DEF values
        <5> QED BY <3>1, <3>4, <1>7
      <4>2. i <= j
        <5> HIDE DEF best
        <5> QED BY <4>1, <1>6
      <4>3. i < j
        BY <4>2, <2>0
      <4> QED BY <2>2, <3>4, <4>3 DEF Outranks
    <3>5. CASE score[i] # score[j]
      <4>1. score[i] > score[j]
        BY <3>3, <3>5, <2>0
      <4> QED BY <2>2, <4>1 DEF Outranks
    <3> QED BY <3>4, <3>5
  <2> QED BY <2>1, <2>2
<1>9. \A j \in T \ {i} : <<i, j>> \in ByScore(m)
  <2> SUFFICES ASSUME NEW j \in T \ {i} PROVE <<i, j>> \in ByScore(m)
    OBVIOUS
  <2>1. Outranks(m, score, i, j)
    BY <1>8
  <2>2. i \in DOMAIN m /\ j \in DOMAIN m
    BY <1>7
  <2> QED BY <2>1, <2>2, ByScoreIs DEF score
<1> QED BY <1>7, <1>9

(* The order of the backlog holds every item once, dependencies first. *)
THEOREM OrderIsComplete ==
    ASSUME NEW m, Graph(m), ~Cyclic(m), Impacts(m)
    PROVE  /\ InTurn(m, DOMAIN m, Prioritized(m)) /\ ToSet(Prioritized(m)) = DOMAIN m
           /\ Len(Prioritized(m)) = Cardinality(DOMAIN m)
BY PrioritizedIsTurns, AllAreReleased, OneLeads

(* The place of a member of a list. *)
LEMMA PositionIs ==
    ASSUME NEW S, NEW o \in Seq(S), NEW i \in ToSet(o)
    PROVE  Position(o, i) \in 1..Len(o) /\ o[Position(o, i)] = i
<1>1. DOMAIN o = 1..Len(o)
  OBVIOUS
<1>2. \E k \in DOMAIN o : o[k] = i
  BY DEF ToSet
<1> QED BY <1>1, <1>2 DEF Position

(* What next hands out: an item that can be worked on, of the highest score *)
(* among those, whenever there is one.                                      *)
THEOREM NextIsTheBest ==
    ASSUME NEW m, Graph(m), ~Cyclic(m), Impacts(m), \E i \in DOMAIN m : Executable(m, i)
    PROVE  /\ NextItem(m) \in DOMAIN m /\ Executable(m, NextItem(m))
           /\ \A j \in DOMAIN m : Executable(m, j) =>
                 Scores(m, StatusOf(m))[NextItem(m)] >= Scores(m, StatusOf(m))[j]
<1> DEFINE score == Scores(m, StatusOf(m))
           order == Prioritized(m)
           able == {i \in DOMAIN m : Executable(m, i)}
           best == {i \in able : \A j \in able : score[i] >= score[j]}
<1>0. \A i \in DOMAIN m : score[i] \in Int
  BY ScoresExist
<1>1. NextItem(m) = CHOOSE i \in best : \A j \in best : Position(order, i) <= Position(order, j)
  BY DEF NextItem
<1>2. best # {}
  <2> DEFINE f == [i \in able |-> score[i]]
             values == {f[i] : i \in able}
  <2>1. IsFiniteSet(able) /\ able # {}
    BY FS_Subset DEF Graph
  <2> HIDE DEF able, score
  <2>2. IsFiniteSet(values)
    <3>1. f = [x \in able |-> f[x]]
      OBVIOUS
    <3> HIDE DEF f
    <3> QED BY <3>1, <2>1, ValuesAreFinite
  <2>3. values \in SUBSET Int /\ values # {}
    BY <1>0, <2>1 DEF able
  <2>4. Max(values) \in values /\ \A v \in values : Max(values) >= v
    <3> HIDE DEF values
    <3> QED BY <2>2, <2>3, MaxIs
  <2>5. PICK i \in able : f[i] = Max(values)
    BY <2>4
  <2>6. \A j \in able : score[i] >= score[j]
    <3> SUFFICES ASSUME NEW j \in able PROVE score[i] >= score[j]
      OBVIOUS
    <3>1. f[j] \in values /\ f[j] = score[j] /\ f[i] = score[i]
      OBVIOUS
    <3> HIDE DEF f, values
    <3> QED BY <2>4, <2>5, <3>1
  <2> QED BY <2>6
<1>3. \A i \in best : Position(order, i) \in Nat
  <2> SUFFICES ASSUME NEW i \in best PROVE Position(order, i) \in Nat
    OBVIOUS
  <2>1. i \in DOMAIN m
    OBVIOUS
  <2>2. order \in Seq(DOMAIN m) /\ i \in ToSet(order)
    BY <2>1, OrderIsComplete DEF InTurn
  <2> HIDE DEF order
  <2>3. Position(order, i) \in 1..Len(order)
    BY <2>2, PositionIs
  <2> QED BY <2>2, <2>3
<1>4. \E i \in best : \A j \in best : Position(order, i) <= Position(order, j)
  <2> HIDE DEF best, order
  <2> DEFINE P == {Position(order, i) : i \in best}
  <2>1. P \in SUBSET Nat /\ P # {}
    BY <1>2, <1>3
  <2>2. PICK p \in P : \A q \in P : p <= q
    <3> HIDE DEF P
    <3> QED BY <2>1, LeastNumber
  <2> QED BY <2>2
<1>5. NextItem(m) \in best
  <2> HIDE DEF best, order
  <2> QED BY <1>1, <1>4
<1> QED BY <1>5

(* What next ranks is the backlog, as a graph and with its numbers. *)
LEMMA ObservedIsGraph ==
    ASSUME Formed, Acyclic
    PROVE  Graph(Observed) /\ ~Cyclic(Observed) /\ Impacts(Observed) /\ DOMAIN Observed = Items
<1>1. DOMAIN Observed = DOMAIN backlog
      /\ \A i \in DOMAIN backlog : /\ Observed[i].deps = backlog[i].deps
                                   /\ Observed[i].impact = backlog[i].impact
  BY DEF Observed
<1>2. Graph(backlog)
  BY BacklogIsGraph
<1>3. \A i \in DOMAIN backlog : backlog[i].impact \in Int
  BY DEF Formed, TypeOK, BacklogItem, Items
<1>4. Graph(Observed)
  BY <1>1, <1>2 DEF Graph
<1>5. ~Cyclic(Observed)
  <2> SUFFICES ASSUME NEW S \in SUBSET DOMAIN backlog, S # {},
                      \A i \in S : Observed[i].deps \cap S # {}
               PROVE  FALSE
    BY <1>1 DEF Cyclic
  <2>1. PICK i \in S : backlog[i].deps \cap S = {}
    BY DEF Acyclic, Items
  <2> QED BY <1>1, <2>1
<1> QED BY <1>1, <1>3, <1>4, <1>5 DEF Impacts, Items

(* Of the open items, one waits for none of the others, as nothing is       *)
(* hindered: its turn has come, to be worked on or to be closed.            *)
LEMMA SomethingCanBeDone ==
    ASSUME Formed, Acyclic, ~Hindered, \E i \in Items : ~IsDone(backlog, i)
    PROVE  (\E i \in Items : Executable(Observed, i)) \/ \E i \in Items : Closable(i)
<1> DEFINE open == {i \in Items : ~IsDone(backlog, i)}
<1>1. PICK i \in open : Waits(i) \cap open = {}
  <2>1. open \in (SUBSET open) \ {{}}
    OBVIOUS
  <2>2. ~\E S \in (SUBSET open) \ {{}} : \A i \in S : Waits(i) \cap S # {}
    BY DEF Hindered
  <2> HIDE DEF open
  <2> QED BY <2>1, <2>2
<1>2. backlog[i].status # Blocked /\ backlog[i].ready /\ backlog[i].status # Done
  <2>1. ~(backlog[i].status = Blocked \/ ~backlog[i].ready)
    BY <1>1 DEF Hindered
  <2> QED BY <2>1, <1>1 DEF IsDone
<1>3. \A j \in Items : /\ Observed[j].deps = backlog[j].deps /\ Observed[j].status = backlog[j].status
                       /\ Observed[j].ready = backlog[j].ready
                       /\ Observed[j].work = backlog[j].work /\ Observed[j].parent = backlog[j].parent
  BY DEF Observed, Items
<1>4. DOMAIN Observed = Items /\ \A j \in Items : IsDone(Observed, j) <=> IsDone(backlog, j)
  BY <1>3 DEF Observed, Items, IsDone
<1>5. CASE IsContainer(backlog, i)
  <2>1. HasChildren(backlog, i)
    BY <1>5 DEF IsContainer
  <2>2. \A c \in DOMAIN backlog : backlog[c].parent = i => IsDone(backlog, c)
    BY <1>1, <1>5 DEF Waits, Items
  <2>3. Closable(i)
    BY <1>1, <2>1, <2>2 DEF Closable
  <2> QED BY <1>1, <2>3
<1>6. CASE ~IsContainer(backlog, i)
  <2>1. ~IsContainer(Observed, i)
    BY <1>1, <1>3, <1>4, <1>6 DEF IsContainer, HasChildren, Items
  <2>2. \A d \in backlog[i].deps : IsDone(backlog, d) /\ d \in Items
    <3>1. backlog[i].deps \subseteq Items
      BY <1>1, BacklogIsGraph DEF Graph, Items
    <3> QED BY <1>1, <1>6, <3>1 DEF Waits
  <2>3. Executable(Observed, i)
    BY <1>1, <1>2, <1>3, <1>4, <2>1, <2>2 DEF Executable
  <2> QED BY <1>1, <2>3
<1> QED BY <1>5, <1>6

(* next has an answer, or the sync a closure, while nothing hinders the     *)
(* work that is left.                                                       *)
THEOREM WorkIsNeverOut == Spec => []NeverEmptyHanded
<1>1. Formed /\ Acyclic => NeverEmptyHanded
  <2> SUFFICES ASSUME Formed, Acyclic, ~Hindered, \E i \in Items : ~IsDone(backlog, i),
                      ~\E i \in Items : Closable(i)
               PROVE  NextItem(Observed) # NoItem
    BY DEF NeverEmptyHanded
  <2>1. \E i \in Items : Executable(Observed, i)
    BY SomethingCanBeDone
  <2>2. Graph(Observed) /\ ~Cyclic(Observed) /\ Impacts(Observed) /\ DOMAIN Observed = Items
    BY ObservedIsGraph
  <2>3. NextItem(Observed) \in Items
    BY <2>1, <2>2, NextIsTheBest
  <2>4. NoItem \notin Items
    BY DEF Formed, Settled, Items, NoItem
  <2> QED BY <2>3, <2>4
<1>2. Init => Formed /\ Acyclic
  BY InitFormed, InitAcyclic
<1>3. Formed /\ Acyclic /\ [Next]_vars => (Formed /\ Acyclic)'
  BY NextFormed, NextAcyclic
<1> QED BY <1>1, <1>2, <1>3, PTL DEF Spec

-----------------------------------------------------------------------------
(* Sums.                                                                    *)
Total(g, S) == Adding(g, S)[S]
Addends(g, S) == IsFiniteSet(S) /\ \A x \in S : g[x] \in Int

(* A sum over a subset is the same within any larger set. *)
LEMMA SumsWithin ==
    ASSUME NEW g, NEW S, NEW T, IsFiniteSet(S), T \subseteq S
    PROVE  Adding(g, S)[T] = Total(g, T)
<1> DEFINE One(s) == CHOOSE x \in s : TRUE
           a == Adding(g, S)
           b == Adding(g, T)
           Bad == {n \in Nat : \E s \in SUBSET T : Cardinality(s) = n /\ a[s] # b[s]}
<1>1. IsFiniteSet(T)
  BY FS_Subset
<1>2. \A s \in SUBSET S : a[s] = IF s = {} THEN 0 ELSE a[s \ {One(s)}] + g[One(s)]
  BY AddingExists, Zenon
<1>3. \A s \in SUBSET T : b[s] = IF s = {} THEN 0 ELSE b[s \ {One(s)}] + g[One(s)]
  BY <1>1, AddingExists, Zenon
<1> HIDE DEF a, b
<1>4. Bad = {}
  <2> SUFFICES ASSUME Bad # {} PROVE FALSE
    OBVIOUS
  <2>1. PICK n \in Bad : \A k \in Bad : n <= k
    BY LeastNumber
  <2>2. PICK s \in SUBSET T : Cardinality(s) = n /\ a[s] # b[s]
    BY <2>1
  <2>3. s # {} /\ s \in SUBSET S
    BY <2>2, <1>2, <1>3
  <2>4. One(s) \in s
    BY <2>3
  <2>5. Cardinality(s \ {One(s)}) = n - 1 /\ n - 1 \in Nat /\ n \in Nat
    <3>0. IsFiniteSet(s)
      BY <1>1, FS_Subset
    <3>1. IsFiniteSet(s \ {One(s)}) /\ Cardinality(s \ {One(s)}) = n - 1
      BY <2>2, <2>4, <3>0, FS_RemoveElement
    <3> QED BY <3>1, <2>1, FS_CardinalityType
  <2> HIDE DEF One
  <2>6. a[s \ {One(s)}] = b[s \ {One(s)}]
    <3>1. n - 1 \notin Bad
      <4> HIDE DEF Bad
      <4> QED BY <2>1, <2>5
    <3>2. s \ {One(s)} \in SUBSET T
      OBVIOUS
    <3> QED BY <3>1, <3>2, <2>5
  <2>7. a[s] = a[s \ {One(s)}] + g[One(s)]
    BY <1>2, <2>3
  <2>8. b[s] = b[s \ {One(s)}] + g[One(s)]
    BY <1>3, <2>3
  <2> QED BY <2>2, <2>6, <2>7, <2>8
<1>5. Cardinality(T) \in Nat /\ Cardinality(T) \notin Bad
  BY <1>1, <1>4, FS_CardinalityType
<1>6. a[T] = b[T]
  BY <1>5
<1> QED BY <1>6 DEF Total, a, b

(* The sum of nothing, and of one member more. *)
LEMMA TotalOfNone ==
    ASSUME NEW g
    PROVE  Total(g, {}) = 0
<1>1. IsFiniteSet({})
  BY FS_EmptySet
<1> DEFINE a == Adding(g, {})
<1>2. \A s \in SUBSET {} : a[s] = IF s = {} THEN 0
                                  ELSE a[s \ {CHOOSE x \in s : TRUE}] + g[CHOOSE x \in s : TRUE]
  BY <1>1, AddingExists, Zenon
<1> HIDE DEF a
<1>3. a[{}] = 0
  BY <1>2
<1> QED BY <1>3 DEF a, Total

(* A sum of integers is an integer.                                         *)
LEMMA TotalIsInt ==
    ASSUME NEW g, NEW S, Addends(g, S)
    PROVE  Total(g, S) \in Int
BY SumIsInt DEF Total, Addends

(* A sum, by the element the fold takes first.                              *)
LEMMA TotalOfChosen ==
    ASSUME NEW g, NEW S, IsFiniteSet(S), S # {}
    PROVE  \E y \in S : y = (CHOOSE x \in S : TRUE) /\ Total(g, S) = Total(g, S \ {y}) + g[y]
<1> DEFINE a == Adding(g, S)
           y == CHOOSE x \in S : TRUE
<1>1. \A s \in SUBSET S : a[s] = IF s = {} THEN 0
                                 ELSE a[s \ {CHOOSE x \in s : TRUE}] + g[CHOOSE x \in s : TRUE]
  BY AddingExists, Zenon
<1>2. y \in S
  OBVIOUS
<1>3. a[S \ {y}] = Total(g, S \ {y})
  <2>1. S \ {y} \subseteq S
    OBVIOUS
  <2> HIDE DEF y
  <2> QED BY <2>1, SumsWithin
<1> HIDE DEF a
<1>4. a[S] = a[S \ {y}] + g[y]
  BY <1>1
<1>5. Total(g, S) = Total(g, S \ {y}) + g[y]
  BY <1>3, <1>4 DEF Total, a
<1> QED BY <1>2, <1>5

(* A sum is independent of what is taken first: any element can be.         *)
LEMMA TotalWithout ==
    ASSUME NEW g, NEW S, Addends(g, S), NEW x \in S
    PROVE  Total(g, S) = Total(g, S \ {x}) + g[x]
<1> DEFINE Holds(T) == \A z \in T : Total(g, T) = Total(g, T \ {z}) + g[z]
           Bad == {n \in Nat : \E T \in SUBSET S : Cardinality(T) = n /\ ~Holds(T)}
<1>0. \A T \in SUBSET S : Addends(g, T) /\ Total(g, T) \in Int
  <2> SUFFICES ASSUME NEW T \in SUBSET S PROVE Addends(g, T) /\ Total(g, T) \in Int
    OBVIOUS
  <2>1. Addends(g, T)
    BY FS_Subset DEF Addends
  <2> QED BY <2>1, TotalIsInt
<1>1. Bad = {}
  <2> SUFFICES ASSUME Bad # {} PROVE FALSE
    OBVIOUS
  <2>1. PICK n \in Bad : \A k \in Bad : n <= k
    BY LeastNumber
  <2>2. PICK T \in SUBSET S : Cardinality(T) = n /\ ~Holds(T)
    BY <2>1
  <2>3. PICK z \in T : Total(g, T) # Total(g, T \ {z}) + g[z]
    BY <2>2
  <2>4. IsFiniteSet(T) /\ T # {} /\ \A u \in T : g[u] \in Int
    BY <2>3, <1>0 DEF Addends
  <2>5. PICK y \in T : Total(g, T) = Total(g, T \ {y}) + g[y]
    BY <2>4, TotalOfChosen
  <2>6. y # z
    BY <2>3, <2>5
  <2>7. ASSUME NEW u \in T PROVE Holds(T \ {u})
    <3>1. IsFiniteSet(T \ {u}) /\ Cardinality(T \ {u}) = n - 1
      BY <2>2, <2>4, FS_RemoveElement
    <3>2. n - 1 \in Nat /\ n \in Nat
      BY <2>1, <3>1, FS_CardinalityType
    <3>3. n - 1 \notin Bad
      <4> HIDE DEF Bad
      <4> QED BY <2>1, <3>2
    <3>4. T \ {u} \in SUBSET S
      OBVIOUS
    <3> HIDE DEF Holds
    <3> QED BY <3>1, <3>2, <3>3, <3>4
  <2> DEFINE rest == (T \ {y}) \ {z}
  <2>8. Total(g, T \ {y}) = Total(g, rest) + g[z]
    BY <2>6, <2>7
  <2>9. Total(g, T \ {z}) = Total(g, rest) + g[y]
    <3>1. (T \ {z}) \ {y} = rest /\ y \in T \ {z}
      BY <2>6
    <3> HIDE DEF rest
    <3> QED BY <3>1, <2>7
  <2>10. Total(g, rest) \in Int /\ g[y] \in Int /\ g[z] \in Int
    BY <1>0, <2>4
  <2> HIDE DEF rest
  <2> QED BY <2>3, <2>5, <2>8, <2>9, <2>10
<1>2. Cardinality(S) \in Nat /\ Cardinality(S) \notin Bad
  BY <1>1, FS_CardinalityType DEF Addends
<1>3. Holds(S)
  <2> HIDE DEF Holds
  <2> QED BY <1>2
<1> QED BY <1>3

(* One more element adds its number.                                        *)
LEMMA TotalWith ==
    ASSUME NEW g, NEW S, NEW x, Addends(g, S \cup {x}), x \notin S
    PROVE  Total(g, S \cup {x}) = Total(g, S) + g[x]
<1>1. (S \cup {x}) \ {x} = S /\ x \in S \cup {x}
  OBVIOUS
<1> QED BY <1>1, TotalWithout

(* Of numbers that are not negative, more make no less. *)
LEMMA TotalGrows ==
    ASSUME NEW g, NEW S, Addends(g, S), \A x \in S : g[x] \in Nat, NEW T \in SUBSET S
    PROVE  Total(g, T) <= Total(g, S) /\ Total(g, T) \in Nat
<1> DEFINE Holds(U) == \A V \in SUBSET U : Total(g, V) <= Total(g, U) /\ Total(g, V) \in Nat
           Bad == {n \in Nat : \E U \in SUBSET S : Cardinality(U) = n /\ ~Holds(U)}
<1>0. \A U \in SUBSET S : Addends(g, U) /\ Total(g, U) \in Int
  <2> SUFFICES ASSUME NEW U \in SUBSET S PROVE Addends(g, U) /\ Total(g, U) \in Int
    OBVIOUS
  <2>1. Addends(g, U)
    BY FS_Subset DEF Addends
  <2> QED BY <2>1, TotalIsInt
<1>1. Bad = {}
  <2> SUFFICES ASSUME Bad # {} PROVE FALSE
    OBVIOUS
  <2>1. PICK n \in Bad : \A k \in Bad : n <= k
    BY LeastNumber
  <2>2. PICK U \in SUBSET S : Cardinality(U) = n /\ ~Holds(U)
    BY <2>1
  <2>3. ASSUME NEW u \in U PROVE Holds(U \ {u}) /\ Total(g, U) = Total(g, U \ {u}) + g[u]
    <3>0. IsFiniteSet(U)
      BY <1>0 DEF Addends
    <3>1. IsFiniteSet(U \ {u}) /\ Cardinality(U \ {u}) = n - 1
      BY <2>2, <3>0, FS_RemoveElement
    <3>2. n - 1 \in Nat /\ n \in Nat
      BY <2>1, <3>1, FS_CardinalityType
    <3>3. n - 1 \notin Bad
      <4> HIDE DEF Bad
      <4> QED BY <2>1, <3>2
    <3>4. U \ {u} \in SUBSET S
      OBVIOUS
    <3>5. Total(g, U) = Total(g, U \ {u}) + g[u]
      BY <1>0, TotalWithout
    <3> HIDE DEF Holds
    <3> QED BY <3>1, <3>2, <3>3, <3>4, <3>5
  <2>4. ASSUME NEW V \in SUBSET U PROVE Total(g, V) <= Total(g, U) /\ Total(g, V) \in Nat
    <3>1. CASE V = U
      <4>1. CASE U = {}
        BY <3>1, <4>1, TotalOfNone
      <4>2. CASE U # {}
        <5>1. PICK u \in U : TRUE
          BY <4>2
        <5>2. Total(g, U \ {u}) \in Nat /\ g[u] \in Nat /\ Total(g, U) = Total(g, U \ {u}) + g[u]
          BY <2>3
        <5> QED BY <3>1, <5>2
      <4> QED BY <4>1, <4>2
    <3>2. CASE V # U
      <4>1. PICK u \in U : u \notin V
        BY <3>2
      <4>2. V \in SUBSET (U \ {u}) /\ U \ {u} \in SUBSET (U \ {u})
        BY <4>1
      <4>3. Total(g, V) <= Total(g, U \ {u}) /\ Total(g, V) \in Nat /\ Total(g, U \ {u}) \in Nat
        BY <2>3, <4>2
      <4>4. Total(g, U) = Total(g, U \ {u}) + g[u] /\ g[u] \in Nat
        BY <2>3
      <4> QED BY <4>3, <4>4
    <3> QED BY <3>1, <3>2
  <2> QED BY <2>2, <2>4
<1>2. Cardinality(S) \in Nat /\ Cardinality(S) \notin Bad
  BY <1>1, FS_CardinalityType DEF Addends
<1>3. Holds(S)
  <2> HIDE DEF Holds
  <2> QED BY <1>2
<1> QED BY <1>3

-----------------------------------------------------------------------------
(* Folds over a list.                                                       *)
LEMMA LastOfPrefix ==
    ASSUME NEW k \in Nat, k # 0
    PROVE  Max(1..k) = k /\ (1..k) \ {k} = 1..(k - 1) /\ 1..k # {}
<1> DEFINE s == 1..k
<1>1. s \in SUBSET Int /\ IsFiniteSet(s) /\ s # {} /\ k \in s
  <2>1. IsFiniteSet(s)
    BY FS_Interval
  <2> QED BY <2>1
<1>2. Max(s) \in s /\ \A y \in s : Max(s) >= y
  <2> HIDE DEF s
  <2> QED BY <1>1, MaxIs
<1>3. Max(s) \in Int /\ Max(s) <= k
  BY <1>2
<1>4. Max(s) >= k
  <2> HIDE DEF s
  <2> QED BY <1>1, <1>2
<1> QED BY <1>1, <1>3, <1>4

(* A fold has all its values, whatever the function that is folded.         *)
Folded(f, n, X, base, F) ==
    /\ f \in [SUBSET (1..n) -> X]
    /\ \A s \in SUBSET (1..n) :
          f[s] = IF s = {} THEN base ELSE F[<<f[s \ {Max(s)}], Max(s)>>]

(* A fold over the prefixes exists: each set adds its last turn.            *)
LEMMA FoldExists ==
    ASSUME NEW n \in Nat, NEW X, NEW base \in X, NEW F \in [X \X (1..n) -> X]
    PROVE  \E f : Folded(f, n, X, base, F)
<1> DEFINE N == 1..n
           Upto(k) == {s \in SUBSET N : Cardinality(s) <= k}
           Value(f, s) == IF s = {} THEN base ELSE F[<<f[s \ {Max(s)}], Max(s)>>]
           Is(f, k) == f \in [Upto(k) -> X] /\ \A s \in Upto(k) : f[s] = Value(f, s)
           Bad == {k \in Nat : ~\E f : Is(f, k)}
<1>a. IsFiniteSet(N) /\ N \subseteq Int
  BY FS_Interval
<1> HIDE DEF N
<1>0. \A s \in SUBSET N : IsFiniteSet(s) /\ Cardinality(s) \in Nat /\ s \in SUBSET Int
  BY <1>a, FS_Subset, FS_CardinalityType
<1>b. \A s \in SUBSET N : s # {} => Max(s) \in s
  BY <1>0, MaxIs
<1>1. Bad = {}
  <2> SUFFICES ASSUME Bad # {} PROVE FALSE
    OBVIOUS
  <2>1. PICK k \in Bad : \A j \in Bad : k <= j
    BY LeastNumber
  <2>2. CASE k = 0
    <3>1. \A s \in Upto(0) : s = {}
      BY <1>0, FS_EmptySet
    <3> DEFINE f == [s \in Upto(0) |-> base]
    <3>2. Is(f, 0)
      <4>1. f \in [Upto(0) -> X]
        OBVIOUS
      <4>2. \A s \in Upto(0) : f[s] = Value(f, s)
        BY <3>1
      <4> QED BY <4>1, <4>2
    <3> QED BY <2>1, <2>2, <3>2
  <2>3. CASE k # 0
    <3>1. k \in Nat /\ k - 1 \in Nat
      BY <2>3
    <3>2. k - 1 \notin Bad
      <4> HIDE DEF Bad
      <4> QED BY <2>1, <3>1
    <3>3. PICK h : Is(h, k - 1)
      BY <3>1, <3>2
    <3> DEFINE f == [s \in Upto(k) |-> IF Cardinality(s) = k THEN Value(h, s) ELSE h[s]]
    <3>4. ASSUME NEW s \in Upto(k), s # {}
          PROVE  s \ {Max(s)} \in Upto(k - 1) /\ Cardinality(s \ {Max(s)}) # k
                 /\ s \ {Max(s)} \in Upto(k)
      <4>1. Max(s) \in s
        BY <3>4, <1>b
      <4>2. Cardinality(s \ {Max(s)}) = Cardinality(s) - 1 /\ Cardinality(s) \in Nat
        BY <4>1, <1>0, FS_RemoveElement
      <4>3. Cardinality(s) <= k /\ s \ {Max(s)} \in SUBSET N
        OBVIOUS
      <4> QED BY <4>2, <4>3, <3>1
    <3>5. ASSUME NEW s \in Upto(k) PROVE f[s] = Value(f, s) /\ f[s] \in X
      <4>1. CASE Cardinality(s) = k
        <5>1. f[s] = Value(h, s)
          BY <4>1
        <5>2. s # {}
          BY <4>1, <2>3, FS_EmptySet
        <5>3. f[s \ {Max(s)}] = h[s \ {Max(s)}] /\ h[s \ {Max(s)}] \in X
          BY <5>2, <3>3, <3>4
        <5>4. Max(s) \in N
          BY <5>2, <1>b
        <5>5. Value(h, s) \in X
          <6>1. <<h[s \ {Max(s)}], Max(s)>> \in X \X N
            BY <5>3, <5>4
          <6>2. F \in [X \X N -> X]
            BY DEF N
          <6> HIDE DEF Upto
          <6> QED BY <5>2, <6>1, <6>2
        <5> QED BY <5>1, <5>2, <5>3, <5>5
      <4>2. CASE Cardinality(s) # k
        <5>1. s \in Upto(k - 1)
          BY <4>2, <1>0, <3>1
        <5>2. f[s] = h[s] /\ h[s] = Value(h, s) /\ h[s] \in X
          BY <5>1, <4>2, <3>3
        <5>3. s # {} => f[s \ {Max(s)}] = h[s \ {Max(s)}]
          BY <3>4
        <5> QED BY <5>2, <5>3
      <4> QED BY <4>1, <4>2
    <3>6. Is(f, k)
      <4>1. f = [s \in Upto(k) |-> f[s]]
        OBVIOUS
      <4> HIDE DEF f, Value, Upto
      <4> QED BY <3>5, <4>1
    <3> QED BY <2>1, <3>6
  <2> QED BY <2>2, <2>3
<1>2. Upto(Cardinality(N)) = SUBSET N
  BY <1>a, FS_Subset, <1>0
<1>3. PICK f : Is(f, Cardinality(N))
  BY <1>0, <1>1
<1>4. f \in [SUBSET N -> X] /\ \A s \in SUBSET N : f[s] = Value(f, s)
  <2> HIDE DEF Upto, Value
  <2> QED BY <1>2, <1>3
<1>5. Folded(f, n, X, base, F)
  BY <1>4 DEF N, Folded
<1> QED BY <1>5

-----------------------------------------------------------------------------
(* The walk of plan_sprint: what is taken after each set of turns.          *)
Fits(m, kept, out, acc, i) ==
    /\ i \in OpenWork(m) \ (kept \cup out)
    /\ m[i].status # Blocked /\ m[i].ready
    /\ \A d \in m[i].deps : IsDone(m, d) \/ d \in kept \cup acc.items
    /\ m[i].effort <= acc.remaining
Took(m, kept, out, acc, i) ==
    IF Fits(m, kept, out, acc, i)
    THEN [items |-> acc.items \cup {i}, remaining |-> acc.remaining - m[i].effort]
    ELSE acc
NoneTaken(m, capacity, kept) == [items |-> {}, remaining |-> capacity - EffortOf(m, kept)]
Walk(m, base, kept, out, order) ==
    CHOOSE f : f = [s \in SUBSET (DOMAIN order) |->
        IF s = {} THEN base ELSE Took(m, kept, out, f[s \ {Max(s)}], order[Max(s)])]

(* Packed is where the walk ends. *)
LEMMA PackedIsWalk ==
    ASSUME NEW m, NEW capacity, NEW sprint, NEW carry
    PROVE  Packed(m, capacity, sprint, carry) =
              Walk(m, NoneTaken(m, capacity, Retained(m, sprint)), Retained(m, sprint),
                   Withheld(m, sprint, carry), Prioritized(m))[DOMAIN Prioritized(m)]
BY DEF Packed, FoldLeft, MapThenFoldSet, Walk, Took, Fits, NoneTaken

(* The walk, turn by turn. *)
Packs(m) == [items : SUBSET (DOMAIN m), remaining : Int]
Efforts(m) == \A i \in DOMAIN m : m[i].effort \in Nat
WalkAt(m, base, kept, out, order, k) == Walk(m, base, kept, out, order)[1..k]

(* The walk starts with nothing taken and goes on turn by turn.             *)
LEMMA WalkSteps ==
    ASSUME NEW m, Efforts(m), NEW base \in Packs(m), NEW kept, NEW out,
           NEW order \in Seq(DOMAIN m)
    PROVE  /\ WalkAt(m, base, kept, out, order, 0) = base
           /\ \A k \in 1..Len(order) :
                 WalkAt(m, base, kept, out, order, k)
                 = Took(m, kept, out, WalkAt(m, base, kept, out, order, k - 1), order[k])
           /\ \A k \in 0..Len(order) : WalkAt(m, base, kept, out, order, k) \in Packs(m)
<1> DEFINE n == Len(order)
           X == Packs(m)
           F == [p \in X \X (1..n) |-> Took(m, kept, out, p[1], order[p[2]])]
           w == Walk(m, base, kept, out, order)
<1>1. n \in Nat /\ DOMAIN order = 1..n /\ \A k \in 1..n : order[k] \in DOMAIN m
  OBVIOUS
<1>2. ASSUME NEW x \in X, NEW i \in DOMAIN m PROVE Took(m, kept, out, x, i) \in X
  BY DEF Took, Packs, Efforts
<1>3. F \in [X \X (1..n) -> X]
  BY <1>1, <1>2
<1>4. \A x \in X : \A k \in 1..n : F[<<x, k>>] = Took(m, kept, out, x, order[k])
  OBVIOUS
<1> HIDE DEF F, n
<1>a. PICK f : Folded(f, n, X, base, F)
  <2>1. base \in X
    OBVIOUS
  <2> HIDE DEF X
  <2> QED BY <1>1, <1>3, <2>1, FoldExists
<1>5. /\ f \in [SUBSET (1..n) -> X]
      /\ \A s \in SUBSET (1..n) :
            f[s] = IF s = {} THEN base ELSE F[<<f[s \ {Max(s)}], Max(s)>>]
  BY <1>a DEF Folded
<1> DEFINE Value(g, s) == IF s = {} THEN base
                          ELSE Took(m, kept, out, g[s \ {Max(s)}], order[Max(s)])
<1>6. ASSUME NEW s \in SUBSET (1..n) PROVE f[s] = Value(f, s)
  <2>1. CASE s = {}
    BY <1>5, <2>1
  <2>2. CASE s # {}
    <3>1. s \in SUBSET Int /\ IsFiniteSet(s)
      <4>1. IsFiniteSet(1..n)
        BY <1>1, FS_Interval
      <4>2. IsFiniteSet(s)
        BY <4>1, FS_Subset
      <4> QED BY <4>2
    <3>2. Max(s) \in 1..n
      BY <2>2, <3>1, MaxIs
    <3>3. f[s \ {Max(s)}] \in X
      BY <1>5
    <3> QED BY <1>4, <1>5, <2>2, <3>2, <3>3
  <2> QED BY <2>1, <2>2
<1>7. f = [s \in SUBSET (1..n) |-> Value(f, s)]
  <2>1. f = [s \in SUBSET (1..n) |-> f[s]]
    BY <1>5
  <2> HIDE DEF Value
  <2> QED BY <2>1, <1>6
<1>8. w = [s \in SUBSET (1..n) |-> Value(w, s)]
  <2>1. \E g : g = [s \in SUBSET (1..n) |-> Value(g, s)]
    BY <1>7
  <2> QED BY <2>1, <1>1 DEF Walk
<1>9. \A s \in SUBSET (1..n) : w[s] = Value(w, s)
  <2> HIDE DEF w, Value
  <2> QED BY <1>8
<1> HIDE DEF w
<1>10. w[1..0] = base
  <2>1. 1..0 = {} /\ {} \in SUBSET (1..n)
    OBVIOUS
  <2> QED BY <2>1, <1>9
<1>11. ASSUME NEW k \in 1..n PROVE w[1..k] = Took(m, kept, out, w[1..(k - 1)], order[k])
  <2>1. k \in Nat /\ k # 0 /\ 1..k \in SUBSET (1..n)
    BY <1>1
  <2>2. Max(1..k) = k /\ (1..k) \ {k} = 1..(k - 1) /\ 1..k # {}
    BY <2>1, LastOfPrefix
  <2>3. w[1..k] = Value(w, 1..k)
    BY <1>9, <2>1
  <2> DEFINE s == 1..k
  <2>4. w[s] = Took(m, kept, out, w[s \ {Max(s)}], order[Max(s)])
    BY <2>2, <2>3
  <2> HIDE DEF s
  <2>5. Max(s) = k /\ s \ {k} = 1..(k - 1)
    BY <2>2 DEF s
  <2> QED BY <2>4, <2>5 DEF s
<1> DEFINE Bad == {k \in Nat : k <= n /\ w[1..k] \notin X}
<1>12. Bad = {}
  <2> SUFFICES ASSUME Bad # {} PROVE FALSE
    OBVIOUS
  <2>1. PICK k \in Bad : \A j \in Bad : k <= j
    BY LeastNumber
  <2>2. k # 0
    BY <1>10, <2>1
  <2>3. k - 1 \in Nat /\ k \in 1..n /\ k - 1 <= n
    BY <1>1, <2>1, <2>2
  <2>4. w[1..(k - 1)] \in X
    <3>1. k - 1 \notin Bad
      <4> HIDE DEF Bad
      <4> QED BY <2>1, <2>3
    <3> HIDE DEF X
    <3> QED BY <2>3, <3>1
  <2>5. w[1..k] \in X
    <3> HIDE DEF X
    <3> QED BY <1>1, <1>2, <1>11, <2>3, <2>4
  <2> QED BY <2>1, <2>5
<1>13. \A k \in 0..n : w[1..k] \in X
  <2> HIDE DEF X
  <2> QED BY <1>1, <1>12
<1> QED BY <1>10, <1>11, <1>13 DEF WalkAt, w, n

(* The effort of a set of items is a sum. *)
EffortAt(m) == [i \in DOMAIN m |-> m[i].effort]

(* EffortOf is the sum of the efforts.                                      *)
LEMMA EffortIsTotal ==
    ASSUME NEW m, NEW S \in SUBSET DOMAIN m
    PROVE  EffortOf(m, S) = Total(EffortAt(m), S)
<1> DEFINE One(s) == CHOOSE x \in s : TRUE
           F(f) == f = [s \in SUBSET S |-> IF s = {} THEN 0 ELSE f[s \ {One(s)}] + m[One(s)].effort]
           G(f) == f = [s \in SUBSET S |-> IF s = {} THEN 0 ELSE f[s \ {One(s)}] + EffortAt(m)[One(s)]]
<1>1. EffortOf(m, S) = (CHOOSE f : F(f))[S]
  BY DEF EffortOf, FoldSet, MapThenFoldSet
<1>2. \A s \in SUBSET S : s # {} => EffortAt(m)[One(s)] = m[One(s)].effort
  <2> SUFFICES ASSUME NEW s \in SUBSET S, s # {} PROVE EffortAt(m)[One(s)] = m[One(s)].effort
    OBVIOUS
  <2>1. One(s) \in DOMAIN m
    OBVIOUS
  <2> HIDE DEF One
  <2> QED BY <2>1 DEF EffortAt
<1>3. \A f : F(f) <=> G(f)
  <2> HIDE DEF One
  <2> QED BY <1>2
<1>4. (CHOOSE f : F(f)) = (CHOOSE f : G(f))
  <2> HIDE DEF F, G
  <2> QED BY <1>3
<1> QED BY <1>1, <1>4 DEF Total, Adding

(* Efforts are naturals, grow with the set and add up item by item.         *)
LEMMA EffortsAddUp ==
    ASSUME NEW m, Graph(m), Efforts(m), NEW S \in SUBSET DOMAIN m
    PROVE  /\ EffortOf(m, S) \in Nat
           /\ \A T \in SUBSET S : EffortOf(m, T) <= EffortOf(m, S)
           /\ \A i \in (DOMAIN m) \ S : EffortOf(m, S \cup {i}) = EffortOf(m, S) + m[i].effort
<1> DEFINE g == EffortAt(m)
<1>1. \A U \in SUBSET DOMAIN m : /\ Addends(g, U) /\ EffortOf(m, U) = Total(g, U)
                                 /\ \A x \in U : g[x] \in Nat
  <2> SUFFICES ASSUME NEW U \in SUBSET DOMAIN m
               PROVE  /\ Addends(g, U) /\ EffortOf(m, U) = Total(g, U)
                      /\ \A x \in U : g[x] \in Nat
    OBVIOUS
  <2>1. IsFiniteSet(U)
    BY FS_Subset DEF Graph
  <2>2. \A x \in U : g[x] \in Nat
    BY DEF EffortAt, Efforts
  <2>3. EffortOf(m, U) = Total(g, U)
    BY EffortIsTotal
  <2> QED BY <2>1, <2>2, <2>3 DEF Addends
<1>2. \A i \in DOMAIN m : g[i] = m[i].effort
  BY DEF EffortAt
<1> HIDE DEF g
<1>3. EffortOf(m, S) \in Nat
  BY <1>1, TotalGrows
<1>4. ASSUME NEW T \in SUBSET S PROVE EffortOf(m, T) <= EffortOf(m, S)
  <2>1. T \in SUBSET DOMAIN m
    OBVIOUS
  <2> QED BY <2>1, <1>1, TotalGrows
<1>5. ASSUME NEW i \in (DOMAIN m) \ S
      PROVE  EffortOf(m, S \cup {i}) = EffortOf(m, S) + m[i].effort
  <2>1. S \cup {i} \in SUBSET DOMAIN m
    OBVIOUS
  <2>2. Total(g, S \cup {i}) = Total(g, S) + g[i]
    BY <1>1, <2>1, TotalWith
  <2> QED BY <1>1, <1>2, <2>1, <2>2
<1> QED BY <1>3, <1>4, <1>5

-----------------------------------------------------------------------------
(* The sprint, turn by turn.                                                *)
Sprintable(m) == Graph(m) /\ ~Cyclic(m) /\ Impacts(m) /\ Efforts(m)
Taken(m, capacity, sprint, carry, k) ==
    WalkAt(m, NoneTaken(m, capacity, Retained(m, sprint)), Retained(m, sprint),
           Withheld(m, sprint, carry), Prioritized(m), k)
LastTurn(m) == Len(Prioritized(m))

(* Turn by turn, what the walk of a sprint takes, up to what is packed.     *)
LEMMA TakenSteps ==
    ASSUME NEW m, Sprintable(m), NEW capacity \in Int, NEW sprint, NEW carry
    PROVE  LET kept == Retained(m, sprint)
               out == Withheld(m, sprint, carry)
               taken(k) == Taken(m, capacity, sprint, carry, k)
           IN  /\ taken(0) = NoneTaken(m, capacity, kept)
               /\ \A k \in 1..LastTurn(m) :
                     taken(k) = Took(m, kept, out, taken(k - 1), Prioritized(m)[k])
               /\ \A k \in 0..LastTurn(m) : taken(k) \in Packs(m)
               /\ Packed(m, capacity, sprint, carry) = taken(LastTurn(m))
               /\ LastTurn(m) \in Nat
<1> DEFINE kept == Retained(m, sprint)
           out == Withheld(m, sprint, carry)
           base == NoneTaken(m, capacity, kept)
           order == Prioritized(m)
<1>1. order \in Seq(DOMAIN m)
  BY OrderIsComplete DEF Sprintable, InTurn
<1>2. base \in Packs(m)
  <2>1. kept \in SUBSET DOMAIN m
    BY DEF Retained, OpenWork
  <2>2. EffortOf(m, kept) \in Nat
    BY <2>1, EffortsAddUp DEF Sprintable
  <2> HIDE DEF kept
  <2> QED BY <2>2 DEF NoneTaken, Packs
<1>3. Efforts(m)
  BY DEF Sprintable
<1>4. Packed(m, capacity, sprint, carry) = Walk(m, base, kept, out, order)[DOMAIN order]
  BY PackedIsWalk
<1>5. DOMAIN order = 1..Len(order) /\ Len(order) \in Nat
  BY <1>1
<1>6. /\ WalkAt(m, base, kept, out, order, 0) = base
      /\ \A k \in 1..Len(order) : WalkAt(m, base, kept, out, order, k)
                 = Took(m, kept, out, WalkAt(m, base, kept, out, order, k - 1), order[k])
      /\ \A k \in 0..Len(order) : WalkAt(m, base, kept, out, order, k) \in Packs(m)
  <2> HIDE DEF base, kept, out, order
  <2> QED BY <1>1, <1>2, <1>3, WalkSteps
<1>7. Packed(m, capacity, sprint, carry) = WalkAt(m, base, kept, out, order, Len(order))
  BY <1>4, <1>5 DEF WalkAt
<1> QED BY <1>5, <1>6, <1>7 DEF Taken, LastTurn

(* What holds of a sprint at each turn: what it took came from the turns    *)
(* before, is neither retained nor withheld, can be started, and fits.      *)
Earlier(o, k) == {o[j] : j \in 1..k}
Filled(m, capacity, sprint, carry, k) ==
    LET kept == Retained(m, sprint)
        t == Taken(m, capacity, sprint, carry, k)
    IN  /\ t.items \subseteq Earlier(Prioritized(m), k)
        /\ t.items \subseteq OpenWork(m) \ (kept \cup Withheld(m, sprint, carry))
        /\ t.remaining = capacity - EffortOf(m, kept \cup t.items)
        /\ t.items # {} => t.remaining >= 0
        /\ \A i \in t.items : \A d \in m[i].deps : IsDone(m, d) \/ d \in kept \cup t.items

(* One more turn, one more item that had its turn.                          *)
LEMMA EarlierGrows ==
    ASSUME NEW o, NEW k \in Nat, k # 0
    PROVE  Earlier(o, k) = Earlier(o, k - 1) \cup {o[k]}
<1>1. 1..k = (1..(k - 1)) \cup {k}
  OBVIOUS
<1> QED BY <1>1 DEF Earlier

(* A turn keeps it: an item is taken only if it can start and fits.         *)
LEMMA TurnFills ==
    ASSUME NEW m, Sprintable(m), NEW capacity \in Int, NEW sprint, NEW carry,
           NEW k \in 1..LastTurn(m), Filled(m, capacity, sprint, carry, k - 1)
    PROVE  Filled(m, capacity, sprint, carry, k)
<1> DEFINE kept == Retained(m, sprint)
           out == Withheld(m, sprint, carry)
           order == Prioritized(m)
           i == order[k]
           s == Taken(m, capacity, sprint, carry, k - 1)
           t == Taken(m, capacity, sprint, carry, k)
<1>1. t = Took(m, kept, out, s, i) /\ LastTurn(m) \in Nat /\ s \in Packs(m)
  <2>1. LastTurn(m) \in Nat
    BY TakenSteps
  <2>2. k - 1 \in 0..LastTurn(m)
    BY <2>1
  <2> QED BY <2>1, <2>2, TakenSteps
<1>2. Earlier(order, k) = Earlier(order, k - 1) \cup {i}
  <2>1. k \in Nat /\ k # 0
    BY <1>1
  <2> QED BY <2>1, EarlierGrows
<1>3. /\ s.items \subseteq Earlier(order, k - 1)
      /\ s.items \subseteq OpenWork(m) \ (kept \cup out)
      /\ s.remaining = capacity - EffortOf(m, kept \cup s.items)
      /\ s.items # {} => s.remaining >= 0
      /\ \A j \in s.items : \A d \in m[j].deps : IsDone(m, d) \/ d \in kept \cup s.items
  BY DEF Filled
<1>4. i \notin Earlier(order, k - 1)
  <2>1. order \in Seq(DOMAIN m) /\ InTurn(m, DOMAIN m, order)
    BY OrderIsComplete DEF Sprintable, InTurn
  <2> QED BY <2>1 DEF InTurn, Earlier, LastTurn
<1>5. kept \in SUBSET DOMAIN m /\ OpenWork(m) \in SUBSET DOMAIN m
  BY DEF Retained, OpenWork
<1> HIDE DEF kept, out, order, i, s, t
<1>6. CASE ~Fits(m, kept, out, s, i)
  <2>1. t = s
    BY <1>1, <1>6 DEF Took
  <2> QED BY <2>1, <1>2, <1>3 DEF Filled, kept, out, order, t
<1>7. CASE Fits(m, kept, out, s, i)
  <2>1. t.items = s.items \cup {i} /\ t.remaining = s.remaining - m[i].effort
    BY <1>1, <1>7 DEF Took
  <2>2. i \in OpenWork(m) \ (kept \cup out) /\ m[i].effort <= s.remaining
        /\ \A d \in m[i].deps : IsDone(m, d) \/ d \in kept \cup s.items
    BY <1>7 DEF Fits
  <2>3. m[i].effort \in Nat /\ s.remaining \in Int
    BY <1>1, <1>5, <2>2 DEF Sprintable, Efforts, Packs
  <2> DEFINE U == kept \cup s.items
  <2>4. U \in SUBSET DOMAIN m /\ i \in (DOMAIN m) \ U /\ kept \cup t.items = U \cup {i}
    BY <1>3, <1>4, <1>5, <2>1, <2>2
  <2>5. EffortOf(m, U \cup {i}) = EffortOf(m, U) + m[i].effort /\ EffortOf(m, U) \in Nat
    <3> HIDE DEF U
    <3> QED BY <2>4, EffortsAddUp DEF Sprintable
  <2>6. t.remaining = capacity - EffortOf(m, kept \cup t.items) /\ t.remaining >= 0
    <3>1. s.remaining = capacity - EffortOf(m, U)
      BY <1>3
    <3>2. EffortOf(m, kept \cup t.items) = EffortOf(m, U) + m[i].effort
      <4> HIDE DEF U
      <4> QED BY <2>4, <2>5
    <3> DEFINE e == EffortOf(m, U)
               f == EffortOf(m, kept \cup t.items)
    <3>3. s.remaining = capacity - e /\ f = e + m[i].effort /\ e \in Nat
      BY <2>5, <3>1, <3>2
    <3> HIDE DEF U, e, f
    <3>4. t.remaining = capacity - f /\ t.remaining >= 0
      BY <2>1, <2>2, <2>3, <3>3
    <3> QED BY <3>4 DEF f
  <2>7. \A j \in t.items : \A d \in m[j].deps : IsDone(m, d) \/ d \in kept \cup t.items
    BY <1>3, <2>1, <2>2
  <2>8. t.items \subseteq Earlier(order, k) /\ t.items \subseteq OpenWork(m) \ (kept \cup out)
    BY <1>2, <1>3, <2>1, <2>2
  <2> QED BY <2>6, <2>7, <2>8 DEF Filled, kept, out, order, t
<1> QED BY <1>6, <1>7

(* So it holds at every turn.                                               *)
LEMMA SprintIsFilled ==
    ASSUME NEW m, Sprintable(m), NEW capacity \in Int, NEW sprint, NEW carry
    PROVE  \A k \in 0..LastTurn(m) : Filled(m, capacity, sprint, carry, k)
<1> DEFINE Bad == {k \in Nat : k <= LastTurn(m) /\ ~Filled(m, capacity, sprint, carry, k)}
<1>0. LastTurn(m) \in Nat
  BY TakenSteps
<1>1. Filled(m, capacity, sprint, carry, 0)
  <2> DEFINE kept == Retained(m, sprint)
             t == Taken(m, capacity, sprint, carry, 0)
  <2>1. t.items = {} /\ t.remaining = capacity - EffortOf(m, kept)
    BY TakenSteps DEF NoneTaken
  <2> HIDE DEF kept, t
  <2>2. kept \cup t.items = kept
    BY <2>1
  <2> QED BY <2>1, <2>2 DEF Filled, kept, t
<1>2. Bad = {}
  <2> SUFFICES ASSUME Bad # {} PROVE FALSE
    OBVIOUS
  <2>1. PICK k \in Bad : \A j \in Bad : k <= j
    BY LeastNumber
  <2>2. k # 0
    BY <1>1, <2>1
  <2>3. k - 1 \in Nat /\ k \in 1..LastTurn(m) /\ k - 1 <= LastTurn(m)
    BY <1>0, <2>1, <2>2
  <2>4. Filled(m, capacity, sprint, carry, k - 1)
    <3>1. k - 1 \notin Bad
      <4> HIDE DEF Bad
      <4> QED BY <2>1, <2>3
    <3> QED BY <2>3, <3>1
  <2> QED BY <2>1, <2>3, <2>4, TurnFills
<1> QED BY <1>0, <1>2

(* What is taken is not given back; and what is in the sprint in the end    *)
(* was taken at its turn.                                                   *)
LEMMA TakenGrows ==
    ASSUME NEW m, Sprintable(m), NEW capacity \in Int, NEW sprint, NEW carry
    PROVE  \A k \in 0..LastTurn(m) : \A j \in 0..k :
              Taken(m, capacity, sprint, carry, j).items \subseteq Taken(m, capacity, sprint, carry, k).items
<1> DEFINE t(k) == Taken(m, capacity, sprint, carry, k).items
           Bad == {k \in Nat : k <= LastTurn(m) /\ \E j \in 0..k : ~(t(j) \subseteq t(k))}
<1>0. LastTurn(m) \in Nat
  BY TakenSteps
<1>1. ASSUME NEW k \in 1..LastTurn(m) PROVE t(k - 1) \subseteq t(k)
  <2> DEFINE u == Taken(m, capacity, sprint, carry, k)
             v == Taken(m, capacity, sprint, carry, k - 1)
  <2>1. u = Took(m, Retained(m, sprint), Withheld(m, sprint, carry), v, Prioritized(m)[k])
    BY TakenSteps
  <2> HIDE DEF u, v
  <2>2. v.items \subseteq u.items
    BY <2>1 DEF Took
  <2> QED BY <2>2 DEF u, v
<1> HIDE DEF t
<1>2. Bad = {}
  <2> SUFFICES ASSUME Bad # {} PROVE FALSE
    OBVIOUS
  <2>1. PICK k \in Bad : \A j \in Bad : k <= j
    BY LeastNumber
  <2>2. PICK j \in 0..k : ~(t(j) \subseteq t(k))
    BY <2>1
  <2>3. j # k /\ k \in Nat
    BY <2>1, <2>2
  <2>4. k - 1 \in Nat /\ j \in 0..(k - 1) /\ k \in 1..LastTurn(m) /\ k - 1 <= LastTurn(m)
    BY <1>0, <2>1, <2>2, <2>3
  <2>5. k - 1 \notin Bad
    <3> HIDE DEF Bad
    <3> QED BY <2>1, <2>4
  <2>6. t(j) \subseteq t(k - 1)
    BY <2>4, <2>5
  <2> QED BY <1>1, <2>2, <2>4, <2>6
<1> QED BY <1>0, <1>2 DEF t

(* What is in the sprint in the end fitted at its own turn.                 *)
LEMMA TakenAtItsTurn ==
    ASSUME NEW m, Sprintable(m), NEW capacity \in Int, NEW sprint, NEW carry,
           NEW k \in 1..LastTurn(m),
           Prioritized(m)[k] \in Packed(m, capacity, sprint, carry).items
    PROVE  /\ Prioritized(m)[k] \in Taken(m, capacity, sprint, carry, k).items
           /\ Fits(m, Retained(m, sprint), Withheld(m, sprint, carry),
                   Taken(m, capacity, sprint, carry, k - 1), Prioritized(m)[k])
<1> DEFINE t(j) == Taken(m, capacity, sprint, carry, j)
           o == Prioritized(m)
           n == LastTurn(m)
           Bad == {j \in Nat : j <= n /\ o[k] \in t(j).items}
           fit(j) == Fits(m, Retained(m, sprint), Withheld(m, sprint, carry), t(j - 1), o[j])
<1>0. n \in Nat /\ Packed(m, capacity, sprint, carry) = t(n) /\ t(0).items = {}
  BY TakenSteps DEF NoneTaken
<1>1. \A j \in 1..n : t(j).items = IF fit(j) THEN t(j - 1).items \cup {o[j]} ELSE t(j - 1).items
  <2> SUFFICES ASSUME NEW j \in 1..n
               PROVE  t(j).items = IF fit(j) THEN t(j - 1).items \cup {o[j]} ELSE t(j - 1).items
    OBVIOUS
  <2>1. t(j) = Took(m, Retained(m, sprint), Withheld(m, sprint, carry), t(j - 1), o[j])
    BY TakenSteps
  <2> HIDE DEF t, o
  <2> QED BY <2>1 DEF Took
<1>2. \A i, j \in 1..n : o[i] = o[j] => i = j
  <2>1. InTurn(m, DOMAIN m, o) /\ n = Len(o)
    BY OrderIsComplete DEF Sprintable, LastTurn
  <2> HIDE DEF o
  <2>2. \A i \in 1..n : \A j \in 1..(i - 1) : o[i] # o[j]
    BY <2>1 DEF InTurn
  <2> SUFFICES ASSUME NEW i \in 1..n, NEW j \in 1..n, o[i] = o[j], i # j PROVE FALSE
    OBVIOUS
  <2>3. i \in 1..(j - 1) \/ j \in 1..(i - 1)
    BY <1>0
  <2> QED BY <2>2, <2>3
<1> HIDE DEF t, n, o, fit
<1>3. n \in Bad
  BY <1>0 DEF o, n
<1>4. PICK j \in Bad : \A i \in Bad : j <= i
  <2>1. Bad \in SUBSET Nat /\ Bad # {}
    BY <1>3
  <2> HIDE DEF Bad
  <2> QED BY <2>1, LeastNumber
<1>5. j # 0 /\ j \in Nat /\ j <= n
  BY <1>0, <1>4
<1>6. j - 1 \in Nat /\ j \in 1..n /\ j - 1 <= n
  BY <1>0, <1>5
<1>7. o[k] \notin t(j - 1).items
  <2>1. j - 1 \notin Bad
    <3> HIDE DEF Bad
    <3> QED BY <1>4, <1>6
  <2> QED BY <1>6, <2>1
<1>8. fit(j) /\ o[k] = o[j]
  BY <1>1, <1>4, <1>6, <1>7
<1>9. j = k
  BY <1>2, <1>6, <1>8 DEF n
<1> QED BY <1>4, <1>8, <1>9 DEF t, fit, o

(* The order of a backlog depends on nothing but what it is made of. *)
Alike(m, w) ==
    /\ DOMAIN w = DOMAIN m
    /\ \A i \in DOMAIN m : w[i].deps = m[i].deps /\ w[i].status = m[i].status /\ w[i].impact = m[i].impact

(* Backlogs with the same graph, status and impact rank the same.           *)
LEMMA AlikeRankAlike ==
    ASSUME NEW m, NEW w, Alike(m, w)
    PROVE  Prioritized(w) = Prioritized(m)
<1> DEFINE D == DOMAIN m
           st == StatusOf(m)
<1>1. StatusOf(w) = st
  BY DEF Alike, StatusOf
<1>2. \A i \in D : Dependents(w, i) = Dependents(m, i)
  BY DEF Alike, Dependents
<1>3. Scores(w, st) = Scores(m, st)
  <2> DEFINE F(f) == f = [i \in D |-> ScoreAt(m, st, f, i)]
             G(f) == f = [i \in D |-> ScoreAt(w, st, f, i)]
  <2>1. ASSUME NEW f, NEW i \in D PROVE ScoreAt(w, st, f, i) = ScoreAt(m, st, f, i)
    <3>1. Dependents(w, i) = Dependents(m, i) /\ w[i].impact = m[i].impact
      BY <1>2 DEF Alike
    <3> HIDE DEF st
    <3> QED BY <3>1 DEF ScoreAt
  <2>2. \A f : F(f) <=> G(f)
    <3> HIDE DEF st
    <3> QED BY <2>1
  <2>3. (CHOOSE f : F(f)) = (CHOOSE f : G(f))
    <3> HIDE DEF F, G
    <3> QED BY <2>2
  <2>4. Scores(m, st) = (CHOOSE f : F(f))
    BY ScoresAre
  <2>5. Scores(w, st) = (CHOOSE f : G(f))
    <3>1. DOMAIN w = D
      BY DEF Alike
    <3>2. Scores(w, st) = (CHOOSE f : f = [i \in DOMAIN w |-> ScoreAt(w, st, f, i)])
      BY ScoresAre
    <3> QED BY <3>1, <3>2
  <2> QED BY <2>3, <2>4, <2>5
<1>4. ByScore(w) = ByScore(m)
  <2> DEFINE score == Scores(m, st)
  <2>1. \A i, j \in D : Outranks(w, score, i, j) <=> Outranks(m, score, i, j)
    BY DEF Outranks, IsDone, Alike
  <2>2. ByScore(m) = {p \in D \X D : Outranks(m, score, p[1], p[2])}
    BY DEF ByScore
  <2>3. ByScore(w) = {p \in D \X D : Outranks(w, score, p[1], p[2])}
    <3>1. DOMAIN w = D
      BY DEF Alike
    <3> QED BY <1>1, <1>3, <3>1 DEF ByScore
  <2> HIDE DEF score, D
  <2> QED BY <2>1, <2>2, <2>3
<1> DEFINE R == ByScore(m)
           N == 1..Cardinality(D)
           F(f) == f = [s \in SUBSET N |-> IF s = {} THEN <<>> ELSE Turn(m, D, R, f[s \ {Max(s)}])]
           G(f) == f = [s \in SUBSET N |-> IF s = {} THEN <<>> ELSE Turn(w, D, R, f[s \ {Max(s)}])]
<1>5. \A o : Turn(w, D, R, o) = Turn(m, D, R, o)
  <2> SUFFICES ASSUME NEW o PROVE Turn(w, D, R, o) = Turn(m, D, R, o)
    OBVIOUS
  <2>1. Released(w, D, o) = Released(m, D, o)
    BY DEF Released, Alike
  <2> HIDE DEF D, R
  <2> QED BY <2>1 DEF Turn
<1>6. \A f : F(f) <=> G(f)
  <2> HIDE DEF D, R, N
  <2> QED BY <1>5
<1>7. (CHOOSE f : F(f)) = (CHOOSE f : G(f))
  <2> HIDE DEF F, G
  <2> QED BY <1>6
<1>8. Turns(w, D, R) = Turns(m, D, R)
  BY <1>7 DEF Turns
<1>9. Prioritized(m) = Turns(m, D, R)[N]
  BY PrioritizedIsTurns
<1>10. Prioritized(w) = Turns(w, D, R)[N]
  <2>1. DOMAIN w = D
    BY DEF Alike
  <2>2. Prioritized(w) = Turns(w, DOMAIN w, ByScore(w))[1..Cardinality(DOMAIN w)]
    BY PrioritizedIsTurns
  <2> QED BY <2>1, <2>2, <1>4
<1> QED BY <1>8, <1>9, <1>10

-----------------------------------------------------------------------------
(* A sprint that was assigned in part.                                      *)
Assigned(m, sprint, A) ==
    [i \in DOMAIN m |-> IF i \in A THEN [m[i] EXCEPT !.sprint = sprint] ELSE m[i]]
Shaped(m) ==
    \A i \in DOMAIN m :
        m[i] = [work |-> m[i].work, parent |-> m[i].parent, deps |-> m[i].deps,
                effort |-> m[i].effort, impact |-> m[i].impact, status |-> m[i].status,
                ready |-> m[i].ready, sprint |-> m[i].sprint]

(* An assignment changes the sprint of what it assigns, nothing else.       *)
LEMMA AssignedIs ==
    ASSUME NEW m, Shaped(m), NEW sprint, NEW A
    PROVE  LET w == Assigned(m, sprint, A)
           IN  /\ DOMAIN w = DOMAIN m
               /\ \A i \in DOMAIN m :
                     /\ w[i].work = m[i].work /\ w[i].deps = m[i].deps /\ w[i].effort = m[i].effort
                     /\ w[i].impact = m[i].impact /\ w[i].status = m[i].status
                     /\ w[i].ready = m[i].ready
                     /\ w[i].sprint = IF i \in A THEN sprint ELSE m[i].sprint
<1> DEFINE w == Assigned(m, sprint, A)
<1>1. DOMAIN w = DOMAIN m
  BY DEF Assigned
<1>2. ASSUME NEW i \in DOMAIN m
      PROVE  /\ w[i].work = m[i].work /\ w[i].deps = m[i].deps /\ w[i].effort = m[i].effort
             /\ w[i].impact = m[i].impact /\ w[i].status = m[i].status
             /\ w[i].ready = m[i].ready
             /\ w[i].sprint = IF i \in A THEN sprint ELSE m[i].sprint
  <2>1. w[i] = IF i \in A THEN [m[i] EXCEPT !.sprint = sprint] ELSE m[i]
    BY DEF Assigned
  <2> HIDE DEF w
  <2> QED BY <2>1 DEF Shaped
<1> QED BY <1>1, <1>2

(* So the plan after it is made of the same graph and efforts.              *)
LEMMA AssignedIsSprintable ==
    ASSUME NEW m, Sprintable(m), Shaped(m), NEW sprint, NEW A
    PROVE  /\ Sprintable(Assigned(m, sprint, A)) /\ Alike(m, Assigned(m, sprint, A))
           /\ \A S \in SUBSET DOMAIN m : EffortOf(Assigned(m, sprint, A), S) = EffortOf(m, S)
<1> DEFINE w == Assigned(m, sprint, A)
<1>1. /\ DOMAIN w = DOMAIN m
      /\ \A i \in DOMAIN m :
            /\ w[i].deps = m[i].deps /\ w[i].effort = m[i].effort
            /\ w[i].impact = m[i].impact /\ w[i].status = m[i].status
  BY AssignedIs
<1> HIDE DEF w
<1>2. Alike(m, w)
  BY <1>1 DEF Alike
<1>3. Sprintable(w)
  BY <1>1 DEF Sprintable, Graph, Cyclic, Impacts, Efforts
<1>4. ASSUME NEW S \in SUBSET DOMAIN m PROVE EffortOf(w, S) = EffortOf(m, S)
  <2>1. EffortAt(w) = EffortAt(m)
    BY <1>1 DEF EffortAt
  <2>2. S \in SUBSET DOMAIN w
    BY <1>1
  <2> QED BY <2>1, <2>2, EffortIsTotal
<1> QED BY <1>2, <1>3, <1>4 DEF w

(* What is assigned of a sprint is retained by the next plan of it; the     *)
(* rest is withheld or not as before.                                       *)
StandsIn(w, m, sprint, carry, A) ==
    /\ Retained(w, sprint) = Retained(m, sprint) \cup A
    /\ Withheld(w, sprint, carry \ A) = Withheld(m, sprint, carry)
    /\ OpenWork(w) = OpenWork(m)
    /\ \A d : d \in DOMAIN m => (IsDone(w, d) <=> IsDone(m, d))

(* Of a plan that was partly applied, what is assigned is now retained.     *)
LEMMA AssignedIsRetained ==
    ASSUME NEW m, Sprintable(m), Shaped(m), NEW capacity \in Int, NEW sprint, sprint # None, NEW carry,
           NEW A \in SUBSET Packed(m, capacity, sprint, carry).items
    PROVE  StandsIn(Assigned(m, sprint, A), m, sprint, carry, A)
<1> DEFINE w == Assigned(m, sprint, A)
<1>1. A \subseteq OpenWork(m) \ (Retained(m, sprint) \cup Withheld(m, sprint, carry))
  <2>1. LastTurn(m) \in Nat
    BY TakenSteps
  <2>2. Filled(m, capacity, sprint, carry, LastTurn(m))
    BY <2>1, SprintIsFilled
  <2>3. Packed(m, capacity, sprint, carry) = Taken(m, capacity, sprint, carry, LastTurn(m))
    BY TakenSteps
  <2> QED BY <2>2, <2>3 DEF Filled
<1>2. /\ DOMAIN w = DOMAIN m
      /\ \A i \in DOMAIN m :
            /\ w[i].work = m[i].work /\ w[i].status = m[i].status
            /\ w[i].sprint = IF i \in A THEN sprint ELSE m[i].sprint
  BY AssignedIs
<1> HIDE DEF w
<1>3. \A d : d \in DOMAIN m => (IsDone(w, d) <=> IsDone(m, d))
  BY <1>2 DEF IsDone
<1>4. OpenWork(w) = OpenWork(m)
  BY <1>2, <1>3 DEF OpenWork
<1>5. Retained(w, sprint) = Retained(m, sprint) \cup A
  BY <1>1, <1>2, <1>4 DEF Retained, OpenWork
<1>6. Withheld(w, sprint, carry \ A) = Withheld(m, sprint, carry)
  BY <1>1, <1>2, <1>4 DEF Withheld, OpenWork
<1> QED BY <1>3, <1>4, <1>5, <1>6 DEF w, StandsIn

(* The resumed plan takes, turn by turn, what the first one took and that   *)
(* was not assigned: what the first one still had room for at its end, this *)
(* one has room for now; and a dependency that counts as met because it was *)
(* assigned had been taken before the turn it is needed in.                 *)
Resumed(m, capacity, sprint, carry, A, k) ==
    Taken(Assigned(m, sprint, A), capacity, sprint, carry \ A, k).items
      = Taken(m, capacity, sprint, carry, k).items \ A

(* If the two plans agree up to a turn, they agree in it.                   *)
LEMMA TurnResumes ==
    ASSUME NEW m, Sprintable(m), Shaped(m), NEW capacity \in Int, NEW sprint, sprint # None, NEW carry,
           NEW A \in SUBSET Packed(m, capacity, sprint, carry).items,
           NEW k \in 1..LastTurn(m), Resumed(m, capacity, sprint, carry, A, k - 1)
    PROVE  Resumed(m, capacity, sprint, carry, A, k)
<1> DEFINE w == Assigned(m, sprint, A)
           kept == Retained(m, sprint)
           out == Withheld(m, sprint, carry)
           o == Prioritized(m)
           i == o[k]
           all == Packed(m, capacity, sprint, carry).items
           t(j) == Taken(m, capacity, sprint, carry, j)
           u(j) == Taken(w, capacity, sprint, carry \ A, j)
           n == LastTurn(m)
<1>1. n \in Nat /\ k - 1 \in 0..n /\ all = t(n).items
  <2>1. n \in Nat /\ Packed(m, capacity, sprint, carry) = t(n)
    BY TakenSteps
  <2> QED BY <2>1
<1>2. /\ Sprintable(w) /\ Alike(m, w)
      /\ \A S \in SUBSET DOMAIN m : EffortOf(w, S) = EffortOf(m, S)
  BY AssignedIsSprintable
<1>3. Prioritized(w) = o /\ LastTurn(w) = n
  BY <1>2, AlikeRankAlike DEF LastTurn
<1>4. /\ Retained(w, sprint) = kept \cup A /\ Withheld(w, sprint, carry \ A) = out
      /\ OpenWork(w) = OpenWork(m)
      /\ \A d : d \in DOMAIN m => (IsDone(w, d) <=> IsDone(m, d))
  <2>1. StandsIn(w, m, sprint, carry, A)
    BY AssignedIsRetained
  <2> HIDE DEF w, kept, out
  <2>2. StandsIn(w, m, sprint, carry, A) /\ kept = Retained(m, sprint) /\ out = Withheld(m, sprint, carry)
    BY <2>1 DEF kept, out
  <2> QED BY <2>2 DEF StandsIn
<1>5. /\ t(k) = Took(m, kept, out, t(k - 1), i)
      /\ t(k - 1) \in Packs(m)
  BY <1>1, TakenSteps
<1>6. u(k) = Took(w, kept \cup A, out, u(k - 1), i)
  <2> DEFINE c == carry \ A
  <2>1. Sprintable(w) /\ k \in 1..LastTurn(w)
    BY <1>2, <1>3
  <2> HIDE DEF w, c, o
  <2>2. Taken(w, capacity, sprint, c, k) = Took(w, Retained(w, sprint), Withheld(w, sprint, c),
                                                Taken(w, capacity, sprint, c, k - 1), Prioritized(w)[k])
    BY <2>1, TakenSteps
  <2> QED BY <2>2, <1>3, <1>4 DEF c
<1>7. /\ t(k - 1).items \subseteq Earlier(o, k - 1)
      /\ t(k - 1).items \subseteq OpenWork(m) \ (kept \cup out)
      /\ t(k - 1).remaining = capacity - EffortOf(m, kept \cup t(k - 1).items)
  BY <1>1, SprintIsFilled DEF Filled
<1>8. u(k - 1).remaining = capacity - EffortOf(w, (kept \cup A) \cup u(k - 1).items)
  <2> DEFINE c == carry \ A
  <2>1. Sprintable(w) /\ k - 1 \in 0..LastTurn(w)
    BY <1>1, <1>2, <1>3
  <2> HIDE DEF w, c
  <2>2. Filled(w, capacity, sprint, c, k - 1)
    BY <2>1, SprintIsFilled
  <2>3. Taken(w, capacity, sprint, c, k - 1).remaining
        = capacity - EffortOf(w, Retained(w, sprint) \cup Taken(w, capacity, sprint, c, k - 1).items)
    BY <2>2 DEF Filled
  <2> QED BY <2>3, <1>4 DEF c
<1>9. /\ all \subseteq OpenWork(m) \ (kept \cup out)
      /\ t(n).remaining = capacity - EffortOf(m, kept \cup all)
      /\ all # {} => t(n).remaining >= 0
  <2>1. n \in 0..n
    BY <1>1
  <2> QED BY <2>1, <1>1, SprintIsFilled DEF Filled
<1>10. t(k - 1).items \subseteq all /\ t(k).items \subseteq all
  <2>1. n \in 0..n /\ k - 1 \in 0..n /\ k \in 0..n
    BY <1>1
  <2> QED BY <2>1, <1>1, TakenGrows
<1>11. InTurn(m, DOMAIN m, o) /\ n = Len(o)
  BY OrderIsComplete DEF Sprintable, LastTurn
<1>12. i \in DOMAIN m /\ i \notin Earlier(o, k - 1) /\ m[i].deps \cap DOMAIN m \subseteq Earlier(o, k - 1)
  <2>1. o \in Seq(DOMAIN m) /\ Len(o) = n
    BY <1>11 DEF InTurn
  <2>2. k \in 1..Len(o)
    BY <1>1, <2>1
  <2> HIDE DEF o, n, t, u, w, kept, out, all
  <2>3. o[k] \in DOMAIN m
    BY <2>1, <2>2
  <2>4. \A j \in 1..(k - 1) : o[k] # o[j]
    BY <1>11, <2>2 DEF InTurn
  <2>5. \A d \in m[o[k]].deps \cap DOMAIN m : \E j \in 1..(k - 1) : d = o[j]
    BY <1>11, <2>2 DEF InTurn
  <2> QED BY <2>3, <2>4, <2>5 DEF Earlier, i
<1>13. A \cap Earlier(o, k - 1) \subseteq t(k - 1).items
  <2> SUFFICES ASSUME NEW d \in A, d \in Earlier(o, k - 1) PROVE d \in t(k - 1).items
    OBVIOUS
  <2>1. PICK j \in 1..(k - 1) : d = o[j]
    BY DEF Earlier
  <2>2. j \in 1..n /\ j \in 0..(k - 1) /\ o[j] \in all
    BY <1>1, <2>1
  <2>3. o[j] \in t(j).items
    BY <2>2, TakenAtItsTurn
  <2>4. t(j).items \subseteq t(k - 1).items
    BY <1>1, <2>2, TakenGrows
  <2> QED BY <2>1, <2>3, <2>4
<1>a. /\ w[i].status = m[i].status /\ w[i].ready = m[i].ready
      /\ w[i].effort = m[i].effort /\ w[i].deps = m[i].deps
  <2>1. i \in DOMAIN m
    BY <1>12
  <2> HIDE DEF i
  <2> QED BY <2>1, AssignedIs
<1>b. m[i].deps \subseteq DOMAIN m /\ m[i].effort \in Nat
  BY <1>12 DEF Sprintable, Graph, Efforts
<1>c. kept \in SUBSET DOMAIN m /\ OpenWork(m) \in SUBSET DOMAIN m
  BY DEF Retained, OpenWork
<1>d. u(k - 1).items = t(k - 1).items \ A
  BY DEF Resumed
<1> DEFINE s == t(k - 1)
           r == u(k - 1)
           U == (kept \cup A) \cup s.items
<1>14. U \in SUBSET DOMAIN m /\ kept \cup s.items \in SUBSET U /\ (kept \cup A) \cup r.items = U
  BY <1>7, <1>9, <1>c, <1>d
<1>15. r.remaining = capacity - EffortOf(m, U) /\ s.remaining = capacity - EffortOf(m, kept \cup s.items)
  BY <1>2, <1>7, <1>8, <1>14
<1> HIDE DEF w, kept, out, o, i, all, t, u, n, s, r
<1>16. CASE i \in A
  <2>1. Fits(m, kept, out, s, i)
    <3>1. i \in all
      BY <1>16 DEF all
    <3> QED BY <3>1, TakenAtItsTurn DEF all, i, o, n, kept, out, s, t
  <2>2. t(k).items = s.items \cup {i}
    BY <1>5, <2>1 DEF Took, s
  <2>3. ~Fits(w, kept \cup A, out, r, i)
    BY <1>16 DEF Fits
  <2>4. u(k).items = r.items
    BY <1>6, <2>3 DEF Took, r
  <2>5. u(k).items = t(k).items \ A
    BY <1>16, <1>d, <2>2, <2>4 DEF r, s
  <2> QED BY <2>5 DEF u, t, w, Resumed
<1>17. CASE i \notin A
  <2>1. EffortOf(m, U) \in Nat /\ EffortOf(m, kept \cup s.items) <= EffortOf(m, U)
        /\ EffortOf(m, kept \cup s.items) \in Nat
    <3>1. kept \cup s.items \in SUBSET DOMAIN m
      BY <1>14
    <3>2. EffortOf(m, kept \cup s.items) \in Nat
      BY <3>1, EffortsAddUp DEF Sprintable
    <3> HIDE DEF U
    <3> QED BY <1>14, <3>2, EffortsAddUp DEF Sprintable
  <2>2. Fits(w, kept \cup A, out, r, i) => Fits(m, kept, out, s, i)
    <3> SUFFICES ASSUME Fits(w, kept \cup A, out, r, i) PROVE Fits(m, kept, out, s, i)
      OBVIOUS
    <3>1. i \in OpenWork(m) \ (kept \cup out) /\ m[i].status # Blocked /\ m[i].ready
      BY <1>4, <1>a DEF Fits
    <3>2. ASSUME NEW d \in m[i].deps PROVE IsDone(m, d) \/ d \in kept \cup s.items
      <4>1. d \in DOMAIN m /\ d \in Earlier(o, k - 1)
        BY <1>12, <1>b
      <4>2. IsDone(w, d) \/ d \in (kept \cup A) \cup r.items
        BY <1>a DEF Fits
      <4>3. d \in A => d \in s.items
        BY <4>1, <1>13 DEF s
      <4> QED BY <1>4, <1>d, <4>1, <4>2, <4>3 DEF r, s
    <3>3. m[i].effort <= r.remaining
      BY <1>a DEF Fits
    <3>4. m[i].effort <= s.remaining
      <4> DEFINE e == EffortOf(m, U)
                 f == EffortOf(m, kept \cup s.items)
      <4>1. e \in Nat /\ f \in Nat /\ f <= e /\ r.remaining = capacity - e /\ s.remaining = capacity - f
        BY <1>15, <2>1
      <4> HIDE DEF e, f, U
      <4> QED BY <1>b, <3>3, <4>1
    <3> QED BY <3>1, <3>2, <3>4 DEF Fits
  <2>3. Fits(m, kept, out, s, i) => Fits(w, kept \cup A, out, r, i)
    <3> SUFFICES ASSUME Fits(m, kept, out, s, i) PROVE Fits(w, kept \cup A, out, r, i)
      OBVIOUS
    <3>1. i \in OpenWork(m) \ (kept \cup out) /\ m[i].status # Blocked /\ m[i].ready
      BY DEF Fits
    <3>2. i \in OpenWork(w) \ ((kept \cup A) \cup out) /\ w[i].status # Blocked /\ w[i].ready
      BY <1>4, <1>17, <1>a, <3>1
    <3>3. ASSUME NEW d \in w[i].deps PROVE IsDone(w, d) \/ d \in (kept \cup A) \cup r.items
      <4>1. d \in m[i].deps /\ d \in DOMAIN m
        BY <1>a, <1>b
      <4>2. IsDone(m, d) \/ d \in kept \cup s.items
        BY <4>1 DEF Fits
      <4> QED BY <1>4, <1>d, <4>1, <4>2 DEF r, s
    <3>4. i \in all /\ t(k).items = s.items \cup {i}
      <4>1. t(k).items = s.items \cup {i}
        BY <1>5 DEF Took, s
      <4> QED BY <4>1, <1>10
    <3> DEFINE e == EffortOf(m, U)
               f == EffortOf(m, kept \cup all)
    <3>5. i \in (DOMAIN m) \ U
      <4>1. i \notin s.items
        BY <1>7, <1>12 DEF s
      <4> QED BY <1>12, <1>17, <3>1, <4>1
    <3>6. EffortOf(m, U \cup {i}) = e + m[i].effort
      <4> HIDE DEF U
      <4> QED BY <1>14, <3>5, EffortsAddUp DEF Sprintable
    <3>7. kept \cup all \in SUBSET DOMAIN m /\ U \cup {i} \in SUBSET (kept \cup all)
      <4>1. A \subseteq all /\ s.items \subseteq all
        BY <1>10 DEF all, s
      <4> QED BY <1>9, <1>c, <3>4, <4>1
    <3>8. EffortOf(m, U \cup {i}) <= f /\ f \in Nat
      <4> HIDE DEF U
      <4> QED BY <3>7, EffortsAddUp DEF Sprintable
    <3>9. f <= capacity
      <4>1. t(n).remaining = capacity - f /\ t(n).remaining >= 0
        BY <1>9, <3>4
      <4> HIDE DEF f
      <4> QED BY <3>8, <4>1
    <3>10. m[i].effort <= r.remaining
      <4>1. r.remaining = capacity - e /\ e \in Nat
        BY <1>15, <2>1
      <4>2. e + m[i].effort <= f
        BY <3>6, <3>8
      <4> HIDE DEF e, f, U
      <4> QED BY <1>b, <3>8, <3>9, <4>1, <4>2
    <3>11. w[i].effort <= r.remaining
      BY <1>a, <3>10
    <3> QED BY <3>2, <3>3, <3>11 DEF Fits
  <2>4. CASE Fits(m, kept, out, s, i)
    <3>1. t(k).items = s.items \cup {i}
      BY <1>5, <2>4 DEF Took, s
    <3>2. u(k).items = r.items \cup {i}
      BY <1>6, <2>3, <2>4 DEF Took, r
    <3>3. u(k).items = t(k).items \ A
      BY <1>17, <1>d, <3>1, <3>2 DEF r, s
    <3> QED BY <3>3 DEF u, t, w, Resumed
  <2>5. CASE ~Fits(m, kept, out, s, i)
    <3>1. t(k).items = s.items
      BY <1>5, <2>5 DEF Took, s
    <3>2. u(k).items = r.items
      BY <1>6, <2>2, <2>5 DEF Took, r
    <3>3. u(k).items = t(k).items \ A
      BY <1>d, <3>1, <3>2 DEF r, s
    <3> QED BY <3>3 DEF u, t, w, Resumed
  <2> QED BY <2>4, <2>5
<1> QED BY <1>16, <1>17

(* What planning again selects is the rest of what was selected before.    *)
RestSelected(m, capacity, sprint, carry, A) ==
    Packed(Assigned(m, sprint, A), capacity, sprint, carry \ A).items
      = Packed(m, capacity, sprint, carry).items \ A

(* Turn after turn, up to the last.                                         *)
LEMMA SprintResumes ==
    ASSUME NEW m, Sprintable(m), Shaped(m), NEW capacity \in Int, NEW sprint, sprint # None, NEW carry,
           NEW A \in SUBSET Packed(m, capacity, sprint, carry).items
    PROVE  RestSelected(m, capacity, sprint, carry, A)
<1> DEFINE w == Assigned(m, sprint, A)
           c == carry \ A
           n == LastTurn(m)
           t(k) == Taken(m, capacity, sprint, carry, k).items
           u(k) == Taken(w, capacity, sprint, c, k).items
           Bad == {k \in Nat : k <= n /\ u(k) # t(k) \ A}
<1>1. Sprintable(w) /\ LastTurn(w) = n
  <2>1. Sprintable(w) /\ Alike(m, w)
    BY AssignedIsSprintable
  <2> QED BY <2>1, AlikeRankAlike DEF LastTurn
<1>2. n \in Nat /\ t(0) = {} /\ Packed(m, capacity, sprint, carry).items = t(n)
  BY TakenSteps DEF NoneTaken
<1>3. u(0) = {} /\ Packed(w, capacity, sprint, c).items = u(n)
  <2> HIDE DEF w, c
  <2> QED BY <1>1, TakenSteps DEF NoneTaken
<1>4. ASSUME NEW k \in 1..n, u(k - 1) = t(k - 1) \ A PROVE u(k) = t(k) \ A
  <2>1. Resumed(m, capacity, sprint, carry, A, k - 1)
    BY <1>4 DEF Resumed
  <2>2. Resumed(m, capacity, sprint, carry, A, k)
    BY <2>1, TurnResumes
  <2> QED BY <2>2 DEF Resumed
<1> HIDE DEF w, c, n, t, u
<1>5. Bad = {}
  <2> SUFFICES ASSUME Bad # {} PROVE FALSE
    OBVIOUS
  <2>1. PICK k \in Bad : \A j \in Bad : k <= j
    BY LeastNumber
  <2>2. k # 0
    BY <1>2, <1>3, <2>1
  <2>3. k - 1 \in Nat /\ k \in 1..n /\ k - 1 <= n
    BY <1>2, <2>1, <2>2
  <2>4. k - 1 \notin Bad
    <3> HIDE DEF Bad
    <3> QED BY <2>1, <2>3
  <2> QED BY <1>4, <2>1, <2>3, <2>4
<1>6. u(n) = t(n) \ A
  BY <1>2, <1>5
<1> QED BY <1>2, <1>3, <1>6 DEF w, c, RestSelected

(* What sprint-plan reads is a backlog in order.                            *)
LEMMA ObservedIsSprintable ==
    ASSUME Formed, Acyclic
    PROVE  Sprintable(Observed) /\ Shaped(Observed)
<1>1. DOMAIN Observed = DOMAIN backlog
      /\ \A i \in DOMAIN backlog :
            Observed[i] =
              [work |-> backlog[i].work, parent |-> backlog[i].parent, deps |-> backlog[i].deps,
               effort |-> backlog[i].effort, impact |-> backlog[i].impact,
               status |-> backlog[i].status, ready |-> backlog[i].ready, sprint |-> SprintOf(i)]
  BY DEF Observed
<1>2. Graph(Observed) /\ ~Cyclic(Observed) /\ Impacts(Observed)
  BY ObservedIsGraph
<1>3. \A i \in DOMAIN backlog : backlog[i].effort \in Nat
  BY DEF Formed, TypeOK, BacklogItem, Items
<1>4. Efforts(Observed)
  <2> HIDE DEF Observed
  <2> QED BY <1>1, <1>3 DEF Efforts
<1>5. Shaped(Observed)
  BY <1>1 DEF Shaped
<1> QED BY <1>2, <1>4, <1>5 DEF Sprintable

(* What one plan of a sprint promises.                                      *)
SprintSound(m, capacity, sprint, carry) ==
    LET taken == Packed(m, capacity, sprint, carry).items
        kept == Retained(m, sprint)
    IN  /\ taken # {} => EffortOf(m, taken \cup kept) <= capacity
        /\ \A i \in taken : \A d \in m[i].deps : IsDone(m, d) \/ d \in taken \cup kept
        /\ \A i \in taken : m[i].sprint \in {None} \/ i \in carry
        /\ \A A \in SUBSET taken :
              Packed(Assigned(m, sprint, A), capacity, sprint, carry \ A).items = taken \ A

(* A plan fits, can be started, takes from no other sprint, and resumes.    *)
LEMMA PackedIsSound ==
    ASSUME NEW m, Sprintable(m), Shaped(m), NEW capacity \in Int, NEW sprint, sprint # None, NEW carry
    PROVE  SprintSound(m, capacity, sprint, carry)
<1> DEFINE taken == Packed(m, capacity, sprint, carry).items
           kept == Retained(m, sprint)
           n == LastTurn(m)
           t == Taken(m, capacity, sprint, carry, n)
<1>1. n \in Nat /\ Packed(m, capacity, sprint, carry) = t
  BY TakenSteps
<1>2. Filled(m, capacity, sprint, carry, n)
  BY <1>1, SprintIsFilled
<1>3. \A A \in SUBSET taken :
         Packed(Assigned(m, sprint, A), capacity, sprint, carry \ A).items = taken \ A
  <2> SUFFICES ASSUME NEW A \in SUBSET Packed(m, capacity, sprint, carry).items
               PROVE  Packed(Assigned(m, sprint, A), capacity, sprint, carry \ A).items
                        = Packed(m, capacity, sprint, carry).items \ A
    OBVIOUS
  <2>1. RestSelected(m, capacity, sprint, carry, A)
    BY SprintResumes
  <2> QED BY <2>1 DEF RestSelected
<1>4. /\ taken \subseteq OpenWork(m) \ (kept \cup Withheld(m, sprint, carry))
      /\ t.remaining = capacity - EffortOf(m, kept \cup taken)
      /\ taken # {} => t.remaining >= 0
      /\ \A i \in taken : \A d \in m[i].deps : IsDone(m, d) \/ d \in kept \cup taken
  BY <1>1, <1>2 DEF Filled
<1>5. kept \cup taken \in SUBSET DOMAIN m
  BY <1>4 DEF Retained, OpenWork
<1>6. EffortOf(m, kept \cup taken) \in Nat
  <2> DEFINE U == kept \cup taken
  <2> HIDE DEF U
  <2>1. EffortOf(m, U) \in Nat
    BY <1>5, EffortsAddUp DEF Sprintable, U
  <2> QED BY <2>1 DEF U
<1> HIDE DEF taken, t, n
<1>7. ASSUME taken # {} PROVE EffortOf(m, taken \cup kept) <= capacity
  <2> DEFINE e == EffortOf(m, kept \cup taken)
  <2>1. taken \cup kept = kept \cup taken
    OBVIOUS
  <2>2. EffortOf(m, taken \cup kept) = e
    BY <2>1
  <2>3. t.remaining = capacity - e /\ t.remaining >= 0 /\ e \in Nat
    BY <1>4, <1>6, <1>7
  <2> HIDE DEF e
  <2> QED BY <2>2, <2>3
<1>8. \A i \in taken : m[i].sprint \in {None} \/ i \in carry
  BY <1>4 DEF Retained, Withheld
<1> QED BY <1>3, <1>4, <1>7, <1>8 DEF SprintSound, taken

(* Whatever is in the backlog and on the board, for every sprint and        *)
(* capacity, and whatever may be carried over.                              *)
THEOREM SprintsResume == Spec => []ResumesWhereItStopped
<1>1. Formed /\ Acyclic => ResumesWhereItStopped
  <2> SUFFICES ASSUME Formed, Acyclic PROVE ResumesWhereItStopped
    OBVIOUS
  <2>1. Sprintable(Observed) /\ Shaped(Observed) /\ DOMAIN Observed = Items
    BY ObservedIsSprintable, ObservedIsGraph
  <2>2. \A e \in field.all : e.title \in Nat
    BY DEF Formed, TypeOK, IterationField, IterationEntry
  <2> DEFINE m == Observed
  <2> HIDE DEF m
  <2> DEFINE After(sprint, A) ==
                 [i \in Items |-> IF i \in A THEN [m[i] EXCEPT !.sprint = sprint] ELSE m[i]]
  <2>3. \A sprint, A : After(sprint, A) = Assigned(m, sprint, A)
    BY <2>1 DEF Assigned, m
  <2>4. ASSUME NEW sprint \in {e.title : e \in field.all}, NEW capacity \in Capacity, NEW carry
        PROVE  SprintSound(m, capacity, sprint, carry)
    <3>1. sprint # None /\ capacity \in Int
      BY <2>2, BoundsAssumption, NoneAssumption
    <3> QED BY <2>1, <3>1, PackedIsSound DEF m
  <2>5. ASSUME NEW sprint \in {e.title : e \in field.all}, NEW capacity \in Capacity, NEW carry
        PROVE  LET taken == Packed(m, capacity, sprint, carry).items
                   kept == Retained(m, sprint)
               IN  /\ taken # {} => EffortOf(m, taken \cup kept) <= capacity
                   /\ \A i \in taken : \A d \in m[i].deps : IsDone(m, d) \/ d \in taken \cup kept
                   /\ \A i \in taken : m[i].sprint \in {None} \/ i \in carry
                   /\ \A A \in SUBSET taken :
                         Packed(After(sprint, A), capacity, sprint, carry \ A).items = taken \ A
    <3>1. SprintSound(m, capacity, sprint, carry)
      BY <2>4
    <3> HIDE DEF After
    <3> QED BY <2>3, <3>1 DEF SprintSound
  <2> QED BY <2>5 DEF ResumesWhereItStopped, m
<1>2. Init => Formed /\ Acyclic
  BY InitFormed, InitAcyclic
<1>3. Formed /\ Acyclic /\ [Next]_vars => (Formed /\ Acyclic)'
  BY NextFormed, NextAcyclic
<1> QED BY <1>1, <1>2, <1>3, PTL DEF Spec

-----------------------------------------------------------------------------
(* The order in which a schedule places its items: dependencies first,      *)
(* otherwise as they are prioritized.                                       *)
ByPlace(m) ==
    {p \in (DOMAIN m) \X (DOMAIN m) :
        Position(Prioritized(m), p[1]) < Position(Prioritized(m), p[2])}

(* ByPlace says which of two items comes first. *)
LEMMA ByPlaceIs ==
    ASSUME NEW m, NEW i \in DOMAIN m, NEW j \in DOMAIN m
    PROVE  <<i, j>> \in ByPlace(m) <=> Position(Prioritized(m), i) < Position(Prioritized(m), j)
<1> DEFINE o == Prioritized(m)
           D == DOMAIN m
<1>1. \A p : p \in ByPlace(m) <=> p \in D \X D /\ Position(o, p[1]) < Position(o, p[2])
  BY DEF ByPlace
<1> HIDE DEF o, D
<1>2. <<i, j>>[1] = i /\ <<i, j>>[2] = j /\ <<i, j>> \in D \X D
  BY DEF D
<1> QED BY <1>1, <1>2 DEF o

(* The placing order is what the turns over the open items lead to. *)
LEMMA PlacingOrderIsTurns ==
    ASSUME NEW m
    PROVE  PlacingOrder(m) =
              Turns(m, Schedulable(m), ByPlace(m))[1..Cardinality(Schedulable(m))]
<1> DEFINE D == Schedulable(m)
           o == Prioritized(m)
           Before(i, j) == Position(o, i) < Position(o, j)
           Lead(T) == CHOOSE i \in T : \A j \in T \ {i} : Before(i, j)
           n == Cardinality(D)
           F(f) == f = [s \in SUBSET (1..n) |->
                      IF s = {} THEN <<>>
                      ELSE Append(f[s \ {Max(s)}], Lead(Released(m, D, f[s \ {Max(s)}])))]
           G(f) == f = [s \in SUBSET (1..n) |->
                      IF s = {} THEN <<>> ELSE Turn(m, D, ByPlace(m), f[s \ {Max(s)}])]
<1>0. D \subseteq DOMAIN m
  BY DEF Schedulable
<1>1. ASSUME NEW T \in SUBSET D PROVE Lead(T) = First(T, ByPlace(m))
  <2>1. \A i, j \in D : Before(i, j) <=> <<i, j>> \in ByPlace(m)
    BY <1>0, ByPlaceIs
  <2> HIDE DEF Before, D
  <2>2. \A i \in T : (\A j \in T \ {i} : Before(i, j)) <=> (\A j \in T \ {i} : <<i, j>> \in ByPlace(m))
    BY <2>1
  <2> DEFINE P(i) == i \in T /\ \A j \in T \ {i} : Before(i, j)
             Q(i) == i \in T /\ \A j \in T \ {i} : <<i, j>> \in ByPlace(m)
  <2>3. \A i : P(i) <=> Q(i)
    BY <2>2
  <2>4. (CHOOSE i : P(i)) = (CHOOSE i : Q(i))
    <3> HIDE DEF P, Q
    <3> QED BY <2>3
  <2> QED BY <2>4 DEF First
<1>2. \A out : Lead(Released(m, D, out)) = First(Released(m, D, out), ByPlace(m))
  <2> SUFFICES ASSUME NEW out PROVE Lead(Released(m, D, out)) = First(Released(m, D, out), ByPlace(m))
    OBVIOUS
  <2>1. Released(m, D, out) \in SUBSET D
    BY DEF Released
  <2> HIDE DEF Lead, D
  <2> QED BY <2>1, <1>1
<1>3. PlacingOrder(m) = (CHOOSE f : F(f))[1..n]
  BY DEF PlacingOrder, ReleaseOrder, FoldLeft, MapThenFoldSet, Released
<1>4. \A f : F(f) <=> G(f)
  <2> HIDE DEF Lead, D, n
  <2> QED BY <1>2 DEF Turn
<1>5. (CHOOSE f : F(f)) = (CHOOSE f : G(f))
  <2> HIDE DEF F, G
  <2> QED BY <1>4
<1> QED BY <1>3, <1>5 DEF Turns

(* Of any items, one comes before the others. *)
LEMMA OneIsPlacedFirst ==
    ASSUME NEW m, Graph(m), ~Cyclic(m), Impacts(m)
    PROVE  Leads(Schedulable(m), ByPlace(m))
<1> DEFINE D == DOMAIN m
           o == Prioritized(m)
           at(i) == Position(o, i)
<1>0. o \in Seq(D) /\ ToSet(o) = D
  BY OrderIsComplete DEF InTurn
<1>1. \A i \in D : at(i) \in 1..Len(o) /\ o[at(i)] = i
  <2> HIDE DEF o, D
  <2> QED BY <1>0, PositionIs
<1>2. \A i \in D : at(i) \in Nat
  BY <1>1
<1>3. \A i, j \in D : <<i, j>> \in ByPlace(m) <=> at(i) < at(j)
  BY ByPlaceIs
<1> SUFFICES ASSUME NEW T \in (SUBSET Schedulable(m)) \ {{}}
             PROVE  \E i \in T : \A j \in T \ {i} : <<i, j>> \in ByPlace(m)
  BY DEF Leads
<1>4. T \in SUBSET D
  BY DEF Schedulable
<1> HIDE DEF at, D
<1>5. {at(j) : j \in T} \in SUBSET Nat /\ {at(j) : j \in T} # {}
  BY <1>2, <1>4
<1>6. PICK n \in {at(j) : j \in T} : \A k \in {at(j) : j \in T} : n <= k
  <2> DEFINE P == {at(j) : j \in T}
  <2> HIDE DEF P
  <2> QED BY <1>5, LeastNumber DEF P
<1>7. PICK i \in T : at(i) = n
  BY <1>6
<1>8. ASSUME NEW j \in T \ {i} PROVE <<i, j>> \in ByPlace(m)
  <2>1. at(i) <= at(j) /\ i \in D /\ j \in D
    BY <1>4, <1>6, <1>7
  <2>2. at(i) # at(j)
    BY <1>1, <2>1
  <2>3. at(i) < at(j)
    BY <1>2, <2>1, <2>2
  <2> QED BY <1>3, <2>1, <2>3
<1> QED BY <1>8

(* The placing order holds every open item once, after what it depends on. *)
LEMMA PlacingOrderIsComplete ==
    ASSUME NEW m, Graph(m), ~Cyclic(m), Impacts(m)
    PROVE  /\ InTurn(m, Schedulable(m), PlacingOrder(m))
           /\ ToSet(PlacingOrder(m)) = Schedulable(m)
           /\ Len(PlacingOrder(m)) = Cardinality(Schedulable(m))
<1>1. Schedulable(m) \subseteq DOMAIN m
  BY DEF Schedulable
<1> QED BY <1>1, PlacingOrderIsTurns, AllAreReleased, OneIsPlacedFirst

-----------------------------------------------------------------------------
(* The walk of build_schedule: what is placed after each set of turns.      *)
Slots(L) == [start : Nat, end : Nat, lane : 1..L]
Placements(S, L) == [free : [1..L -> Nat], at : UNION {[T -> Slots(L)] : T \in SUBSET S}]
NonePlaced(L) == [free |-> [l \in 1..L |-> 0], at |-> <<>>]
EndsBefore(m, s, i) == {0} \cup {s.at[d].end : d \in m[i].deps \cap DOMAIN s.at}
StartFor(m, s, i) == Max({Max(EndsBefore(m, s, i)), s.free[FirstFree(s.free)]})
Placing(m, s, i) ==
    LET lane == FirstFree(s.free)
        start == StartFor(m, s, i)
    IN  [free |-> [s.free EXCEPT ![lane] = start + Duration(m, i)],
         at |-> [j \in DOMAIN s.at \cup {i} |->
                   IF j = i THEN [start |-> start, end |-> start + Duration(m, i),
                                  lane |-> lane]
                   ELSE s.at[j]]]
Layout(m, base, order) ==
    CHOOSE f : f = [s \in SUBSET (DOMAIN order) |->
        IF s = {} THEN base ELSE Placing(m, f[s \ {Max(s)}], order[Max(s)])]

(* Placed is where the walk ends. *)
LEMMA PlacedIsLayout ==
    ASSUME NEW m, NEW L
    PROVE  Placed(m, L) = Layout(m, NonePlaced(L), PlacingOrder(m))[DOMAIN PlacingOrder(m)].at
BY DEF Placed, FoldLeft, MapThenFoldSet, Layout, Placing, NonePlaced, EndsBefore, StartFor

(* The lane that is free first, the leftmost of them. *)
LEMMA FirstFreeIs ==
    ASSUME NEW L \in Nat \ {0}, NEW free \in [1..L -> Nat]
    PROVE  FirstFree(free) \in 1..L /\ \A k \in 1..L : free[FirstFree(free)] <= free[k]
<1> DEFINE V == {free[l] : l \in 1..L}
<1>1. V \in SUBSET Nat /\ V # {}
  <2>1. 1 \in 1..L
    OBVIOUS
  <2>2. free[1] \in V
    BY <2>1
  <2> QED BY <2>2
<1>2. PICK v \in V : \A w \in V : v <= w
  <2> HIDE DEF V
  <2> QED BY <1>1, LeastNumber
<1> DEFINE P == {l \in 1..L : free[l] = v}
<1>3. P \in SUBSET Nat /\ P # {}
  BY <1>2
<1>4. PICK l \in P : \A k \in P : l <= k
  <2> HIDE DEF P
  <2> QED BY <1>3, LeastNumber
<1>5. \A k \in 1..L : free[l] < free[k] \/ (free[l] = free[k] /\ l <= k)
  <2> SUFFICES ASSUME NEW k \in 1..L PROVE free[l] < free[k] \/ (free[l] = free[k] /\ l <= k)
    OBVIOUS
  <2>1. v <= free[k] /\ free[l] = v /\ free[k] \in Nat /\ v \in Nat
    BY <1>1, <1>2, <1>4
  <2>2. free[k] = v => l <= k
    BY <1>4
  <2> QED BY <2>1, <2>2
<1> DEFINE Least(x) == x \in DOMAIN free /\ \A k \in DOMAIN free : free[x] < free[k] \/ (free[x] = free[k] /\ x <= k)
           c == CHOOSE x : Least(x)
<1>6. Least(l)
  BY <1>4, <1>5
<1>7. Least(c)
  <2> HIDE DEF Least
  <2> QED BY <1>6
<1>8. FirstFree(free) = c
  BY DEF FirstFree
<1>9. c \in 1..L /\ \A k \in 1..L : free[c] < free[k] \/ free[c] = free[k]
  <2>1. DOMAIN free = 1..L
    OBVIOUS
  <2> HIDE DEF c
  <2> QED BY <1>7, <2>1
<1> HIDE DEF c
<1>10. \A k \in 1..L : free[c] <= free[k]
  BY <1>9
<1> QED BY <1>8, <1>9, <1>10

(* When an item starts: no sooner than its lane is free and what it depends *)
(* on has ended, and no later than that needs.                              *)
StartsAt(m, s, i, start) ==
    /\ start \in Nat /\ s.free[FirstFree(s.free)] <= start
    /\ \A d \in m[i].deps \cap DOMAIN s.at : s.at[d].end <= start
    /\ \A b \in Nat : /\ s.free[FirstFree(s.free)] <= b
                      /\ \A d \in m[i].deps \cap DOMAIN s.at : s.at[d].end <= b
                      => start <= b
    /\ s.free[FirstFree(s.free)] = 0 => start = Max(EndsBefore(m, s, i))

(* What is placed, piece by piece. *)
LEMMA PlacementIs ==
    ASSUME NEW S, NEW L \in Nat \ {0}, NEW s \in Placements(S, L)
    PROVE  /\ s.free \in [1..L -> Nat] /\ DOMAIN s.at \in SUBSET S
           /\ s.at \in [DOMAIN s.at -> Slots(L)]
           /\ \A j \in DOMAIN s.at : /\ s.at[j].start \in Nat /\ s.at[j].end \in Nat
                                     /\ s.at[j].lane \in 1..L
           /\ FirstFree(s.free) \in 1..L
           /\ \A k \in 1..L : s.free[FirstFree(s.free)] <= s.free[k]
<1>1. PICK T \in SUBSET S : s.at \in [T -> Slots(L)]
  BY DEF Placements
<1>2. s.free \in [1..L -> Nat]
  BY DEF Placements
<1>3. \A j \in T : s.at[j] \in Slots(L)
  BY <1>1
<1>4. DOMAIN s.at = T
  BY <1>1
<1> QED BY <1>1, <1>2, <1>3, <1>4, FirstFreeIs DEF Slots

(* StartFor is that start.                                                  *)
LEMMA StartIs ==
    ASSUME NEW m, NEW S, IsFiniteSet(S), NEW L \in Nat \ {0}, NEW s \in Placements(S, L), NEW i
    PROVE  StartsAt(m, s, i, StartFor(m, s, i))
<1> DEFINE T == m[i].deps \cap DOMAIN s.at
           E == EndsBefore(m, s, i)
           a == Max(E)
           b == s.free[FirstFree(s.free)]
           start == StartFor(m, s, i)
<1>1. /\ b \in Nat /\ IsFiniteSet(T) /\ \A d \in T : s.at[d].end \in Nat
  <2>1. DOMAIN s.at \in SUBSET S /\ b \in Nat /\ \A d \in DOMAIN s.at : s.at[d].end \in Nat
    BY PlacementIs
  <2>2. T \in SUBSET S
    BY <2>1
  <2>3. IsFiniteSet(T)
    <3> HIDE DEF T
    <3> QED BY <2>2, FS_Subset
  <2> QED BY <2>1, <2>3
<1>2. E \in SUBSET Int /\ IsFiniteSet(E) /\ E # {}
  <2>1. IsFiniteSet({s.at[d].end : d \in T})
    <3> DEFINE f == [d \in T |-> s.at[d].end]
    <3>1. IsFiniteSet({f[d] : d \in T})
      <4>1. f = [d \in T |-> f[d]]
        OBVIOUS
      <4> HIDE DEF f, T
      <4> QED BY <1>1, <4>1, ValuesAreFinite
    <3>2. {f[d] : d \in T} = {s.at[d].end : d \in T}
      <4> HIDE DEF T
      <4> QED OBVIOUS
    <3> QED BY <3>1, <3>2
  <2> DEFINE W == {s.at[d].end : d \in T}
  <2>2. E = W \cup {0}
    BY DEF EndsBefore
  <2>3. W \in SUBSET Int
    BY <1>1
  <2>4. IsFiniteSet(W \cup {0})
    <3> HIDE DEF W
    <3> QED BY <2>1, FS_AddElement DEF W
  <2> HIDE DEF W, E
  <2> QED BY <2>2, <2>3, <2>4
<1>3. a \in E /\ \A y \in E : a >= y
  <2> HIDE DEF E
  <2> QED BY <1>2, MaxIs
<1>4. a \in Nat /\ (\A d \in T : s.at[d].end <= a)
      /\ (a = 0 \/ \E d \in T : a = s.at[d].end)
  <2>1. \A d \in T : s.at[d].end \in E
    BY DEF EndsBefore
  <2>2. a = 0 \/ \E d \in T : a = s.at[d].end
    BY <1>3 DEF EndsBefore
  <2> HIDE DEF a, E, T
  <2> QED BY <1>1, <1>3, <2>1, <2>2
<1> HIDE DEF a, b, T
<1>5. {a, b} \in SUBSET Int /\ IsFiniteSet({a, b}) /\ {a, b} # {}
  <2>1. IsFiniteSet({a}) /\ IsFiniteSet({b})
    BY FS_Singleton
  <2>2. IsFiniteSet({a} \cup {b})
    BY <2>1, FS_Union
  <2>3. {a} \cup {b} = {a, b}
    OBVIOUS
  <2> QED BY <1>1, <1>4, <2>2, <2>3
<1>6. start = Max({a, b})
  BY DEF a, b, StartFor
<1>7. start \in {a, b} /\ \A y \in {a, b} : start >= y
  BY <1>5, <1>6, MaxIs
<1> HIDE DEF start, E
<1>8. start \in Nat /\ b <= start /\ a <= start /\ (start = a \/ start = b)
  BY <1>1, <1>4, <1>7
<1>9. \A d \in T : s.at[d].end <= start
  BY <1>1, <1>4, <1>8
<1>10. ASSUME NEW c \in Nat, b <= c, \A d \in T : s.at[d].end <= c PROVE start <= c
  <2>1. a <= c
    BY <1>4, <1>10
  <2> QED BY <1>8, <1>10, <2>1
<1>11. b = 0 => start = a
  BY <1>4, <1>8
<1> QED BY <1>8, <1>9, <1>10, <1>11 DEF StartsAt, a, b, start, T, E

(* What one turn adds to a placement.                                       *)
Adds(m, s, t, i) ==
    LET lane == FirstFree(s.free)
        start == StartFor(m, s, i)
    IN  /\ DOMAIN t.at = DOMAIN s.at \cup {i}
        /\ t.at[i].start = start /\ t.at[i].end = start + Duration(m, i) /\ t.at[i].lane = lane
        /\ \A j \in DOMAIN s.at \ {i} : t.at[j] = s.at[j]
        /\ t.free = [s.free EXCEPT ![lane] = start + Duration(m, i)]

(* A turn adds one item, and the lane it takes is free when it ends. *)
LEMMA PlacingIs ==
    ASSUME NEW m, NEW S, IsFiniteSet(S), NEW L \in Nat \ {0}, NEW s \in Placements(S, L), NEW i \in S,
           Duration(m, i) \in Nat
    PROVE  Placing(m, s, i) \in Placements(S, L) /\ Adds(m, s, Placing(m, s, i), i)
<1> DEFINE lane == FirstFree(s.free)
           start == StartFor(m, s, i)
           e == start + Duration(m, i)
           T == DOMAIN s.at \cup {i}
           slot == [start |-> start, end |-> e, lane |-> lane]
           at == [j \in T |-> IF j = i THEN slot ELSE s.at[j]]
           free == [s.free EXCEPT ![lane] = e]
           t == Placing(m, s, i)
<1>1. /\ s.free \in [1..L -> Nat] /\ DOMAIN s.at \in SUBSET S
      /\ s.at \in [DOMAIN s.at -> Slots(L)] /\ lane \in 1..L
  BY PlacementIs
<1>2. start \in Nat
  BY StartIs DEF StartsAt
<1>3. t = [free |-> free, at |-> at]
  BY DEF Placing
<1> HIDE DEF lane, start, t
<1>4. e \in Nat
  BY <1>2
<1> HIDE DEF e
<1>5. free \in [1..L -> Nat]
  BY <1>1, <1>4
<1>6. slot \in Slots(L)
  BY <1>1, <1>2, <1>4 DEF Slots
<1>7. at \in [T -> Slots(L)] /\ T \in SUBSET S
  <2> HIDE DEF slot
  <2> QED BY <1>1, <1>6
<1>8. t \in Placements(S, L)
  <2>1. at \in UNION {[U -> Slots(L)] : U \in SUBSET S}
    <3> HIDE DEF at, T
    <3> QED BY <1>7
  <2> HIDE DEF at, free
  <2> QED BY <1>3, <1>5, <2>1 DEF Placements
<1>9. t.at = at /\ t.free = free
  BY <1>3
<1>10. t.at[i].start = start /\ t.at[i].end = e /\ t.at[i].lane = lane
  <2>1. at[i] = slot
    OBVIOUS
  <2> HIDE DEF at
  <2> QED BY <1>9, <2>1
<1>11. DOMAIN t.at = T /\ \A j \in DOMAIN s.at \ {i} : t.at[j] = s.at[j]
  <2>1. DOMAIN at = T /\ \A j \in DOMAIN s.at \ {i} : at[j] = s.at[j]
    OBVIOUS
  <2> HIDE DEF at
  <2> QED BY <1>9, <2>1
<1> QED BY <1>8, <1>9, <1>10, <1>11 DEF Adds, lane, start, e, t

(* The walk, turn by turn. *)
Durations(m, S) == \A i \in S : Duration(m, i) \in Nat \ {0}
LaidAt(m, L, order, k) == Layout(m, NonePlaced(L), order)[1..k]

(* It starts with nothing placed, and each turn places its item.            *)
LEMMA LayoutSteps ==
    ASSUME NEW m, NEW S, IsFiniteSet(S), Durations(m, S), NEW L \in Nat \ {0}, NEW order \in Seq(S)
    PROVE  /\ LaidAt(m, L, order, 0) = NonePlaced(L)
           /\ \A k \in 1..Len(order) :
                 LaidAt(m, L, order, k) = Placing(m, LaidAt(m, L, order, k - 1), order[k])
           /\ \A k \in 0..Len(order) : LaidAt(m, L, order, k) \in Placements(S, L)
<1> DEFINE n == Len(order)
           X == Placements(S, L)
           base == NonePlaced(L)
           F == [p \in X \X (1..n) |-> Placing(m, p[1], order[p[2]])]
           w == Layout(m, base, order)
<1>1. n \in Nat /\ DOMAIN order = 1..n /\ \A k \in 1..n : order[k] \in S
  OBVIOUS
<1>2. ASSUME NEW x \in X, NEW i \in S PROVE Placing(m, x, i) \in X
  BY PlacingIs DEF Durations
<1>b. base \in X
  <2> DEFINE free == [l \in 1..L |-> 0]
             at == <<>>
  <2>1. free \in [1..L -> Nat]
    OBVIOUS
  <2>2. at \in UNION {[T -> Slots(L)] : T \in SUBSET S}
    <3>1. at \in [{} -> Slots(L)]
      OBVIOUS
    <3>2. {} \in SUBSET S
      OBVIOUS
    <3> HIDE DEF at
    <3> QED BY <3>1, <3>2
  <2>3. base = [free |-> free, at |-> at]
    BY DEF NonePlaced
  <2> HIDE DEF free, at, base
  <2> QED BY <2>1, <2>2, <2>3 DEF Placements
<1> HIDE DEF base
<1>3. F \in [X \X (1..n) -> X]
  <2> HIDE DEF X, n
  <2> QED BY <1>1, <1>2
<1>4. \A x \in X : \A k \in 1..n : F[<<x, k>>] = Placing(m, x, order[k])
  <2> HIDE DEF X
  <2> QED OBVIOUS
<1> HIDE DEF F, n, X
<1>a. PICK f : Folded(f, n, X, base, F)
  BY <1>1, <1>3, <1>b, FoldExists
<1>5. /\ f \in [SUBSET (1..n) -> X]
      /\ \A s \in SUBSET (1..n) :
            f[s] = IF s = {} THEN base ELSE F[<<f[s \ {Max(s)}], Max(s)>>]
  BY <1>a DEF Folded
<1> DEFINE Value(g, s) == IF s = {} THEN base ELSE Placing(m, g[s \ {Max(s)}], order[Max(s)])
<1>6. ASSUME NEW s \in SUBSET (1..n) PROVE f[s] = Value(f, s)
  <2>1. CASE s = {}
    BY <1>5, <2>1
  <2>2. CASE s # {}
    <3>1. s \in SUBSET Int /\ IsFiniteSet(s)
      <4>1. IsFiniteSet(1..n)
        BY <1>1, FS_Interval
      <4>2. IsFiniteSet(s)
        BY <4>1, FS_Subset
      <4> QED BY <4>2
    <3>2. Max(s) \in 1..n
      BY <2>2, <3>1, MaxIs
    <3>3. f[s \ {Max(s)}] \in X
      BY <1>5
    <3> QED BY <1>4, <1>5, <2>2, <3>2, <3>3
  <2> QED BY <2>1, <2>2
<1>7. f = [s \in SUBSET (1..n) |-> Value(f, s)]
  <2>1. f = [s \in SUBSET (1..n) |-> f[s]]
    BY <1>5
  <2> HIDE DEF Value
  <2> QED BY <2>1, <1>6
<1>8. w = [s \in SUBSET (1..n) |-> Value(w, s)]
  <2>1. \E g : g = [s \in SUBSET (1..n) |-> Value(g, s)]
    BY <1>7
  <2> QED BY <2>1, <1>1 DEF Layout
<1>9. \A s \in SUBSET (1..n) : w[s] = Value(w, s)
  <2> HIDE DEF w, Value
  <2> QED BY <1>8
<1> HIDE DEF w
<1>10. w[1..0] = base
  <2>1. 1..0 = {} /\ {} \in SUBSET (1..n)
    OBVIOUS
  <2> QED BY <2>1, <1>9
<1>11. ASSUME NEW k \in 1..n PROVE w[1..k] = Placing(m, w[1..(k - 1)], order[k])
  <2>1. k \in Nat /\ k # 0 /\ 1..k \in SUBSET (1..n)
    BY <1>1
  <2>2. Max(1..k) = k /\ (1..k) \ {k} = 1..(k - 1) /\ 1..k # {}
    BY <2>1, LastOfPrefix
  <2>3. w[1..k] = Value(w, 1..k)
    BY <1>9, <2>1
  <2> DEFINE s == 1..k
  <2>4. w[s] = Placing(m, w[s \ {Max(s)}], order[Max(s)])
    BY <2>2, <2>3
  <2> HIDE DEF s
  <2>5. Max(s) = k /\ s \ {k} = 1..(k - 1)
    BY <2>2 DEF s
  <2> QED BY <2>4, <2>5 DEF s
<1> DEFINE Bad == {k \in Nat : k <= n /\ w[1..k] \notin X}
<1>12. Bad = {}
  <2> SUFFICES ASSUME Bad # {} PROVE FALSE
    OBVIOUS
  <2>1. PICK k \in Bad : \A j \in Bad : k <= j
    BY LeastNumber
  <2>2. k # 0
    BY <1>10, <1>b, <2>1
  <2>3. k - 1 \in Nat /\ k \in 1..n /\ k - 1 <= n
    BY <1>1, <2>1, <2>2
  <2>4. w[1..(k - 1)] \in X
    <3>1. k - 1 \notin Bad
      <4> HIDE DEF Bad
      <4> QED BY <2>1, <2>3
    <3> QED BY <2>3, <3>1
  <2>5. w[1..k] \in X
    BY <1>1, <1>2, <1>11, <2>3, <2>4
  <2> QED BY <2>1, <2>5
<1>13. \A k \in 0..n : w[1..k] \in X
  BY <1>1, <1>12
<1> QED BY <1>10, <1>11, <1>13 DEF LaidAt, w, n, base, X

(* What holds at the start and is kept at every turn holds to the end. *)
LEMMA TurnByTurn ==
    ASSUME NEW n \in Nat, NEW G, 0 \in G, \A k \in 1..n : k - 1 \in G => k \in G
    PROVE  \A k \in 0..n : k \in G
<1> DEFINE Bad == {k \in Nat : k <= n /\ k \notin G}
<1>1. Bad = {}
  <2> SUFFICES ASSUME Bad # {} PROVE FALSE
    OBVIOUS
  <2>1. PICK k \in Bad : \A j \in Bad : k <= j
    BY LeastNumber
  <2>2. k \in 1..n /\ k - 1 \in Nat /\ k - 1 <= n
    BY <2>1
  <2>3. k - 1 \notin Bad
    <3> HIDE DEF Bad
    <3> QED BY <2>1, <2>2
  <2> QED BY <2>1, <2>2, <2>3
<1> QED BY <1>1

(* A schedule in the making: what is placed after k turns.                  *)
LaidOut(m, L, k) == LaidAt(m, L, PlacingOrder(m), k)
LastPlace(m) == Len(PlacingOrder(m))

(* Every item takes a day or more. *)
LEMMA DurationsArePositive ==
    ASSUME NEW m, Efforts(m)
    PROVE  Durations(m, Schedulable(m))
<1> SUFFICES ASSUME NEW i \in Schedulable(m) PROVE Duration(m, i) \in Nat \ {0}
  BY DEF Durations
<1>1. m[i].effort \in Nat
  BY DEF Schedulable, Efforts
<1> QED BY <1>1 DEF Duration

(* The turns of a schedule. *)
Turned(m, L, k) ==
    LET o == PlacingOrder(m)
        i == o[k]
    IN  /\ i \in Schedulable(m) /\ i \notin Earlier(o, k - 1)
        /\ m[i].deps \cap Schedulable(m) \subseteq Earlier(o, k - 1)
        /\ Earlier(o, k) = Earlier(o, k - 1) \cup {i}
        /\ LaidOut(m, L, k - 1) \in Placements(Schedulable(m), L)
        /\ LaidOut(m, L, k) \in Placements(Schedulable(m), L)
        /\ Adds(m, LaidOut(m, L, k - 1), LaidOut(m, L, k), i)
        /\ Duration(m, i) \in Nat \ {0}

(* Every turn of a schedule is such a turn. *)
LEMMA LaidTurns ==
    ASSUME NEW m, Sprintable(m), NEW L \in Nat \ {0}
    PROVE  /\ LastPlace(m) \in Nat /\ LastPlace(m) = Cardinality(Schedulable(m))
           /\ IsFiniteSet(Schedulable(m))
           /\ \A k \in 1..LastPlace(m) : Turned(m, L, k)
           /\ LaidOut(m, L, 0) = NonePlaced(L)
           /\ Placed(m, L) = LaidOut(m, L, LastPlace(m)).at
           /\ Earlier(PlacingOrder(m), LastPlace(m)) = Schedulable(m)
           /\ \A k \in 0..LastPlace(m) : LaidOut(m, L, k) \in Placements(Schedulable(m), L)
<1> DEFINE o == PlacingOrder(m)
           S == Schedulable(m)
           n == LastPlace(m)
           base == NonePlaced(L)
<1>1. InTurn(m, S, o) /\ ToSet(o) = S /\ Len(o) = Cardinality(S)
  BY PlacingOrderIsComplete DEF Sprintable
<1>2. IsFiniteSet(S)
  <2>1. S \subseteq DOMAIN m /\ IsFiniteSet(DOMAIN m)
    BY DEF Schedulable, Sprintable, Graph
  <2> HIDE DEF S
  <2> QED BY <2>1, FS_Subset
<1>3. o \in Seq(S) /\ n \in Nat /\ DOMAIN o = 1..n /\ n = Len(o)
  BY <1>1 DEF InTurn, LastPlace
<1>4. Durations(m, S)
  BY DurationsArePositive DEF Sprintable
<1>5. Placed(m, L) = Layout(m, base, o)[DOMAIN o].at
  BY PlacedIsLayout
<1> HIDE DEF o, S, n
<1>6. /\ LaidAt(m, L, o, 0) = base
      /\ \A k \in 1..n : LaidAt(m, L, o, k) = Placing(m, LaidAt(m, L, o, k - 1), o[k])
      /\ \A k \in 0..n : LaidAt(m, L, o, k) \in Placements(S, L)
  BY <1>2, <1>3, <1>4, LayoutSteps
<1>7. Placed(m, L) = LaidAt(m, L, o, n).at
  BY <1>3, <1>5 DEF LaidAt
<1>8. Earlier(o, n) = S
  BY <1>1, <1>3, ToSetIs DEF Earlier
<1>9. ASSUME NEW k \in 1..n PROVE Turned(m, L, k)
  <2> DEFINE i == o[k]
  <2>1. k \in Nat /\ k # 0 /\ k - 1 \in 0..n /\ k \in 0..n /\ k \in 1..Len(o)
    BY <1>3
  <2>2. i \in S
    BY <1>3
  <2>3. i \notin Earlier(o, k - 1) /\ m[i].deps \cap S \subseteq Earlier(o, k - 1)
    <3>1. \A j \in 1..Len(o) : o[j] \notin {o[x] : x \in 1..(j - 1)}
      BY <1>1 DEF InTurn
    <3>2. \A j \in 1..Len(o) : m[o[j]].deps \cap S \subseteq {o[x] : x \in 1..(j - 1)}
      BY <1>1 DEF InTurn
    <3> QED BY <2>1, <3>1, <3>2 DEF Earlier
  <2>4. Earlier(o, k) = Earlier(o, k - 1) \cup {i}
    BY <2>1, EarlierGrows
  <2> DEFINE s == LaidAt(m, L, o, k - 1)
             t == LaidAt(m, L, o, k)
  <2>5. s \in Placements(S, L) /\ t \in Placements(S, L) /\ t = Placing(m, s, i)
    BY <1>6, <2>1
  <2>6. Duration(m, i) \in Nat \ {0}
    BY <1>4, <2>2 DEF Durations
  <2> HIDE DEF s, t, i
  <2>7. Adds(m, s, t, i)
    BY <1>2, <2>2, <2>5, <2>6, PlacingIs
  <2> QED BY <2>2, <2>3, <2>4, <2>5, <2>6, <2>7 DEF Turned, LaidOut, s, t, i, o, S
<1>10. n = Cardinality(S)
  BY <1>1, <1>3
<1> QED BY <1>2, <1>3, <1>6, <1>7, <1>8, <1>9, <1>10 DEF LaidOut, n, o, S

(* Placed items take their days, wait for what they depend on, and have     *)
(* their lane to themselves: it is free again once all of them have ended,  *)
(* and no later.                                                            *)
Orderly(m, S, L, s) ==
    LET at == s.at
        T == DOMAIN at
    IN  /\ \A j \in T : at[j].end = at[j].start + Duration(m, j) /\ Duration(m, j) \in Nat \ {0}
        /\ \A j \in T : \A d \in m[j].deps \cap S : d \in T /\ at[d].end <= at[j].start
        /\ \A j \in T : at[j].end <= s.free[at[j].lane]
        /\ \A j, k \in T : j # k /\ at[j].lane = at[k].lane =>
              at[j].end <= at[k].start \/ at[k].end <= at[j].start
        /\ \A l \in 1..L : s.free[l] = 0 \/ \E j \in T : at[j].end = s.free[l]

(* A turn between two placements. *)
Between(m, S, L, s, t, i) ==
    /\ s \in Placements(S, L) /\ t \in Placements(S, L) /\ Adds(m, s, t, i)
    /\ i \in S /\ i \notin DOMAIN s.at /\ m[i].deps \cap S \subseteq DOMAIN s.at
    /\ Duration(m, i) \in Nat \ {0}

(* What is new after a turn, in numbers.                                    *)
Moved(m, L, s, t, i) ==
    LET lane == FirstFree(s.free)
    IN  /\ lane \in 1..L /\ \A l \in 1..L : s.free[l] \in Nat /\ s.free[lane] <= s.free[l]
        /\ DOMAIN t.at = DOMAIN s.at \cup {i}
        /\ \A j \in DOMAIN s.at : /\ t.at[j] = s.at[j] /\ s.at[j].start \in Nat
                                  /\ s.at[j].end \in Nat /\ s.at[j].lane \in 1..L
        /\ t.at[i].start \in Nat /\ t.at[i].end = t.at[i].start + Duration(m, i)
        /\ t.at[i].end \in Nat /\ t.at[i].lane = lane
        /\ t.free[lane] = t.at[i].end
        /\ \A l \in 1..L : l # lane => t.free[l] = s.free[l]
        /\ StartsAt(m, s, i, t.at[i].start)

(* A turn moves one lane, and nothing that was placed. *)
LEMMA TurnPlaces ==
    ASSUME NEW m, NEW S, IsFiniteSet(S), NEW L \in Nat \ {0}, NEW s, NEW t, NEW i, Between(m, S, L, s, t, i)
    PROVE  Moved(m, L, s, t, i)
<1> DEFINE lane == FirstFree(s.free)
           start == StartFor(m, s, i)
           e == start + Duration(m, i)
<1>1. /\ s.free \in [1..L -> Nat] /\ lane \in 1..L
      /\ \A l \in 1..L : s.free[lane] <= s.free[l]
      /\ \A j \in DOMAIN s.at : /\ s.at[j].start \in Nat /\ s.at[j].end \in Nat
                                /\ s.at[j].lane \in 1..L
  BY PlacementIs DEF Between
<1>2. StartsAt(m, s, i, start) /\ start \in Nat
  <2>1. StartsAt(m, s, i, start)
    BY StartIs DEF Between
  <2> QED BY <2>1 DEF StartsAt
<1>3. Duration(m, i) \in Nat
  BY DEF Between
<1>4. /\ DOMAIN t.at = DOMAIN s.at \cup {i}
      /\ t.at[i].start = start /\ t.at[i].end = e /\ t.at[i].lane = lane
      /\ \A j \in DOMAIN s.at \ {i} : t.at[j] = s.at[j]
      /\ t.free = [s.free EXCEPT ![lane] = e]
  BY DEF Between, Adds
<1>5. \A j \in DOMAIN s.at : t.at[j] = s.at[j]
  BY <1>4 DEF Between
<1>6. t.free[lane] = e /\ \A l \in 1..L : l # lane => t.free[l] = s.free[l]
  <2> HIDE DEF lane, e
  <2> QED BY <1>1, <1>4
<1>7. e \in Nat
  <2> HIDE DEF start
  <2> QED BY <1>2, <1>3
<1>8. \A l \in 1..L : s.free[l] \in Nat
  BY <1>1
<1> HIDE DEF lane, start
<1> QED BY <1>1, <1>2, <1>4, <1>5, <1>6, <1>7, <1>8 DEF lane, Moved

(* A turn keeps the placement orderly. *)
LEMMA TurnIsOrderly ==
    ASSUME NEW m, NEW S, IsFiniteSet(S), NEW L \in Nat \ {0}, NEW s, NEW t, NEW i,
           Between(m, S, L, s, t, i), Orderly(m, S, L, s)
    PROVE  Orderly(m, S, L, t)
<1> DEFINE lane == FirstFree(s.free)
           T == DOMAIN s.at
           dur(j) == Duration(m, j)
<1>1. /\ lane \in 1..L /\ \A l \in 1..L : s.free[l] \in Nat /\ s.free[lane] <= s.free[l]
      /\ DOMAIN t.at = T \cup {i}
      /\ \A j \in T : /\ t.at[j] = s.at[j] /\ s.at[j].start \in Nat
                      /\ s.at[j].end \in Nat /\ s.at[j].lane \in 1..L
      /\ t.at[i].start \in Nat /\ t.at[i].end = t.at[i].start + dur(i)
      /\ t.at[i].end \in Nat /\ t.at[i].lane = lane
      /\ t.free[lane] = t.at[i].end
      /\ \A l \in 1..L : l # lane => t.free[l] = s.free[l]
      /\ StartsAt(m, s, i, t.at[i].start)
  <2>1. Moved(m, L, s, t, i)
    BY TurnPlaces
  <2> QED BY <2>1 DEF Moved
<1>2. /\ \A j \in T : s.at[j].end = s.at[j].start + dur(j) /\ dur(j) \in Nat \ {0}
      /\ \A j \in T : \A d \in m[j].deps \cap S : d \in T /\ s.at[d].end <= s.at[j].start
      /\ \A j \in T : s.at[j].end <= s.free[s.at[j].lane]
      /\ \A j, k \in T : j # k /\ s.at[j].lane = s.at[k].lane =>
              s.at[j].end <= s.at[k].start \/ s.at[k].end <= s.at[j].start
      /\ \A l \in 1..L : s.free[l] = 0 \/ \E j \in T : s.at[j].end = s.free[l]
  BY DEF Orderly
<1>3. i \notin T /\ m[i].deps \cap S \subseteq T /\ dur(i) \in Nat \ {0}
  BY DEF Between
<1>4. /\ s.free[lane] <= t.at[i].start
      /\ \A d \in m[i].deps \cap T : s.at[d].end <= t.at[i].start
  BY <1>1 DEF StartsAt
<1> HIDE DEF lane, T, dur
<1>5. \A j \in T \cup {i} : t.at[j].end = t.at[j].start + dur(j) /\ dur(j) \in Nat \ {0}
  BY <1>1, <1>2, <1>3
<1>6. ASSUME NEW j \in T \cup {i}, NEW d \in m[j].deps \cap S
      PROVE  d \in T \cup {i} /\ t.at[d].end <= t.at[j].start
  <2>1. CASE j \in T
    BY <1>1, <1>2, <2>1
  <2>2. CASE j = i
    <3>1. d \in T /\ d \in m[i].deps \cap T
      BY <1>3, <2>2
    <3> QED BY <1>1, <1>4, <2>2, <3>1
  <2> QED BY <2>1, <2>2
<1>7. t.free[lane] >= s.free[lane] /\ t.free[lane] \in Nat
  BY <1>1, <1>3, <1>4
<1>8. ASSUME NEW j \in T \cup {i} PROVE t.at[j].end <= t.free[t.at[j].lane]
  <2>1. CASE j \in T
    <3>1. t.at[j] = s.at[j] /\ s.at[j].end \in Nat /\ s.at[j].lane \in 1..L
          /\ s.at[j].end <= s.free[s.at[j].lane] /\ s.free[s.at[j].lane] \in Nat
      BY <1>1, <1>2, <2>1
    <3> QED BY <1>1, <1>7, <3>1
  <2>2. CASE j = i
    BY <1>1, <2>2
  <2> QED BY <2>1, <2>2
<1>9. ASSUME NEW j \in T, t.at[j].lane = t.at[i].lane PROVE t.at[j].end <= t.at[i].start
  <2>1. t.at[j] = s.at[j] /\ s.at[j].lane = lane /\ s.at[j].end <= s.free[s.at[j].lane]
    BY <1>1, <1>2, <1>9
  <2>2. s.at[j].end \in Nat /\ s.free[lane] \in Nat /\ t.at[i].start \in Nat
    BY <1>1
  <2> QED BY <1>4, <2>1, <2>2
<1>10. ASSUME NEW j \in T \cup {i}, NEW k \in T \cup {i}, j # k, t.at[j].lane = t.at[k].lane
       PROVE  t.at[j].end <= t.at[k].start \/ t.at[k].end <= t.at[j].start
  <2>1. CASE j \in T /\ k \in T
    BY <1>1, <1>2, <1>10, <2>1
  <2>2. CASE j = i \/ k = i
    BY <1>9, <1>10, <2>2
  <2> QED BY <2>1, <2>2
<1>11. ASSUME NEW l \in 1..L PROVE t.free[l] = 0 \/ \E j \in T \cup {i} : t.at[j].end = t.free[l]
  <2>1. CASE l = lane
    BY <1>1, <2>1
  <2>2. CASE l # lane
    BY <1>1, <1>2, <2>2
  <2> QED BY <2>1, <2>2
<1> QED BY <1>1, <1>5, <1>6, <1>8, <1>10, <1>11 DEF Orderly, dur

(* Schedules are orderly at every turn. *)
LEMMA SchedulesAreOrderly ==
    ASSUME NEW m, Sprintable(m), NEW L \in Nat \ {0}
    PROVE  \A k \in 0..LastPlace(m) :
              /\ Orderly(m, Schedulable(m), L, LaidOut(m, L, k))
              /\ DOMAIN LaidOut(m, L, k).at = Earlier(PlacingOrder(m), k)
<1> DEFINE S == Schedulable(m)
           o == PlacingOrder(m)
           n == LastPlace(m)
           s(k) == LaidOut(m, L, k)
           Good(k) == Orderly(m, S, L, s(k)) /\ DOMAIN s(k).at = Earlier(o, k)
           G == {k \in 0..n : Good(k)}
<1>1. n \in Nat /\ IsFiniteSet(S) /\ s(0) = NonePlaced(L)
  BY LaidTurns
<1>2. Good(0)
  <2> DEFINE b == s(0)
  <2>1. b.at = <<>> /\ b.free = [l \in 1..L |-> 0]
    BY <1>1 DEF NonePlaced
  <2>2. DOMAIN b.at = {}
    BY <2>1
  <2>3. \A l \in 1..L : b.free[l] = 0
    BY <2>1
  <2>4. Earlier(o, 0) = {}
    BY DEF Earlier
  <2> HIDE DEF b
  <2>5. Orderly(m, S, L, b)
    BY <2>2, <2>3 DEF Orderly
  <2> QED BY <2>2, <2>4, <2>5 DEF b
<1>3. ASSUME NEW k \in 1..n, Good(k - 1) PROVE Good(k)
  <2> DEFINE i == o[k]
             p == s(k - 1)
             q == s(k)
  <2>1. Turned(m, L, k)
    BY LaidTurns
  <2>2. /\ i \in S /\ i \notin Earlier(o, k - 1) /\ m[i].deps \cap S \subseteq Earlier(o, k - 1)
        /\ Earlier(o, k) = Earlier(o, k - 1) \cup {i}
        /\ p \in Placements(S, L) /\ q \in Placements(S, L) /\ Adds(m, p, q, i)
        /\ Duration(m, i) \in Nat \ {0}
    BY <2>1 DEF Turned
  <2>3. DOMAIN p.at = Earlier(o, k - 1) /\ Orderly(m, S, L, p)
    BY <1>3
  <2> HIDE DEF i, p, q, S, o
  <2>4. Between(m, S, L, p, q, i)
    BY <2>2, <2>3 DEF Between
  <2>5. Orderly(m, S, L, q)
    BY <1>1, <2>3, <2>4, TurnIsOrderly
  <2>6. DOMAIN q.at = DOMAIN p.at \cup {i}
    BY <2>2 DEF Adds
  <2> QED BY <2>2, <2>3, <2>5, <2>6 DEF q
<1>4. 0 \in G /\ \A k \in 1..n : k - 1 \in G => k \in G
  <2> HIDE DEF Good
  <2> QED BY <1>1, <1>2, <1>3
<1>5. \A k \in 0..n : k \in G
  <2> HIDE DEF G
  <2> QED BY <1>1, <1>4, TurnByTurn
<1> QED BY <1>5

(* So every turn goes from one orderly placement to the next. *)
LEMMA SchedulesGrow ==
    ASSUME NEW m, Sprintable(m), NEW L \in Nat \ {0}
    PROVE  \A k \in 1..LastPlace(m) :
              Between(m, Schedulable(m), L, LaidOut(m, L, k - 1), LaidOut(m, L, k), PlacingOrder(m)[k])
<1> DEFINE S == Schedulable(m)
           o == PlacingOrder(m)
           n == LastPlace(m)
<1> SUFFICES ASSUME NEW k \in 1..n
             PROVE  Between(m, S, L, LaidOut(m, L, k - 1), LaidOut(m, L, k), o[k])
  OBVIOUS
<1> DEFINE i == o[k]
           p == LaidOut(m, L, k - 1)
           q == LaidOut(m, L, k)
<1>1. Turned(m, L, k)
  BY LaidTurns
<1>2. /\ i \in S /\ i \notin Earlier(o, k - 1) /\ m[i].deps \cap S \subseteq Earlier(o, k - 1)
      /\ p \in Placements(S, L) /\ q \in Placements(S, L) /\ Adds(m, p, q, i)
      /\ Duration(m, i) \in Nat \ {0}
  BY <1>1 DEF Turned
<1>3. DOMAIN p.at = Earlier(o, k - 1)
  <2>1. n \in Nat
    BY LaidTurns
  <2>2. k - 1 \in 0..n
    BY <2>1
  <2> QED BY <2>2, SchedulesAreOrderly
<1> HIDE DEF i, p, q, S, o
<1>4. Between(m, S, L, p, q, i)
  BY <1>2, <1>3 DEF Between
<1> QED BY <1>4 DEF i, p, q

-----------------------------------------------------------------------------
(* Another lane.  Each lane has one, of those there are then, that is free  *)
(* no later; and nothing starts later.                                      *)
Standby(L, s, u, h) ==
    /\ h \in [1..L -> 1..(L + 1)]
    /\ \A l, k \in 1..L : h[l] = h[k] => l = k
    /\ \A l \in 1..L : u.free[h[l]] <= s.free[l]
Eased(L, s, u) ==
    /\ DOMAIN u.at = DOMAIN s.at
    /\ \A j \in DOMAIN s.at : u.at[j].start <= s.at[j].start
    /\ \E h : Standby(L, s, u, h)

(* A turn keeps that: whichever lane is free first with the additional one  *)
(* stands by for the lane that was taken without it.                        *)
LEMMA TurnIsEased ==
    ASSUME NEW m, NEW S, IsFiniteSet(S), NEW L \in Nat \ {0}, NEW i,
           NEW s, NEW t, Between(m, S, L, s, t, i), Orderly(m, S, L, s),
           NEW u, NEW v, Between(m, S, L + 1, u, v, i), Orderly(m, S, L + 1, u),
           Eased(L, s, u)
    PROVE  Eased(L, t, v)
<1> DEFINE p == FirstFree(s.free)
           q == FirstFree(u.free)
           T == DOMAIN s.at
           dur(j) == Duration(m, j)
<1>0. L + 1 \in Nat \ {0}
  OBVIOUS
<1>1. /\ p \in 1..L /\ \A l \in 1..L : s.free[l] \in Nat /\ s.free[p] <= s.free[l]
      /\ DOMAIN t.at = T \cup {i}
      /\ \A j \in T : t.at[j] = s.at[j] /\ s.at[j].start \in Nat /\ s.at[j].end \in Nat
      /\ t.at[i].start \in Nat /\ t.at[i].end = t.at[i].start + dur(i)
      /\ t.free[p] = t.at[i].end
      /\ \A l \in 1..L : l # p => t.free[l] = s.free[l]
      /\ StartsAt(m, s, i, t.at[i].start)
  <2>1. Moved(m, L, s, t, i)
    BY TurnPlaces
  <2> QED BY <2>1 DEF Moved
<1>2. /\ q \in 1..(L + 1) /\ \A l \in 1..(L + 1) : u.free[l] \in Nat /\ u.free[q] <= u.free[l]
      /\ DOMAIN v.at = T \cup {i}
      /\ \A j \in T : v.at[j] = u.at[j] /\ u.at[j].start \in Nat /\ u.at[j].end \in Nat
      /\ v.at[i].start \in Nat /\ v.at[i].end = v.at[i].start + dur(i)
      /\ v.free[q] = v.at[i].end
      /\ \A l \in 1..(L + 1) : l # q => v.free[l] = u.free[l]
      /\ StartsAt(m, u, i, v.at[i].start)
  <2> DEFINE M == L + 1
  <2>1. M \in Nat \ {0} /\ Between(m, S, M, u, v, i)
    BY <1>0
  <2>2. DOMAIN u.at = T
    BY DEF Eased
  <2> HIDE DEF M
  <2>3. /\ q \in 1..M /\ \A l \in 1..M : u.free[l] \in Nat /\ u.free[q] <= u.free[l]
        /\ DOMAIN v.at = DOMAIN u.at \cup {i}
        /\ \A j \in DOMAIN u.at : v.at[j] = u.at[j] /\ u.at[j].start \in Nat /\ u.at[j].end \in Nat
        /\ v.at[i].start \in Nat /\ v.at[i].end = v.at[i].start + dur(i)
        /\ v.free[q] = v.at[i].end
        /\ \A l \in 1..M : l # q => v.free[l] = u.free[l]
        /\ StartsAt(m, u, i, v.at[i].start)
    <3>1. Moved(m, M, u, v, i)
      BY <2>1, TurnPlaces
    <3> QED BY <3>1 DEF Moved
  <2> QED BY <2>2, <2>3 DEF M
<1>3. DOMAIN u.at = T /\ \A j \in T : u.at[j].start <= s.at[j].start
  BY DEF Eased
<1>4. PICK h : Standby(L, s, u, h)
  BY DEF Eased
<1>5. /\ h \in [1..L -> 1..(L + 1)]
      /\ \A l, k \in 1..L : h[l] = h[k] => l = k
      /\ \A l \in 1..L : u.free[h[l]] <= s.free[l]
  BY <1>4 DEF Standby
<1>6. /\ \A j \in T : s.at[j].end = s.at[j].start + dur(j) /\ dur(j) \in Nat \ {0}
      /\ \A j \in T : u.at[j].end = u.at[j].start + dur(j)
  BY <1>3 DEF Orderly
<1>7. dur(i) \in Nat \ {0} /\ i \notin T
  BY DEF Between
<1>8. \A b \in Nat : u.free[q] <= b /\ (\A d \in m[i].deps \cap T : u.at[d].end <= b)
         => v.at[i].start <= b
  BY <1>2, <1>3 DEF StartsAt
<1>9. s.free[p] <= t.at[i].start
      /\ \A d \in m[i].deps \cap T : s.at[d].end <= t.at[i].start
  BY <1>1 DEF StartsAt
<1> HIDE DEF p, q, T, dur
<1>10. v.at[i].start <= t.at[i].start
  <2>1. u.free[q] <= t.at[i].start
    <3>1. h[p] \in 1..(L + 1)
      BY <1>1, <1>5
    <3>2. u.free[q] <= u.free[h[p]] /\ u.free[h[p]] <= s.free[p]
          /\ u.free[q] \in Nat /\ u.free[h[p]] \in Nat /\ s.free[p] \in Nat
      BY <1>1, <1>2, <1>5, <3>1
    <3> QED BY <1>1, <1>9, <3>2
  <2>2. \A d \in m[i].deps \cap T : u.at[d].end <= t.at[i].start
    <3> SUFFICES ASSUME NEW d \in m[i].deps \cap T PROVE u.at[d].end <= t.at[i].start
      OBVIOUS
    <3>1. u.at[d].start <= s.at[d].start /\ u.at[d].start \in Nat /\ s.at[d].start \in Nat
      BY <1>1, <1>2, <1>3
    <3>2. u.at[d].end = u.at[d].start + dur(d) /\ s.at[d].end = s.at[d].start + dur(d) /\ dur(d) \in Nat
      BY <1>6
    <3>3. s.at[d].end <= t.at[i].start
      BY <1>9
    <3> QED BY <1>1, <3>1, <3>2, <3>3
  <2> QED BY <1>1, <1>8, <2>1, <2>2
<1>11. v.at[i].end <= t.at[i].end /\ v.at[i].end \in Nat /\ t.at[i].end \in Nat
  BY <1>1, <1>2, <1>7, <1>10
<1>12. \A j \in T \cup {i} : v.at[j].start <= t.at[j].start
  BY <1>1, <1>2, <1>3, <1>10
<1> DEFINE g == [l \in 1..L |-> IF l = p THEN q ELSE IF h[l] = q THEN h[p] ELSE h[l]]
<1>13. g \in [1..L -> 1..(L + 1)]
  BY <1>1, <1>2, <1>5
<1>14. \A l \in 1..L : g[l] = IF l = p THEN q ELSE IF h[l] = q THEN h[p] ELSE h[l]
  OBVIOUS
<1> HIDE DEF g
<1>15. ASSUME NEW l \in 1..L, NEW k \in 1..L, g[l] = g[k] PROVE l = k
  <2>1. CASE l = p /\ k = p
    BY <2>1
  <2>2. CASE l = p /\ k # p
    BY <1>1, <1>5, <1>14, <1>15, <2>2
  <2>3. CASE l # p /\ k = p
    BY <1>1, <1>5, <1>14, <1>15, <2>3
  <2>4. CASE l # p /\ k # p
    BY <1>1, <1>5, <1>14, <1>15, <2>4
  <2> QED BY <2>1, <2>2, <2>3, <2>4
<1>16. ASSUME NEW l \in 1..L PROVE v.free[g[l]] <= t.free[l]
  <2>1. CASE l = p
    BY <1>1, <1>2, <1>11, <1>14, <2>1
  <2>2. CASE l # p /\ h[l] = q
    <3>1. g[l] = h[p] /\ h[p] # q /\ h[p] \in 1..(L + 1)
      BY <1>1, <1>5, <1>14, <2>2
    <3>2. v.free[g[l]] = u.free[h[p]] /\ t.free[l] = s.free[l]
      BY <1>1, <1>2, <2>2, <3>1
    <3>3. u.free[h[p]] <= s.free[p] /\ s.free[p] <= s.free[l]
      BY <1>1, <1>5
    <3>4. u.free[h[p]] \in Nat /\ s.free[p] \in Nat /\ s.free[l] \in Nat
      BY <1>1, <1>2, <3>1
    <3> QED BY <3>2, <3>3, <3>4
  <2>3. CASE l # p /\ h[l] # q
    <3>1. g[l] = h[l] /\ h[l] \in 1..(L + 1)
      BY <1>5, <1>14, <2>3
    <3>2. v.free[g[l]] = u.free[h[l]] /\ t.free[l] = s.free[l]
      BY <1>1, <1>2, <2>3, <3>1
    <3> QED BY <1>5, <3>2
  <2> QED BY <2>1, <2>2, <2>3
<1>17. Standby(L, t, v, g)
  BY <1>13, <1>15, <1>16 DEF Standby
<1> QED BY <1>1, <1>2, <1>12, <1>17 DEF Eased

(* So with another lane nothing starts later. *)
LEMMA LanesHelp ==
    ASSUME NEW m, Sprintable(m), NEW L \in Nat \ {0}
    PROVE  \A j \in Schedulable(m) : Placed(m, L + 1)[j].start <= Placed(m, L)[j].start
<1> DEFINE S == Schedulable(m)
           o == PlacingOrder(m)
           n == LastPlace(m)
           M == L + 1
           s(k) == LaidOut(m, L, k)
           u(k) == LaidOut(m, M, k)
           G == {k \in 0..n : Eased(L, s(k), u(k))}
<1>0. M \in Nat \ {0} /\ M = L + 1
  OBVIOUS
<1> HIDE DEF M
<1>1. n \in Nat /\ IsFiniteSet(S) /\ s(0) = NonePlaced(L) /\ Placed(m, L) = s(n).at /\ Earlier(o, n) = S
  BY LaidTurns
<1>2. u(0) = NonePlaced(M) /\ Placed(m, M) = u(n).at
  BY <1>0, LaidTurns
<1>3. Eased(L, s(0), u(0))
  <2> DEFINE a == s(0)
             b == u(0)
             h == [l \in 1..L |-> l]
  <2>1. a.at = <<>> /\ b.at = <<>> /\ a.free = [l \in 1..L |-> 0] /\ b.free = [l \in 1..M |-> 0]
    <3>1. a = NonePlaced(L) /\ b = NonePlaced(M)
      BY <1>1, <1>2
    <3> HIDE DEF a, b
    <3> QED BY <3>1 DEF NonePlaced
  <2>2. DOMAIN a.at = {} /\ DOMAIN b.at = {}
    BY <2>1
  <2>3. h \in [1..L -> 1..(L + 1)] /\ \A l \in 1..L : h[l] = l
    OBVIOUS
  <2>4. \A l \in 1..L : b.free[h[l]] <= a.free[l]
    <3> HIDE DEF h
    <3>1. \A l \in 1..L : l \in 1..M
      BY <1>0
    <3>2. \A l \in 1..L : a.free[l] = 0 /\ b.free[l] = 0
      <4> HIDE DEF a, b
      <4> QED BY <2>1, <3>1
    <3> HIDE DEF a, b
    <3> QED BY <2>3, <3>2
  <2> HIDE DEF a, b, h
  <2>5. Standby(L, a, b, h)
    BY <2>3, <2>4 DEF Standby
  <2>6. Eased(L, a, b)
    BY <2>2, <2>5 DEF Eased
  <2> QED BY <2>6 DEF a, b
<1>4. ASSUME NEW k \in 1..n, Eased(L, s(k - 1), u(k - 1)) PROVE Eased(L, s(k), u(k))
  <2> DEFINE i == o[k]
             a == s(k - 1)
             b == s(k)
             c == u(k - 1)
             d == u(k)
  <2>1. k - 1 \in 0..n
    BY <1>1
  <2>2. Between(m, S, L, a, b, i) /\ Orderly(m, S, L, a)
    BY <2>1, SchedulesGrow, SchedulesAreOrderly
  <2>3. Between(m, S, M, c, d, i) /\ Orderly(m, S, M, c)
    BY <1>0, <2>1, SchedulesGrow, SchedulesAreOrderly
  <2>4. Eased(L, a, c)
    BY <1>4
  <2> HIDE DEF i, a, b, c, d, S
  <2>5. Eased(L, b, d)
    BY <1>0, <1>1, <2>2, <2>3, <2>4, TurnIsEased
  <2> QED BY <2>5 DEF b, d
<1>5. 0 \in G /\ \A k \in 1..n : k - 1 \in G => k \in G
  <2> HIDE DEF s, u
  <2> QED BY <1>1, <1>3, <1>4
<1>6. n \in G
  <2>1. \A k \in 0..n : k \in G
    <3> HIDE DEF G
    <3> QED BY <1>1, <1>5, TurnByTurn
  <2> QED BY <1>1, <2>1
<1>7. DOMAIN s(n).at = S
  <2>1. n \in 0..n
    BY <1>1
  <2>2. DOMAIN s(n).at = Earlier(o, n)
    BY <2>1, SchedulesAreOrderly
  <2> QED BY <1>1, <2>2
<1> HIDE DEF s, u
<1>8. \A j \in S : u(n).at[j].start <= s(n).at[j].start
  BY <1>6, <1>7 DEF Eased
<1> QED BY <1>0, <1>1, <1>2, <1>8

-----------------------------------------------------------------------------
(* The sum of the work.  No lane is busy for longer than all of it takes,   *)
(* and if there is one lane only, it is busy with all of it.                *)
DurationAt(m) == [i \in DOMAIN m |-> Duration(m, i)]
WorkOf(m, T) == Total(DurationAt(m), T)
Worked(m, L, s) ==
    /\ \A l \in 1..L : s.free[l] <= WorkOf(m, DOMAIN s.at)
    /\ L = 1 => s.free[1] = WorkOf(m, DOMAIN s.at)

(* The work of a schedule is the sum of its durations. *)
LEMMA WorkIsTotal ==
    ASSUME NEW m, NEW S \in SUBSET DOMAIN m
    PROVE  FoldSet(LAMBDA i, sum : sum + Duration(m, i), 0, S) = WorkOf(m, S)
<1> DEFINE One(s) == CHOOSE x \in s : TRUE
           F(f) == f = [s \in SUBSET S |-> IF s = {} THEN 0 ELSE f[s \ {One(s)}] + Duration(m, One(s))]
           G(f) == f = [s \in SUBSET S |-> IF s = {} THEN 0 ELSE f[s \ {One(s)}] + DurationAt(m)[One(s)]]
<1>1. FoldSet(LAMBDA i, sum : sum + Duration(m, i), 0, S) = (CHOOSE f : F(f))[S]
  BY DEF FoldSet, MapThenFoldSet
<1>2. \A s \in SUBSET S : s # {} => DurationAt(m)[One(s)] = Duration(m, One(s))
  <2> SUFFICES ASSUME NEW s \in SUBSET S, s # {} PROVE DurationAt(m)[One(s)] = Duration(m, One(s))
    OBVIOUS
  <2>1. One(s) \in DOMAIN m
    OBVIOUS
  <2> HIDE DEF One
  <2> QED BY <2>1 DEF DurationAt
<1>3. \A f : F(f) <=> G(f)
  <2> HIDE DEF One
  <2> QED BY <1>2
<1>4. (CHOOSE f : F(f)) = (CHOOSE f : G(f))
  <2> HIDE DEF F, G
  <2> QED BY <1>3
<1> QED BY <1>1, <1>4 DEF Total, Adding, WorkOf

(* It adds up item by item. *)
LEMMA WorkAddsUp ==
    ASSUME NEW m, NEW S, IsFiniteSet(S), S \subseteq DOMAIN m, \A j \in S : Duration(m, j) \in Nat,
           NEW T \in SUBSET S
    PROVE  /\ WorkOf(m, T) \in Nat
           /\ \A i \in S \ T : WorkOf(m, T \cup {i}) = WorkOf(m, T) + Duration(m, i)
<1> DEFINE g == DurationAt(m)
<1>1. \A x \in S : g[x] = Duration(m, x) /\ g[x] \in Nat
  BY DEF DurationAt
<1> HIDE DEF g
<1>2. \A U \in SUBSET S : Addends(g, U)
  <2> SUFFICES ASSUME NEW U \in SUBSET S PROVE Addends(g, U)
    OBVIOUS
  <2>1. IsFiniteSet(U) /\ \A x \in U : g[x] \in Int
    BY <1>1, FS_Subset
  <2> QED BY <2>1 DEF Addends
<1>3. Total(g, T) \in Nat
  <2>1. Addends(g, T) /\ \A x \in T : g[x] \in Nat
    BY <1>1, <1>2
  <2> QED BY <2>1, TotalGrows
<1>4. ASSUME NEW i \in S \ T PROVE Total(g, T \cup {i}) = Total(g, T) + Duration(m, i)
  <2>1. T \cup {i} \in SUBSET S
    OBVIOUS
  <2>2. Addends(g, T \cup {i})
    <3> DEFINE U == T \cup {i}
    <3> HIDE DEF U
    <3> QED BY <1>2, <2>1 DEF U
  <2>3. Total(g, T \cup {i}) = Total(g, T) + g[i]
    BY <2>2, TotalWith
  <2> QED BY <1>1, <2>3
<1> QED BY <1>3, <1>4 DEF WorkOf, g

(* A turn adds the days of its item to the work, and to one lane at most.   *)
LEMMA TurnIsWorked ==
    ASSUME NEW m, NEW S, IsFiniteSet(S), S \subseteq DOMAIN m, \A j \in S : Duration(m, j) \in Nat,
           NEW L \in Nat \ {0}, NEW s, NEW t, NEW i,
           Between(m, S, L, s, t, i), Orderly(m, S, L, s), Worked(m, L, s)
    PROVE  Worked(m, L, t)
<1> DEFINE lane == FirstFree(s.free)
           T == DOMAIN s.at
           w == WorkOf(m, T)
           x == WorkOf(m, DOMAIN t.at)
           dur == Duration(m, i)
<1>1. /\ lane \in 1..L /\ \A l \in 1..L : s.free[l] \in Nat
      /\ DOMAIN t.at = T \cup {i}
      /\ \A j \in T : s.at[j].end \in Nat /\ s.at[j].lane \in 1..L
      /\ t.at[i].start \in Nat /\ t.at[i].end = t.at[i].start + dur
      /\ t.free[lane] = t.at[i].end
      /\ \A l \in 1..L : l # lane => t.free[l] = s.free[l]
      /\ StartsAt(m, s, i, t.at[i].start)
  <2>1. Moved(m, L, s, t, i)
    BY TurnPlaces
  <2> QED BY <2>1 DEF Moved
<1>2. T \in SUBSET S /\ i \in S \ T /\ dur \in Nat
  BY PlacementIs DEF Between
<1>3. w \in Nat /\ x = w + dur
  <2>1. WorkOf(m, T) \in Nat /\ WorkOf(m, T \cup {i}) = WorkOf(m, T) + dur
    <3> HIDE DEF T
    <3> QED BY <1>2, WorkAddsUp
  <2> QED BY <1>1, <2>1
<1>4. \A l \in 1..L : s.free[l] <= w
  BY DEF Worked
<1>5. L = 1 => s.free[1] = w
  BY DEF Worked
<1>6. \A j \in T : s.at[j].end <= s.free[s.at[j].lane]
  BY DEF Orderly
<1>7. /\ s.free[lane] <= t.at[i].start
      /\ \A b \in Nat : s.free[lane] <= b /\ (\A d \in m[i].deps \cap T : s.at[d].end <= b)
           => t.at[i].start <= b
  BY <1>1 DEF StartsAt
<1> HIDE DEF lane, T, w, x, dur
<1>8. t.at[i].start <= w
  <2>1. \A d \in m[i].deps \cap T : s.at[d].end <= w
    <3> SUFFICES ASSUME NEW d \in m[i].deps \cap T PROVE s.at[d].end <= w
      OBVIOUS
    <3>1. s.at[d].end \in Nat /\ s.at[d].end <= s.free[s.at[d].lane] /\ s.at[d].lane \in 1..L
      BY <1>1, <1>6
    <3>2. s.free[s.at[d].lane] <= w /\ s.free[s.at[d].lane] \in Nat
      BY <1>1, <1>4, <3>1
    <3> QED BY <1>3, <3>1, <3>2
  <2> QED BY <1>1, <1>3, <1>4, <1>7, <2>1
<1>9. \A l \in 1..L : t.free[l] <= x
  <2> SUFFICES ASSUME NEW l \in 1..L PROVE t.free[l] <= x
    OBVIOUS
  <2>1. CASE l = lane
    <3>1. t.free[l] = t.at[i].start + dur
      BY <1>1, <2>1
    <3> QED BY <1>1, <1>2, <1>3, <1>8, <3>1
  <2>2. CASE l # lane
    <3>1. t.free[l] = s.free[l] /\ s.free[l] <= w /\ s.free[l] \in Nat
      BY <1>1, <1>4, <2>2
    <3> QED BY <1>2, <1>3, <3>1
  <2> QED BY <2>1, <2>2
<1>10. ASSUME L = 1 PROVE t.free[1] = x
  <2>1. lane = 1 /\ s.free[1] = w
    BY <1>1, <1>5, <1>10
  <2>2. t.at[i].start = w
    BY <1>1, <1>3, <1>7, <1>8, <2>1
  <2>3. t.free[1] = w + dur
    BY <1>1, <2>1, <2>2
  <2> QED BY <1>3, <2>3
<1> QED BY <1>9, <1>10 DEF Worked, x

(* So it is at the end of a schedule. *)
LEMMA SchedulesAreWorked ==
    ASSUME NEW m, Sprintable(m), NEW L \in Nat \ {0}
    PROVE  Worked(m, L, LaidOut(m, L, LastPlace(m))) /\ WorkOf(m, Schedulable(m)) \in Nat
<1> DEFINE S == Schedulable(m)
           o == PlacingOrder(m)
           n == LastPlace(m)
           s(k) == LaidOut(m, L, k)
           G == {k \in 0..n : Worked(m, L, s(k))}
<1>1. n \in Nat /\ IsFiniteSet(S) /\ s(0) = NonePlaced(L)
  BY LaidTurns
<1>2. S \subseteq DOMAIN m /\ \A j \in S : Duration(m, j) \in Nat
  BY DurationsArePositive DEF Schedulable, Sprintable, Durations
<1>3. Worked(m, L, s(0))
  <2> DEFINE a == s(0)
  <2>1. a.at = <<>> /\ a.free = [l \in 1..L |-> 0]
    <3>1. a = NonePlaced(L)
      BY <1>1
    <3> HIDE DEF a
    <3> QED BY <3>1 DEF NonePlaced
  <2> HIDE DEF a
  <2>2. DOMAIN a.at = {}
    BY <2>1
  <2>3. WorkOf(m, {}) = 0
    BY TotalOfNone DEF WorkOf
  <2>4. \A l \in 1..L : a.free[l] = 0
    BY <2>1
  <2>5. L = 1 => a.free[1] = 0
    BY <2>4
  <2>6. WorkOf(m, DOMAIN a.at) = 0
    BY <2>2, <2>3
  <2>7. Worked(m, L, a)
    BY <2>4, <2>5, <2>6 DEF Worked
  <2> QED BY <2>7 DEF a
<1>4. ASSUME NEW k \in 1..n, Worked(m, L, s(k - 1)) PROVE Worked(m, L, s(k))
  <2> DEFINE i == o[k]
             a == s(k - 1)
             b == s(k)
  <2>1. k - 1 \in 0..n
    BY <1>1
  <2>2. Between(m, S, L, a, b, i) /\ Orderly(m, S, L, a)
    BY <2>1, SchedulesGrow, SchedulesAreOrderly
  <2>3. Worked(m, L, a)
    BY <1>4
  <2> HIDE DEF i, a, b, S
  <2>4. Worked(m, L, b)
    BY <1>1, <1>2, <2>2, <2>3, TurnIsWorked
  <2> QED BY <2>4 DEF b
<1>5. 0 \in G /\ \A k \in 1..n : k - 1 \in G => k \in G
  <2> HIDE DEF s
  <2> QED BY <1>1, <1>3, <1>4
<1>6. n \in G
  <2>1. \A k \in 0..n : k \in G
    <3> HIDE DEF G
    <3> QED BY <1>1, <1>5, TurnByTurn
  <2> QED BY <1>1, <2>1
<1>7. WorkOf(m, S) \in Nat
  <2>1. S \in SUBSET S
    OBVIOUS
  <2> HIDE DEF S
  <2> QED BY <1>1, <1>2, <2>1, WorkAddsUp
<1> QED BY <1>6, <1>7

-----------------------------------------------------------------------------
(* The critical path.  While there is a lane for each item, an item waits   *)
(* for nothing but what it depends on.                                      *)
EndsNeeded(m, S, at, j) == {0} \cup {at[d].end : d \in m[j].deps \cap S}
Busy(L, s) == {l \in 1..L : s.free[l] # 0}
Uncrowded(m, S, L, s, k) ==
    /\ Cardinality(Busy(L, s)) <= k
    /\ \A j \in DOMAIN s.at : s.at[j].end = Duration(m, j) + Max(EndsNeeded(m, S, s.at, j))

(* With a lane to spare, one is free from the first day. *)
LEMMA OneLaneIsFree ==
    ASSUME NEW S, NEW L \in Nat \ {0}, NEW s \in Placements(S, L), NEW k \in Nat,
           Cardinality(Busy(L, s)) <= k, k < L
    PROVE  s.free[FirstFree(s.free)] = 0
<1> DEFINE N == 1..L
           B == Busy(L, s)
<1>1. IsFiniteSet(N) /\ Cardinality(N) = L
  BY FS_Interval
<1>2. B # N
  <2> HIDE DEF B, N
  <2> QED BY <1>1 DEF B
<1>3. B \subseteq N
  BY DEF Busy
<1>4. PICK l \in N : l \notin B
  BY <1>2, <1>3
<1>5. s.free[l] = 0
  BY <1>4 DEF Busy
<1>6. s.free[FirstFree(s.free)] <= s.free[l] /\ s.free[FirstFree(s.free)] \in Nat
  BY <1>4, PlacementIs
<1> QED BY <1>5, <1>6

(* A turn with a lane to spare makes the item wait for nothing else. *)
LEMMA TurnIsUncrowded ==
    ASSUME NEW m, NEW S, IsFiniteSet(S), NEW L \in Nat \ {0}, NEW s, NEW t, NEW i, NEW k \in Nat, k # 0,
           Between(m, S, L, s, t, i), Orderly(m, S, L, s), Uncrowded(m, S, L, s, k - 1), k <= L
    PROVE  Uncrowded(m, S, L, t, k)
<1> DEFINE lane == FirstFree(s.free)
           T == DOMAIN s.at
           A == Busy(L, s)
           B == Busy(L, t)
<1>0. k - 1 \in Nat /\ k - 1 < L /\ s \in Placements(S, L)
  BY DEF Between
<1>1. s.free[lane] = 0
  <2>1. Cardinality(A) <= k - 1
    BY DEF Uncrowded
  <2> HIDE DEF lane
  <2> QED BY <1>0, <2>1, OneLaneIsFree DEF lane
<1>2. /\ lane \in 1..L
      /\ DOMAIN t.at = T \cup {i}
      /\ \A j \in T : t.at[j] = s.at[j]
      /\ t.at[i].end = t.at[i].start + Duration(m, i)
      /\ \A l \in 1..L : l # lane => t.free[l] = s.free[l]
      /\ StartsAt(m, s, i, t.at[i].start)
  <2>1. Moved(m, L, s, t, i)
    BY TurnPlaces
  <2> QED BY <2>1 DEF Moved
<1>3. T \in SUBSET S /\ i \notin T /\ m[i].deps \cap S \subseteq T /\ Duration(m, i) \in Nat
  BY PlacementIs DEF Between
<1>4. \A j \in T : m[j].deps \cap S \subseteq T
  BY DEF Orderly
<1>5. \A j \in T : s.at[j].end = Duration(m, j) + Max(EndsNeeded(m, S, s.at, j))
  BY DEF Uncrowded
<1>6. ASSUME NEW j \in T \cup {i} PROVE EndsNeeded(m, S, t.at, j) = EndsNeeded(m, S, s.at, j)
  <2>1. m[j].deps \cap S \subseteq T
    BY <1>3, <1>4
  <2> HIDE DEF T
  <2> QED BY <1>2, <2>1 DEF EndsNeeded
<1>7. t.at[i].start = Max(EndsBefore(m, s, i)) /\ t.at[i].start \in Nat
  BY <1>1, <1>2 DEF StartsAt
<1>8. EndsBefore(m, s, i) = EndsNeeded(m, S, s.at, i)
  <2>1. m[i].deps \cap S = m[i].deps \cap DOMAIN s.at
    BY <1>3
  <2> QED BY <2>1 DEF EndsBefore, EndsNeeded
<1>9. \A j \in T \cup {i} : t.at[j].end = Duration(m, j) + Max(EndsNeeded(m, S, t.at, j))
  <2> SUFFICES ASSUME NEW j \in T \cup {i}
               PROVE  t.at[j].end = Duration(m, j) + Max(EndsNeeded(m, S, t.at, j))
    OBVIOUS
  <2>1. CASE j \in T
    BY <1>2, <1>5, <1>6, <2>1
  <2>2. CASE j = i
    <3>1. Max(EndsNeeded(m, S, t.at, j)) = t.at[i].start
      BY <1>6, <1>7, <1>8, <2>2
    <3>2. t.at[j].end = t.at[i].start + Duration(m, i)
      BY <1>2, <2>2
    <3> DEFINE x == Max(EndsNeeded(m, S, t.at, j))
               y == t.at[i].start
               d == Duration(m, i)
               z == t.at[j].end
    <3>3. x = y /\ z = y + d /\ y \in Nat /\ d \in Nat
      BY <1>3, <1>7, <3>1, <3>2
    <3> HIDE DEF x, y, d, z
    <3>4. z = d + x
      BY <3>3
    <3> QED BY <2>2, <3>4 DEF x, d, z
  <2> QED BY <2>1, <2>2
<1>10. Cardinality(B) <= k
  <2>1. A \in SUBSET (1..L) /\ B \in SUBSET (A \cup {lane})
    BY <1>2 DEF Busy
  <2>2. Cardinality(A) <= k - 1
    BY DEF Uncrowded
  <2> HIDE DEF A, B, lane
  <2>3. IsFiniteSet(A) /\ Cardinality(A) \in Nat
    <3>1. IsFiniteSet(1..L)
      BY FS_Interval
    <3>2. IsFiniteSet(A)
      BY <2>1, <3>1, FS_Subset
    <3> QED BY <3>2, FS_CardinalityType
  <2>4. IsFiniteSet(A \cup {lane}) /\ Cardinality(A \cup {lane}) <= Cardinality(A) + 1
        /\ Cardinality(A \cup {lane}) \in Nat
    <3> DEFINE C == A \cup {lane}
    <3>1. IsFiniteSet(C) /\ Cardinality(C) = IF lane \in A THEN Cardinality(A) ELSE Cardinality(A) + 1
      BY <2>3, FS_AddElement
    <3> HIDE DEF C
    <3>2. Cardinality(C) \in Nat
      BY <3>1, FS_CardinalityType
    <3> QED BY <2>3, <3>1, <3>2 DEF C
  <2>5. Cardinality(B) <= Cardinality(A \cup {lane}) /\ Cardinality(B) \in Nat
    BY <2>1, <2>4, FS_Subset, FS_CardinalityType
  <2> QED BY <1>0, <2>2, <2>3, <2>4, <2>5
<1> QED BY <1>2, <1>9, <1>10 DEF Uncrowded

(* With a lane for each item, every item waits for nothing else. *)
LEMMA UncrowdedSchedules ==
    ASSUME NEW m, Sprintable(m), NEW L \in Nat \ {0}, Cardinality(Schedulable(m)) <= L
    PROVE  \A j \in Schedulable(m) :
              Placed(m, L)[j].end = Duration(m, j) + Max(EndsNeeded(m, Schedulable(m), Placed(m, L), j))
<1> DEFINE S == Schedulable(m)
           o == PlacingOrder(m)
           n == LastPlace(m)
           s(k) == LaidOut(m, L, k)
           G == {k \in 0..n : Uncrowded(m, S, L, s(k), k)}
<1>1. /\ n \in Nat /\ n <= L /\ IsFiniteSet(S) /\ s(0) = NonePlaced(L)
      /\ Placed(m, L) = s(n).at /\ Earlier(o, n) = S
  BY LaidTurns
<1>2. Uncrowded(m, S, L, s(0), 0)
  <2> DEFINE a == s(0)
  <2>1. a.at = <<>> /\ a.free = [l \in 1..L |-> 0]
    <3>1. a = NonePlaced(L)
      BY <1>1
    <3> HIDE DEF a
    <3> QED BY <3>1 DEF NonePlaced
  <2> HIDE DEF a
  <2>2. DOMAIN a.at = {} /\ Busy(L, a) = {}
    BY <2>1 DEF Busy
  <2>3. Uncrowded(m, S, L, a, 0)
    BY <2>2, FS_EmptySet DEF Uncrowded
  <2> QED BY <2>3 DEF a
<1>3. ASSUME NEW k \in 1..n, Uncrowded(m, S, L, s(k - 1), k - 1) PROVE Uncrowded(m, S, L, s(k), k)
  <2> DEFINE i == o[k]
             a == s(k - 1)
             b == s(k)
  <2>1. k - 1 \in 0..n /\ k \in Nat /\ k # 0 /\ k <= L
    BY <1>1
  <2>2. Between(m, S, L, a, b, i) /\ Orderly(m, S, L, a)
    BY <2>1, SchedulesGrow, SchedulesAreOrderly
  <2>3. Uncrowded(m, S, L, a, k - 1)
    BY <1>3
  <2> HIDE DEF i, a, b, S
  <2>4. Uncrowded(m, S, L, b, k)
    BY <1>1, <2>1, <2>2, <2>3, TurnIsUncrowded
  <2> QED BY <2>4 DEF b
<1>4. 0 \in G /\ \A k \in 1..n : k - 1 \in G => k \in G
  <2> HIDE DEF s
  <2> QED BY <1>1, <1>2, <1>3
<1>5. n \in G /\ n \in 0..n
  <2>1. \A k \in 0..n : k \in G
    <3> HIDE DEF G
    <3> QED BY <1>1, <1>4, TurnByTurn
  <2> QED BY <1>1, <2>1
<1>6. DOMAIN s(n).at = S
  <2>1. DOMAIN s(n).at = Earlier(o, n)
    BY <1>5, SchedulesAreOrderly
  <2> QED BY <1>1, <2>1
<1> HIDE DEF s, S
<1>7. \A j \in S : s(n).at[j].end = Duration(m, j) + Max(EndsNeeded(m, S, s(n).at, j))
  BY <1>5, <1>6 DEF Uncrowded
<1> QED BY <1>1, <1>7 DEF S

(* The greatest of finitely many numbers, or zero. *)
Peak(x, v, D) == x \in Nat /\ (\A d \in D : v[d] <= x) /\ (x = 0 \/ \E d \in D : x = v[d])
Heights(v, D) == {0} \cup {v[d] : d \in D}

(* That is what Max gives.                                                  *)
LEMMA PeakIs ==
    ASSUME NEW D, IsFiniteSet(D), NEW v, \A d \in D : v[d] \in Nat
    PROVE  Peak(Max(Heights(v, D)), v, D)
<1> DEFINE W == {v[d] : d \in D}
           E == Heights(v, D)
           f == [d \in D |-> v[d]]
<1>1. IsFiniteSet(W)
  <2>1. IsFiniteSet({f[d] : d \in D})
    <3>1. f = [d \in D |-> f[d]]
      OBVIOUS
    <3> HIDE DEF f
    <3> QED BY <3>1, ValuesAreFinite
  <2>2. {f[d] : d \in D} = W
    OBVIOUS
  <2> QED BY <2>1, <2>2
<1>2. E = W \cup {0} /\ W \in SUBSET Nat
  BY DEF Heights
<1>3. E \in SUBSET Int /\ IsFiniteSet(E) /\ E # {}
  <2> HIDE DEF W, E
  <2>1. IsFiniteSet(W \cup {0})
    BY <1>1, FS_AddElement
  <2> QED BY <1>2, <2>1
<1> DEFINE x == Max(E)
<1>4. x \in E /\ \A y \in E : x >= y
  <2> HIDE DEF E
  <2> QED BY <1>3, MaxIs
<1>5. x \in Nat /\ (x = 0 \/ \E d \in D : x = v[d])
  <2> HIDE DEF x
  <2> QED BY <1>2, <1>4
<1>6. \A d \in D : v[d] <= x
  <2> SUFFICES ASSUME NEW d \in D PROVE v[d] <= x
    OBVIOUS
  <2>1. v[d] \in E
    BY <1>2
  <2> HIDE DEF x, E
  <2> QED BY <1>4, <1>5, <2>1
<1> QED BY <1>5, <1>6 DEF Peak

(* When the placed items end. *)
EndsOf(at) == [i \in DOMAIN at |-> at[i].end]

(* The end of a schedule is the last of the ends. *)
LEMMA FinishIs ==
    ASSUME NEW at, IsFiniteSet(DOMAIN at), \A i \in DOMAIN at : at[i].end \in Nat
    PROVE  Finish(at) = Max(Heights(EndsOf(at), DOMAIN at)) /\ Peak(Finish(at), EndsOf(at), DOMAIN at)
<1> DEFINE v == EndsOf(at)
           D == DOMAIN at
<1>1. \A i \in D : v[i] = at[i].end /\ v[i] \in Nat
  BY DEF EndsOf
<1>2. {at[i].end : i \in D} = {v[i] : i \in D}
  <2> HIDE DEF v, D
  <2> QED BY <1>1
<1>3. Finish(at) = Max(Heights(v, D))
  BY <1>2 DEF Finish, Heights
<1> HIDE DEF v, D
<1>4. Peak(Max(Heights(v, D)), v, D)
  BY <1>1, PeakIs DEF D
<1> QED BY <1>3, <1>4 DEF v, D

(* The days of the longest chain up to each item.                           *)
DaysFor(m, f, i) == Duration(m, i) + Max(Heights(f, m[i].deps \cap Schedulable(m)))
DaysAt(m) == CHOOSE f : f = [i \in Schedulable(m) |-> DaysFor(m, f, i)]

(* The critical path is as long as the longest chain.                       *)
LEMMA CriticalDaysAre ==
    ASSUME NEW m
    PROVE  CriticalDays(m) = Max(Heights(DaysAt(m), Schedulable(m)))
BY DEF CriticalDays, DaysAt, DaysFor, Heights

(* What is said of a finished placement. *)
Finished(m, L, at) ==
    LET S == Schedulable(m)
    IN  /\ DOMAIN at = S
        /\ \A i \in S : at[i].start \in Nat /\ at[i].end = at[i].start + Duration(m, i)
                        /\ Duration(m, i) \in Nat \ {0} /\ at[i].end \in Nat
        /\ \A i \in S : \A d \in m[i].deps \cap S : at[d].end <= at[i].start
        /\ \A i, j \in S : i # j /\ at[i].lane = at[j].lane =>
              at[i].end <= at[j].start \/ at[j].end <= at[i].start
        /\ \A i \in S : at[i].end <= WorkOf(m, S)
        /\ L = 1 => WorkOf(m, S) = 0 \/ \E i \in S : at[i].end = WorkOf(m, S)

(* A schedule that placed all open items is finished in that sense.         *)
LEMMA PlacedIsFinished ==
    ASSUME NEW m, Sprintable(m), NEW L \in Nat \ {0}
    PROVE  Finished(m, L, Placed(m, L)) /\ WorkOf(m, Schedulable(m)) \in Nat
<1> DEFINE S == Schedulable(m)
           n == LastPlace(m)
           s == LaidOut(m, L, n)
           w == WorkOf(m, S)
<1>1. n \in Nat /\ s \in Placements(S, L) /\ Placed(m, L) = s.at /\ Earlier(PlacingOrder(m), n) = S
  <2>1. n \in Nat
    BY LaidTurns
  <2>2. n \in 0..n
    BY <2>1
  <2> QED BY <2>2, LaidTurns
<1>2. Orderly(m, S, L, s) /\ DOMAIN s.at = S
  <2>1. n \in 0..n
    BY <1>1
  <2> QED BY <1>1, <2>1, SchedulesAreOrderly
<1>3. Worked(m, L, s) /\ w \in Nat
  BY SchedulesAreWorked
<1> HIDE DEF S, n, s, w
<1>4. \A j \in S : s.at[j].start \in Nat /\ s.at[j].end \in Nat /\ s.at[j].lane \in 1..L
  BY <1>1, <1>2, PlacementIs
<1>5. \A l \in 1..L : s.free[l] \in Nat
  <2>1. s.free \in [1..L -> Nat]
    BY <1>1, PlacementIs
  <2> QED BY <2>1
<1>6. /\ \A j \in S : s.at[j].end = s.at[j].start + Duration(m, j) /\ Duration(m, j) \in Nat \ {0}
      /\ \A j \in S : \A d \in m[j].deps \cap S : s.at[d].end <= s.at[j].start
      /\ \A j \in S : s.at[j].end <= s.free[s.at[j].lane]
      /\ \A j, k \in S : j # k /\ s.at[j].lane = s.at[k].lane =>
              s.at[j].end <= s.at[k].start \/ s.at[k].end <= s.at[j].start
      /\ \A l \in 1..L : s.free[l] = 0 \/ \E j \in S : s.at[j].end = s.free[l]
  BY <1>2 DEF Orderly
<1>7. /\ \A l \in 1..L : s.free[l] <= w
      /\ L = 1 => s.free[1] = w
  BY <1>2, <1>3 DEF Worked, w
<1>8. \A i \in S : s.at[i].end <= w
  <2> SUFFICES ASSUME NEW i \in S PROVE s.at[i].end <= w
    OBVIOUS
  <2>1. s.at[i].end <= s.free[s.at[i].lane] /\ s.free[s.at[i].lane] <= w
        /\ s.free[s.at[i].lane] \in Nat /\ s.at[i].end \in Nat
    BY <1>4, <1>5, <1>6, <1>7
  <2> QED BY <1>3, <2>1
<1>9. L = 1 => w = 0 \/ \E i \in S : s.at[i].end = w
  BY <1>6, <1>7
<1>10. Finished(m, L, s.at)
  BY <1>2, <1>4, <1>6, <1>8, <1>9 DEF Finished, S, w
<1> QED BY <1>1, <1>3, <1>10 DEF S, w

(* In a backlog without a cycle every item has its days: the ends of a      *)
(* schedule that has a lane to spare show them.                             *)
LEMMA DaysAre ==
    ASSUME NEW m, Sprintable(m)
    PROVE  \A i \in Schedulable(m) : DaysAt(m)[i] = DaysFor(m, DaysAt(m), i)
<1> DEFINE S == Schedulable(m)
           L == Cardinality(S) + 1
           at == Placed(m, L)
           f == [i \in S |-> at[i].end]
           days == DaysAt(m)
<1>1. L \in Nat \ {0} /\ Cardinality(S) <= L
  <2>1. IsFiniteSet(S)
    BY LaidTurns
  <2>2. Cardinality(S) \in Nat
    BY <2>1, FS_CardinalityType
  <2> QED BY <2>2
<1> HIDE DEF L
<1>2. \A j \in S : at[j].end = Duration(m, j) + Max(EndsNeeded(m, S, at, j))
  BY <1>1, UncrowdedSchedules
<1> HIDE DEF at, S
<1>3. \A j \in S : EndsNeeded(m, S, at, j) = Heights(f, m[j].deps \cap S)
  BY DEF EndsNeeded, Heights
<1>4. \A j \in S : f[j] = DaysFor(m, f, j)
  <2> SUFFICES ASSUME NEW j \in S PROVE f[j] = DaysFor(m, f, j)
    OBVIOUS
  <2>1. f[j] = at[j].end
    OBVIOUS
  <2> HIDE DEF f
  <2> QED BY <1>2, <1>3, <2>1 DEF DaysFor, S
<1>5. f = [i \in S |-> DaysFor(m, f, i)]
  <2>1. f = [i \in S |-> f[i]]
    OBVIOUS
  <2> HIDE DEF f
  <2> QED BY <1>4, <2>1
<1> HIDE DEF f
<1>6. days = [i \in S |-> DaysFor(m, days, i)]
  <2>1. \E g : g = [i \in S |-> DaysFor(m, g, i)]
    BY <1>5
  <2> QED BY <2>1 DEF DaysAt, S
<1>7. \A i \in S : days[i] = DaysFor(m, days, i)
  <2> HIDE DEF days
  <2> QED BY <1>6
<1> QED BY <1>7 DEF S

(* The item of each turn needs only items of turns before. *)
LEMMA DepsAreEarlier ==
    ASSUME NEW m, Sprintable(m), NEW P \in SUBSET Schedulable(m), P # {}
    PROVE  \E i \in P : m[i].deps \cap P = {}
<1>1. P \in SUBSET DOMAIN m
  BY DEF Schedulable
<1> QED BY <1>1 DEF Sprintable, Cyclic

(* With a lane for each item, every item ends after its days. *)
LEMMA UncrowdedIsCritical ==
    ASSUME NEW m, Sprintable(m), NEW L \in Nat \ {0}, Cardinality(Schedulable(m)) <= L
    PROVE  \A i \in Schedulable(m) : DaysAt(m)[i] = Placed(m, L)[i].end
<1> DEFINE S == Schedulable(m)
           at == Placed(m, L)
           days == DaysAt(m)
           P == {i \in S : days[i] # at[i].end}
<1>1. \A i \in S : days[i] = DaysFor(m, days, i)
  BY DaysAre
<1>2. \A j \in S : at[j].end = Duration(m, j) + Max(EndsNeeded(m, S, at, j))
  BY UncrowdedSchedules
<1>3. P = {}
  <2> SUFFICES ASSUME P # {} PROVE FALSE
    OBVIOUS
  <2>1. PICK i \in P : m[i].deps \cap P = {}
    <3>1. P \in SUBSET S
      OBVIOUS
    <3> HIDE DEF P
    <3> QED BY <3>1, DepsAreEarlier
  <2>2. i \in S /\ \A d \in m[i].deps \cap S : days[d] = at[d].end
    BY <2>1
  <2> HIDE DEF at, days, S
  <2>3. EndsNeeded(m, S, at, i) = Heights(days, m[i].deps \cap S)
    BY <2>2 DEF EndsNeeded, Heights
  <2>4. days[i] = at[i].end
    BY <1>1, <1>2, <2>2, <2>3 DEF DaysFor, S
  <2> QED BY <2>1, <2>4
<1> QED BY <1>3

(* With any number of lanes, none ends sooner. *)
LEMMA NothingBeatsTheCriticalPath ==
    ASSUME NEW m, Sprintable(m), NEW L \in Nat \ {0}
    PROVE  \A i \in Schedulable(m) : DaysAt(m)[i] \in Nat /\ DaysAt(m)[i] <= Placed(m, L)[i].end
<1> DEFINE S == Schedulable(m)
           at == Placed(m, L)
           days == DaysAt(m)
           P == {i \in S : ~(days[i] <= at[i].end)}
<1>1. \A i \in S : days[i] = DaysFor(m, days, i)
  BY DaysAre
<1>2. IsFiniteSet(S) /\ \A i \in S : days[i] \in Nat
  <2> DEFINE M == Cardinality(S) + 1
  <2>1. IsFiniteSet(S)
    BY LaidTurns
  <2>2. Cardinality(S) \in Nat
    BY <2>1, FS_CardinalityType
  <2>3. M \in Nat \ {0} /\ Cardinality(S) <= M
    BY <2>2
  <2> HIDE DEF M
  <2>4. \A i \in S : days[i] = Placed(m, M)[i].end
    BY <2>3, UncrowdedIsCritical
  <2>5. Finished(m, M, Placed(m, M))
    BY <2>3, PlacedIsFinished
  <2>6. \A i \in S : Placed(m, M)[i].end \in Nat
    BY <2>5 DEF Finished
  <2> QED BY <2>1, <2>4, <2>6
<1>3. /\ \A i \in S : at[i].start \in Nat /\ at[i].end = at[i].start + Duration(m, i)
                      /\ Duration(m, i) \in Nat /\ at[i].end \in Nat
      /\ \A i \in S : \A d \in m[i].deps \cap S : at[d].end <= at[i].start
  <2>1. Finished(m, L, at)
    BY PlacedIsFinished
  <2> HIDE DEF at
  <2> QED BY <2>1 DEF Finished
<1>4. P = {}
  <2> SUFFICES ASSUME P # {} PROVE FALSE
    OBVIOUS
  <2>1. PICK i \in P : m[i].deps \cap P = {}
    <3>1. P \in SUBSET S
      OBVIOUS
    <3> HIDE DEF P
    <3> QED BY <3>1, DepsAreEarlier
  <2> DEFINE D == m[i].deps \cap S
             x == Max(Heights(days, D))
  <2>2. i \in S /\ \A d \in D : days[d] <= at[d].end
    BY <2>1
  <2> HIDE DEF at, days
  <2>3. IsFiniteSet(D) /\ \A d \in D : days[d] \in Nat
    <3>1. D \in SUBSET S
      OBVIOUS
    <3> HIDE DEF D, S
    <3> QED BY <1>2, <3>1, FS_Subset
  <2>4. days[i] = Duration(m, i) + x
    BY <1>1, <2>2 DEF DaysFor
  <2> HIDE DEF D
  <2>5. x \in Nat /\ (x = 0 \/ \E d \in D : x = days[d])
    BY <2>3, PeakIs DEF Peak
  <2> HIDE DEF x
  <2>6. x <= at[i].start
    <3>1. CASE x = 0
      BY <1>3, <2>2, <3>1
    <3>2. CASE x # 0
      <4>1. PICK d \in D : x = days[d]
        BY <2>5, <3>2
      <4>2. days[d] <= at[d].end /\ at[d].end <= at[i].start /\ d \in S
        BY <1>3, <2>2 DEF D
      <4> QED BY <1>3, <2>2, <2>5, <4>1, <4>2
    <3> QED BY <3>1, <3>2
  <2>7. days[i] <= at[i].end
    BY <1>3, <2>2, <2>4, <2>5, <2>6
  <2> QED BY <2>1, <2>7
<1> QED BY <1>2, <1>4

(* What one schedule promises.                                              *)
SoundSchedule(m, L) ==
    LET S == Schedulable(m)
        work == FoldSet(LAMBDA i, sum : sum + Duration(m, i), 0, S)
        at == Placed(m, L)
        more == Placed(m, L + 1)
    IN  /\ DOMAIN at = S
        /\ \A i \in S : \A d \in m[i].deps \cap S : at[d].end <= at[i].start
        /\ \A i, j \in S : i # j /\ at[i].lane = at[j].lane =>
              at[i].end <= at[j].start \/ at[j].end <= at[i].start
        /\ \A i \in S : more[i].start <= at[i].start
        /\ Finish(at) \in CriticalDays(m)..work
        /\ L = 1 => Finish(at) = work
        /\ L >= Cardinality(S) => Finish(at) = CriticalDays(m)

(* It keeps them. *)
LEMMA PlacedIsSound ==
    ASSUME NEW m, Sprintable(m), NEW L \in Nat \ {0}
    PROVE  SoundSchedule(m, L)
<1> DEFINE S == Schedulable(m)
           work == FoldSet(LAMBDA i, sum : sum + Duration(m, i), 0, S)
           w == WorkOf(m, S)
           at == Placed(m, L)
           more == Placed(m, L + 1)
           days == DaysAt(m)
           v == EndsOf(at)
           end == Finish(at)
           crit == CriticalDays(m)
<1>1. work = w
  <2>1. S \in SUBSET DOMAIN m
    BY DEF Schedulable
  <2> HIDE DEF S
  <2> QED BY <2>1, WorkIsTotal
<1>2. Finished(m, L, at) /\ w \in Nat
  BY PlacedIsFinished
<1>3. \A i \in S : more[i].start <= at[i].start
  BY LanesHelp
<1>4. \A i \in S : days[i] \in Nat /\ days[i] <= at[i].end
  BY NothingBeatsTheCriticalPath
<1>5. L >= Cardinality(S) => \A i \in S : days[i] = at[i].end
  <2> SUFFICES ASSUME L >= Cardinality(S) PROVE \A i \in S : days[i] = at[i].end
    OBVIOUS
  <2>1. IsFiniteSet(S)
    BY LaidTurns
  <2>2. Cardinality(S) \in Nat
    BY <2>1, FS_CardinalityType
  <2>3. Cardinality(S) <= L
    BY <2>2
  <2> QED BY <2>3, UncrowdedIsCritical
<1>6. IsFiniteSet(S)
  BY LaidTurns
<1>7. crit = Max(Heights(days, S))
  BY CriticalDaysAre
<1> HIDE DEF at, more, days, w, work, S
<1>8. /\ DOMAIN at = S
      /\ \A i \in S : at[i].end \in Nat
      /\ \A i \in S : \A d \in m[i].deps \cap S : at[d].end <= at[i].start
      /\ \A i, j \in S : i # j /\ at[i].lane = at[j].lane =>
              at[i].end <= at[j].start \/ at[j].end <= at[i].start
      /\ \A i \in S : at[i].end <= w
      /\ L = 1 => w = 0 \/ \E i \in S : at[i].end = w
  BY <1>2 DEF Finished, S, w
<1>9. \A i \in S : v[i] = at[i].end
  BY <1>8 DEF EndsOf
<1>10. end = Max(Heights(v, S)) /\ Peak(end, v, S)
  <2>1. Finish(at) = Max(Heights(EndsOf(at), DOMAIN at)) /\ Peak(Finish(at), EndsOf(at), DOMAIN at)
    BY <1>6, <1>8, FinishIs
  <2> QED BY <1>8, <2>1
<1>11. Peak(crit, days, S)
  <2> HIDE DEF crit
  <2> QED BY <1>4, <1>6, <1>7, PeakIs
<1> HIDE DEF end, crit, v
<1>12. end \in Nat /\ (\A d \in S : at[d].end <= end) /\ (end = 0 \/ \E d \in S : end = at[d].end)
  BY <1>9, <1>10 DEF Peak
<1>13. crit \in Nat /\ (crit = 0 \/ \E d \in S : crit = days[d])
  BY <1>11 DEF Peak
<1>14. end <= w
  BY <1>2, <1>8, <1>12
<1>15. crit <= end
  <2>1. CASE crit = 0
    BY <1>12, <2>1
  <2>2. CASE crit # 0
    <3>1. PICK d \in S : crit = days[d]
      BY <1>13, <2>2
    <3>2. days[d] <= at[d].end /\ at[d].end <= end /\ days[d] \in Nat /\ at[d].end \in Nat
      BY <1>4, <1>8, <1>12
    <3> QED BY <1>12, <3>1, <3>2
  <2> QED BY <2>1, <2>2
<1>16. L = 1 => end = w
  <2> SUFFICES ASSUME L = 1 PROVE end = w
    OBVIOUS
  <2>1. w <= end
    <3>1. CASE w = 0
      BY <1>12, <3>1
    <3>2. CASE w # 0
      BY <1>8, <1>12, <3>2
    <3> QED BY <3>1, <3>2
  <2> QED BY <1>2, <1>12, <1>14, <2>1
<1>17. L >= Cardinality(S) => end = crit
  <2> SUFFICES ASSUME L >= Cardinality(S) PROVE end = crit
    OBVIOUS
  <2>1. \A i \in S : days[i] = v[i]
    BY <1>5, <1>9
  <2>2. Heights(days, S) = Heights(v, S)
    BY <2>1 DEF Heights
  <2> QED BY <1>7, <1>10, <2>2
<1>18. end \in crit..w
  BY <1>2, <1>12, <1>13, <1>14, <1>15
<1>19. end \in crit..work /\ (L = 1 => end = work)
  BY <1>1, <1>16, <1>18
<1> QED BY <1>3, <1>8, <1>17, <1>19 DEF SoundSchedule, S, work, at, more, end, crit

(* Whatever is in the backlog, for every number of lanes.                   *)
THEOREM SchedulesAreSound == Spec => []ScheduleSound
<1>1. Formed /\ Acyclic => ScheduleSound
  <2> SUFFICES ASSUME Formed, Acyclic PROVE ScheduleSound
    OBVIOUS
  <2>1. Sprintable(Observed)
    BY ObservedIsSprintable
  <2> DEFINE m == Observed
  <2> HIDE DEF m
  <2>2. \A L \in Capacity : SoundSchedule(m, L)
    <3> SUFFICES ASSUME NEW L \in Capacity PROVE SoundSchedule(m, L)
      OBVIOUS
    <3>1. L \in Nat \ {0}
      BY BoundsAssumption
    <3> QED BY <2>1, <3>1, PlacedIsSound DEF m
  <2>3. ScheduleSound <=> \A L \in Capacity : SoundSchedule(m, L)
    BY DEF ScheduleSound, SoundSchedule, m
  <2> QED BY <2>2, <2>3
<1>2. Init => Formed /\ Acyclic
  BY InitFormed, InitAcyclic
<1>3. Formed /\ Acyclic /\ [Next]_vars => (Formed /\ Acyclic)'
  BY NextFormed, NextAcyclic
<1> QED BY <1>1, <1>2, <1>3, PTL DEF Spec
=============================================================================
