--------------------------- MODULE SprintPlanner ---------------------------
(***************************************************************************)
(* plan_sprint and build_schedule: what a sprint takes in, and when the    *)
(* open work could be done.  An item's sprint is what the Project says.    *)
(***************************************************************************)
EXTENDS Backlog

CONSTANT None

(* Work that is still to be done. *)
OpenWork(m) == {i \in DOMAIN m : m[i].work /\ ~IsDone(m, i)}

EffortOf(m, S) == FoldSet(LAMBDA i, sum : sum + m[i].effort, 0, S)

Retained(m, sprint) == {i \in OpenWork(m) : sprint # None /\ m[i].sprint = sprint}

(* Committed elsewhere, and not named as carryover. *)
Withheld(m, sprint, carry) ==
    {i \in OpenWork(m) : sprint # None /\ m[i].sprint \notin {None, sprint} /\ i \notin carry}

(* _normalize_carryover: only work another sprint holds can be carried. *)
CarryoverAllowed(m, sprint, carry) ==
    \A i \in carry : sprint # None /\ ~IsDone(m, i) /\ m[i].sprint \notin {None, sprint}

(* Faulty: what is retained takes no capacity. *)
PackedRetainedFree(m, capacity, sprint, carry) ==
    LET retained == Retained(m, sprint)
        Take(acc, i) ==
            IF /\ i \in OpenWork(m) \ (retained \cup Withheld(m, sprint, carry))
               /\ m[i].status # Blocked /\ m[i].ready
               /\ \A d \in m[i].deps : IsDone(m, d) \/ d \in retained \cup acc.items
               /\ m[i].effort <= acc.remaining
            THEN [items |-> acc.items \cup {i}, remaining |-> acc.remaining - m[i].effort]
            ELSE acc
    IN  FoldLeft(Take, [items |-> {}, remaining |-> capacity], Prioritized(m))

(* plan_sprint: one walk in priority order; a dependency counts as met when *)
(* it is done, retained, or already taken.                                  *)
Packed(m, capacity, sprint, carry) ==
    LET retained == Retained(m, sprint)
        Take(acc, i) ==
            IF /\ i \in OpenWork(m) \ (retained \cup Withheld(m, sprint, carry))
               /\ m[i].status # Blocked /\ m[i].ready
               /\ \A d \in m[i].deps : IsDone(m, d) \/ d \in retained \cup acc.items
               /\ m[i].effort <= acc.remaining
            THEN [items |-> acc.items \cup {i}, remaining |-> acc.remaining - m[i].effort]
            ELSE acc
    IN  FoldLeft(Take,
                 [items |-> {}, remaining |-> capacity - EffortOf(m, retained)],
                 Prioritized(m))

-----------------------------------------------------------------------------
(* The schedule.  Days are counted from the day it starts on.               *)

Schedulable(m) == {i \in DOMAIN m : ~IsContainer(m, i) /\ ~IsDone(m, i)}

Duration(m, i) == IF m[i].effort = 0 THEN 1 ELSE m[i].effort

(* Dependencies first, otherwise in priority order. *)
PlacingOrder(m) ==
    LET order == Prioritized(m)
        Before(i, j) == Position(order, i) < Position(order, j)
    IN  ReleaseOrder(m, Schedulable(m), Before)

FirstFree(free) ==
    CHOOSE l \in DOMAIN free :
        \A k \in DOMAIN free : free[l] < free[k] \/ (free[l] = free[k] /\ l <= k)

(* Faulty: an item waits for its lane, not for what it depends on. *)
PlacedByLane(m, lanes) ==
    LET Place(s, i) ==
          LET lane == FirstFree(s.free)
              start == s.free[lane]
          IN  [free |-> [s.free EXCEPT ![lane] = start + Duration(m, i)],
               at |-> [j \in DOMAIN s.at \cup {i} |->
                         IF j = i THEN [start |-> start, end |-> start + Duration(m, i),
                                        lane |-> lane]
                         ELSE s.at[j]]]
    IN  FoldLeft(Place, [free |-> [l \in 1..lanes |-> 0], at |-> <<>>], PlacingOrder(m)).at

(* build_schedule: each item as soon as what it depends on has ended and    *)
(* the lane that is free first is; end is the first day after it.           *)
Placed(m, lanes) ==
    LET Place(s, i) ==
          LET lane == FirstFree(s.free)
              earliest == Max({0} \cup {s.at[d].end : d \in m[i].deps \cap DOMAIN s.at})
              start == Max({earliest, s.free[lane]})
          IN  [free |-> [s.free EXCEPT ![lane] = start + Duration(m, i)],
               at |-> [j \in DOMAIN s.at \cup {i} |->
                         IF j = i THEN [start |-> start, end |-> start + Duration(m, i),
                                        lane |-> lane]
                         ELSE s.at[j]]]
    IN  FoldLeft(Place, [free |-> [l \in 1..lanes |-> 0], at |-> <<>>], PlacingOrder(m)).at

Finish(at) == Max({0} \cup {at[i].end : i \in DOMAIN at})

(* _critical_path: the days of the longest chain of scheduled dependencies. *)
CriticalDays(m) ==
    LET S == Schedulable(m)
        days[i \in S] == Duration(m, i) + Max({0} \cup {days[d] : d \in m[i].deps \cap S})
    IN  Max({0} \cup {days[i] : i \in S})
=============================================================================
