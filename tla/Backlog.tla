------------------------------ MODULE Backlog ------------------------------
(***************************************************************************)
(* The backlog as a graph: which graphs a manifest may hold, the scores    *)
(* and the order computed from them, and the item `abk next` hands out.    *)
(*                                                                         *)
(* A backlog maps the ids it holds to items; an item that is no work item  *)
(* (work = FALSE) is an Epic or a Feature.                                 *)
(***************************************************************************)
EXTENDS Integers, FiniteSetsExt, SequencesExt

CONSTANT Done       \* the first of workflow.done_statuses

Blocked == "Blocked"
NoItem == 0

(* _scores, at weight 1 for Impact, 0 for the rest, and a boost of 1: done *)
(* work scores zero, other work adds the scores of what depends on it.     *)
Scores(m, status) ==
    LET score[i \in DOMAIN m] ==
          IF status[i] = Done THEN 0
          ELSE m[i].impact
               + FoldSet(LAMBDA d, sum : sum + score[d], 0,
                         {d \in DOMAIN m : i \in m[d].deps})
    IN  score

StatusOf(m) == [i \in DOMAIN m |-> m[i].status]
IsDone(m, i) == m[i].status = Done

-----------------------------------------------------------------------------
(* _find_dependency_cycle: depth first, in id order; an item is 0 before,   *)
(* 1 on, and 2 after the path.                                              *)

(* Faulty: an item is done with once its first dependency is. *)
SearchStepShallow(m, s) ==
    IF s.found THEN s
    ELSE IF s.path = <<>> THEN
        LET fresh == {i \in DOMAIN m : s.mark[i] = 0}
        IN  IF fresh = {} THEN s
            ELSE [s EXCEPT !.path = <<Min(fresh)>>, !.mark[Min(fresh)] = 1]
    ELSE
        LET item == Last(s.path)
        IN  IF m[item].deps = {} \/ s.mark[Min(m[item].deps)] = 2
            THEN [s EXCEPT !.path = Front(@), !.mark[item] = 2]
            ELSE IF s.mark[Min(m[item].deps)] = 1 THEN [s EXCEPT !.found = TRUE]
            ELSE [s EXCEPT !.path = Append(@, Min(m[item].deps)),
                           !.mark[Min(m[item].deps)] = 1]

SearchStep(m, s) ==
    IF s.found THEN s
    ELSE IF s.path = <<>> THEN
        LET fresh == {i \in DOMAIN m : s.mark[i] = 0}
        IN  IF fresh = {} THEN s
            ELSE [s EXCEPT !.path = <<Min(fresh)>>, !.mark[Min(fresh)] = 1]
    ELSE
        LET item == Last(s.path)
            pending == {d \in m[item].deps : s.mark[d] # 2}
        IN  IF pending = {} THEN [s EXCEPT !.path = Front(@), !.mark[item] = 2]
            ELSE IF s.mark[Min(pending)] = 1 THEN [s EXCEPT !.found = TRUE]
            ELSE [s EXCEPT !.path = Append(@, Min(pending)), !.mark[Min(pending)] = 1]

FindsCycle(m) ==
    LET search[k \in 0..(2 * Cardinality(DOMAIN m) + 1)] ==
          IF k = 0 THEN [path |-> <<>>, mark |-> [i \in DOMAIN m |-> 0], found |-> FALSE]
          ELSE SearchStep(m, search[k - 1])
    IN  search[2 * Cardinality(DOMAIN m) + 1].found

-----------------------------------------------------------------------------
(* The order.                                                               *)

(* Kahn's algorithm with a heap: of the items of S whose dependencies in S  *)
(* are all out, the one that comes Before the others is the next.           *)
ReleaseOrder(m, S, Before(_, _)) ==
    LET Release(out, k) ==
          LET ready == {i \in S \ ToSet(out) : m[i].deps \cap S \subseteq ToSet(out)}
          IN  Append(out, CHOOSE i \in ready : \A j \in ready \ {i} : Before(i, j))
    IN  FoldLeft(Release, <<>>, [k \in 1..Cardinality(S) |-> k])

(* prioritize: done items first, then by score, then by id. *)
Prioritized(m) ==
    LET score == Scores(m, StatusOf(m))
        Before(i, j) ==
            IF IsDone(m, i) # IsDone(m, j) THEN IsDone(m, i)
            ELSE score[i] > score[j] \/ (score[i] = score[j] /\ i < j)
    IN  ReleaseOrder(m, DOMAIN m, Before)

Position(seq, i) == CHOOSE k \in DOMAIN seq : seq[k] = i

-----------------------------------------------------------------------------
(* The next item.                                                           *)

HasChildren(m, i) == \E c \in DOMAIN m : m[c].parent = i
IsContainer(m, i) == ~m[i].work /\ HasChildren(m, i)

(* Faulty: an item without children is a container too when its type is. *)
ExecutableIfWork(m, i) ==
    /\ m[i].work
    /\ m[i].status \notin {Done, Blocked}
    /\ m[i].ready
    /\ \A d \in m[i].deps : IsDone(m, d)

(* _not_executable, negated. *)
Executable(m, i) ==
    /\ ~IsContainer(m, i)
    /\ m[i].status \notin {Done, Blocked}
    /\ m[i].ready
    /\ \A d \in m[i].deps : IsDone(m, d)

(* explain_next: the executable item of the highest score; a tie goes to    *)
(* the one earlier in the order.                                            *)
NextItem(m) ==
    LET score == Scores(m, StatusOf(m))
        order == Prioritized(m)
        able == {i \in DOMAIN m : Executable(m, i)}
        best == {i \in able : \A j \in able : score[i] >= score[j]}
    IN  IF able = {} THEN NoItem
        ELSE CHOOSE i \in best : \A j \in best : Position(order, i) <= Position(order, j)
=============================================================================
