--------------------------- MODULE MCSprintCycle ---------------------------
(* Schedules with little work, and backlogs on a schedule that is settled:  *)
(* the clock starts at the last day.                                        *)
EXTENDS SprintCycle, TLC

Entry(id, title, start) == [id |-> id, title |-> title, start |-> start, days |-> Days]
Item(work, parent, deps, effort, impact) ==
    [work |-> work, parent |-> parent, deps |-> deps, effort |-> effort, impact |-> impact,
     status |-> "Ready", ready |-> TRUE]

Field(entries) == [days |-> Days, all |-> entries]
Schedules ==
    { [days |-> 0, all |-> {}],
      Field({Entry(1, 1, 0)}),
      Field({Entry(1, 1, 0), Entry(2, 2, 2)}),
      Field({Entry(1, 2, 0), Entry(2, 1, 2)}),              \* titles out of order
      Field({Entry(1, 1, 0), Entry(2, Unnumbered, 2)}),
      Field({Entry(1, 1, 0), Entry(2, 2, 3)}) }             \* a gap

Single == 1 :> Item(TRUE, NoItem, {}, 1, 1)
ScheduleStates ==
    UNION {{[backlog |-> Single, assigned |-> <<id>>, field |-> f, today |-> 1, events |-> 0] :
               id \in {NoId} \cup {e.id : e \in f.all}} : f \in Schedules}

(* 1 is an Epic with children, or none; 2 its child; 3 an Epic or a Story. *)
Graph(d1, d2, d3, w3, p4) ==
    (1 :> Item(FALSE, NoItem, d1, 2, 1)) @@ (2 :> Item(TRUE, 1, d2, 1, 1))
    @@ (3 :> Item(w3, NoItem, d3, 2, 2)) @@ (4 :> Item(TRUE, p4, {}, 3, 1))
Backlogs ==
    { Graph({}, {4}, {2}, TRUE, NoItem), Graph({}, {}, {1}, TRUE, 1),
      Graph({3}, {4}, {}, FALSE, NoItem), Graph({}, {3}, {4}, FALSE, 1),
      Graph({}, {1}, {2, 4}, TRUE, NoItem) }
BacklogStates ==
    {[backlog |-> b, assigned |-> [i \in 1..4 |-> IF i = 4 THEN id ELSE NoId],
      field |-> Field({Entry(1, 1, 3), Entry(2, 2, 5)}),
      today |-> MaxDay, events |-> MaxEvents - 1] :
        b \in Backlogs, id \in {NoId, 2}}

MCInitStates == ScheduleStates \cup BacklogStates
=============================================================================
