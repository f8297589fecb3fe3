---------------------------- MODULE SprintCycle ----------------------------
(***************************************************************************)
(* A team runs its sprints with the kit: iteration-plan and iteration-apply *)
(* keep the Project's schedule, sprint-plan fills an iteration, next hands  *)
(* out the work, and the sync closes parents whose children are done.       *)
(* Meanwhile days pass, people edit the backlog and the board, and GitHub   *)
(* answers a replaced schedule as it likes.                                 *)
(***************************************************************************)
EXTENDS Iterations, SprintPlanner

CONSTANTS
    InitStates,     \* [backlog, assigned, field, today, events] to start from
    Title,          \* iteration titles asked for
    Capacity,       \* capacities and numbers of lanes plans are checked for
    TeamCapacity,   \* the capacity the team plans its sprints with
    MaxDay,
    MaxEvents       \* plans of the schedule and changes by people

ASSUME BoundsAssumption ==
    /\ Title \subseteq Nat /\ Capacity \subseteq Nat \ {0}
    /\ MaxDay \in Int /\ MaxEvents \in Nat

IterationEntry == [id : Nat, title : Nat, start : Int, days : Nat]
IterationField == [days : Nat, all : SUBSET IterationEntry]
LastId(f) == Max({NoId} \cup {e.id : e \in f.all})
BacklogItem(ids) ==
    [work : BOOLEAN, parent : ids \cup {NoItem}, deps : SUBSET ids, effort : Nat,
     impact : Int, status : {"Ready", Blocked, Done}, ready : BOOLEAN]

(* A manifest is validated before anything else, its graph by the search;   *)
(* every item has an assignment, if only to no iteration.                   *)
ASSUME InitAssumption ==
    \A s \in InitStates :
        /\ IsFiniteSet(DOMAIN s.backlog) /\ DOMAIN s.backlog \subseteq Nat \ {NoItem}
        /\ \A i \in DOMAIN s.backlog : s.backlog[i] \in BacklogItem(DOMAIN s.backlog)
        /\ ~FindsCycle(s.backlog)
        /\ s.field \in IterationField /\ IsFiniteSet(s.field.all)
        /\ \A e \in s.field.all : e.id # NoId
        /\ s.assigned \in [DOMAIN s.backlog -> 0..LastId(s.field)]
        /\ s.today \in Int /\ s.today <= MaxDay /\ s.events \in 0..MaxEvents

IterationPlan ==
    [target : Nat \cup {AtCurrent, AtNext}, asof : Int,
     seen : [days : Nat, active : SUBSET IterationEntry, done : SUBSET IterationEntry],
     adds : SUBSET IterationEntry, title : Nat, id : Nat]
ASSUME NoneAssumption == None \notin IterationPlan /\ None \notin Nat

VARIABLES
    backlog,        \* id -> item, without its sprint
    assigned,       \* id -> iteration id on the board, or NoId
    field,          \* [days, all]: the iteration field on GitHub
    issued,         \* iteration ids given out so far
    today,
    plan,           \* the reviewed iteration plan, or None
    stage,          \* "idle", "reviewed", "fetched" or "written"
    held,           \* id -> the title it had at the apply's read, or None
    honoured,       \* GitHub kept everything, and nothing changed since
    events

vars == <<backlog, assigned, field, issued, today, plan, stage, held, honoured, events>>

-----------------------------------------------------------------------------
(* What the kit reads.                                                      *)

(* GitHub lists an entry among the completed ones once it has ended. *)
Over(e) == Ends(e) <= today
Seen == [days |-> field.days,
         active |-> {e \in field.all : ~Over(e)},
         done |-> {e \in field.all : Over(e)}]

(* The title under which an item's iteration is shown. *)
SprintOf(i) ==
    IF \E e \in field.all : e.id = assigned[i]
    THEN (CHOOSE e \in field.all : e.id = assigned[i]).title
    ELSE None

(* compose_operational_state: the backlog with the board's sprints. *)
Observed ==
    [i \in DOMAIN backlog |->
        [work |-> backlog[i].work, parent |-> backlog[i].parent, deps |-> backlog[i].deps,
         effort |-> backlog[i].effort, impact |-> backlog[i].impact,
         status |-> backlog[i].status, ready |-> backlog[i].ready, sprint |-> SprintOf(i)]]

Init ==
    /\ \E s \in InitStates :
          /\ backlog = s.backlog
          /\ assigned = s.assigned
          /\ field = s.field
          /\ today = s.today
          /\ events = s.events
          /\ issued = LastId(s.field)
    /\ plan = None
    /\ stage = "idle"
    /\ held = [i \in DOMAIN backlog |-> None]
    /\ honoured = FALSE

Spend == events < MaxEvents /\ events' = events + 1

-----------------------------------------------------------------------------
(* iteration-plan and iteration-apply.                                      *)

EndApply ==
    /\ stage' = "idle"
    /\ plan' = None
    /\ held' = [i \in DOMAIN backlog |-> None]
    /\ honoured' = FALSE

PlanIterations ==
    /\ stage = "idle"
    /\ today < MaxDay      \* a bound, not a guard of the code
    /\ Spend
    /\ \E target \in Title \cup {AtCurrent, AtNext}, asof \in {today, today + 1} :
          plan' \in IterationPlans(Seen, target, asof)
    /\ stage' = "reviewed"
    /\ honoured' = FALSE
    /\ UNCHANGED <<backlog, assigned, field, issued, today, held>>

(* The plan is made again from a fresh read, and has to come out the same. *)
FetchIterations ==
    /\ stage = "reviewed"
    /\ \/ /\ plan \in IterationPlans(Seen, plan.target, plan.asof)
          /\ stage' = IF plan.adds = {} THEN "written" ELSE "fetched"
          /\ held' = [i \in DOMAIN backlog |-> SprintOf(i)]
          /\ honoured' = (plan.adds = {})
          /\ plan' = plan
       \/ /\ plan \notin IterationPlans(Seen, plan.target, plan.asof)
          /\ EndApply
    /\ UNCHANGED <<backlog, assigned, field, issued, today, events>>

(* GitHub's answer to a replaced configuration, which names no ids: it may  *)
(* keep the id of an entry it knows or give a new one, and may drop or keep *)
(* the completed entries, which are not in the request.                     *)
Request == plan.seen.active \cup plan.adds
SameEntry(e, g) == e.title = g.title /\ e.start = g.start /\ e.days = g.days
Stored(keepIds) ==
    {[e EXCEPT !.id =
        IF keepIds /\ \E g \in field.all : SameEntry(e, g)
        THEN (CHOOSE g \in field.all : SameEntry(e, g)).id
        ELSE issued + Cardinality({g \in Request : g.start <= e.start})] : e \in Request}
Untouched(keepDone) ==
    {g \in field.all : keepDone /\ Over(g) /\ \A e \in Request : ~SameEntry(e, g)}

ReplaceIterations ==
    /\ stage = "fetched"
    /\ \E keepIds, keepDone \in BOOLEAN :
          /\ field' = [days |-> Days, all |-> Stored(keepIds) \cup Untouched(keepDone)]
          /\ honoured' = (keepIds /\ keepDone /\ Seen = plan.seen)
    /\ issued' = issued + Cardinality(Request)
    /\ stage' = "written"
    /\ UNCHANGED <<backlog, assigned, today, plan, held, events>>

ReplaceFails ==
    /\ stage = "fetched"
    /\ EndApply
    /\ UNCHANGED <<backlog, assigned, field, issued, today, events>>

(* verify_iteration_apply returns, or raises: see HonouredUpdatesVerify and *)
(* VerifiedKeepsAssignments for when it does which.                         *)
CheckIterations ==
    /\ stage = "written"
    /\ EndApply
    /\ UNCHANGED <<backlog, assigned, field, issued, today, events>>

-----------------------------------------------------------------------------
(* Work is planned, done, and closed.                                       *)

(* sprint-plan for a target that needs no change of the schedule, and one   *)
(* of the assignments it selects; i itself may be named as carryover.       *)
Commit(i) ==
    /\ \E target \in {AtCurrent, AtNext}, carry \in {{}, {i}} :
          \E p \in IterationPlans(Seen, target, today) :
             /\ Ready(p)
             /\ CarryoverAllowed(Observed, p.title, carry)
             /\ i \in Packed(Observed, TeamCapacity, p.title, carry).items
             /\ assigned' = [assigned EXCEPT ![i] = p.id]
    /\ held' = [held EXCEPT ![i] = None]
    /\ UNCHANGED <<backlog, field, issued, today, plan, stage, honoured, events>>

(* What next hands out is worked on until it is done. *)
WorkOnNext ==
    /\ NextItem(Observed) # NoItem
    /\ backlog' = [backlog EXCEPT ![NextItem(Observed)].status = Done]
    /\ UNCHANGED <<assigned, field, issued, today, plan, stage, held, honoured, events>>

(* The sync's proposed closure. *)
Closable(i) ==
    /\ HasChildren(backlog, i) /\ ~IsDone(backlog, i)
    /\ \A c \in DOMAIN backlog : backlog[c].parent = i => IsDone(backlog, c)

CloseParent(i) ==
    /\ Closable(i)
    /\ backlog' = [backlog EXCEPT ![i].status = Done]
    /\ UNCHANGED <<assigned, field, issued, today, plan, stage, held, honoured, events>>

-----------------------------------------------------------------------------
(* People, and time.                                                        *)

PassDay ==
    /\ today < MaxDay
    /\ today' = today + 1
    /\ honoured' = FALSE
    /\ UNCHANGED <<backlog, assigned, field, issued, plan, stage, held, events>>

EditBacklog(i, item) ==
    /\ Spend
    /\ backlog' = [backlog EXCEPT ![i] = item]
    /\ UNCHANGED <<assigned, field, issued, today, plan, stage, held, honoured>>

SetStatus(i, status) ==
    /\ backlog[i].status # status
    /\ EditBacklog(i, [backlog[i] EXCEPT !.status = status])

Refine(i) == ~backlog[i].ready /\ EditBacklog(i, [backlog[i] EXCEPT !.ready = TRUE])

(* item-update: a graph with a cycle is refused. *)
Depend(i, deps) ==
    /\ i \notin deps
    /\ ~FindsCycle([backlog EXCEPT ![i].deps = deps])
    /\ EditBacklog(i, [backlog[i] EXCEPT !.deps = deps])

Move(i, id) ==
    /\ Spend
    /\ id # assigned[i]
    /\ assigned' = [assigned EXCEPT ![i] = id]
    /\ held' = [held EXCEPT ![i] = None]
    /\ UNCHANGED <<backlog, field, issued, today, plan, stage, honoured>>

AddIteration(title) ==
    /\ Spend
    /\ field.all # {}
    /\ field' = [field EXCEPT !.all = @ \cup
                    {[id |-> issued + 1, title |-> title,
                      start |-> Ends(Latest(field.all)), days |-> field.days]}]
    /\ issued' = issued + 1
    /\ honoured' = FALSE
    /\ UNCHANGED <<backlog, assigned, today, plan, stage, held>>

RemoveIteration(e) ==
    /\ Spend
    /\ field' = [field EXCEPT !.all = @ \ {e}]
    /\ held' = [i \in DOMAIN held |-> IF assigned[i] = e.id THEN None ELSE held[i]]
    /\ honoured' = FALSE
    /\ UNCHANGED <<backlog, assigned, issued, today, plan, stage>>

People ==
    \/ \E i \in DOMAIN backlog :
          \/ \E status \in {"Ready", Blocked, Done} : SetStatus(i, status)
          \/ Refine(i)
          \/ \E deps \in SUBSET DOMAIN backlog : Depend(i, deps)
          \/ \E id \in {NoId} \cup {e.id : e \in field.all} : Move(i, id)
    \/ \E title \in Title \ {e.title : e \in field.all} : AddIteration(title)
    \/ \E e \in field.all : RemoveIteration(e)

Next ==
    \/ PlanIterations \/ FetchIterations \/ ReplaceIterations \/ ReplaceFails
    \/ CheckIterations
    \/ \E i \in DOMAIN backlog : Commit(i)
    \/ \E i \in DOMAIN backlog : CloseParent(i)
    \/ WorkOnNext
    \/ PassDay \/ People

Spec == Init /\ [][Next]_vars

-----------------------------------------------------------------------------
(* Properties.                                                              *)

Items == DOMAIN backlog

TypeOK ==
    /\ \A i \in Items : backlog[i] \in BacklogItem(Items)
    /\ assigned \in [Items -> 0..issued] /\ issued \in Nat
    /\ field \in IterationField /\ \A e \in field.all : e.id \in 1..issued
    /\ stage \in {"idle", "reviewed", "fetched", "written"}
    /\ stage # "idle" <=> plan # None
    /\ today \in Int /\ today <= MaxDay /\ events \in 0..MaxEvents

(* The search that guards item-update lets no edit, after any sequence of   *)
(* edits, close a cycle: every set of items has one that waits for none of  *)
(* the others.  Nothing that ranks, packs or schedules would end otherwise. *)
Acyclic == \A S \in (SUBSET Items) \ {{}} : \E i \in S : backlog[i].deps \cap S = {}

(* The type invariant, and no cycle. *)
Inv == TypeOK /\ Acyclic

(* A sprint never takes in more than its capacity, unless what was there    *)
(* already does; all it takes in can be started, in some order; and if only *)
(* some of it was assigned before the run stopped, planning again selects   *)
(* exactly the rest.                                                        *)
ResumesWhereItStopped ==
    LET m == Observed
    IN  \A sprint \in {e.title : e \in field.all}, capacity \in Capacity :
        \A carry \in {C \in SUBSET Items : Cardinality(C) <= 1 /\ CarryoverAllowed(m, sprint, C)} :
          LET taken == Packed(m, capacity, sprint, carry).items
              kept == Retained(m, sprint)
              After(A) == [i \in Items |-> IF i \in A THEN [m[i] EXCEPT !.sprint = sprint] ELSE m[i]]
          IN  /\ taken # {} => EffortOf(m, taken \cup kept) <= capacity
              /\ \A i \in taken : \A d \in m[i].deps : IsDone(m, d) \/ d \in taken \cup kept
              /\ \A i \in taken : m[i].sprint \in {None} \/ i \in carry
              /\ \A A \in SUBSET taken :
                    Packed(After(A), capacity, sprint, carry \ A).items = taken \ A

(* A schedule shows every open item once, after what it depends on and with *)
(* its lane to itself; another lane never makes any item later; one lane is *)
(* the sum of the work, and with a lane for each item the critical path is  *)
(* what it takes.                                                           *)
ScheduleSound ==
    LET m == Observed
        S == Schedulable(m)
        work == FoldSet(LAMBDA i, sum : sum + Duration(m, i), 0, S)
    IN  \A lanes \in Capacity :
          LET at == Placed(m, lanes)
              more == Placed(m, lanes + 1)
          IN  /\ DOMAIN at = S
              /\ \A i \in S : \A d \in m[i].deps \cap S : at[d].end <= at[i].start
              /\ \A i, j \in S : i # j /\ at[i].lane = at[j].lane =>
                    at[i].end <= at[j].start \/ at[j].end <= at[i].start
              /\ \A i \in S : more[i].start <= at[i].start
              /\ Finish(at) \in CriticalDays(m)..work
              /\ lanes = 1 => Finish(at) = work
              /\ lanes >= Cardinality(S) => Finish(at) = CriticalDays(m)

(* Once an update of the schedule counts as verified, every item that had   *)
(* an iteration when the update began and was not moved by a person since   *)
(* is in the iteration of that name: whatever GitHub did with the ids, a    *)
(* commitment is not lost unnoticed.                                        *)
VerifiedKeepsAssignments ==
    stage = "written" /\ Verified(plan, Seen) =>
        \A i \in Items : held[i] # None => SprintOf(i) = held[i]

(* Titles that rise with the dates: only then is a derived title new. *)
Rising(f) == \A e, g \in Known(f) : e.start < g.start /\ e.title # Unnumbered => e.title < g.title

(* The kit does not lose its way in a schedule it wrote itself: if GitHub   *)
(* did as it was asked, and neither a day nor a person came between, the    *)
(* field is readable and the update verifies.  Excepted are schedules whose *)
(* titles do not rise, and additions that are over when they are written.   *)
HonouredUpdatesVerify ==
    stage = "written" /\ honoured
      /\ Rising(plan.seen) /\ (\A a \in plan.adds : ~Over(a))
      => Verified(plan, Seen)

(* What nobody can work on: it is blocked or not refined, or it waits, by   *)
(* its dependencies or as a container for its children, for itself.         *)
Waits(i) ==
    IF IsContainer(backlog, i) THEN {c \in Items : backlog[c].parent = i}
    ELSE backlog[i].deps
Hindered ==
    \/ \E i \in Items : ~IsDone(backlog, i) /\ (backlog[i].status = Blocked \/ ~backlog[i].ready)
    \/ \E S \in (SUBSET {i \in Items : ~IsDone(backlog, i)}) \ {{}} :
          \A i \in S : Waits(i) \cap S # {}

(* next never comes back empty-handed while there is work that nothing      *)
(* hinders, unless the sync has a closure to propose: as each answer worked *)
(* on and each closure applied makes one more item done, a team that        *)
(* follows the kit finishes its backlog.                                    *)
NeverEmptyHanded ==
    ~Hindered /\ (\E i \in Items : ~IsDone(backlog, i)) =>
        NextItem(Observed) # NoItem \/ \E i \in Items : Closable(i)
=============================================================================
