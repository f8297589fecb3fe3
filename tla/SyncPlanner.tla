---------------------------- MODULE SyncPlanner ----------------------------
(***************************************************************************)
(* build_sync_plan: the actions that take GitHub from an observed state to *)
(* the one the manifest asks for, in the order they are applied, and the   *)
(* GitHub mutations each action issues (GitHubPlanExecutor).               *)
(*                                                                         *)
(* A manifest maps the ids it holds to items; GitHub maps every id to the  *)
(* issue that carries its marker.  Of the Project fields three are kept:   *)
(* Status stands for the fields GitHub owns (Status, Sprint), Impact for   *)
(* the planning fields copied from the manifest, Priority for itself.      *)
(* Types and labels are left out.                                          *)
(***************************************************************************)
EXTENDS IssueText, Backlog

CONSTANTS
    Item,           \* backlog ids, ordered
    Status,         \* workflow.statuses of the manifest
    BoardStatus     \* statuses the board offers, the manifest's among them

ASSUME ItemType == Item \subseteq Int \ {NoItem} /\ IsFiniteSet(Item)
ASSUME DoneType == Done \in Status     \* manifest.py 253-255

Unset == "unset"

(* The issues GitHub may hold for one id.  copies counts the issues that   *)
(* carry its marker.                                                       *)
NoIssue == [copies |-> 0]
Missing(r, i) == r[i].copies = 0

-----------------------------------------------------------------------------
(* What the snapshot is read as. *)

Closed(r, i) == ~Missing(r, i) /\ ~r[i].open
Member(r, i) == ~Missing(r, i) /\ r[i].member

(* _completed_parents: open parents whose every child is closed. *)
Children(m, i) == {c \in DOMAIN m : m[c].parent = i}
CompletedParents(m, r) ==
    {i \in DOMAIN m : /\ ~Missing(r, i) /\ r[i].open
                      /\ Children(m, i) # {}
                      /\ \A c \in Children(m, i) : Closed(r, c)}

(* compose_operational_state: a status the manifest defines is adopted     *)
(* from GitHub, any other is reported and ignored.                         *)
ObservedStatus(m, r, i) ==
    IF Member(r, i) /\ r[i].status \in Status THEN r[i].status ELSE m[i].status

(* Faulty: the state after the closures, or after the transitions, is not  *)
(* anticipated.                                                            *)
IntendedBeforeClosures(m, r, o, i) ==
    IF i \in DOMAIN o.transitions THEN o.transitions[i] ELSE ObservedStatus(m, r, i)

IntendedBeforeTransitions(m, r, o, i) ==
    IF i \in CompletedParents(m, r) THEN Done ELSE ObservedStatus(m, r, i)

(* The state the plan intends to leave behind: requested transitions, then *)
(* the closures it proposes.                                               *)
IntendedStatus(m, r, o, i) ==
    IF i \in CompletedParents(m, r) THEN Done
    ELSE IF i \in DOMAIN o.transitions THEN o.transitions[i]
    ELSE ObservedStatus(m, r, i)

Priorities(m, r, o) ==
    Scores(m, [i \in DOMAIN m |-> IntendedStatus(m, r, o, i)])

-----------------------------------------------------------------------------
(* The actions. *)

Act(kind, i, arg) == [kind |-> kind, item |-> i, arg |-> arg]
When(test, act) == IF test THEN <<act>> ELSE <<>>

(* One list of actions, item by item in id order. *)
InOrder(S) ==
    [k \in 1..Cardinality(S) |->
        CHOOSE i \in S : Cardinality({j \in S : j < i}) = k - 1]
ForEach(S, Acts(_)) ==
    FlattenSeq([k \in 1..Cardinality(S) |-> Acts(InOrder(S)[k])])

Creates(m, r) ==
    ForEach({i \in DOMAIN m : Missing(r, i)},
            LAMBDA i : <<Act("issue.create", i, [text |-> FreshIssue(m[i].text)])>>)

(* Only the parts that change are patched; the comment travels in the body. *)
TextPatch(d, t, manage, overwrite) ==
    LET p == PlannedIssue(d, t, manage, overwrite)
    IN  IF p.title = t.title THEN [body |-> p.body, td |-> p.td, bd |-> p.bd] ELSE p

Updates(m, r, o) ==
    ForEach({i \in DOMAIN m : ~Missing(r, i)},
            LAMBDA i :
              LET overwrite == i \in o.overwrite
              IN  When(TextChanges(m[i].text, r[i].text, o.manage, overwrite),
                       Act("issue.update", i,
                           [text |-> TextPatch(m[i].text, r[i].text, o.manage, overwrite)])))

(* The planning fields that differ.  An item not yet in the Project gets   *)
(* the manifest's Status with them.                                        *)
Differing(want, have) ==
    [f \in {g \in DOMAIN want : want[g] # have[g]} |-> want[f]]
Fields(x) == [Impact |-> x.impact, Priority |-> x.priority, Status |-> x.status]

ProjectActions(m, r, o) ==
    LET priority == Priorities(m, r, o)
    IN  ForEach(DOMAIN m, LAMBDA i :
          LET planning == [Impact |-> m[i].impact, Priority |-> priority[i]]
          IN  IF Member(r, i)
              THEN LET changed == Differing(planning, Fields(r[i]))
                   IN  When(DOMAIN changed # {},
                            Act("project.set_fields", i, [fields |-> changed]))
              ELSE <<Act("project.add_item", i,
                         [fields |-> [Impact |-> m[i].impact, Priority |-> priority[i],
                                      Status |-> m[i].status]])>>)

Transitions(m, r, o) ==
    ForEach(DOMAIN o.transitions, LAMBDA i :
        When(r[i].status # o.transitions[i],
             Act("project.transition", i, [fields |-> [Status |-> o.transitions[i]]])))

(* Links are removed only between manifest items, and before any is added. *)
Removals(m, r) ==
    ForEach({i \in DOMAIN m : ~Missing(r, i)}, LAMBDA i :
        When(m[i].parent = NoItem /\ r[i].parent \in DOMAIN m,
             Act("issue.remove_parent", i, [to |-> r[i].parent]))
        \o ForEach((r[i].deps \ m[i].deps) \cap DOMAIN m,
                   LAMBDA d : <<Act("issue.remove_dependency", i, [to |-> d])>>))

Links(m, r) ==
    LET parent(i) == IF Missing(r, i) THEN NoItem ELSE r[i].parent
        deps(i) == IF Missing(r, i) THEN {} ELSE r[i].deps
    IN  ForEach(DOMAIN m, LAMBDA i :
          When(m[i].parent # NoItem /\ parent(i) # m[i].parent,
               Act("issue.set_parent", i, [to |-> m[i].parent]))
          \o ForEach(m[i].deps \ deps(i),
                     LAMBDA d : <<Act("issue.add_dependency", i, [to |-> d])>>))

Closures(m, r) ==
    ForEach(CompletedParents(m, r), LAMBDA i :
        <<Act("issue.close_parent", i,
              [fields |-> IF r[i].member /\ r[i].status # Done
                          THEN [Status |-> Done] ELSE <<>>])>>)

(* Faulty: links are added before others are removed. *)
SyncPlanOfAddingFirst(m, r, o) ==
    Creates(m, r) \o Updates(m, r, o) \o ProjectActions(m, r, o)
    \o Transitions(m, r, o) \o Links(m, r) \o Removals(m, r) \o Closures(m, r)

SyncPlanOf(m, r, o) ==
    Creates(m, r) \o Updates(m, r, o) \o ProjectActions(m, r, o)
    \o Transitions(m, r, o) \o Removals(m, r) \o Links(m, r) \o Closures(m, r)

(* What build_sync_plan raises on instead: two issues with one id, a       *)
(* transition of work not in the Project, an overwrite of nothing held.    *)
TransitionsFit(m, r, o) ==
    \A i \in DOMAIN o.transitions : i \in DOMAIN m /\ Member(r, i)
OverwritesAreHeld(m, r, o) ==
    \A i \in o.overwrite :
        /\ i \in DOMAIN m /\ ~Missing(r, i)
        /\ HeldFields(m[i].text, r[i].text, o.manage) # {}
SyncPlannable(m, r, o) ==
    /\ \A i \in Item : r[i].copies <= 1
    /\ TransitionsFit(m, r, o) /\ OverwritesAreHeld(m, r, o)

(* Faulty: the Priority field is among those set. *)
IsPriorityAmongUpdates(a) ==
    "fields" \in DOMAIN a.arg /\ "Priority" \in DOMAIN a.arg.fields

IsPriorityUpdate(a) ==
    a.kind = "project.set_fields" /\ DOMAIN a.arg.fields = {"Priority"}

-----------------------------------------------------------------------------
(* The mutations of each action.  Project fields are written one by one,   *)
(* by name.                                                                *)

FieldWrites(i, fields) ==
    LET Set(f) == When(f \in DOMAIN fields, Act("field", i, [name |-> f, value |-> fields[f]]))
    IN  Set("Impact") \o Set("Priority") \o Set("Status")

SyncWrites(a) ==
    CASE a.kind = "project.add_item" ->
            <<Act("add", a.item, <<>>)>> \o FieldWrites(a.item, a.arg.fields)
      [] a.kind \in {"project.set_fields", "project.transition"} ->
            FieldWrites(a.item, a.arg.fields)
      [] a.kind = "issue.close_parent" ->
            <<Act("close", a.item, <<>>)>> \o FieldWrites(a.item, a.arg.fields)
      [] OTHER -> <<a>>

(* GitHub: it refuses to touch what is not there, a field of an issue      *)
(* outside the Project, and a dependency that closes a cycle.              *)
Reaches(r, from, to) ==
    LET reach[n \in 0..Cardinality(Item)] ==
          IF n = 0 THEN {from}
          ELSE reach[n-1] \cup UNION {r[i].deps : i \in {j \in reach[n-1] : ~Missing(r, j)}}
    IN  to \in reach[Cardinality(Item)]

GitHubAccepts(w, r) ==
    CASE w.kind = "issue.create" -> TRUE
      [] w.kind = "field" -> Member(r, w.item)
      [] w.kind = "issue.remove_parent" ->
            ~Missing(r, w.item) /\ r[w.item].parent = w.arg.to
      [] w.kind = "issue.remove_dependency" ->
            ~Missing(r, w.item) /\ w.arg.to \in r[w.item].deps
      [] w.kind = "issue.set_parent" ->
            ~Missing(r, w.item) /\ ~Missing(r, w.arg.to)
      [] w.kind = "issue.add_dependency" ->
            /\ ~Missing(r, w.item) /\ ~Missing(r, w.arg.to)
            /\ ~Reaches(r, w.arg.to, w.item)
      [] OTHER -> ~Missing(r, w.item)

NewIssue(text) ==
    [copies |-> 1, text |-> text, open |-> TRUE, member |-> FALSE, status |-> Unset,
     impact |-> 0, priority |-> 0, parent |-> NoItem, deps |-> {}]

GitHubEffect(w, r) ==
    LET i == w.item
    IN  CASE w.kind = "issue.create" ->
               [r EXCEPT ![i] = IF Missing(r, i) THEN NewIssue(w.arg.text)
                                ELSE [@ EXCEPT !.copies = 2]]
          [] w.kind = "issue.update" ->
               [r EXCEPT ![i].text = [f \in DOMAIN @ |->
                   IF f \in DOMAIN w.arg.text THEN w.arg.text[f] ELSE @[f]]]
          [] w.kind = "add" -> [r EXCEPT ![i].member = TRUE]
          [] w.kind = "close" -> [r EXCEPT ![i].open = FALSE]
          [] w.kind = "issue.remove_parent" -> [r EXCEPT ![i].parent = NoItem]
          [] w.kind = "issue.set_parent" -> [r EXCEPT ![i].parent = w.arg.to]
          [] w.kind = "issue.remove_dependency" -> [r EXCEPT ![i].deps = @ \ {w.arg.to}]
          [] w.kind = "issue.add_dependency" -> [r EXCEPT ![i].deps = @ \cup {w.arg.to}]
          [] w.kind = "field" /\ w.arg.name = "Impact" -> [r EXCEPT ![i].impact = w.arg.value]
          [] w.kind = "field" /\ w.arg.name = "Priority" -> [r EXCEPT ![i].priority = w.arg.value]
          [] w.kind = "field" /\ w.arg.name = "Status" -> [r EXCEPT ![i].status = w.arg.value]

(* What one person may do to one issue on GitHub. *)
PersonEdit(r) ==
    LET here == {i \in Item : ~Missing(r, i)}
    IN  {[r EXCEPT ![i].text.title = t] : i \in here, t \in Title}
        \cup {[r EXCEPT ![i].status = s] : i \in {j \in here : r[j].member}, s \in BoardStatus}
        \cup {[r EXCEPT ![i].open = ~@] : i \in here}
        \cup {[r EXCEPT ![i] = [@ EXCEPT !.member = FALSE, !.status = Unset,
                                !.impact = 0, !.priority = 0]] : i \in here}
=============================================================================
