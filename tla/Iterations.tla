----------------------------- MODULE Iterations -----------------------------
(***************************************************************************)
(* The iteration field of the Project: how its configuration is read, the  *)
(* plan that finds or adds a target iteration, and what is verified after  *)
(* the plan was applied.                                                   *)
(*                                                                         *)
(* Days are integers.  A title is the number it ends in, or Unnumbered;    *)
(* the prefix is the same for all.  A configuration is read as             *)
(* [days, active, done], two sets of entries [id, title, start, days].     *)
(***************************************************************************)
EXTENDS Integers, FiniteSetsExt, SequencesExt

CONSTANTS
    Days,           \* workflow.iteration.duration_days
    ManifestStart   \* workflow.iteration.start_date

ASSUME DaysAssumption == Days \in Nat \ {0} /\ ManifestStart \in Int

Unnumbered == 0
NoId == 0
AtCurrent == -1
AtNext == -2
IsAlias(target) == target \in {AtCurrent, AtNext}

-----------------------------------------------------------------------------
(* The field, as it is read.                                                *)

Ends(e) == e.start + e.days
Known(f) == f.active \cup f.done

(* normalize_iteration_field: any other configuration is refused. *)
Readable(f) ==
    /\ f.days = 0 => Known(f) = {}
    /\ \A e \in Known(f) : e.id # NoId /\ e.days > 0
    /\ \A e, g \in Known(f) : e # g =>
          /\ e.id # g.id
          /\ e.title # g.title
          /\ Ends(e) <= g.start \/ Ends(g) <= e.start

(* GitHub reports no start of its own; the earliest entry stands for it. *)
StartOf(f) == Min({e.start : e \in Known(f)})
Earliest(S) == CHOOSE e \in S : \A g \in S : e.start <= g.start
Latest(S) == CHOOSE e \in S : \A g \in S : e.start >= g.start

(* discover_iterations. *)
Current(f, asof) == {e \in f.active : e.start <= asof /\ asof < Ends(e)}
Upcoming(f, asof) == {e \in f.active : e.start > asof}

-----------------------------------------------------------------------------
(* The plan.                                                                *)

NewEntry(title, start) == [id |-> NoId, title |-> title, start |-> start, days |-> Days]

(* _initialization_entries: an empty field gets the title asked for, or the *)
(* first one or two of a fresh sequence.                                    *)
FirstEntries(target, asof) ==
    IF ~IsAlias(target) THEN <<NewEntry(target, ManifestStart)>>
    ELSE LET elapsed == IF asof < ManifestStart THEN -1 ELSE (asof - ManifestStart) \div Days
             wanted == IF target = AtCurrent THEN elapsed ELSE elapsed + 1
         IN  IF wanted < 0 \/ (target = AtCurrent /\ wanted > 0) \/ wanted > 1 THEN <<>>
             ELSE [k \in 1..(wanted + 1) |-> NewEntry(k, ManifestStart + Days * (k - 1))]

(* The entries a target names already. *)
Found(f, target, asof) ==
    CASE target = AtCurrent -> Current(f, asof)
      [] target = AtNext ->
            IF Upcoming(f, asof) = {} THEN {} ELSE {Earliest(Upcoming(f, asof))}
      [] OTHER -> {e \in f.active : e.title = target}

(* Faulty: always a single addition. *)
NextEntriesOne(f, asof) ==
    LET last == Latest(Known(f)) IN <<NewEntry(last.title + 1, Ends(last))>>

(* The entries that would come next: one after a schedule with a current    *)
(* iteration, two after a schedule that ends on the day asked about.        *)
NextEntries(f, asof) ==
    LET last == Latest(Known(f))
        next == NewEntry(last.title + 1, Ends(last))
    IN  IF last.title = Unnumbered THEN <<>>
        ELSE IF Current(f, asof) # {} THEN <<next>>
        ELSE IF Ends(last) # asof THEN <<>>
        ELSE <<next, NewEntry(next.title + 1, Ends(next))>>

(* Which of the additions the target is, if it is one of them. *)
Meant(target, adds) ==
    LET at == IF Len(adds) = 2 /\ target \in {AtCurrent, adds[1].title} THEN 1 ELSE Len(adds)
    IN  {k \in {at} \cap DOMAIN adds : IsAlias(target) \/ target = adds[k].title}

(* _iteration_plan: what the digest covers; seen stands for the fingerprint *)
(* of the snapshot, and e is the entry the target was resolved to.          *)
Planned(f, target, asof, adds, e) ==
    [target |-> target, asof |-> asof, seen |-> f, adds |-> adds,
     title |-> e.title, id |-> e.id]

(* build_iteration_plan: the plan, if there is one. *)
IterationPlans(f, target, asof) ==
    LET Plan(adds, e) == Planned(f, target, asof, adds, e)
        Extending(adds) == {Plan(ToSet(adds), adds[k]) : k \in Meant(target, adds)}
        first == FirstEntries(target, asof)
    IN  IF ~Readable(f) \/ f.days \notin {0, Days} THEN {}
        ELSE IF Known(f) = {} THEN
            {Plan(ToSet(first), first[k]) : k \in {Len(first)} \cap DOMAIN first}
        ELSE IF \E e \in f.done : e.title = target THEN {}
        ELSE IF Found(f, target, asof) # {} THEN
            {Plan({}, e) : e \in Found(f, target, asof)}
        ELSE Extending(NextEntries(f, asof))

Ready(p) == p.adds = {} /\ p.id # NoId

-----------------------------------------------------------------------------
(* Verification.                                                            *)

(* Faulty: an entry is recognised by what it says, not by its id. *)
VerifiedBySight(p, f) ==
    LET Sight(S) == {[e EXCEPT !.id = NoId] : e \in S}
    IN  /\ \E q \in IterationPlans(f, p.target, p.asof) : Ready(q)
        /\ Sight(p.seen.active) \subseteq Sight(f.active)
        /\ Sight(p.seen.done) \subseteq Sight(f.done)
        /\ p.adds \subseteq Sight(f.active)

(* verify_iteration_apply: the target is there, with an id, and when the    *)
(* schedule was replaced nothing reviewed lost its identity.                *)
Verified(p, f) ==
    /\ \E q \in IterationPlans(f, p.target, p.asof) : Ready(q)
    /\ p.adds # {} =>
          /\ f.days = Days
          /\ StartOf(f) = IF Known(p.seen) = {} THEN ManifestStart ELSE StartOf(p.seen)
          /\ p.seen.active \subseteq f.active
          /\ p.seen.done \subseteq f.done
          /\ \A a \in p.adds : \E e \in f.active : [e EXCEPT !.id = NoId] = a
=============================================================================
