------------------------ MODULE ImportAdoptionProofs ------------------------
(***************************************************************************)
(* What adoption and recovery do, for any number of processes, any issues, *)
(* any manifest and any edits and failures: words are kept, only what is   *)
(* marked is recorded, a recovery finds all that is stranded, and in the   *)
(* mode of the plan it completes what the adoption would have.             *)
(***************************************************************************)
EXTENDS ImportAdoption, WellFoundedInduction, FiniteSetTheorems, TLAPS

(* Every set of natural numbers but the empty one has a least element.      *)
LEMMA LeastNumber ==
    ASSUME NEW S \in SUBSET Nat, S # {}
    PROVE  \E n \in S : \A k \in S : n <= k
<1>1. PICK n \in S : \A k \in S : ~ (<<k, n>> \in OpToRel(<, Nat))
  BY NatLessThanWellFounded, WFMin
<1>2. \A k \in S : ~ (k < n)
  BY <1>1 DEF OpToRel
<1> QED BY <1>2

(* Which items an import or a recovery adds.                                *)
LEMMA Additions ==
    ASSUME NEW m, NEW g
    PROVE  /\ \A o : DOMAIN ImportItems(m, g, o) = Chosen(m, g, o)
           /\ \A i : DOMAIN Reconciled(m, g, i) = {g[n].marker : n \in Orphans(m, g)} \cup DOMAIN m
<1>1. \A new : DOMAIN FlatItems(g, new) = {new[n] : n \in DOMAIN new}
  BY DEF FlatItems
<1>2. \A known, new : DOMAIN Inferred(m, g, known, new) = {new[n] : n \in DOMAIN new}
  BY <1>1 DEF Inferred
<1>3. ASSUME NEW o PROVE DOMAIN ImportItems(m, g, o) = Chosen(m, g, o)
  <2> DEFINE new == [n \in Chosen(m, g, o) |-> n]
  <2>1. {new[n] : n \in DOMAIN new} = Chosen(m, g, o)
    OBVIOUS
  <2>2. ImportItems(m, g, o) = Inferred(m, g, DOMAIN m, new) \/ ImportItems(m, g, o) = FlatItems(g, new)
    BY DEF ImportItems
  <2> HIDE DEF new
  <2> QED BY <1>1, <1>2, <2>1, <2>2
<1>4. ASSUME NEW i PROVE DOMAIN Reconciled(m, g, i) = {g[n].marker : n \in Orphans(m, g)} \cup DOMAIN m
  <2> DEFINE new == [n \in Orphans(m, g) |-> g[n].marker]
             items == IF i THEN Inferred(m, g, DOMAIN m \cup {new[n] : n \in DOMAIN new}, new) 
                      ELSE FlatItems(g, new)
  <2>1. {new[n] : n \in DOMAIN new} = {g[n].marker : n \in Orphans(m, g)}
    OBVIOUS
  <2>2. Reconciled(m, g, i) = Merged(m, items)
    BY DEF Reconciled
  <2>3. DOMAIN items = {new[n] : n \in DOMAIN new}
    <3> HIDE DEF new
    <3> QED BY <1>1, <1>2
  <2> HIDE DEF items
  <2> QED BY <2>1, <2>2, <2>3 DEF Merged
<1> QED BY <1>3, <1>4

-----------------------------------------------------------------------------
(* The inductive invariant.  A process is a record of what it holds ...     *)
Shaped(r) ==
    r = [pc |-> r.pc, manifest |-> r.manifest, opts |-> r.opts, plan |-> r.plan,
         todo |-> r.todo, result |-> r.result]

(* ... of which the manifest is current until somebody interferes or it is  *)
(* saved.  GitHub without the markers an adoption has set is what its plan  *)
(* was rebuilt from, and the markers are where they should be ...           *)
Unmarked(g, ns) == [n \in DOMAIN g |-> IF n \in ns THEN [g[n] EXCEPT !.marker = NoId] ELSE g[n]]
Begun(a) ==
    \/ run[a].pc \in {"marking", "saving"}
    \/ run[a].pc \in {"failed", "crashed"} /\ run[a].result # <<>>
OnTrack(a) ==
    LET p == run[a]
        chosen == DOMAIN p.plan.bodies
    IN  /\ chosen \subseteq DOMAIN github
        /\ \A n \in chosen : github[n].marker \in {NoId, n}
        /\ p.pc \in {"marking", "saving"} =>
              /\ p.todo \subseteq chosen
              /\ \A n \in chosen : github[n].marker = NoId <=> n \in p.todo
        /\ p.pc = "saving" => p.todo = {}
        /\ ImportPlanOf(p.manifest, Unmarked(github, chosen), Rebuilt(a)) = p.plan
        /\ p.result = Merged(p.manifest, p.plan.items)

(* ... and what a recovery will save is made from GitHub as it is.          *)
Own(p) ==
    /\ run[p].pc \in {"idle", "loaded", "planned", "reloaded", "marking", "saving"} \cup Ended
    /\ run[p].pc \in {"idle", "loaded", "reloaded"} => run[p].result = <<>>
    /\ p \in Recoverer => run[p].pc \in {"idle", "loaded", "saving"} \cup Ended
    /\ clean[p] =>
          /\ run[p].pc \notin {"idle", "completed"} => manifest = run[p].manifest
          /\ p \in Adopter /\ Begun(p) => OnTrack(p)
          /\ p \in Recoverer /\ run[p].pc = "saving" =>
                \E infer \in BOOLEAN :
                   run[p].result = Reconciled(run[p].manifest, github, infer)

IInv ==
    /\ Issues(github)
    /\ run = [p \in Process |-> run[p]] /\ clean = [p \in Process |-> clean[p]]
    /\ \A p \in Process : Shaped(run[p]) /\ Own(p)

-----------------------------------------------------------------------------
(* What a step of one process leaves to the others.                         *)
Apart(p) ==
    /\ run' = [q \in Process |-> run'[q]] /\ Shaped(run'[p])
    /\ \A q \in Process \ {p} : run'[q] = run[q]

(* A process that moves on keeps what it holds.                             *)
LEMMA Moving ==
    ASSUME IInv, NEW p \in Process
    PROVE  \A pc : Becomes(p, pc) =>
              /\ Apart(p) /\ run'[p].pc = pc /\ run'[p].manifest = run[p].manifest
              /\ run'[p].opts = run[p].opts /\ run'[p].plan = run[p].plan
              /\ run'[p].todo = run[p].todo /\ run'[p].result = run[p].result
<1> SUFFICES ASSUME NEW pc, Becomes(p, pc)
             PROVE  /\ Apart(p) /\ run'[p].pc = pc /\ run'[p].manifest = run[p].manifest
                    /\ run'[p].opts = run[p].opts /\ run'[p].plan = run[p].plan
                    /\ run'[p].todo = run[p].todo /\ run'[p].result = run[p].result
  OBVIOUS
<1>1. /\ run = [q \in Process |-> run[q]] /\ Shaped(run[p])
      /\ run' = [run EXCEPT ![p] = [run[p] EXCEPT !.pc = pc]]
  BY DEF IInv, Becomes
<1>2. /\ run'[p] = [run[p] EXCEPT !.pc = pc] /\ run' = [q \in Process |-> run'[q]]
      /\ \A q \in Process \ {p} : run'[q] = run[q]
  BY <1>1
<1> QED BY <1>1, <1>2 DEF Apart, Shaped

(* What each step of a process does to it.                                  *)
LEMMA Loading ==
    ASSUME IInv, NEW p \in Process, Load(p)
    PROVE  /\ Apart(p) /\ run[p].pc = "idle" /\ run'[p].pc = "loaded"
           /\ run'[p].manifest = manifest /\ run'[p].result = run[p].result
           /\ run'[p].plan = run[p].plan /\ run'[p].opts = run[p].opts
           /\ run'[p].todo = run[p].todo
<1>1. /\ run = [q \in Process |-> run[q]] /\ Shaped(run[p]) /\ run[p].pc = "idle"
      /\ run' = [run EXCEPT ![p] = [run[p] EXCEPT !.pc = "loaded", !.manifest = manifest]]
  BY DEF IInv, Load
<1>2. /\ run'[p] = [run[p] EXCEPT !.pc = "loaded", !.manifest = manifest]
      /\ run' = [q \in Process |-> run'[q]] /\ \A q \in Process \ {p} : run'[q] = run[q]
  BY <1>1
<1> QED BY <1>1, <1>2 DEF Apart, Shaped

(* import-apply loads the manifest again and forgets an earlier result.     *)
LEMMA Reloading ==
    ASSUME IInv, NEW p \in Process, Reload(p)
    PROVE  /\ Apart(p) /\ run'[p].pc = "reloaded" /\ run'[p].manifest = manifest
           /\ run'[p].result = <<>>
           /\ run'[p].plan = run[p].plan /\ run'[p].opts = run[p].opts
           /\ run'[p].todo = run[p].todo
<1>1. /\ run = [q \in Process |-> run[q]] /\ Shaped(run[p])
      /\ run' = [run EXCEPT ![p] = [run[p] EXCEPT !.pc = "reloaded", !.manifest = manifest,
                                                  !.result = <<>>]]
  BY DEF IInv, Reload
<1>2. /\ run'[p] = [run[p] EXCEPT !.pc = "reloaded", !.manifest = manifest, !.result = <<>>]
      /\ run' = [q \in Process |-> run'[q]] /\ \A q \in Process \ {p} : run'[q] = run[q]
  BY <1>1
<1> QED BY <1>1, <1>2 DEF Apart, Shaped

(* A plan is made of the manifest as loaded, or refused.                    *)
LEMMA Planning ==
    ASSUME IInv, NEW p \in Process, MakePlan(p)
    PROVE  /\ Apart(p) /\ run[p].pc = "loaded" /\ run'[p].pc \in {"planned", "refused"}
           /\ run'[p].manifest = run[p].manifest /\ run'[p].todo = run[p].todo
<1>1. run = [q \in Process |-> run[q]] /\ Shaped(run[p]) /\ run[p].pc = "loaded"
  BY DEF IInv, MakePlan
<1>2. PICK o : \/ run' = [run EXCEPT ![p].pc = "planned", ![p].opts = o,
                                    ![p].plan = ImportPlanOf(run[p].manifest, github, o)]
               \/ Becomes(p, "refused")
  BY DEF MakePlan
<1> DEFINE plan == ImportPlanOf(run[p].manifest, github, o)
<1>3. CASE run' = [run EXCEPT ![p].pc = "planned", ![p].opts = o, ![p].plan = plan]
  <2> HIDE DEF plan
  <2>1. /\ run'[p] = [run[p] EXCEPT !.pc = "planned", !.opts = o, !.plan = plan]
        /\ run' = [q \in Process |-> run'[q]] /\ \A q \in Process \ {p} : run'[q] = run[q]
    BY <1>1, <1>3
  <2> QED BY <1>1, <2>1 DEF Apart, Shaped
<1>4. CASE Becomes(p, "refused")
  BY <1>1, <1>4, Moving
<1> QED BY <1>2, <1>3, <1>4

(* An edited mode changes nothing else of the plan.                         *)
LEMMA Editing ==
    ASSUME IInv, NEW p \in Process, EditMode(p)
    PROVE  /\ Apart(p) /\ run[p].pc = "planned" /\ run'[p].pc = "planned"
           /\ run'[p].manifest = run[p].manifest /\ run'[p].todo = run[p].todo
<1> DEFINE opts == [run[p].opts EXCEPT !.infer = ~@]
<1>1. /\ run = [q \in Process |-> run[q]] /\ Shaped(run[p]) /\ run[p].pc = "planned"
      /\ run' = [run EXCEPT ![p] = [run[p] EXCEPT !.opts = opts]]
  BY DEF IInv, EditMode
<1> HIDE DEF opts
<1>2. /\ run'[p] = [run[p] EXCEPT !.opts = opts]
      /\ run' = [q \in Process |-> run'[q]] /\ \A q \in Process \ {p} : run'[q] = run[q]
  BY <1>1
<1> QED BY <1>1, <1>2 DEF Apart, Shaped

(* What is started on is the plan, merged into the manifest as loaded.      *)
LEMMA Starting ==
    ASSUME IInv, NEW p \in Process, Start(p)
    PROVE  /\ Apart(p) /\ run[p].pc = "reloaded" /\ run'[p].pc = "marking"
           /\ run'[p].manifest = run[p].manifest /\ run'[p].opts = run[p].opts
           /\ run'[p].plan = run[p].plan /\ run'[p].todo = DOMAIN run[p].plan.bodies
           /\ run'[p].result = Merged(run[p].manifest, run[p].plan.items)
<1> DEFINE todo == DOMAIN run[p].plan.bodies
           result == Merged(run[p].manifest, run[p].plan.items)
<1>1. /\ run = [q \in Process |-> run[q]] /\ Shaped(run[p]) /\ run[p].pc = "reloaded"
      /\ run' = [run EXCEPT ![p] = [run[p] EXCEPT !.pc = "marking", !.todo = todo,
                                                  !.result = result]]
  BY DEF IInv, Start, Begin
<1> HIDE DEF todo, result
<1>2. /\ run'[p] = [run[p] EXCEPT !.pc = "marking", !.todo = todo, !.result = result]
      /\ run' = [q \in Process |-> run'[q]] /\ \A q \in Process \ {p} : run'[q] = run[q]
  BY <1>1
<1>3. /\ Apart(p) /\ run'[p].pc = "marking"
      /\ run'[p].manifest = run[p].manifest /\ run'[p].opts = run[p].opts
      /\ run'[p].plan = run[p].plan /\ run'[p].todo = todo
      /\ run'[p].result = result
  BY <1>1, <1>2 DEF Apart, Shaped
<1> QED BY <1>1, <1>3 DEF todo, result

(* A mark set is one less to set.                                           *)
LEMMA Marking ==
    ASSUME IInv, NEW p \in Process, Mark(p)
    PROVE  /\ Apart(p) /\ run[p].pc = "marking" /\ run'[p].pc = "marking"
           /\ run'[p].manifest = run[p].manifest /\ run'[p].opts = run[p].opts
           /\ run'[p].plan = run[p].plan /\ run'[p].result = run[p].result
           /\ run'[p].todo = run[p].todo \ {NextIssue(p)}
<1> DEFINE todo == run[p].todo \ {NextIssue(p)}
<1>1. /\ run = [q \in Process |-> run[q]] /\ Shaped(run[p]) /\ run[p].pc = "marking"
      /\ run' = [run EXCEPT ![p] = [run[p] EXCEPT !.todo = todo]]
  BY DEF IInv, Mark
<1> HIDE DEF todo
<1>2. /\ run'[p] = [run[p] EXCEPT !.todo = todo]
      /\ run' = [q \in Process |-> run'[q]] /\ \A q \in Process \ {p} : run'[q] = run[q]
  BY <1>1
<1>3. /\ Apart(p) /\ run'[p].pc = "marking"
      /\ run'[p].manifest = run[p].manifest /\ run'[p].opts = run[p].opts
      /\ run'[p].plan = run[p].plan /\ run'[p].result = run[p].result
      /\ run'[p].todo = todo
  BY <1>1, <1>2 DEF Apart, Shaped
<1> QED BY <1>1, <1>3 DEF todo

(* A recovery ends with nothing to do, refused, or with its result.         *)
LEMMA Recovering ==
    ASSUME IInv, NEW q \in Process, Recover(q)
    PROVE  /\ Apart(q) /\ run[q].pc = "loaded" /\ run'[q].manifest = run[q].manifest
           /\ run'[q].todo = run[q].todo
           /\ \/ /\ run'[q].pc = "completed" /\ Orphans(run[q].manifest, github) = {}
              \/ run'[q].pc = "refused"
              \/ /\ run'[q].pc = "saving"
                 /\ \E infer \in BOOLEAN :
                      run'[q].result = Reconciled(run[q].manifest, github, infer)
<1>1. run = [p \in Process |-> run[p]] /\ Shaped(run[q]) /\ run[q].pc = "loaded"
  BY DEF IInv, Recover
<1>2. CASE \/ Orphans(run[q].manifest, github) = {} /\ Becomes(q, "completed")
           \/ Becomes(q, "refused")
  BY <1>1, <1>2, Moving
<1>3. ASSUME NEW infer \in BOOLEAN, 
             run' = [run EXCEPT ![q].pc = "saving",
                                ![q].result = Reconciled(run[q].manifest, github, infer)]
      PROVE  /\ Apart(q) /\ run'[q].manifest = run[q].manifest /\ run'[q].pc = "saving"
             /\ run'[q].todo = run[q].todo
             /\ run'[q].result = Reconciled(run[q].manifest, github, infer)
  <2> DEFINE result == Reconciled(run[q].manifest, github, infer)
  <2>1. run' = [run EXCEPT ![q] = [run[q] EXCEPT !.pc = "saving", !.result = result]]
    BY <1>3
  <2> HIDE DEF result
  <2>2. /\ run'[q] = [run[q] EXCEPT !.pc = "saving", !.result = result]
        /\ run' = [p \in Process |-> run'[p]] /\ \A p \in Process \ {q} : run'[p] = run[p]
    BY <1>1, <2>1
  <2>3. Apart(q) /\ run'[q].manifest = run[q].manifest /\ run'[q].pc = "saving"
        /\ run'[q].result = result /\ run'[q].todo = run[q].todo
    BY <1>1, <2>2 DEF Apart, Shaped
  <2> QED BY <2>3 DEF result
<1> QED BY <1>1, <1>2, <1>3 DEF Recover

-----------------------------------------------------------------------------
(* Issues and their markers.                                                *)
LEMMA Unmarking ==
    ASSUME NEW g, Issues(g), NEW ns, \A n \in ns : n \in DOMAIN g /\ g[n].marker = NoId
    PROVE  Unmarked(g, ns) = g
<1>1. ASSUME NEW n \in ns PROVE [g[n] EXCEPT !.marker = NoId] = g[n]
  <2>1. /\ g[n].marker = NoId
        /\ g[n] = [marker |-> g[n].marker, title |-> g[n].title, type |-> g[n].type,
                   prose |-> g[n].prose, closed |-> g[n].closed,
                   parent |-> g[n].parent, blockedBy |-> g[n].blockedBy]
    BY <1>1 DEF Issues
  <2> DEFINE x == g[n]
  <2> HIDE DEF x
  <2>2. /\ x.marker = NoId
        /\ x = [marker |-> x.marker, title |-> x.title, type |-> x.type, prose |-> x.prose,
                closed |-> x.closed, parent |-> x.parent, blockedBy |-> x.blockedBy]
    BY <2>1 DEF x
  <2>3. [x EXCEPT !.marker = NoId] = x
    BY <2>2
  <2> QED BY <2>3 DEF x
<1>2. g = [n \in DOMAIN g |-> g[n]]
  BY DEF Issues
<1>3. \A n \in DOMAIN g : (IF n \in ns THEN [g[n] EXCEPT !.marker = NoId] ELSE g[n]) = g[n]
  BY <1>1
<1>4. Unmarked(g, ns) = [n \in DOMAIN g |-> g[n]]
  BY <1>3 DEF Unmarked
<1> QED BY <1>2, <1>4

(* An issue changed is an issue still.                                      *)
LEMMA ChangedIssue ==
    ASSUME NEW g, Issues(g), NEW n, NEW x,
           x = [marker |-> x.marker, title |-> x.title, type |-> x.type, prose |-> x.prose,
                closed |-> x.closed, parent |-> x.parent, blockedBy |-> x.blockedBy]
    PROVE  Issues([g EXCEPT ![n] = x])
<1> DEFINE h == [g EXCEPT ![n] = x]
<1>1. /\ DOMAIN h = DOMAIN g /\ h = [k \in DOMAIN h |-> h[k]] /\ DOMAIN h \subseteq Number
      /\ \A k \in DOMAIN h : h[k] = x \/ h[k] = g[k]
  BY DEF Issues
<1> HIDE DEF h
<1>2. \A k \in DOMAIN h : h[k] = [marker |-> h[k].marker, title |-> h[k].title, type |-> h[k].type,
         prose |-> h[k].prose, closed |-> h[k].closed,
         parent |-> h[k].parent, blockedBy |-> h[k].blockedBy]
  <2> TAKE k \in DOMAIN h
  <2>1. CASE h[k] = x
    BY <2>1
  <2>2. CASE h[k] = g[k]
    BY <1>1, <2>2 DEF Issues
  <2> QED BY <1>1, <2>1, <2>2
<1>3. Issues(h)
  BY <1>1, <1>2 DEF Issues
<1> QED BY <1>3 DEF h

(* A PATCH changes one issue.                                               *)
LEMMA PatchedIssues ==
    ASSUME IInv, NEW a \in Adopter PROVE Issues(Patched(a))
<1> DEFINE n == NextIssue(a)
           prose == run[a].plan.bodies[n]
<1>1. ASSUME NEW y, NEW i, NEW w,
             y = [marker |-> y.marker, title |-> y.title, type |-> y.type, prose |-> y.prose,
                  closed |-> y.closed, parent |-> y.parent, blockedBy |-> y.blockedBy]
      PROVE  [y EXCEPT !.marker = i, !.prose = w]
                = [marker |-> i, title |-> y.title, type |-> y.type, prose |-> w,
                   closed |-> y.closed, parent |-> y.parent, blockedBy |-> y.blockedBy]
  <2>1. [y EXCEPT !.marker = i]
           = [marker |-> i, title |-> y.title, type |-> y.type, prose |-> y.prose,
              closed |-> y.closed, parent |-> y.parent, blockedBy |-> y.blockedBy]
    BY <1>1
  <2>2. [[marker |-> i, title |-> y.title, type |-> y.type, prose |-> y.prose,
          closed |-> y.closed, parent |-> y.parent, blockedBy |-> y.blockedBy] EXCEPT !.prose = w]
           = [marker |-> i, title |-> y.title, type |-> y.type, prose |-> w,
              closed |-> y.closed, parent |-> y.parent, blockedBy |-> y.blockedBy]
    OBVIOUS
  <2>3. [y EXCEPT !.marker = i, !.prose = w] = [[y EXCEPT !.marker = i] EXCEPT !.prose = w]
    OBVIOUS
  <2> QED BY <2>1, <2>2, <2>3
<1>2. CASE n \in DOMAIN github
  <2> DEFINE y == github[n]
             x == [marker |-> n, title |-> y.title, type |-> y.type, prose |-> prose,
                   closed |-> y.closed, parent |-> y.parent, blockedBy |-> y.blockedBy]
  <2>1. y = [marker |-> y.marker, title |-> y.title, type |-> y.type, prose |-> y.prose,
             closed |-> y.closed, parent |-> y.parent, blockedBy |-> y.blockedBy]
    BY <1>2 DEF IInv, Issues
  <2>2. [y EXCEPT !.marker = n, !.prose = prose] = x
    <3> HIDE DEF y, n, prose
    <3> QED BY <1>1, <2>1
  <2>3. Patched(a) = [github EXCEPT ![n] = x]
    BY <2>2 DEF Patched
  <2>4. x = [marker |-> x.marker, title |-> x.title, type |-> x.type, prose |-> x.prose,
             closed |-> x.closed, parent |-> x.parent, blockedBy |-> x.blockedBy]
    <3> HIDE DEF y, n, prose
    <3> QED OBVIOUS
  <2> HIDE DEF x, n
  <2>5. \A z : z = [marker |-> z.marker, title |-> z.title, type |-> z.type, prose |-> z.prose,
                   closed |-> z.closed, parent |-> z.parent, blockedBy |-> z.blockedBy]
               => Issues([github EXCEPT ![n] = z])
    <3>1. Issues(github)
      BY DEF IInv
    <3> QED BY <3>1, ChangedIssue
  <2>6. Issues([github EXCEPT ![n] = x])
    BY <2>4, <2>5
  <2> QED BY <2>3, <2>6
<1>3. CASE n \notin DOMAIN github
  <2> DEFINE x == [github[n] EXCEPT !.marker = n, !.prose = prose]
  <2>1. github = [k \in DOMAIN github |-> github[k]]
    BY DEF IInv, Issues
  <2>2. Patched(a) = [github EXCEPT ![n] = x]
    BY DEF Patched
  <2> HIDE DEF n, x
  <2>3. [github EXCEPT ![n] = x] = github
    BY <1>3, <2>1
  <2> QED BY <2>2, <2>3 DEF IInv
<1> QED BY <1>2, <1>3

(* The issue marked next is one the plan chose, unmarked and worded as the  *)
(* plan recorded it; marking it changes nothing else.                       *)
LEMMA MarkingIs ==
    ASSUME IInv, NEW a \in Adopter, clean[a], run[a].pc = "marking", run[a].todo # {}
    PROVE  LET n == NextIssue(a)
               chosen == DOMAIN run[a].plan.bodies
           IN  /\ n \in run[a].todo /\ n \in chosen /\ n \in Unmanaged(github)
               /\ Patched(a) = [github EXCEPT ![n].marker = n]
               /\ DOMAIN Patched(a) = DOMAIN github
               /\ Patched(a)[n].marker = n
               /\ \A k \in DOMAIN github \ {n} : Patched(a)[k] = github[k]
               /\ Unmarked(Patched(a), chosen) = Unmarked(github, chosen)
<1> DEFINE n == NextIssue(a)
           p == run[a]
           chosen == DOMAIN p.plan.bodies
           prose == p.plan.bodies[n]
<1>1. /\ OnTrack(a) /\ p.todo \subseteq chosen /\ chosen \subseteq DOMAIN github
      /\ \A k \in chosen : github[k].marker = NoId <=> k \in p.todo
      /\ ImportPlanOf(p.manifest, Unmarked(github, chosen), Rebuilt(a)) = p.plan
  <2>1. OnTrack(a)
    BY DEF IInv, Own, Begun, Process
  <2> QED BY <2>1 DEF OnTrack
<1>2. n \in p.todo
  <2>1. p.todo \in SUBSET Nat /\ p.todo # {}
    BY <1>1, NumbersArePositive DEF IInv, Issues
  <2>2. \E k \in p.todo : \A j \in p.todo : k <= j
    BY <2>1, LeastNumber
  <2> QED BY <2>2 DEF NextIssue
<1>3. n \in chosen /\ n \in DOMAIN github /\ github[n].marker = NoId
  BY <1>1, <1>2
<1>4. prose = github[n].prose
  <2> DEFINE bare == Unmarked(github, chosen)
  <2>1. p.plan.bodies = [k \in Chosen(p.manifest, bare, Rebuilt(a)) |-> bare[k].prose]
    <3>1. ImportPlanOf(p.manifest, bare, Rebuilt(a)).bodies
            = [k \in Chosen(p.manifest, bare, Rebuilt(a)) |-> bare[k].prose]
      BY DEF ImportPlanOf
    <3> QED BY <1>1, <3>1
  <2>2. bare[n] = [github[n] EXCEPT !.marker = NoId]
    BY <1>3 DEF Unmarked
  <2>3. github[n] = [marker |-> github[n].marker, title |-> github[n].title,
                     type |-> github[n].type, prose |-> github[n].prose,
                     closed |-> github[n].closed,
                     parent |-> github[n].parent, blockedBy |-> github[n].blockedBy]
    BY <1>3 DEF IInv, Issues
  <2>4. bare[n].prose = github[n].prose
    <3> HIDE DEF bare, n
    <3> QED BY <2>2, <2>3
  <2> HIDE DEF bare
  <2> QED BY <1>3, <2>1, <2>4
<1> DEFINE x == github[n]
<1>5. /\ x.marker = NoId /\ prose = x.prose
      /\ x = [marker |-> x.marker, title |-> x.title, type |-> x.type, prose |-> x.prose,
              closed |-> x.closed, parent |-> x.parent, blockedBy |-> x.blockedBy]
  BY <1>3, <1>4 DEF IInv, Issues
<1>6. /\ [x EXCEPT !.marker = n, !.prose = prose] = [x EXCEPT !.marker = n]
      /\ [x EXCEPT !.marker = n].marker = n
      /\ [[x EXCEPT !.marker = n] EXCEPT !.marker = NoId] = [x EXCEPT !.marker = NoId]
  <2> HIDE DEF x, n, prose
  <2> QED BY <1>5
<1> DEFINE y == [x EXCEPT !.marker = n]
<1>7. /\ Patched(a) = [github EXCEPT ![n] = y]
      /\ [github EXCEPT ![n].marker = n] = [github EXCEPT ![n] = y]
  BY <1>6 DEF Patched
<1>8. github = [k \in DOMAIN github |-> github[k]]
  BY DEF IInv, Issues
<1>9. /\ DOMAIN Patched(a) = DOMAIN github /\ Patched(a)[n] = y
      /\ \A k \in DOMAIN github \ {n} : Patched(a)[k] = github[k]
  <2> HIDE DEF y, n
  <2> QED BY <1>3, <1>7, <1>8
<1>10. Unmarked(Patched(a), chosen) = Unmarked(github, chosen)
  <2> DEFINE g == Patched(a)
  <2>1. [y EXCEPT !.marker = NoId] = [github[n] EXCEPT !.marker = NoId]
    BY <1>6
  <2>2. \A k \in DOMAIN github :
          (IF k \in chosen THEN [g[k] EXCEPT !.marker = NoId] ELSE g[k])
          = (IF k \in chosen THEN [github[k] EXCEPT !.marker = NoId] ELSE github[k])
    <3> TAKE k \in DOMAIN github
    <3>1. CASE k = n
      BY <1>3, <1>9, <2>1, <3>1
    <3>2. CASE k # n
      BY <1>9, <3>2
    <3> QED BY <3>1, <3>2
  <2> HIDE DEF g
  <2>3. DOMAIN g = DOMAIN github
    BY <1>9 DEF g
  <2> QED BY <2>2, <2>3 DEF Unmarked, g
<1>11. n \in Unmanaged(github)
  BY <1>3 DEF Unmanaged
<1>12. Patched(a)[n].marker = n
  <2>1. y.marker = n
    BY <1>6
  <2> HIDE DEF y
  <2> QED BY <1>9, <2>1
<1> QED BY <1>2, <1>3, <1>7, <1>9, <1>10, <1>11, <1>12

-----------------------------------------------------------------------------
(* Who else is disturbed: nobody, or the process knows.                     *)
Undisturbed(q) == clean'[q] => clean[q] /\ github' = github /\ manifest' = manifest

(* A process nobody touches keeps what holds of it.                         *)
LEMMA OthersOwn ==
    ASSUME IInv, NEW q \in Process, run'[q] = run[q], Undisturbed(q)
    PROVE  Own(q)'
<1>1. Own(q)
  BY DEF IInv
<1>2. CASE ~clean'[q]
  BY <1>1, <1>2 DEF Own
<1>3. CASE clean'[q]
  <2>1. clean[q] /\ github' = github /\ manifest' = manifest
    BY <1>3 DEF Undisturbed
  <2>2. Begun(q)' <=> Begun(q)
    BY DEF Begun
  <2>3. OnTrack(q)' <=> OnTrack(q)
    BY <2>1 DEF OnTrack, Rebuilt
  <2> QED BY <1>1, <2>1, <2>2, <2>3 DEF Own
<1> QED BY <1>2, <1>3

(* So a step of one process is a matter of that process.                    *)
LEMMA Keeping ==
    ASSUME IInv, NEW p \in Process, Apart(p), Own(p)', Issues(github)',
           clean' = [q \in Process |-> clean'[q]], \A q \in Process \ {p} : Undisturbed(q)
    PROVE  IInv'
<1>1. ASSUME NEW q \in Process PROVE Shaped(run'[q]) /\ Own(q)'
  <2>1. CASE q = p
    BY <2>1 DEF Apart
  <2>2. CASE q # p
    BY <2>2, OthersOwn DEF Apart, IInv
  <2> QED BY <2>1, <2>2
<1>2. run' = [q \in Process |-> run'[q]]
  BY DEF Apart
<1> QED BY <1>1, <1>2 DEF IInv, Shaped

(* Steps that leave the repository and the manifest alone.                  *)
LEMMA Quiet ==
    ASSUME IInv, NEW p \in Process, Apart(p), Own(p)', UNCHANGED <<manifest, github>>,
           \/ clean' = clean \/ clean' = [clean EXCEPT ![p] = TRUE]
    PROVE  IInv'
<1>1. clean = [q \in Process |-> clean[q]] /\ Issues(github)
  BY DEF IInv
<1>2. /\ clean' = [q \in Process |-> clean'[q]]
      /\ \A q \in Process \ {p} : clean'[q] = clean[q]
  BY <1>1
<1>3. \A q \in Process \ {p} : Undisturbed(q)
  BY <1>2 DEF Undisturbed
<1> QED BY <1>1, <1>2, <1>3, Keeping DEF Issues

(* Steps that do not: the others are disturbed.                             *)
LEMMA Loud ==
    ASSUME IInv, NEW p \in Process, Apart(p), Own(p)', Issues(github)', clean' = Alone(p)
    PROVE  IInv'
<1>1. /\ clean' = [q \in Process |-> clean'[q]] /\ \A q \in Process \ {p} : ~clean'[q]
  BY DEF Alone
<1> QED BY <1>1, Keeping DEF Undisturbed

(* A process is as undisturbed as it was after its own write.               *)
LEMMA AloneIs ==
    ASSUME NEW p \in Process, clean' = Alone(p)
    PROVE  clean'[p] => clean[p]
BY DEF Alone

-----------------------------------------------------------------------------
(* The steps one by one.                                                    *)
LEMMA BeginningsKeep ==
    ASSUME IInv, NEW p \in Process, Load(p) \/ (p \in Adopter /\ Reload(p))
    PROVE  IInv'
<1>1. /\ Apart(p) /\ run'[p].pc \in {"loaded", "reloaded"} /\ run'[p].manifest = manifest
      /\ run'[p].result = <<>> /\ (p \in Recoverer => run'[p].pc = "loaded")
  <2>1. CASE Load(p)
    BY <2>1, Loading DEF IInv, Own
  <2>2. CASE p \in Adopter /\ Reload(p)
    BY <2>2, Reloading, ProcessesDiffer
  <2> QED BY <2>1, <2>2
<1>2. UNCHANGED <<manifest, github>> /\ clean' = [clean EXCEPT ![p] = TRUE]
  BY DEF Load, Reload
<1>3. Own(p)'
  BY <1>1, <1>2 DEF Own, Begun
<1> QED BY <1>1, <1>2, <1>3, Quiet

(* Making, editing and refusing a plan: nothing is under way.               *)
LEMMA PlansKeep ==
    ASSUME IInv, NEW a \in Adopter, MakePlan(a) \/ EditMode(a) \/ Refuse(a)
    PROVE  IInv'
<1>0. a \in Process /\ a \notin Recoverer
  BY ProcessesDiffer DEF Process
<1>1. /\ Apart(a) /\ run'[a].pc \in {"planned", "refused"} /\ run'[a].manifest = run[a].manifest
      /\ run[a].pc \in {"loaded", "planned", "reloaded"}
      /\ UNCHANGED <<manifest, github, clean>>
  <2>1. CASE MakePlan(a)
    BY <1>0, <2>1, Planning DEF MakePlan
  <2>2. CASE EditMode(a)
    BY <1>0, <2>2, Editing DEF EditMode
  <2>3. CASE Refuse(a)
    BY <1>0, <2>3, Moving DEF Refuse
  <2> QED BY <2>1, <2>2, <2>3
<1>2. Own(a)
  BY <1>0 DEF IInv
<1>3. Own(a)'
  <2>1. run'[a].pc \in {"planned"} \cup Ended
    BY <1>1 DEF Ended
  <2>2. clean[a] => manifest = run[a].manifest
    BY <1>1, <1>2 DEF Own
  <2> QED BY <1>0, <1>1, <2>1, <2>2 DEF Own, Begun
<1> QED BY <1>0, <1>1, <1>3, Quiet

(* A plan found to match is on track.                                       *)
LEMMA StartKeeps ==
    ASSUME IInv, NEW a \in Adopter, Start(a)
    PROVE  IInv'
<1> DEFINE chosen == DOMAIN run[a].plan.bodies
<1>0. a \in Process /\ a \notin Recoverer
  BY ProcessesDiffer DEF Process
<1>1. /\ Apart(a) /\ run[a].pc = "reloaded" /\ run'[a].pc = "marking"
      /\ run'[a].manifest = run[a].manifest /\ run'[a].opts = run[a].opts
      /\ run'[a].plan = run[a].plan /\ run'[a].todo = chosen
      /\ run'[a].result = Merged(run[a].manifest, run[a].plan.items)
      /\ UNCHANGED <<manifest, github, clean>> /\ Matches(a)
  BY <1>0, Starting DEF Start
<1>2. Rebuilt(a)' = Rebuilt(a)
  BY <1>1 DEF Rebuilt
<1>3. chosen \subseteq Unmanaged(github)
  <2>1. Selectable(run[a].manifest, github, Rebuilt(a))
    BY <1>1 DEF Matches, ImportPlannable
  <2>2. Rebuilt(a).include = chosen
    BY DEF Rebuilt
  <2> QED BY <2>1, <2>2 DEF Selectable
<1>4. /\ chosen \subseteq DOMAIN github /\ \A n \in chosen : github[n].marker = NoId
      /\ Unmarked(github, chosen) = github
  <2>1. chosen \subseteq DOMAIN github /\ \A n \in chosen : github[n].marker = NoId
    BY <1>3 DEF Unmanaged
  <2>2. Issues(github)
    BY DEF IInv
  <2> QED BY <2>1, <2>2, Unmarking
<1>5. OnTrack(a)'
  <2>1. ImportPlanOf(run[a].manifest, Unmarked(github, chosen), Rebuilt(a)) = run[a].plan
    BY <1>1, <1>4 DEF Matches
  <2>2. \A n \in chosen : github[n].marker \in {NoId, n} /\ (github[n].marker = NoId <=> n \in chosen)
    BY <1>4
  <2> QED BY <1>1, <1>2, <1>4, <2>1, <2>2 DEF OnTrack
<1>6. Own(a)'
  <2>1. clean[a] => manifest = run[a].manifest
    BY <1>0, <1>1 DEF IInv, Own
  <2> QED BY <1>0, <1>1, <1>5, <2>1 DEF Own
<1> QED BY <1>0, <1>1, <1>6, Quiet

(* A mark set, or set without an answer.                                    *)
LEMMA MarksKeep ==
    ASSUME IInv, NEW a \in Adopter, Mark(a) \/ MarkFails(a)
    PROVE  IInv'
<1> DEFINE chosen == DOMAIN run[a].plan.bodies
           n == NextIssue(a)
<1>0. a \in Process /\ a \notin Recoverer
  BY ProcessesDiffer DEF Process
<1>1. /\ Apart(a) /\ run[a].pc = "marking" /\ run[a].todo # {}
      /\ run'[a].manifest = run[a].manifest /\ run'[a].opts = run[a].opts
      /\ run'[a].plan = run[a].plan /\ run'[a].result = run[a].result
      /\ manifest' = manifest
      /\ \/ run'[a].pc = "marking" /\ run'[a].todo = run[a].todo \ {n} /\ github' = Patched(a)
         \/ run'[a].pc = "failed" /\ run'[a].todo = run[a].todo /\ github' \in {github, Patched(a)}
      /\ \/ github' = github /\ clean' = clean
         \/ github' = Patched(a) /\ clean' = Alone(a)
  <2>1. CASE Mark(a)
    BY <1>0, <2>1, Marking DEF Mark
  <2>2. CASE MarkFails(a)
    BY <1>0, <2>2, Moving DEF MarkFails
  <2> QED BY <2>1, <2>2
<1>2. Rebuilt(a)' = Rebuilt(a)
  BY <1>1 DEF Rebuilt
<1>3. clean'[a] => clean[a]
  BY <1>0, <1>1, AloneIs
<1>4. ASSUME clean[a] PROVE OnTrack(a)'
  <2>1. /\ n \in run[a].todo /\ n \in chosen /\ n \in Unmanaged(github)
        /\ DOMAIN Patched(a) = DOMAIN github /\ Patched(a)[n].marker = n
        /\ \A k \in DOMAIN github \ {n} : Patched(a)[k] = github[k]
        /\ Unmarked(Patched(a), chosen) = Unmarked(github, chosen)
    BY <1>1, <1>4, MarkingIs
  <2>2. /\ chosen \subseteq DOMAIN github /\ run[a].todo \subseteq chosen
        /\ \A k \in chosen : github[k].marker \in {NoId, k}
        /\ \A k \in chosen : github[k].marker = NoId <=> k \in run[a].todo
        /\ ImportPlanOf(run[a].manifest, Unmarked(github, chosen), Rebuilt(a)) = run[a].plan
        /\ run[a].result = Merged(run[a].manifest, run[a].plan.items)
    <3>1. OnTrack(a)
      BY <1>0, <1>1, <1>4 DEF IInv, Own, Begun
    <3> QED BY <1>1, <3>1 DEF OnTrack
  <2>3. n # NoId /\ chosen \subseteq DOMAIN github'
    BY <1>1, <2>1, <2>2, NumbersArePositive DEF IInv, Issues, NoId
  <2>4. \A k \in chosen : github'[k].marker \in {NoId, k}
    <3> HIDE DEF n, chosen
    <3> QED BY <1>1, <2>1, <2>2
  <2>5. run'[a].pc = "marking" =>
          /\ run'[a].todo \subseteq chosen
          /\ \A k \in chosen : github'[k].marker = NoId <=> k \in run'[a].todo
    <3> SUFFICES ASSUME run'[a].pc = "marking"
                 PROVE  /\ run'[a].todo \subseteq chosen
                        /\ \A k \in chosen : github'[k].marker = NoId <=> k \in run'[a].todo
      OBVIOUS
    <3>1. run'[a].todo = run[a].todo \ {n} /\ github' = Patched(a)
      BY <1>1
    <3> HIDE DEF n, chosen
    <3>2. run'[a].todo \subseteq chosen
      BY <2>2, <3>1
    <3>3. ASSUME NEW k \in chosen PROVE github'[k].marker = NoId <=> k \in run'[a].todo
      <4>1. CASE k = n
        BY <2>1, <2>3, <3>1, <4>1
      <4>2. CASE k # n
        BY <2>1, <2>2, <3>1, <4>2
      <4> QED BY <4>1, <4>2
    <3> QED BY <3>2, <3>3
  <2>6. Unmarked(github', chosen) = Unmarked(github, chosen)
    BY <1>1, <2>1
  <2>7. run'[a].pc # "saving"
    BY <1>1
  <2> QED BY <1>1, <1>2, <2>2, <2>3, <2>4, <2>5, <2>6, <2>7 DEF OnTrack
<1>5. Own(a)'
  <2>1. clean[a] => manifest = run[a].manifest
    BY <1>0, <1>1 DEF IInv, Own
  <2>2. run'[a].pc \in {"marking"} \cup Ended /\ run'[a].pc \in {"marking", "failed"}
    BY <1>1 DEF Ended
  <2> QED BY <1>0, <1>1, <1>3, <1>4, <2>1, <2>2 DEF Own
<1>6. Issues(github)'
  BY <1>1, PatchedIssues DEF IInv, Issues
<1>7. CASE github' = github /\ clean' = clean
  BY <1>0, <1>1, <1>5, <1>7, Quiet
<1>8. CASE github' = Patched(a) /\ clean' = Alone(a)
  BY <1>0, <1>1, <1>5, <1>6, <1>8, Loud
<1> QED BY <1>1, <1>7, <1>8

(* All is marked, or the process ends: the issues are as they are.          *)
LEMMA EndsKeep ==
    ASSUME IInv, NEW p \in Process,
           (p \in Adopter /\ Marked(p)) \/ SaveFails(p) \/ Crash(p)
    PROVE  IInv'
<1>1. /\ Apart(p) /\ run'[p].manifest = run[p].manifest /\ run'[p].opts = run[p].opts
      /\ run'[p].plan = run[p].plan /\ run'[p].todo = run[p].todo
      /\ run'[p].result = run[p].result /\ UNCHANGED <<manifest, github, clean>>
      /\ run[p].pc \in {"loaded", "reloaded", "marking", "saving"}
      /\ \/ p \in Adopter /\ run[p].pc = "marking" /\ run[p].todo = {} /\ run'[p].pc = "saving"
         \/ run'[p].pc \in {"failed", "crashed"}
  <2>1. CASE p \in Adopter /\ Marked(p)
    BY <2>1, Moving DEF Marked
  <2>2. CASE SaveFails(p)
    BY <2>2, Moving DEF SaveFails
  <2>3. CASE Crash(p)
    BY <2>3, Moving DEF Crash, IInv, Own
  <2> QED BY <2>1, <2>2, <2>3
<1>2. Rebuilt(p)' = Rebuilt(p)
  BY <1>1 DEF Rebuilt
<1>3. Own(p)
  BY DEF IInv
<1>4. ASSUME p \in Adopter, clean[p], Begun(p)' PROVE OnTrack(p)'
  <2>1. Begun(p)
    BY <1>1, <1>3, <1>4 DEF Begun, Own
  <2>2. OnTrack(p)
    BY <1>3, <1>4, <2>1 DEF Own
  <2>3. run[p].pc \in {"marking", "saving"}
    BY <1>1, <2>1 DEF Begun
  <2> QED BY <1>1, <1>2, <2>2, <2>3 DEF OnTrack
<1>5. Own(p)'
  <2>1. /\ run'[p].pc \in {"saving"} \cup Ended /\ run'[p].pc \notin {"idle", "loaded", "reloaded"}
        /\ p \in Recoverer => run'[p].pc \in Ended
    BY <1>1, ProcessesDiffer DEF Ended
  <2>2. clean[p] => manifest = run[p].manifest
    BY <1>1, <1>3 DEF Own
  <2>3. p \in Recoverer => run'[p].pc # "saving"
    BY <2>1 DEF Ended
  <2> QED BY <1>1, <1>4, <2>1, <2>2, <2>3 DEF Own
<1> QED BY <1>1, <1>5, Quiet

(* What a recovery finds stranded, it will save.                            *)
LEMMA RecoverKeeps ==
    ASSUME IInv, NEW q \in Recoverer, Recover(q)
    PROVE  IInv'
<1>0. q \in Process /\ q \notin Adopter
  BY ProcessesDiffer DEF Process
<1>1. /\ Apart(q) /\ run[q].pc = "loaded" /\ run'[q].manifest = run[q].manifest
      /\ run'[q].pc \in {"saving", "completed", "refused"}
      /\ run'[q].pc = "saving" =>
           \E infer \in BOOLEAN : run'[q].result = Reconciled(run[q].manifest, github, infer)
      /\ UNCHANGED <<manifest, github, clean>>
  BY <1>0, Recovering DEF Recover
<1>2. clean[q] => manifest = run[q].manifest
  BY <1>0, <1>1 DEF IInv, Own
<1>3. run'[q].pc \in {"saving"} \cup Ended
  BY <1>1 DEF Ended
<1>4. Own(q)'
  BY <1>0, <1>1, <1>2, <1>3 DEF Own
<1> QED BY <1>0, <1>1, <1>4, Quiet

(* A save ends the process it is part of and disturbs all others.           *)
LEMMA SaveKeeps ==
    ASSUME IInv, NEW p \in Process, Save(p)
    PROVE  IInv'
<1>1. Apart(p) /\ run'[p].pc = "completed" /\ github' = github /\ clean' = Alone(p)
  BY Moving DEF Save
<1>2. Own(p)'
  BY <1>1 DEF Own, Begun, Ended
<1>3. Issues(github)'
  BY <1>1 DEF IInv, Issues
<1> QED BY <1>1, <1>2, <1>3, Loud

(* An edit by a person disturbs every process.                              *)
LEMMA EditsKeep ==
    ASSUME IInv, EditIssue \/ EditManifest
    PROVE  IInv'
<1>1. run' = run /\ clean' = [p \in Process |-> FALSE]
  BY DEF EditIssue, EditManifest
<1>2. Issues(github)'
  <2>1. CASE EditIssue
    <3>0. PICK n \in DOMAIN github :
            \E x \in PersonEdits(github[n]) : github' = [github EXCEPT ![n] = x]
      BY <2>1 DEF EditIssue
    <3>1. PICK x \in PersonEdits(github[n]) : github' = [github EXCEPT ![n] = x]
      BY <3>0
    <3> DEFINE y == github[n]
    <3>2. y = [marker |-> y.marker, title |-> y.title, type |-> y.type, prose |-> y.prose,
               closed |-> y.closed, parent |-> y.parent, blockedBy |-> y.blockedBy]
      BY DEF IInv, Issues
    <3>3. \/ x \in {[y EXCEPT !.prose = "rewritten"], [y EXCEPT !.marker = NoId],
                    [y EXCEPT !.closed = TRUE], [y EXCEPT !.title = "renamed"],
                    [y EXCEPT !.parent = NoId]}
          \/ \E k \in DOMAIN github : x = [y EXCEPT !.blockedBy = @ \cup {k}]
      BY DEF PersonEdits
    <3> HIDE DEF y
    <3>4. x = [marker |-> x.marker, title |-> x.title, type |-> x.type, prose |-> x.prose,
               closed |-> x.closed, parent |-> x.parent, blockedBy |-> x.blockedBy]
      <4>1. CASE x = [y EXCEPT !.prose = "rewritten"]
        BY <3>2, <4>1
      <4>2. CASE x = [y EXCEPT !.marker = NoId]
        BY <3>2, <4>2
      <4>3. CASE x = [y EXCEPT !.closed = TRUE]
        BY <3>2, <4>3
      <4>4. CASE x = [y EXCEPT !.title = "renamed"]
        BY <3>2, <4>4
      <4>5. CASE x = [y EXCEPT !.parent = NoId]
        BY <3>2, <4>5
      <4>6. CASE \E k \in DOMAIN github : x = [y EXCEPT !.blockedBy = @ \cup {k}]
        <5>1. PICK k \in DOMAIN github : x = [y EXCEPT !.blockedBy = @ \cup {k}]
          BY <4>6
        <5> QED BY <3>2, <5>1
      <4> QED BY <3>3, <4>1, <4>2, <4>3, <4>4, <4>5, <4>6
    <3>5. Issues([github EXCEPT ![n] = x])
      <4>1. Issues(github)
        BY DEF IInv
      <4> QED BY <3>4, <4>1, ChangedIssue
    <3>6. Issues(github')
      BY <3>1, <3>5
    <3> QED BY <3>6 DEF Issues
  <2>2. CASE EditManifest
    BY <2>2 DEF EditManifest, IInv, Issues
  <2> QED BY <2>1, <2>2
<1>3. ASSUME NEW p \in Process PROVE Shaped(run[p])' /\ Own(p)'
  <2>1. ~clean'[p]
    BY <1>1
  <2> QED BY <1>1, <2>1 DEF IInv, Own, Shaped
<1>4. run' = [p \in Process |-> run'[p]] /\ clean' = [p \in Process |-> clean'[p]]
  BY <1>1 DEF IInv
<1> QED BY <1>2, <1>3, <1>4 DEF IInv

(* Nothing at all changes nothing.                                          *)
LEMMA StutteringKeeps ==
    ASSUME IInv, UNCHANGED vars
    PROVE  IInv'
<1>1. UNCHANGED <<run, clean, manifest, github>>
  BY DEF vars
<1>2. Issues(github)' /\ (\A q \in Process : Undisturbed(q))
  BY <1>1 DEF IInv, Issues, Undisturbed
<1>3. \A q \in Process : Own(q)' /\ Shaped(run[q])'
  BY <1>1, <1>2, OthersOwn DEF IInv, Shaped
<1> QED BY <1>1, <1>2, <1>3 DEF IInv

(* Everything holds at the start, ...                                       *)
LEMMA InitIInv ==
    ASSUME Init PROVE IInv
<1>1. Issues(github)
  BY CasesAreStates DEF Init
<1>2. /\ run = [p \in Process |-> IdleImport] /\ clean = [p \in Process |-> TRUE]
      /\ run = [p \in Process |-> run[p]] /\ clean = [p \in Process |-> clean[p]]
  BY DEF Init
<1>3. ASSUME NEW p \in Process PROVE Shaped(run[p]) /\ Own(p)
  <2>1. run[p] = IdleImport
    BY <1>2
  <2>2. run[p].pc = "idle" /\ run[p].result = <<>> /\ Shaped(run[p])
    BY <2>1 DEF IdleImport, Shaped
  <2> QED BY <2>2 DEF Own, Begun
<1> QED BY <1>1, <1>2, <1>3 DEF IInv

(* ... every step keeps it, ...                                             *)
LEMMA NextKeeps ==
    ASSUME IInv, [Next]_vars PROVE IInv'
<1>1. ASSUME NEW p \in Process, Load(p) \/ Save(p) \/ SaveFails(p) \/ Crash(p) PROVE IInv'
  BY <1>1, BeginningsKeep, SaveKeeps, EndsKeep
<1>2. ASSUME NEW a \in Adopter,
             \/ MakePlan(a) \/ EditMode(a) \/ Reload(a) \/ Refuse(a) \/ Start(a)
             \/ Mark(a) \/ MarkFails(a) \/ Marked(a)
      PROVE  IInv'
  <2>1. a \in Process
    BY DEF Process
  <2> QED BY <1>2, <2>1, PlansKeep, BeginningsKeep, StartKeeps, MarksKeep, EndsKeep
<1>3. ASSUME NEW q \in Recoverer, Recover(q) PROVE IInv'
  BY <1>3, RecoverKeeps
<1>4. CASE EditIssue \/ EditManifest
  BY <1>4, EditsKeep
<1>5. CASE UNCHANGED vars
  BY <1>5, StutteringKeeps
<1> QED BY <1>1, <1>2, <1>3, <1>4, <1>5 DEF Next

(* ... and so it always does.                                               *)
LEMMA IInvAlways == Spec => []IInv
<1>1. Init => IInv
  BY InitIInv
<1>2. IInv /\ [Next]_vars => IInv'
  BY NextKeeps
<1> QED BY <1>1, <1>2, PTL DEF Spec

-----------------------------------------------------------------------------
(* What is left to mark and nobody else has touched is as the plan has it.   *)
AsRecorded(a) ==
    run[a].pc = "marking" =>
        /\ run[a].todo \subseteq Number
        /\ \A n \in run[a].todo \ touched[a] :
              /\ n \in DOMAIN github /\ n \in Unmanaged(github)
              /\ run[a].plan.bodies[n] = github[n].prose
WordsInv ==
    /\ touched = [a \in Adopter |-> touched[a]]
    /\ \A a \in Adopter : AsRecorded(a)

(* It stays so while the issues change only under the processes told of it.  *)
LEMMA WordsStay ==
    ASSUME NEW a \in Adopter, AsRecorded(a),
           run'[a].pc = "marking" =>
              /\ run[a].pc = "marking" /\ run'[a].plan = run[a].plan
              /\ run'[a].todo \subseteq run[a].todo /\ touched[a] \subseteq touched'[a]
              /\ \A n \in run'[a].todo \ touched'[a] :
                    n \in DOMAIN github => n \in DOMAIN github' /\ github'[n] = github[n]
    PROVE  AsRecorded(a)'
<1> SUFFICES ASSUME run'[a].pc = "marking"
             PROVE  /\ run'[a].todo \subseteq Number
                    /\ \A n \in run'[a].todo \ touched'[a] :
                          /\ n \in DOMAIN github' /\ n \in Unmanaged(github')
                          /\ run'[a].plan.bodies[n] = github'[n].prose
  BY DEF AsRecorded
<1>1. run'[a].todo \subseteq Number
  BY DEF AsRecorded
<1>2. ASSUME NEW n \in run'[a].todo \ touched'[a]
      PROVE  /\ n \in DOMAIN github' /\ n \in Unmanaged(github')
             /\ run'[a].plan.bodies[n] = github'[n].prose
  <2>1. /\ n \in DOMAIN github /\ n \in Unmanaged(github)
        /\ run[a].plan.bodies[n] = github[n].prose
    BY <1>2 DEF AsRecorded
  <2>2. n \in DOMAIN github' /\ github'[n] = github[n]
    BY <1>2, <2>1
  <2> QED BY <2>1, <2>2 DEF Unmanaged
<1> QED BY <1>1, <1>2

(* A step that leaves the issues alone, after which no more are marking.     *)
LEMMA WordsRest ==
    ASSUME WordsInv, github' = github, touched' = touched,
           \A q \in Adopter : run'[q].pc = "marking" => run'[q] = run[q]
    PROVE  WordsInv'
<1>1. ASSUME NEW q \in Adopter PROVE AsRecorded(q)'
  <2>1. AsRecorded(q)
    BY DEF WordsInv
  <2> QED BY <2>1, WordsStay
<1> QED BY <1>1 DEF WordsInv

(* Who is told of a change.                                                  *)
LEMMA Telling ==
    ASSUME NEW n, NEW others, touched' = Touched(n, others)
    PROVE  /\ touched' = [a \in Adopter |-> touched'[a]]
           /\ \A a \in Adopter :
                 /\ touched[a] \subseteq touched'[a]
                 /\ a \in others /\ run[a].pc = "marking" => n \in touched'[a]
  BY DEF Touched

(* A plan that matches records the words the issues have.                    *)
LEMMA WordsRead ==
    ASSUME IInv, WordsInv, NEW a \in Adopter, Start(a)
    PROVE  WordsInv'
<1> DEFINE chosen == DOMAIN run[a].plan.bodies
           m == run[a].manifest
           o == Rebuilt(a)
<1>0. a \in Process
  BY DEF Process
<1>1. /\ Apart(a) /\ run'[a].plan = run[a].plan /\ run'[a].todo = chosen
      /\ github' = github /\ Matches(a) /\ touched' = [touched EXCEPT ![a] = {}]
  BY <1>0, Starting DEF Start, Begin
<1>2. /\ touched = [q \in Adopter |-> touched[q]]
      /\ touched' = [q \in Adopter |-> touched'[q]]
      /\ \A q \in Adopter \ {a} : touched'[q] = touched[q]
  BY <1>1 DEF WordsInv
<1>3. chosen \subseteq Unmanaged(github)
  <2>1. Selectable(m, github, o)
    BY <1>1 DEF Matches, ImportPlannable
  <2>2. o.include = chosen
    BY DEF Rebuilt
  <2> QED BY <2>1, <2>2 DEF Selectable
<1>4. chosen \subseteq DOMAIN github /\ chosen \subseteq Number
  BY <1>3 DEF Unmanaged, IInv, Issues
<1>5. \A n \in chosen : run[a].plan.bodies[n] = github[n].prose
  <2>1. ImportPlanOf(m, github, o).bodies = [n \in Chosen(m, github, o) |-> github[n].prose]
    BY DEF ImportPlanOf
  <2>2. ImportPlanOf(m, github, o) = run[a].plan
    BY <1>1 DEF Matches
  <2> HIDE DEF m, o
  <2> QED BY <2>1, <2>2
<1>6. AsRecorded(a)'
  <2> HIDE DEF chosen
  <2> QED BY <1>1, <1>3, <1>4, <1>5 DEF AsRecorded, Unmanaged
<1>7. ASSUME NEW q \in Adopter \ {a} PROVE AsRecorded(q)'
  <2>1. AsRecorded(q) /\ run'[q] = run[q]
    BY <1>0, <1>1 DEF WordsInv, Apart, Process
  <2> QED BY <1>1, <1>2, <2>1, WordsStay
<1> QED BY <1>2, <1>6, <1>7 DEF WordsInv

(* A mark changes one issue, under whoever else is marking.                  *)
LEMMA WordsMarked ==
    ASSUME IInv, WordsInv, NEW b \in Adopter, Mark(b) \/ MarkFails(b)
    PROVE  WordsInv'
<1> DEFINE n == NextIssue(b)
<1>0. b \in Process
  BY DEF Process
<1>1. /\ Apart(b) /\ run[b].pc = "marking" /\ run'[b].plan = run[b].plan
      /\ \/ run'[b].pc = "marking" /\ run'[b].todo = run[b].todo \ {n}
         \/ run'[b].pc = "failed"
      /\ \/ github' = Patched(b) /\ touched' = Touched(n, Adopter \ {b})
         \/ github' = github /\ touched' = touched /\ run'[b].pc = "failed"
  <2>1. CASE Mark(b)
    BY <1>0, <2>1, Marking DEF Mark
  <2>2. CASE MarkFails(b)
    BY <1>0, <2>2, Moving DEF MarkFails
  <2> QED BY <2>1, <2>2
<1>2. CASE github' = github /\ touched' = touched /\ run'[b].pc = "failed"
  <2>1. \A q \in Adopter : run'[q].pc = "marking" => run'[q] = run[q]
    BY <1>0, <1>1, <1>2 DEF Apart, Process
  <2> QED BY <1>2, <2>1, WordsRest
<1>3. CASE github' = Patched(b) /\ touched' = Touched(n, Adopter \ {b})
  <2>1. \A k \in DOMAIN github \ {n} : k \in DOMAIN github' /\ github'[k] = github[k]
    BY <1>3 DEF Patched
  <2>2. /\ touched' = [q \in Adopter |-> touched'[q]]
        /\ \A q \in Adopter :
              /\ touched[q] \subseteq touched'[q]
              /\ q # b /\ run[q].pc = "marking" => n \in touched'[q]
    <3> HIDE DEF n
    <3> QED BY <1>3, Telling
  <2>3. ASSUME NEW q \in Adopter PROVE AsRecorded(q)'
    <3> HIDE DEF n
    <3>1. AsRecorded(q) /\ q \in Process
      BY DEF WordsInv, Process
    <3>2. CASE q = b
      BY <1>1, <2>1, <2>2, <3>1, <3>2, WordsStay
    <3>3. CASE q # b
      <4>1. run'[q] = run[q]
        BY <1>1, <3>1, <3>3 DEF Apart
      <4> QED BY <2>1, <2>2, <3>1, <3>3, <4>1, WordsStay
    <3> QED BY <3>2, <3>3
  <2> QED BY <2>2, <2>3 DEF WordsInv
<1> QED BY <1>1, <1>2, <1>3

(* A person's edit changes one issue, under everybody.                       *)
LEMMA WordsEdited ==
    ASSUME WordsInv, EditIssue
    PROVE  WordsInv'
<1>1. PICK n \in DOMAIN github : \E x \in PersonEdits(github[n]) :
         github' = [github EXCEPT ![n] = x] /\ touched' = Touched(n, Adopter)
  BY DEF EditIssue
<1>2. \A k \in DOMAIN github \ {n} : k \in DOMAIN github' /\ github'[k] = github[k]
  BY <1>1
<1>3. /\ touched' = [q \in Adopter |-> touched'[q]]
      /\ \A q \in Adopter :
            /\ touched[q] \subseteq touched'[q]
            /\ run[q].pc = "marking" => n \in touched'[q]
  BY <1>1, Telling
<1>4. ASSUME NEW q \in Adopter PROVE AsRecorded(q)'
  <2>1. AsRecorded(q) /\ run'[q] = run[q]
    BY DEF WordsInv, EditIssue
  <2> QED BY <1>2, <1>3, <2>1, WordsStay
<1> QED BY <1>3, <1>4 DEF WordsInv

(* So words are as recorded after every step.                                *)
LEMMA WordsKept ==
    ASSUME IInv, WordsInv, [Next]_vars
    PROVE  WordsInv'
<1>1. ASSUME NEW p \in Process, Load(p) \/ Save(p) \/ SaveFails(p) \/ Crash(p)
      PROVE  WordsInv'
  <2>1. github' = github /\ touched' = touched /\ Apart(p) /\ run'[p].pc # "marking"
    BY <1>1, Loading, Moving DEF Load, Save, SaveFails, Crash
  <2>2. \A q \in Adopter : run'[q].pc = "marking" => run'[q] = run[q]
    BY <2>1 DEF Apart, Process
  <2> QED BY <2>1, <2>2, WordsRest
<1>2. ASSUME NEW a \in Adopter,
             MakePlan(a) \/ EditMode(a) \/ Reload(a) \/ Refuse(a) \/ Marked(a)
      PROVE  WordsInv'
  <2>0. a \in Process
    BY DEF Process
  <2>1. github' = github /\ touched' = touched
    BY <1>2 DEF MakePlan, EditMode, Reload, Refuse, Marked
  <2>2. Apart(a) /\ run'[a].pc # "marking"
    BY <1>2, <2>0, Planning, Editing, Reloading, Moving DEF Refuse, Marked
  <2>3. \A q \in Adopter : run'[q].pc = "marking" => run'[q] = run[q]
    BY <2>2 DEF Apart, Process
  <2> QED BY <2>1, <2>3, WordsRest
<1>3. ASSUME NEW a \in Adopter, Start(a) \/ Mark(a) \/ MarkFails(a) PROVE WordsInv'
  BY <1>3, WordsRead, WordsMarked
<1>4. ASSUME NEW q \in Recoverer, Recover(q) PROVE WordsInv'
  <2>0. q \in Process
    BY DEF Process
  <2>1. github' = github /\ touched' = touched /\ Apart(q) /\ run'[q].pc # "marking"
    BY <1>4, <2>0, Recovering DEF Recover
  <2>2. \A r \in Adopter : run'[r].pc = "marking" => run'[r] = run[r]
    BY <2>1 DEF Apart, Process
  <2> QED BY <2>1, <2>2, WordsRest
<1>5. CASE EditIssue
  BY <1>5, WordsEdited
<1>6. CASE EditManifest \/ UNCHANGED vars
  <2>1. github' = github /\ touched' = touched /\ run' = run
    BY <1>6 DEF EditManifest, vars
  <2> QED BY <2>1, WordsRest
<1> QED BY <1>1, <1>2, <1>3, <1>4, <1>5, <1>6 DEF Next

(* A PATCH of an issue worded as the plan recorded adds a marker only.       *)
LEMMA PatchIsMark ==
    ASSUME IInv, NEW a \in Adopter, NEW n \in DOMAIN github, n = NextIssue(a),
           run[a].plan.bodies[n] = github[n].prose
    PROVE  Patched(a) = [github EXCEPT ![n].marker = n]
<1> DEFINE x == github[n]
           prose == run[a].plan.bodies[n]
<1>1. /\ prose = x.prose
      /\ x = [marker |-> x.marker, title |-> x.title, type |-> x.type, prose |-> x.prose,
              closed |-> x.closed, parent |-> x.parent, blockedBy |-> x.blockedBy]
  BY DEF IInv, Issues
<1>2. [x EXCEPT !.marker = n, !.prose = prose] = [x EXCEPT !.marker = n]
  <2> HIDE DEF x, prose
  <2> QED BY <1>1
<1> QED BY <1>2 DEF Patched

(* An adoption adds a marker and nothing else, whatever fails and whoever    *)
(* else edits or adopts: the body its PATCH replaces is the one its plan     *)
(* recorded (importing.py 544-550), unless somebody else has changed that    *)
(* issue since the process read it.                                          *)
THEOREM AdoptionKeepsWords == Spec => MarksKeepWords
<1>1. ASSUME IInv, WordsInv, [Next]_vars, NEW a \in Adopter, run[a].pc = "marking",
             run[a].todo # {}, github' # github, run'[a] # run[a]
      PROVE  NextIssue(a) \in touched[a] \/ AddsMarkerOnly(NextIssue(a))
  <2>0. a \in Process
    BY DEF Process
  <2>1. PICK b \in Adopter : Mark(b) \/ MarkFails(b)
    <3>1. ASSUME NEW p \in Process, Load(p) \/ Save(p) \/ SaveFails(p) \/ Crash(p) PROVE FALSE
      BY <1>1, <3>1 DEF Load, Save, SaveFails, Crash
    <3>2. ASSUME NEW b \in Adopter,
                 \/ MakePlan(b) \/ EditMode(b) \/ Reload(b) \/ Refuse(b) \/ Start(b) \/ Marked(b)
          PROVE  FALSE
      BY <1>1, <3>2 DEF MakePlan, EditMode, Reload, Refuse, Start, Marked
    <3>3. ASSUME NEW q \in Recoverer, Recover(q) PROVE FALSE
      BY <1>1, <3>3 DEF Recover
    <3>4. ~(EditIssue \/ EditManifest \/ UNCHANGED vars)
      BY <1>1 DEF EditIssue, EditManifest, vars
    <3> QED BY <1>1, <3>1, <3>2, <3>3, <3>4 DEF Next
  <2>2. b \in Process /\ Apart(b) /\ github' \in {github, Patched(b)}
    BY <1>1, <2>1, Marking, Moving DEF Mark, MarkFails, Process
  <2>3. b = a
    BY <1>1, <2>0, <2>2 DEF Apart
  <2>4. NextIssue(a) \in run[a].todo
    <3>1. run[a].todo \in SUBSET Nat /\ run[a].todo # {}
      BY <1>1, NumbersArePositive DEF WordsInv, AsRecorded
    <3>2. \E k \in run[a].todo : \A j \in run[a].todo : k <= j
      BY <3>1, LeastNumber
    <3> QED BY <3>2 DEF NextIssue
  <2>5. CASE NextIssue(a) \notin touched[a]
    <3> DEFINE n == NextIssue(a)
    <3>1. /\ n \in DOMAIN github /\ n \in Unmanaged(github)
          /\ run[a].plan.bodies[n] = github[n].prose
      BY <1>1, <2>4, <2>5 DEF WordsInv, AsRecorded
    <3>2. github' = [github EXCEPT ![n].marker = n]
      BY <1>1, <2>2, <2>3, <3>1, PatchIsMark
    <3> QED BY <3>1, <3>2 DEF AddsMarkerOnly
  <2> QED BY <2>5
<1>2. IInv /\ WordsInv /\ [Next]_vars =>
        \A a \in Adopter :
         run[a].pc = "marking" /\ run[a].todo # {} /\ github' # github /\ run'[a] # run[a]
         => NextIssue(a) \in touched[a] \/ AddsMarkerOnly(NextIssue(a))
  BY <1>1
<1>3. Init => WordsInv
  <2> SUFFICES ASSUME Init PROVE WordsInv
    OBVIOUS
  <2>1. touched = [a \in Adopter |-> {}] /\ run = [p \in Process |-> IdleImport]
    BY DEF Init
  <2>2. \A a \in Adopter : run[a].pc = "idle"
    BY <2>1 DEF IdleImport, Process
  <2> QED BY <2>1, <2>2 DEF WordsInv, AsRecorded
<1>4. IInv /\ WordsInv /\ [Next]_vars => WordsInv'
  BY WordsKept
<1> QED BY <1>2, <1>3, <1>4, IInvAlways, PTL DEF Spec, MarksKeepWords

(* How a process completes.                                                 *)
LEMMA Completing ==
    ASSUME IInv, [Next]_vars, NEW p \in Process,
           run[p].pc # "completed", run'[p].pc = "completed"
    PROVE  Save(p) \/ (p \in Recoverer /\ Recover(p))
<1>1. ASSUME NEW q \in Process, Load(q) \/ SaveFails(q) \/ Crash(q) PROVE FALSE
  <2>1. Apart(q) /\ run'[q].pc # "completed"
    BY <1>1, Loading, Moving DEF SaveFails, Crash
  <2> QED BY <2>1 DEF Apart
<1>2. ASSUME NEW q \in Process, Save(q) PROVE q = p
  BY <1>2, Moving DEF Save, Apart
<1>3. ASSUME NEW a \in Adopter,
             \/ MakePlan(a) \/ EditMode(a) \/ Reload(a) \/ Refuse(a) \/ Start(a)
             \/ Mark(a) \/ MarkFails(a) \/ Marked(a)
      PROVE  FALSE
  <2>1. a \in Process
    BY DEF Process
  <2>2. Apart(a) /\ run'[a].pc # "completed"
    BY <1>3, <2>1, Planning, Editing, Reloading, Starting, Marking, Moving
       DEF Refuse, MarkFails, Marked
  <2> QED BY <2>1, <2>2 DEF Apart
<1>4. ASSUME NEW q \in Recoverer, Recover(q) PROVE q = p
  <2>1. q \in Process
    BY DEF Process
  <2> QED BY <1>4, <2>1, Recovering DEF Apart
<1>5. ~(EditIssue \/ EditManifest \/ UNCHANGED vars)
  BY DEF EditIssue, EditManifest, vars
<1> QED BY <1>1, <1>2, <1>3, <1>4, <1>5 DEF Next

(* What an undisturbed process saves adds only ids GitHub marks already     *)
(* (apply_import_plan, importing.py 568-590): sync creates no second issue. *)
THEOREM OnlyMarkedAreRecorded == Spec => RecordsOnlyMarked
<1>1. ASSUME IInv, [Next]_vars, NEW p \in Process, run[p].pc = "saving", clean[p],
             run'[p].pc = "completed", NEW id \in DOMAIN manifest' \ DOMAIN manifest
      PROVE  \E n \in DOMAIN github : github[n].marker = id
  <2>1. Save(p)
    <3>1. ~Recover(p)
      BY <1>1 DEF Recover
    <3> QED BY <1>1, <3>1, Completing
  <2>2. /\ manifest' = run[p].result /\ manifest = run[p].manifest /\ Own(p)
    BY <1>1, <2>1 DEF Save, IInv, Own
  <2>3. CASE p \in Adopter
    <3> DEFINE m == run[p].manifest
               chosen == DOMAIN run[p].plan.bodies
               bare == Unmarked(github, chosen)
               o == Rebuilt(p)
    <3>1. /\ run[p].todo = {} /\ chosen \subseteq DOMAIN github
          /\ \A n \in chosen : github[n].marker \in {NoId, n}
          /\ \A n \in chosen : github[n].marker = NoId <=> n \in run[p].todo
          /\ ImportPlanOf(m, bare, o) = run[p].plan
          /\ run[p].result = Merged(m, run[p].plan.items)
      <4>1. OnTrack(p)
        BY <1>1, <2>2, <2>3 DEF Own, Begun
      <4> QED BY <1>1, <4>1 DEF OnTrack
    <3>2. /\ run[p].plan.items = ImportItems(m, bare, o)
          /\ run[p].plan.bodies = [n \in Chosen(m, bare, o) |-> bare[n].prose]
      <4>1. /\ ImportPlanOf(m, bare, o).items = ImportItems(m, bare, o)
            /\ ImportPlanOf(m, bare, o).bodies = [n \in Chosen(m, bare, o) |-> bare[n].prose]
        BY DEF ImportPlanOf
      <4> QED BY <3>1, <4>1
    <3>3. DOMAIN run[p].plan.items = chosen
      <4> HIDE DEF m, o
      <4>1. DOMAIN run[p].plan.items = Chosen(m, bare, o)
        <5>1. DOMAIN ImportItems(m, bare, o) = Chosen(m, bare, o)
          BY Additions
        <5> HIDE DEF bare
        <5> QED BY <3>2, <5>1
      <4>2. chosen = Chosen(m, bare, o)
        <5> HIDE DEF bare
        <5> QED BY <3>2
      <4> QED BY <4>1, <4>2
    <3>4. DOMAIN manifest' = chosen \cup DOMAIN manifest
      BY <2>2, <3>1, <3>3 DEF Merged
    <3>5. id \in chosen
      BY <1>1, <3>4
    <3> HIDE DEF chosen
    <3> QED BY <3>1, <3>5
  <2>4. CASE p \in Recoverer
    <3>1. PICK infer \in BOOLEAN : run[p].result = Reconciled(run[p].manifest, github, infer)
      BY <1>1, <2>2, <2>4 DEF Own
    <3>2. DOMAIN manifest' = {github[n].marker : n \in Orphans(manifest, github)} \cup DOMAIN manifest
      <4>1. DOMAIN Reconciled(manifest, github, infer)
              = {github[n].marker : n \in Orphans(manifest, github)} \cup DOMAIN manifest
        BY Additions
      <4> QED BY <2>2, <3>1, <4>1
    <3> QED BY <1>1, <3>2 DEF Orphans
  <2> QED BY <2>3, <2>4 DEF Process
<1>2. IInv /\ [Next]_vars =>
        \A p \in Process :
          run[p].pc = "saving" /\ clean[p] /\ run'[p].pc = "completed"
          => \A id \in DOMAIN manifest' \ DOMAIN manifest :
                \E n \in DOMAIN github : github[n].marker = id
  BY <1>1
<1> QED BY <1>2, IInvAlways, PTL DEF Spec, RecordsOnlyMarked

(* After an undisturbed recovery every marker is of an item                 *)
(* (reconcile_orphans, importing.py 632-721).                               *)
THEOREM RecoveryFindsAll == Spec => RecoveryLeavesNoOrphan
<1>1. ASSUME IInv, [Next]_vars, NEW q \in Recoverer, clean[q], run[q].pc # "completed",
             run'[q].pc = "completed", NEW n \in DOMAIN github
      PROVE  github[n].marker \in DOMAIN manifest' \cup {NoId}
  <2>0. q \in Process /\ q \notin Adopter
    BY ProcessesDiffer DEF Process
  <2>1. CASE Recover(q)
    <3>1. Orphans(run[q].manifest, github) = {} /\ run[q].pc = "loaded" /\ manifest' = manifest
      BY <1>1, <2>0, <2>1, Recovering DEF Recover
    <3>2. manifest = run[q].manifest
      BY <1>1, <2>0, <3>1 DEF IInv, Own
    <3> QED BY <3>1, <3>2 DEF Orphans
  <2>2. CASE Save(q)
    <3>1. /\ run[q].pc = "saving" /\ manifest' = run[q].result /\ manifest = run[q].manifest
          /\ \E infer \in BOOLEAN : run[q].result = Reconciled(run[q].manifest, github, infer)
      BY <1>1, <2>0, <2>2 DEF Save, IInv, Own
    <3>2. DOMAIN manifest' = {github[k].marker : k \in Orphans(manifest, github)} \cup DOMAIN manifest
      <4>1. PICK infer \in BOOLEAN : manifest' = Reconciled(manifest, github, infer)
        BY <3>1
      <4>2. DOMAIN Reconciled(manifest, github, infer)
              = {github[k].marker : k \in Orphans(manifest, github)} \cup DOMAIN manifest
        BY Additions
      <4> QED BY <4>1, <4>2
    <3> QED BY <3>2 DEF Orphans
  <2> QED BY <1>1, <2>0, <2>1, <2>2, Completing
<1>2. IInv /\ [Next]_vars =>
        \A q \in Recoverer :
          clean[q] /\ run[q].pc # "completed" /\ run'[q].pc = "completed"
          => \A n \in DOMAIN github : github[n].marker \in DOMAIN manifest' \cup {NoId}
  BY <1>1
<1> QED BY <1>2, IInvAlways, PTL DEF Spec, RecoveryLeavesNoOrphan

(* Recovering what an adoption marked proposes what the adoption would      *)
(* have: GitHub is the same but for the markers, and a marker now names     *)
(* what only a number named before.                                         *)
LEMMA RecoveryIsAdoption ==
    ASSUME NEW g, Issues(g), NEW m, NEW o, NEW chosen, chosen \subseteq DOMAIN g,
           \A n \in chosen : g[n].marker = n,
           chosen = Orphans(m, g), chosen = Chosen(m, Unmarked(g, chosen), o)
    PROVE  Reconciled(m, g, o.infer) = Merged(m, ImportItems(m, Unmarked(g, chosen), o))
<1> DEFINE bare == Unmarked(g, chosen)
           new == [n \in chosen |-> n]
           known == DOMAIN m \cup chosen
<1>1. /\ DOMAIN bare = DOMAIN g
      /\ \A n \in DOMAIN g : /\ bare[n].title = g[n].title /\ bare[n].type = g[n].type
                             /\ bare[n].prose = g[n].prose /\ bare[n].closed = g[n].closed
                             /\ bare[n].parent = g[n].parent
                             /\ bare[n].blockedBy = g[n].blockedBy
                             /\ bare[n].marker = IF n \in chosen THEN NoId ELSE g[n].marker
  <2>1. DOMAIN bare = DOMAIN g
    BY DEF Unmarked
  <2>2. ASSUME NEW n \in DOMAIN g
        PROVE  /\ bare[n].title = g[n].title /\ bare[n].type = g[n].type
               /\ bare[n].prose = g[n].prose /\ bare[n].closed = g[n].closed
               /\ bare[n].parent = g[n].parent /\ bare[n].blockedBy = g[n].blockedBy
               /\ bare[n].marker = IF n \in chosen THEN NoId ELSE g[n].marker
    <3> DEFINE y == g[n]
    <3>1. y = [marker |-> y.marker, title |-> y.title, type |-> y.type, prose |-> y.prose,
               closed |-> y.closed, parent |-> y.parent, blockedBy |-> y.blockedBy]
      BY DEF Issues
    <3>2. bare[n] = IF n \in chosen THEN [y EXCEPT !.marker = NoId] ELSE y
      BY DEF Unmarked
    <3> HIDE DEF y, bare
    <3>3. /\ bare[n].title = y.title /\ bare[n].type = y.type
          /\ bare[n].prose = y.prose /\ bare[n].closed = y.closed
          /\ bare[n].parent = y.parent /\ bare[n].blockedBy = y.blockedBy
          /\ bare[n].marker = IF n \in chosen THEN NoId ELSE y.marker
      BY <3>1, <3>2
    <3> QED BY <3>3 DEF y
  <2> QED BY <2>1, <2>2
<1> HIDE DEF bare
<1>2. \A n \in DOMAIN g : n \in Number /\ n # NoId
  BY NumbersArePositive DEF Issues, NoId
<1>3. FlatItems(g, new) = FlatItems(bare, new)
  <2>1. {new[n] : n \in DOMAIN new} = chosen
    OBVIOUS
  <2>2. \A id \in chosen : (CHOOSE n \in DOMAIN new : new[n] = id) = id
    OBVIOUS
  <2>3. \A id \in chosen : FlatItem(g[CHOOSE n \in DOMAIN new : new[n] = id])
                           = FlatItem(bare[CHOOSE n \in DOMAIN new : new[n] = id])
    <3>1. \A id \in chosen : FlatItem(g[id]) = FlatItem(bare[id])
      BY <1>1 DEF FlatItem
    <3> QED BY <2>2, <3>1
  <2> HIDE DEF new
  <2> QED BY <2>1, <2>3 DEF FlatItems
<1>4. \A r : Resolved(g, r, known, new) = Resolved(bare, r, DOMAIN m, new)
  <2> TAKE r
  <2>1. CASE r \notin DOMAIN g
    BY <1>1, <2>1 DEF Resolved
  <2>2. CASE r \in chosen
    BY <1>1, <1>2, <2>2 DEF Resolved
  <2>3. CASE r \in DOMAIN g \ chosen
    <3>1. g[r].marker \in DOMAIN m \cup {NoId} /\ bare[r].marker = g[r].marker
      BY <1>1, <2>3 DEF Orphans
    <3> QED BY <1>1, <2>3, <3>1 DEF Resolved
  <2> QED BY <2>1, <2>2, <2>3
<1> DEFINE parents(h, k) == [n \in DOMAIN new |-> ParentOf(m, h, n, k, new)]
           wanted(h, k) == [n \in DOMAIN new |-> Wanted(h, n, k, new)]
<1>5. parents(g, known) = parents(bare, DOMAIN m)
  <2>1. ASSUME NEW n \in DOMAIN new
        PROVE  ParentOf(m, g, n, known, new) = ParentOf(m, bare, n, DOMAIN m, new)
    <3>1. n \in DOMAIN g
      OBVIOUS
    <3> HIDE DEF new, known
    <3> QED BY <1>1, <1>3, <1>4, <3>1 DEF ParentOf
  <2> HIDE DEF new, known
  <2> QED BY <2>1
<1>6. wanted(g, known) = wanted(bare, DOMAIN m)
  <2>1. ASSUME NEW n \in DOMAIN new
        PROVE  Wanted(g, n, known, new) = Wanted(bare, n, DOMAIN m, new)
    <3>1. n \in DOMAIN g
      OBVIOUS
    <3> HIDE DEF new, known
    <3> QED BY <1>1, <1>4, <3>1 DEF Wanted
  <2> HIDE DEF new, known
  <2> QED BY <2>1
<1> DEFINE Assembled(flat, up, blockers) ==
             [id \in DOMAIN flat |->
               [flat[id] EXCEPT
                  !.parent = up[CHOOSE n \in DOMAIN new : new[n] = id],
                  !.deps = Dependencies(Merged(m, flat), new, blockers)[id]]]
<1>7. Inferred(m, g, known, new) = Inferred(m, bare, DOMAIN m, new)
  <2>1. Inferred(m, g, known, new) = Assembled(FlatItems(g, new), parents(g, known), wanted(g, known))
    BY Zenon DEF Inferred
  <2>2. Inferred(m, bare, DOMAIN m, new)
          = Assembled(FlatItems(bare, new), parents(bare, DOMAIN m), wanted(bare, DOMAIN m))
    BY Zenon DEF Inferred
  <2> HIDE DEF Assembled, parents, wanted, new, known
  <2> QED BY <1>3, <1>5, <1>6, <2>1, <2>2
<1>8. /\ [n \in Orphans(m, g) |-> g[n].marker] = new
      /\ DOMAIN m \cup {new[n] : n \in DOMAIN new} = known
  OBVIOUS
<1>9. Reconciled(m, g, o.infer)
        = Merged(m, IF o.infer THEN Inferred(m, g, known, new) ELSE FlatItems(g, new))
  <2> HIDE DEF new, known
  <2> QED BY <1>8 DEF Reconciled
<1>10. ImportItems(m, bare, o)
         = IF o.infer THEN Inferred(m, bare, DOMAIN m, new) ELSE FlatItems(bare, new)
  <2>1. [n \in Chosen(m, bare, o) |-> n] = new
    BY DEF bare
  <2> HIDE DEF new
  <2> QED BY <2>1 DEF ImportItems
<1>11. Reconciled(m, g, o.infer) = Merged(m, ImportItems(m, bare, o))
  <2> HIDE DEF new, known
  <2> QED BY <1>3, <1>7, <1>9, <1>10
<1> QED BY <1>11 DEF bare

(* Recovery in the mode of the plan completes an adoption interrupted after *)
(* its marks as it would have completed itself, relationships included      *)
(* (reconcile_orphans, importing.py 632-657).                               *)
THEOREM RecoveryIsCompletion == Spec => []RecoveryCompletes
<1>1. ASSUME IInv PROVE RecoveryCompletes
  <2> SUFFICES ASSUME NEW a \in Adopter, run[a].pc \in {"failed", "crashed"}, run[a].result # <<>>,
                      clean[a], Orphans(manifest, github) = DOMAIN run[a].plan.bodies
               PROVE  Reconciled(manifest, github, run[a].opts.infer) = run[a].result
    BY DEF RecoveryCompletes
  <2> DEFINE chosen == DOMAIN run[a].plan.bodies
             bare == Unmarked(github, chosen)
             o == Rebuilt(a)
             m == run[a].manifest
  <2>1. /\ m = manifest /\ chosen \subseteq DOMAIN github
        /\ \A n \in chosen : github[n].marker \in {NoId, n}
        /\ ImportPlanOf(m, bare, o) = run[a].plan
        /\ run[a].result = Merged(m, run[a].plan.items)
    <3>1. a \in Process /\ Begun(a) /\ Own(a)
      BY <1>1 DEF Process, Begun, IInv
    <3>2. OnTrack(a) /\ m = manifest
      BY <3>1 DEF Own
    <3> QED BY <3>2 DEF OnTrack
  <2>2. /\ run[a].plan.items = ImportItems(m, bare, o)
        /\ run[a].plan.bodies = [n \in Chosen(m, bare, o) |-> bare[n].prose]
    <3>1. /\ ImportPlanOf(m, bare, o).items = ImportItems(m, bare, o)
          /\ ImportPlanOf(m, bare, o).bodies = [n \in Chosen(m, bare, o) |-> bare[n].prose]
      BY DEF ImportPlanOf
    <3> QED BY <2>1, <3>1
  <2>3. chosen = Chosen(m, bare, o)
    <3> HIDE DEF bare, o, m
    <3> QED BY <2>2
  <2>4. \A n \in chosen : github[n].marker = n
    BY <2>1 DEF Orphans
  <2>5. chosen = Orphans(m, github) /\ Issues(github)
    BY <1>1, <2>1 DEF IInv
  <2>6. o.infer = run[a].opts.infer
    BY DEF Rebuilt
  <2>7. Reconciled(m, github, o.infer) = Merged(m, ImportItems(m, bare, o))
    <3> HIDE DEF o, m, chosen
    <3> QED BY <2>1, <2>3, <2>4, <2>5, RecoveryIsAdoption
  <2> HIDE DEF o, m, bare
  <2> QED BY <2>1, <2>2, <2>6, <2>7
<1>2. IInv => RecoveryCompletes
  BY <1>1
<1> QED BY <1>2, IInvAlways, PTL

(* The greatest of some numbers up to n.                                    *)
LEMMA GreatestIs ==
    ASSUME NEW n \in Nat, NEW S \in SUBSET (1..n), S # {}
    PROVE  Max(S) \in S /\ \A y \in S : Max(S) >= y
<1> DEFINE U == {u \in Nat : \A y \in S : y <= u}
<1>1. n \in U
  OBVIOUS
<1>2. PICK u \in U : \A k \in U : u <= k
  BY <1>1, LeastNumber
<1>u. u \in Nat
  OBVIOUS
<1>3. u \in S
  <2> SUFFICES ASSUME u \notin S PROVE FALSE
    OBVIOUS
  <2>1. \A y \in S : y < u /\ y \in Nat /\ y >= 1
    <3>1. \A y \in S : y <= u /\ y # u /\ y \in 1..n
      BY <1>2
    <3> HIDE DEF U
    <3> QED BY <1>u, <3>1
  <2>2. u \in Nat /\ u >= 1
    <3>1. PICK y \in S : TRUE
      OBVIOUS
    <3>2. y < u /\ y \in Nat /\ y >= 1
      BY <2>1
    <3> QED BY <1>u, <3>2
  <2>3. u - 1 \in Nat /\ (\A y \in S : y <= u - 1)
    <3> HIDE DEF U
    <3> QED BY <2>1, <2>2
  <2>4. u - 1 \in U
    BY <2>3
  <2>5. u <= u - 1
    BY <1>2, <2>4
  <2> HIDE DEF U
  <2> QED BY <2>2, <2>5
<1> QED BY <1>2, <1>3 DEF Max

(* The numbers of S below n.                                                *)
Below(S, n) == {j \in S : j < n}

(* A number before another has fewer below it.                              *)
LEMMA RanksDiffer ==
    ASSUME NEW S, IsFiniteSet(S), S \subseteq Int
    PROVE  /\ \A i \in S : IsFiniteSet(Below(S, i)) /\ Cardinality(Below(S, i)) \in 0..(Cardinality(S) - 1)
           /\ \A i, j \in S : i < j => Cardinality(Below(S, i)) < Cardinality(Below(S, j))
<1> DEFINE n == Cardinality(S)
<1>1. n \in Nat
  BY FS_CardinalityType
<1>2. ASSUME NEW i \in S
      PROVE  IsFiniteSet(Below(S, i)) /\ Cardinality(Below(S, i)) \in 0..(n - 1)
  <2>1. IsFiniteSet(Below(S, i)) /\ Cardinality(Below(S, i)) <= n
        /\ (Cardinality(Below(S, i)) = n => S = Below(S, i))
    BY FS_Subset DEF Below
  <2>2. Cardinality(Below(S, i)) \in Nat /\ Below(S, i) # S
    BY <2>1, FS_CardinalityType DEF Below
  <2> HIDE DEF n
  <2> QED BY <1>1, <2>1, <2>2
<1>3. ASSUME NEW i \in S, NEW j \in S, i < j
      PROVE  Cardinality(Below(S, i)) < Cardinality(Below(S, j))
  <2>1. Below(S, i) \in SUBSET Below(S, j) /\ i \in Below(S, j) /\ i \notin Below(S, i)
    <3>1. i \in Int /\ j \in Int /\ \A x \in S : x \in Int
      OBVIOUS
    <3>2. ~(i < i)
      BY <3>1
    <3>3. \A x \in S : x < i => x < j
      <4> HIDE DEF n
      <4> QED BY <1>3, <3>1
    <3> HIDE DEF n
    <3> QED BY <1>3, <3>2, <3>3 DEF Below
  <2>2. Cardinality(Below(S, i)) <= Cardinality(Below(S, j))
        /\ Cardinality(Below(S, i)) # Cardinality(Below(S, j))
    BY <1>2, <2>1, FS_Subset
  <2>3. Cardinality(Below(S, i)) \in Nat /\ Cardinality(Below(S, j)) \in Nat
    BY <1>2, FS_CardinalityType
  <2> QED BY <2>2, <2>3
<1> QED BY <1>2, <1>3

(* In a finite set of numbers every rank below the size is some number's.   *)
LEMMA RanksAreTaken ==
    ASSUME NEW S, IsFiniteSet(S), S \subseteq Int, NEW k \in 1..Cardinality(S)
    PROVE  \E i \in S : Cardinality(Below(S, i)) = k - 1
<1> DEFINE n == Cardinality(S)
           rank == [i \in S |-> Cardinality(Below(S, i))]
<1>1. n \in Nat
  BY FS_CardinalityType
<1>2. /\ \A i \in S : rank[i] \in 0..(n - 1)
      /\ \A i, j \in S : i < j => rank[i] < rank[j]
  BY RanksDiffer
<1>4. \A i, j \in S : i # j => rank[i] # rank[j]
  <2> SUFFICES ASSUME NEW i \in S, NEW j \in S, i # j PROVE rank[i] # rank[j]
    OBVIOUS
  <2> HIDE DEF rank
  <2>1. i < j \/ j < i
    OBVIOUS
  <2> QED BY <1>1, <1>2, <2>1
<1> HIDE DEF rank
<1>5. \E i \in S : rank[i] = k - 1
  <2> SUFFICES ASSUME \A i \in S : rank[i] # k - 1 PROVE FALSE
    OBVIOUS
  <2> DEFINE I == 0..(n - 1)
             x == k - 1
             T == I \ {x}
  <2>1. IsFiniteSet(I) /\ Cardinality(I) = n /\ x \in I
    <3> HIDE DEF n
    <3>1. k \in 1..n
      BY DEF n
    <3> QED BY <1>1, <3>1, FS_Interval
  <2>3. rank \in [S -> T]
    <3>1. \A i \in S : rank[i] \in T
      BY <1>2
    <3>2. DOMAIN rank = S /\ rank = [i \in S |-> rank[i]]
      BY DEF rank
    <3> QED BY <3>1, <3>2
  <2>2. IsFiniteSet(T) /\ Cardinality(T) = n - 1 /\ n - 1 < n
    <3> HIDE DEF n, I, x
    <3> QED BY <1>1, <2>1, FS_RemoveElement
  <2>5. \E a, b \in S : a # b /\ rank[a] = rank[b]
    <3> HIDE DEF T
    <3> QED BY <2>2, <2>3, FS_PigeonHole
  <2> QED BY <1>4, <2>5
<1> QED BY <1>5 DEF rank

(* The numbers of a set, in order, each of them once.                       *)
LEMMA InOrderLists ==
    ASSUME NEW S, IsFiniteSet(S), S \subseteq Int
    PROVE  /\ Cardinality(S) \in Nat
           /\ InOrder(S) \in [1..Cardinality(S) -> S]
           /\ \A j, k \in 1..Cardinality(S) : j < k => InOrder(S)[j] < InOrder(S)[k]
           /\ \A i \in S : \E k \in 1..Cardinality(S) : InOrder(S)[k] = i
<1>1. Cardinality(S) \in Nat
  BY FS_CardinalityType
<1>2. ASSUME NEW k \in 1..Cardinality(S)
      PROVE  InOrder(S)[k] \in S /\ Cardinality(Below(S, InOrder(S)[k])) = k - 1
  <2>1. \E i \in S : Cardinality({j \in S : j < i}) = k - 1
    BY RanksAreTaken DEF Below
  <2>2. InOrder(S)[k] = CHOOSE i \in S : Cardinality({j \in S : j < i}) = k - 1
    BY DEF InOrder
  <2> QED BY <2>1, <2>2 DEF Below
<1>3. InOrder(S) \in [1..Cardinality(S) -> S]
  BY <1>2 DEF InOrder
<1>4. ASSUME NEW j \in 1..Cardinality(S), NEW k \in 1..Cardinality(S), j < k
      PROVE  InOrder(S)[j] < InOrder(S)[k]
  <2> DEFINE a == InOrder(S)[j]
             b == InOrder(S)[k]
  <2>1. a \in S /\ b \in S /\ Cardinality(Below(S, a)) = j - 1 /\ Cardinality(Below(S, b)) = k - 1
    BY <1>2
  <2> HIDE DEF a, b
  <2>2. a # b /\ ~(b < a)
    <3>1. j \in Int /\ k \in Int
      BY <1>1
    <3>2. b < a => k - 1 < j - 1
      BY <2>1, RanksDiffer
    <3> QED BY <1>4, <2>1, <3>1, <3>2
  <2>3. a \in Int /\ b \in Int
    BY <2>1
  <2>4. a < b
    BY <2>2, <2>3
  <2> QED BY <2>4 DEF a, b
<1>5. ASSUME NEW i \in S PROVE \E k \in 1..Cardinality(S) : InOrder(S)[k] = i
  <2> DEFINE r == Cardinality(Below(S, i))
             k == r + 1
             b == InOrder(S)[k]
  <2>1. r \in 0..(Cardinality(S) - 1)
    BY RanksDiffer
  <2>2. k \in 1..Cardinality(S) /\ k - 1 = r
    <3> HIDE DEF r
    <3> QED BY <1>1, <2>1
  <2>3. b \in S /\ Cardinality(Below(S, b)) = r
    <3>1. \A l \in 1..Cardinality(S) : InOrder(S)[l] \in S /\ Cardinality(Below(S, InOrder(S)[l])) = l - 1
      BY <1>2
    <3> HIDE DEF r, k
    <3> QED BY <2>2, <3>1
  <2>4. ~(b < i) /\ ~(i < b) /\ b \in Int /\ i \in Int
    <3> HIDE DEF b, k
    <3>1. b < i => Cardinality(Below(S, b)) < Cardinality(Below(S, i))
      BY <2>3, RanksDiffer
    <3>2. i < b => Cardinality(Below(S, i)) < Cardinality(Below(S, b))
      BY <2>3, RanksDiffer
    <3>3. r \in Int
      BY <2>1
    <3> QED BY <2>3, <3>1, <3>2, <3>3
  <2>5. b = i
    <3> HIDE DEF b
    <3> QED BY <2>4
  <2> HIDE DEF k
  <2> QED BY <2>2, <2>5
<1> QED BY <1>1, <1>3, <1>4, <1>5

(* A fold has all its values, whatever the function that is folded.         *)
Folded(f, n, X, base, F) ==
    /\ f \in [SUBSET (1..n) -> X]
    /\ \A s \in SUBSET (1..n) :
          f[s] = IF s = {} THEN base ELSE F[<<f[s \ {Max(s)}], Max(s)>>]

(* The last turn of a prefix, and the prefix before it.                    *)
LEMMA LastOfPrefix ==
    ASSUME NEW k \in Nat, k # 0
    PROVE  Max(1..k) = k /\ (1..k) \ {k} = 1..(k - 1) /\ 1..k # {}
<1> DEFINE s == 1..k
<1>1. s \in SUBSET (1..k) /\ s # {} /\ k \in s
  OBVIOUS
<1>2. Max(s) \in s /\ \A y \in s : Max(s) >= y
  <2> HIDE DEF s
  <2> QED BY <1>1, GreatestIs
<1>3. Max(s) \in Int /\ Max(s) <= k
  BY <1>2
<1>4. Max(s) >= k
  <2> HIDE DEF s
  <2> QED BY <1>1, <1>2
<1> QED BY <1>1, <1>3, <1>4

(* A fold over the prefixes exists: each set adds its last turn.            *)
LEMMA FoldExists ==
    ASSUME NEW n \in Nat, NEW X, NEW base \in X, NEW F \in [X \X (1..n) -> X]
    PROVE  \E f : Folded(f, n, X, base, F)
<1> DEFINE N == 1..n
           Upto(k) == {s \in SUBSET N : Cardinality(s) <= k}
           Value(f, s) == IF s = {} THEN base ELSE F[<<f[s \ {Max(s)}], Max(s)>>]
           Is(f, k) == f \in [Upto(k) -> X] /\ \A s \in Upto(k) : f[s] = Value(f, s)
           Bad == {k \in Nat : ~\E f : Is(f, k)}
<1>a. IsFiniteSet(N) /\ N \subseteq Int
  BY FS_Interval
<1> HIDE DEF N
<1>0. \A s \in SUBSET N : IsFiniteSet(s) /\ Cardinality(s) \in Nat /\ s \in SUBSET Int
  BY <1>a, FS_Subset, FS_CardinalityType
<1>b. \A s \in SUBSET N : s # {} => Max(s) \in s
  BY GreatestIs DEF N
<1>1. Bad = {}
  <2> SUFFICES ASSUME Bad # {} PROVE FALSE
    OBVIOUS
  <2>1. PICK k \in Bad : \A j \in Bad : k <= j
    BY LeastNumber
  <2>2. CASE k = 0
    <3>1. \A s \in Upto(0) : s = {}
      BY <1>0, FS_EmptySet
    <3> DEFINE f == [s \in Upto(0) |-> base]
    <3>2. Is(f, 0)
      <4>1. f \in [Upto(0) -> X]
        OBVIOUS
      <4>2. \A s \in Upto(0) : f[s] = Value(f, s)
        BY <3>1
      <4> QED BY <4>1, <4>2
    <3> QED BY <2>1, <2>2, <3>2
  <2>3. CASE k # 0
    <3>1. k \in Nat /\ k - 1 \in Nat
      BY <2>3
    <3>2. k - 1 \notin Bad
      <4> HIDE DEF Bad
      <4> QED BY <2>1, <3>1
    <3>3. PICK h : Is(h, k - 1)
      BY <3>1, <3>2
    <3> DEFINE f == [s \in Upto(k) |-> IF Cardinality(s) = k THEN Value(h, s) ELSE h[s]]
    <3>4. ASSUME NEW s \in Upto(k), s # {}
          PROVE  s \ {Max(s)} \in Upto(k - 1) /\ Cardinality(s \ {Max(s)}) # k
                 /\ s \ {Max(s)} \in Upto(k)
      <4>1. Max(s) \in s
        BY <3>4, <1>b
      <4>2. Cardinality(s \ {Max(s)}) = Cardinality(s) - 1 /\ Cardinality(s) \in Nat
        BY <4>1, <1>0, FS_RemoveElement
      <4>3. Cardinality(s) <= k /\ s \ {Max(s)} \in SUBSET N
        OBVIOUS
      <4> QED BY <4>2, <4>3, <3>1
    <3>5. ASSUME NEW s \in Upto(k) PROVE f[s] = Value(f, s) /\ f[s] \in X
      <4>1. CASE Cardinality(s) = k
        <5>1. f[s] = Value(h, s)
          BY <4>1
        <5>2. s # {}
          BY <4>1, <2>3, FS_EmptySet
        <5>3. f[s \ {Max(s)}] = h[s \ {Max(s)}] /\ h[s \ {Max(s)}] \in X
          BY <5>2, <3>3, <3>4
        <5>4. Max(s) \in N
          BY <5>2, <1>b
        <5>5. Value(h, s) \in X
          <6>1. <<h[s \ {Max(s)}], Max(s)>> \in X \X N
            BY <5>3, <5>4
          <6>2. F \in [X \X N -> X]
            BY DEF N
          <6> HIDE DEF Upto
          <6> QED BY <5>2, <6>1, <6>2
        <5> QED BY <5>1, <5>2, <5>3, <5>5
      <4>2. CASE Cardinality(s) # k
        <5>1. s \in Upto(k - 1)
          BY <4>2, <1>0, <3>1
        <5>2. f[s] = h[s] /\ h[s] = Value(h, s) /\ h[s] \in X
          BY <5>1, <4>2, <3>3
        <5>3. s # {} => f[s \ {Max(s)}] = h[s \ {Max(s)}]
          BY <3>4
        <5> QED BY <5>2, <5>3
      <4> QED BY <4>1, <4>2
    <3>6. Is(f, k)
      <4>1. f = [s \in Upto(k) |-> f[s]]
        OBVIOUS
      <4> HIDE DEF f, Value, Upto
      <4> QED BY <3>5, <4>1
    <3> QED BY <2>1, <3>6
  <2> QED BY <2>2, <2>3
<1>2. Upto(Cardinality(N)) = SUBSET N
  BY <1>a, FS_Subset, <1>0
<1>3. PICK f : Is(f, Cardinality(N))
  BY <1>0, <1>1
<1>4. f \in [SUBSET N -> X] /\ \A s \in SUBSET N : f[s] = Value(f, s)
  <2> HIDE DEF Upto, Value
  <2> QED BY <1>2, <1>3
<1>5. Folded(f, n, X, base, F)
  BY <1>4 DEF N, Folded
<1> QED BY <1>5

(* The selection loop: what is taken after each set of turns.               *)
Passed(m, g, o, taken, n) ==
    \/ n \notin o.include
    \/ Cardinality(taken) >= o.limit
    \/ ~o.duplicates /\ g[n].title \in Titles(m) \cup {g[k].title : k \in taken}
Picking(m, g, o, taken, n) == IF Passed(m, g, o, taken, n) THEN taken ELSE taken \cup {n}
Choice(m, g, o, order) ==
    CHOOSE f : f = [s \in SUBSET (DOMAIN order) |->
        IF s = {} THEN {} ELSE Picking(m, g, o, f[s \ {Max(s)}], order[Max(s)])]
ChoiceAt(m, g, o, order, k) == Choice(m, g, o, order)[1..k]

(* Chosen is where the loop ends.                                           *)
LEMMA ChosenIsChoice ==
    ASSUME NEW m, NEW g, NEW o
    PROVE  Chosen(m, g, o) =
             Choice(m, g, o, InOrder(Unmanaged(g)))[DOMAIN InOrder(Unmanaged(g))]
BY DEF Chosen, FoldLeft, MapThenFoldSet, Choice, Picking, Passed

(* It starts with nothing taken and goes on turn by turn.                   *)
LEMMA ChoiceSteps ==
    ASSUME NEW m, NEW g, NEW o, NEW U, NEW n \in Nat, NEW order \in [1..n -> U]
    PROVE  /\ ChoiceAt(m, g, o, order, 0) = {}
           /\ \A k \in 1..n :
                 ChoiceAt(m, g, o, order, k)
                 = Picking(m, g, o, ChoiceAt(m, g, o, order, k - 1), order[k])
           /\ \A k \in 0..n : ChoiceAt(m, g, o, order, k) \in SUBSET U
<1> DEFINE X == SUBSET U
           F == [p \in X \X (1..n) |-> Picking(m, g, o, p[1], order[p[2]])]
           w == Choice(m, g, o, order)
<1>1. DOMAIN order = 1..n /\ \A k \in 1..n : order[k] \in U
  OBVIOUS
<1>2. ASSUME NEW x \in X, NEW i \in U PROVE Picking(m, g, o, x, i) \in X
  BY DEF Picking
<1>3. F \in [X \X (1..n) -> X]
  <2>1. \A p \in X \X (1..n) : p[1] \in X /\ order[p[2]] \in U
    BY <1>1
  <2> HIDE DEF X
  <2> QED BY <1>2, <2>1
<1>4. \A x \in X : \A k \in 1..n : F[<<x, k>>] = Picking(m, g, o, x, order[k])
  OBVIOUS
<1> HIDE DEF F
<1>a. PICK f : Folded(f, n, X, {}, F)
  <2>1. {} \in X
    OBVIOUS
  <2> HIDE DEF X
  <2> QED BY <1>3, <2>1, FoldExists
<1>5. /\ f \in [SUBSET (1..n) -> X]
      /\ \A s \in SUBSET (1..n) :
            f[s] = IF s = {} THEN {} ELSE F[<<f[s \ {Max(s)}], Max(s)>>]
  BY <1>a DEF Folded
<1> DEFINE Value(h, s) == IF s = {} THEN {}
                          ELSE Picking(m, g, o, h[s \ {Max(s)}], order[Max(s)])
<1>6. ASSUME NEW s \in SUBSET (1..n) PROVE f[s] = Value(f, s)
  <2>1. CASE s = {}
    BY <1>5, <2>1
  <2>2. CASE s # {}
    <3>1. Max(s) \in 1..n
      BY <2>2, GreatestIs
    <3>2. f[s \ {Max(s)}] \in X
      BY <1>5
    <3> HIDE DEF X
    <3> QED BY <1>4, <1>5, <2>2, <3>1, <3>2
  <2> QED BY <2>1, <2>2
<1>7. f = [s \in SUBSET (1..n) |-> Value(f, s)]
  <2>1. f = [s \in SUBSET (1..n) |-> f[s]]
    BY <1>5
  <2> HIDE DEF Value
  <2> QED BY <1>6, <2>1
<1>8. w = [s \in SUBSET (1..n) |-> Value(w, s)]
  <2> DEFINE G(h) == h = [s \in SUBSET (DOMAIN order) |-> Value(h, s)]
  <2>1. G(f)
    BY <1>1, <1>7
  <2>2. w = CHOOSE h : G(h)
    BY DEF Choice
  <2>3. G(w)
    <3> HIDE DEF G, w
    <3> QED BY <2>1, <2>2
  <2> HIDE DEF w, Value
  <2> QED BY <1>1, <2>3
<1>9. \A s \in SUBSET (1..n) : w[s] = Value(w, s)
  <2> HIDE DEF w, Value
  <2> QED BY <1>8
<1>10. w[1..0] = {}
  <2>1. 1..0 = {} /\ 1..0 \in SUBSET (1..n)
    OBVIOUS
  <2> HIDE DEF w
  <2> QED BY <1>9, <2>1
<1>11. ASSUME NEW k \in 1..n
       PROVE  w[1..k] = Picking(m, g, o, w[1..(k - 1)], order[k])
  <2>1. Max(1..k) = k /\ (1..k) \ {k} = 1..(k - 1) /\ 1..k # {}
    <3>1. k \in Nat /\ k # 0
      OBVIOUS
    <3> QED BY <3>1, LastOfPrefix
  <2>2. 1..k \in SUBSET (1..n)
    OBVIOUS
  <2> HIDE DEF w
  <2> QED BY <1>9, <2>1, <2>2
<1>12. ASSUME NEW k \in 0..n PROVE w[1..k] \in X
  <2> DEFINE Bad == {j \in 0..n : w[1..j] \notin X}
  <2> SUFFICES ASSUME Bad # {} PROVE FALSE
    OBVIOUS
  <2>1. PICK j \in Bad : \A i \in Bad : j <= i
    <3>1. Bad \in SUBSET Nat
      OBVIOUS
    <3> HIDE DEF Bad
    <3> QED BY <3>1, LeastNumber
  <2>2. CASE j = 0
    BY <1>10, <2>1, <2>2
  <2>3. CASE j # 0
    <3>1. j \in 1..n /\ j - 1 \in 0..n /\ ~(j <= j - 1)
      BY <2>3
    <3>2. w[1..(j - 1)] \in X
      <4>1. j - 1 \notin Bad
        <5> HIDE DEF Bad
        <5> QED BY <2>1, <3>1
      <4> HIDE DEF w, X
      <4> QED BY <3>1, <4>1
    <3>3. order[j] \in U
      BY <1>1, <3>1
    <3>4. w[1..j] \in X
      <4> HIDE DEF w, X
      <4> QED BY <1>2, <1>11, <3>1, <3>2, <3>3
    <3> HIDE DEF w, X
    <3> QED BY <2>1, <3>4
  <2> QED BY <2>2, <2>3
<1> QED BY <1>10, <1>11, <1>12 DEF ChoiceAt

(* What is chosen, without the loop: an unmanaged issue that is not passed  *)
(* over after those of smaller numbers.                                     *)
ChoosesInTurn(m, g, o, C) ==
    /\ C \subseteq Unmanaged(g)
    /\ \A n \in Unmanaged(g) : n \in C <=> ~Passed(m, g, o, Below(C, n), n)

Listable(g) == IsFiniteSet(Unmanaged(g)) /\ Unmanaged(g) \subseteq Nat

(* The loop chooses in turn.                                               *)
LEMMA ChosenInTurn ==
    ASSUME NEW m, NEW g, NEW o, Listable(g)
    PROVE  ChoosesInTurn(m, g, o, Chosen(m, g, o))
<1> DEFINE U == Unmanaged(g)
           order == InOrder(U)
           N == Cardinality(U)
           T(k) == ChoiceAt(m, g, o, order, k)
<1>1. /\ N \in Nat /\ order \in [1..N -> U]
      /\ \A j, k \in 1..N : j < k => order[j] < order[k]
      /\ \A n \in U : \E k \in 1..N : order[k] = n
  <2>1. IsFiniteSet(U) /\ U \subseteq Int
    BY DEF Listable
  <2> HIDE DEF U
  <2> QED BY <2>1, InOrderLists
<1>2. Chosen(m, g, o) = T(N)
  <2>1. DOMAIN order = 1..N
    BY <1>1
  <2>2. Chosen(m, g, o) = Choice(m, g, o, order)[DOMAIN order]
    BY ChosenIsChoice
  <2> HIDE DEF order, N
  <2> QED BY <2>1, <2>2 DEF ChoiceAt
<1>u. U \subseteq Int
  BY DEF Listable
<1> HIDE DEF U, order, N
<1>3. /\ T(0) = {} /\ \A k \in 0..N : T(k) \in SUBSET U
      /\ \A k \in 1..N : T(k) = Picking(m, g, o, T(k - 1), order[k])
  <2>1. N \in Nat /\ order \in [1..N -> U]
    BY <1>1
  <2>2. /\ ChoiceAt(m, g, o, order, 0) = {}
        /\ \A k \in 1..N :
              ChoiceAt(m, g, o, order, k)
              = Picking(m, g, o, ChoiceAt(m, g, o, order, k - 1), order[k])
        /\ \A k \in 0..N : ChoiceAt(m, g, o, order, k) \in SUBSET U
    BY <2>1, ChoiceSteps
  <2> QED BY <2>2
<1> HIDE DEF T
<1> DEFINE Upto(k) == {order[j] : j \in 1..k}
           Right(k) == T(k) \subseteq Upto(k) /\ \A j \in 1..k : order[j] \in T(k) <=> order[j] \in T(j)
           Bad == {k \in 0..N : ~Right(k)}
<1>4. Bad = {}
  <2> SUFFICES ASSUME Bad # {} PROVE FALSE
    OBVIOUS
  <2>1. PICK k \in Bad : \A i \in Bad : k <= i
    <3>1. Bad \in SUBSET Nat
      OBVIOUS
    <3> HIDE DEF Bad
    <3> QED BY <3>1, LeastNumber
  <2>2. CASE k = 0
    <3>1. Right(0)
      BY <1>3
    <3> QED BY <2>1, <2>2, <3>1
  <2>3. CASE k # 0
    <3>1. k \in 1..N /\ k - 1 \in 0..N /\ ~(k <= k - 1)
      BY <2>3, <1>1
    <3>2. Right(k - 1)
      <4>1. k - 1 \notin Bad
        <5> HIDE DEF Bad
        <5> QED BY <2>1, <3>1
      <4> HIDE DEF Right
      <4> QED BY <3>1, <4>1
    <3>3. T(k) = T(k - 1) \/ T(k) = T(k - 1) \cup {order[k]}
      BY <1>3, <3>1 DEF Picking
    <3>4. \A j \in 1..k : j = k \/ (j \in 1..(k - 1) /\ order[j] # order[k])
      <4> SUFFICES ASSUME NEW j \in 1..k, j # k PROVE j \in 1..(k - 1) /\ order[j] # order[k]
        OBVIOUS
      <4>1. j \in 1..N /\ j < k
        BY <1>1, <3>1
      <4>2. order[j] < order[k] /\ order[j] \in U /\ order[k] \in U
        BY <1>1, <3>1, <4>1
      <4>3. order[j] \in Int /\ order[k] \in Int
        BY <1>u, <4>2
      <4> QED BY <3>1, <4>1, <4>2, <4>3
    <3>5. Upto(k - 1) \subseteq Upto(k) /\ order[k] \in Upto(k)
      <4>1. \A j \in 1..(k - 1) : j \in 1..k
        BY <3>1
      <4>2. k \in 1..k
        BY <3>1
      <4> QED BY <4>1, <4>2
    <3>6. T(k) \subseteq Upto(k)
      <4>1. T(k - 1) \subseteq Upto(k - 1)
        BY <3>2
      <4> HIDE DEF Upto
      <4> QED BY <3>3, <3>5, <4>1
    <3>7. \A j \in 1..k : order[j] \in T(k) <=> order[j] \in T(j)
      <4>1. \A j \in 1..(k - 1) : order[j] \in T(k - 1) <=> order[j] \in T(j)
        BY <3>2
      <4> QED BY <3>3, <3>4, <4>1
    <3>8. Right(k)
      <4> HIDE DEF Upto
      <4> QED BY <3>6, <3>7
    <3> HIDE DEF Right
    <3> QED BY <2>1, <3>8
  <2> QED BY <2>2, <2>3
<1>5. \A k \in 0..N : Right(k)
  <2> HIDE DEF Right
  <2> QED BY <1>4
<1>6. ASSUME NEW n \in U
      PROVE  n \in T(N) <=> ~Passed(m, g, o, Below(T(N), n), n)
  <2>1. PICK k \in 1..N : order[k] = n
    BY <1>1
  <2>2. k - 1 \in 0..N /\ N \in 0..N
    BY <1>1
  <2>3. /\ \A j \in 1..N : order[j] \in T(N) <=> order[j] \in T(j)
        /\ \A j \in 1..(k - 1) : order[j] \in T(k - 1) <=> order[j] \in T(j)
        /\ T(k - 1) \subseteq Upto(k - 1) /\ T(N) \subseteq Upto(N)
    BY <1>5, <2>2
  <2>4. \A j \in 1..N : order[j] < n <=> j \in 1..(k - 1)
    <3> SUFFICES ASSUME NEW j \in 1..N PROVE order[j] < n <=> j \in 1..(k - 1)
      OBVIOUS
    <3>1. order[j] \in Int /\ n \in Int
      BY <1>1, <1>u
    <3>2. j < k => order[j] < n
      BY <1>1, <2>1
    <3>3. k < j => n < order[j]
      BY <1>1, <2>1
    <3> QED BY <1>1, <2>1, <3>1, <3>2, <3>3
  <2>5. Below(T(N), n) = T(k - 1)
    <3>1. ASSUME NEW x \in Below(T(N), n) PROVE x \in T(k - 1)
      <4>1. x \in T(N) /\ x < n
        BY <3>1 DEF Below
      <4>2. PICK j \in 1..N : x = order[j]
        BY <2>3, <4>1
      <4>3. j \in 1..(k - 1)
        BY <2>4, <4>1, <4>2
      <4> QED BY <2>3, <4>1, <4>2, <4>3
    <3>2. ASSUME NEW x \in T(k - 1) PROVE x \in Below(T(N), n)
      <4>1. PICK j \in 1..(k - 1) : x = order[j]
        BY <2>3, <3>2
      <4>2. j \in 1..N
        BY <1>1
      <4>3. x < n
        BY <2>4, <4>1, <4>2
      <4>4. x \in T(N)
        BY <2>3, <3>2, <4>1, <4>2
      <4> QED BY <4>3, <4>4 DEF Below
    <3> QED BY <3>1, <3>2
  <2>6. n \in T(N) <=> n \in T(k)
    BY <2>1, <2>3
  <2>7. T(k) = Picking(m, g, o, T(k - 1), n)
    BY <1>3, <2>1
  <2>8. n \notin T(k - 1)
    <3>1. n \notin Below(T(N), n)
      BY <1>u DEF Below
    <3> QED BY <2>5, <3>1
  <2> QED BY <2>5, <2>6, <2>7, <2>8 DEF Picking
<1>7. T(N) \subseteq U
  <2>1. N \in 0..N
    BY <1>1
  <2> QED BY <1>3, <2>1
<1> QED BY <1>2, <1>6, <1>7 DEF ChoosesInTurn, U

(* Nothing else is chosen in turn.                                          *)
LEMMA ChosenIsTheChoice ==
    ASSUME NEW m, NEW g, NEW o, Listable(g), NEW C, ChoosesInTurn(m, g, o, C)
    PROVE  C = Chosen(m, g, o)
<1> DEFINE D == Chosen(m, g, o)
           Bad == {n \in Unmanaged(g) : ~(n \in C <=> n \in D)}
<1>1. ChoosesInTurn(m, g, o, D)
  BY ChosenInTurn
<1> HIDE DEF D
<1>2. C \subseteq Unmanaged(g) /\ D \subseteq Unmanaged(g) /\ Unmanaged(g) \subseteq Nat
  BY <1>1 DEF ChoosesInTurn, Listable
<1>3. Bad = {}
  <2> SUFFICES ASSUME Bad # {} PROVE FALSE
    OBVIOUS
  <2>1. PICK n \in Bad : \A i \in Bad : n <= i
    <3>1. Bad \in SUBSET Nat
      BY <1>2
    <3> HIDE DEF Bad
    <3> QED BY <3>1, LeastNumber
  <2>2. Below(C, n) = Below(D, n)
    <3>1. \A x \in Unmanaged(g) : x < n => x \notin Bad
      <4> SUFFICES ASSUME NEW x \in Unmanaged(g), x < n, x \in Bad PROVE FALSE
        OBVIOUS
      <4>1. x \in Nat /\ n \in Nat
        BY <1>2
      <4>2. n <= x
        BY <2>1
      <4> HIDE DEF Bad
      <4> QED BY <4>1, <4>2
    <3>2. \A x \in Unmanaged(g) : x < n => (x \in C <=> x \in D)
      BY <3>1
    <3> HIDE DEF Bad
    <3> QED BY <1>2, <3>2 DEF Below
  <2> QED BY <1>1, <2>2 DEF ChoosesInTurn
<1>4. C = D
  BY <1>2, <1>3
<1> QED BY <1>4 DEF D

(* What a listing tells of the issues it lists.                             *)
SameText(x, y) ==
    x.title = y.title /\ x.type = y.type /\ x.prose = y.prose /\ x.closed = y.closed
SameLinks(g, h, n) ==
    /\ g[n].parent = h[n].parent /\ g[n].blockedBy = h[n].blockedBy
    /\ \A r \in {g[n].parent} \cup g[n].blockedBy :
          (r \in DOMAIN g <=> r \in DOMAIN h) /\ (r \in DOMAIN g => g[r].marker = h[r].marker)

(* Equal listings tell the same, in the same mode.                         *)
LEMMA ListingsTell ==
    ASSUME NEW g, NEW h, Issues(g), Issues(h), NEW a \in BOOLEAN, NEW b \in BOOLEAN,
           Listing(g, a) = Listing(h, b)
    PROVE  /\ Unmanaged(g) = Unmanaged(h)
           /\ \A n \in Unmanaged(g) :
                 a = b /\ SameText(g[n], h[n]) /\ (a => SameLinks(g, h, n))
<1> DEFINE Related(x, i, n) == IF i THEN ({x[n].parent} \cup x[n].blockedBy) \cap DOMAIN x ELSE {}
           Shown(x, i, n) == IF i THEN x[n] ELSE [x[n] EXCEPT !.parent = NoId, !.blockedBy = {}]
           Markers(x, i, n) == [k \in Related(x, i, n) |-> x[k].marker]
<1>1. \A x, i : Listing(x, i) = [n \in Unmanaged(x) |-> <<i, Shown(x, i, n), Markers(x, i, n)>>]
  BY DEF Listing
<1> HIDE DEF Shown, Markers
<1>2. Unmanaged(g) = Unmanaged(h)
  <2>1. DOMAIN Listing(g, a) = Unmanaged(g) /\ DOMAIN Listing(h, b) = Unmanaged(h)
    BY <1>1
  <2> QED BY <2>1
<1>3. ASSUME NEW n \in Unmanaged(g)
      PROVE  a = b /\ Shown(g, a, n) = Shown(h, b, n) /\ Markers(g, a, n) = Markers(h, b, n)
  <2>1. /\ Listing(g, a)[n] = <<a, Shown(g, a, n), Markers(g, a, n)>>
        /\ Listing(h, b)[n] = <<b, Shown(h, b, n), Markers(h, b, n)>>
    BY <1>1, <1>2
  <2>2. <<a, Shown(g, a, n), Markers(g, a, n)>> = <<b, Shown(h, b, n), Markers(h, b, n)>>
    BY <2>1
  <2> QED BY <2>2
<1>4. ASSUME NEW n \in Unmanaged(g)
      PROVE  SameText(g[n], h[n]) /\ (a => g[n] = h[n])
  <2> DEFINE x == g[n]
             y == h[n]
  <2>1. /\ x = [marker |-> x.marker, title |-> x.title, type |-> x.type, prose |-> x.prose,
                closed |-> x.closed, parent |-> x.parent, blockedBy |-> x.blockedBy]
        /\ y = [marker |-> y.marker, title |-> y.title, type |-> y.type, prose |-> y.prose,
                closed |-> y.closed, parent |-> y.parent, blockedBy |-> y.blockedBy]
    <3>1. n \in DOMAIN g /\ n \in DOMAIN h
      BY <1>2 DEF Unmanaged
    <3> QED BY <3>1 DEF Issues
  <2>2. CASE a
    <3>1. x = y
      BY <1>3, <2>2 DEF Shown
    <3> HIDE DEF x, y
    <3>2. SameText(x, y)
      BY <3>1 DEF SameText
    <3> QED BY <3>1, <3>2 DEF x, y
  <2>3. CASE ~a
    <3>1. [x EXCEPT !.parent = NoId, !.blockedBy = {}] = [y EXCEPT !.parent = NoId, !.blockedBy = {}]
      BY <1>3, <2>3 DEF Shown
    <3> HIDE DEF x, y
    <3>2. ASSUME NEW z,
                 z = [marker |-> z.marker, title |-> z.title, type |-> z.type, prose |-> z.prose,
                      closed |-> z.closed, parent |-> z.parent, blockedBy |-> z.blockedBy]
          PROVE  SameText([z EXCEPT !.parent = NoId, !.blockedBy = {}], z)
      <4>1. [z EXCEPT !.parent = NoId]
               = [marker |-> z.marker, title |-> z.title, type |-> z.type, prose |-> z.prose,
                  closed |-> z.closed, parent |-> NoId, blockedBy |-> z.blockedBy]
        BY <3>2
      <4>2. [[z EXCEPT !.parent = NoId] EXCEPT !.blockedBy = {}]
               = [marker |-> z.marker, title |-> z.title, type |-> z.type, prose |-> z.prose,
                  closed |-> z.closed, parent |-> NoId, blockedBy |-> {}]
        <5> HIDE <4>1
        <5>1. [[marker |-> z.marker, title |-> z.title, type |-> z.type, prose |-> z.prose,
                closed |-> z.closed, parent |-> NoId, blockedBy |-> z.blockedBy]
                EXCEPT !.blockedBy = {}]
               = [marker |-> z.marker, title |-> z.title, type |-> z.type, prose |-> z.prose,
                  closed |-> z.closed, parent |-> NoId, blockedBy |-> {}]
          OBVIOUS
        <5> QED BY <4>1, <5>1
      <4>3. [z EXCEPT !.parent = NoId, !.blockedBy = {}] = [[z EXCEPT !.parent = NoId] EXCEPT !.blockedBy = {}]
        OBVIOUS
      <4> QED BY <4>2, <4>3 DEF SameText
    <3>3. SameText(x, y)
      BY <2>1, <3>1, <3>2 DEF SameText
    <3> QED BY <2>3, <3>3 DEF x, y
  <2> QED BY <2>2, <2>3
<1>5. ASSUME NEW n \in Unmanaged(g), a PROVE SameLinks(g, h, n)
  <2>1. g[n] = h[n] /\ b
    BY <1>3, <1>4, <1>5
  <2> DEFINE R == {g[n].parent} \cup g[n].blockedBy
  <2>2. /\ Markers(g, a, n) = [k \in R \cap DOMAIN g |-> g[k].marker]
        /\ Markers(h, b, n) = [k \in R \cap DOMAIN h |-> h[k].marker]
    BY <1>5, <2>1 DEF Markers
  <2> HIDE DEF R
  <2>3. R \cap DOMAIN g = R \cap DOMAIN h
    BY <1>3, <2>2
  <2>4. \A r \in R \cap DOMAIN g : g[r].marker = h[r].marker
    BY <1>3, <2>2, <2>3
  <2>5. \A r \in R : (r \in DOMAIN g <=> r \in DOMAIN h) /\ (r \in DOMAIN g => g[r].marker = h[r].marker)
    BY <2>3, <2>4
  <2> QED BY <2>1, <2>5 DEF SameLinks, R
<1> QED BY <1>2, <1>3, <1>4, <1>5

(* Issues that read alike are proposed alike.                               *)
LEMMA AlikeItems ==
    ASSUME NEW m, NEW g, NEW h, NEW C, NEW a,
           C \subseteq Unmanaged(g), Unmanaged(g) = Unmanaged(h),
           \A n \in C : SameText(g[n], h[n]) /\ (a => SameLinks(g, h, n))
    PROVE  LET new == [n \in C |-> n]
           IN  /\ FlatItems(g, new) = FlatItems(h, new)
               /\ a => Inferred(m, g, DOMAIN m, new) = Inferred(m, h, DOMAIN m, new)
<1> DEFINE new == [n \in C |-> n]
           known == DOMAIN m
<1>1. FlatItems(g, new) = FlatItems(h, new)
  <2>1. {new[n] : n \in DOMAIN new} = C
    OBVIOUS
  <2>2. \A id \in C : (CHOOSE n \in DOMAIN new : new[n] = id) = id
    OBVIOUS
  <2>3. \A id \in C : FlatItem(g[CHOOSE n \in DOMAIN new : new[n] = id])
                      = FlatItem(h[CHOOSE n \in DOMAIN new : new[n] = id])
    <3>1. \A id \in C : FlatItem(g[id]) = FlatItem(h[id])
      BY DEF FlatItem, SameText
    <3> QED BY <2>2, <3>1
  <2> HIDE DEF new
  <2> QED BY <2>1, <2>3 DEF FlatItems
<1> SUFFICES ASSUME a PROVE Inferred(m, g, known, new) = Inferred(m, h, known, new)
  BY <1>1
<1>2. ASSUME NEW n \in C, NEW r \in {g[n].parent} \cup g[n].blockedBy
      PROVE  Resolved(g, r, known, new) = Resolved(h, r, known, new)
  <2>1. (r \in DOMAIN g <=> r \in DOMAIN h) /\ (r \in DOMAIN g => g[r].marker = h[r].marker)
    BY <1>2 DEF SameLinks
  <2> HIDE DEF new, known
  <2> QED BY <2>1 DEF Resolved
<1> DEFINE parents(x) == [n \in DOMAIN new |-> ParentOf(m, x, n, known, new)]
           wanted(x) == [n \in DOMAIN new |-> Wanted(x, n, known, new)]
<1>3. parents(g) = parents(h)
  <2>1. ASSUME NEW n \in DOMAIN new
        PROVE  ParentOf(m, g, n, known, new) = ParentOf(m, h, n, known, new)
    <3>1. n \in C
      OBVIOUS
    <3>2. g[n].parent = h[n].parent /\ g[n].type = h[n].type
      BY <3>1 DEF SameLinks, SameText
    <3> HIDE DEF new, known
    <3>3. Resolved(g, g[n].parent, known, new) = Resolved(h, h[n].parent, known, new)
      BY <1>2, <3>1, <3>2
    <3> QED BY <1>1, <3>2, <3>3 DEF ParentOf
  <2> HIDE DEF new, known
  <2> QED BY <2>1
<1>4. wanted(g) = wanted(h)
  <2>1. ASSUME NEW n \in DOMAIN new
        PROVE  Wanted(g, n, known, new) = Wanted(h, n, known, new)
    <3>1. n \in C
      OBVIOUS
    <3>2. g[n].blockedBy = h[n].blockedBy
      BY <3>1 DEF SameLinks
    <3> HIDE DEF new, known
    <3> QED BY <1>2, <3>1, <3>2 DEF Wanted
  <2> HIDE DEF new, known
  <2> QED BY <2>1
<1> DEFINE Assembled(flat, up, blockers) ==
             [id \in DOMAIN flat |->
               [flat[id] EXCEPT
                  !.parent = up[CHOOSE n \in DOMAIN new : new[n] = id],
                  !.deps = Dependencies(Merged(m, flat), new, blockers)[id]]]
<1>5. /\ Inferred(m, g, known, new) = Assembled(FlatItems(g, new), parents(g), wanted(g))
      /\ Inferred(m, h, known, new) = Assembled(FlatItems(h, new), parents(h), wanted(h))
  BY Zenon DEF Inferred
<1> HIDE DEF Assembled, parents, wanted, new, known
<1> QED BY <1>1, <1>3, <1>4, <1>5

(* Nothing chosen proposes nothing, in either mode.                         *)
LEMMA NothingProposed ==
    ASSUME NEW m, NEW g, NEW o, Chosen(m, g, o) = {}
    PROVE  ImportItems(m, g, o) = [id \in {} |-> NoId]
<1> DEFINE new == [n \in Chosen(m, g, o) |-> n]
<1>1. FlatItems(g, new) = [id \in {} |-> NoId]
  BY DEF FlatItems
<1>2. \A known : Inferred(m, g, known, new) = [id \in {} |-> NoId]
  <2> SUFFICES ASSUME NEW known PROVE Inferred(m, g, known, new) = [id \in {} |-> NoId]
    OBVIOUS
  <2> HIDE DEF new
  <2>1. DOMAIN FlatItems(g, new) = {}
    BY <1>1
  <2> QED BY <2>1 DEF Inferred
<1> HIDE DEF new
<1> QED BY <1>1, <1>2 DEF ImportItems, new

(* A selection named by what came out of it comes out the same.             *)
LEMMA RebuildAgrees ==
    ASSUME NEW m, NEW g, NEW h, NEW o, NEW r, Issues(g), Issues(h), Listable(g), Listable(h),
           o.infer \in BOOLEAN, r.infer \in BOOLEAN, o.limit \in Nat, r.limit \in Nat,
           ~o.duplicates, ~r.duplicates, r.include = Chosen(m, g, o),
           Cardinality(Unmanaged(h)) < r.limit,
           Listing(g, o.infer) = Listing(h, r.infer), ImportPlannable(m, g, o)
    PROVE  ImportPlannable(m, h, r) /\ ImportPlanOf(m, h, r) = ImportPlanOf(m, g, o)
<1> DEFINE C == Chosen(m, g, o)
           U == Unmanaged(g)
<1>1. /\ U = Unmanaged(h)
      /\ \A n \in U : /\ o.infer = r.infer /\ SameText(g[n], h[n])
                      /\ o.infer => SameLinks(g, h, n)
  BY ListingsTell
<1>2. /\ C \subseteq U
      /\ \A n \in U : n \in C <=> ~Passed(m, g, o, Below(C, n), n)
  BY ChosenInTurn DEF ChoosesInTurn
<1> HIDE DEF C
<1>3. ASSUME NEW S \in SUBSET C
      PROVE  IsFiniteSet(S) /\ Cardinality(S) \in Nat /\ Cardinality(S) < r.limit
  <2>1. IsFiniteSet(S) /\ Cardinality(S) <= Cardinality(Unmanaged(h))
    BY <1>1, <1>2, FS_Subset DEF Listable
  <2>2. Cardinality(S) \in Nat /\ Cardinality(Unmanaged(h)) \in Nat
    BY <2>1, FS_CardinalityType DEF Listable
  <2> QED BY <2>1, <2>2
<1>4. \A n : Below(C, n) \subseteq C
  BY DEF Below
<1>5. ASSUME NEW n \in C PROVE ~Passed(m, h, r, Below(C, n), n)
  <2>1. n \in U /\ ~Passed(m, g, o, Below(C, n), n)
    BY <1>2
  <2>2. g[n].title \notin Titles(m) \cup {g[k].title : k \in Below(C, n)}
    BY <2>1 DEF Passed
  <2>3. g[n].title = h[n].title /\ \A k \in Below(C, n) : g[k].title = h[k].title
    BY <1>1, <1>2, <1>4 DEF SameText
  <2>4. {g[k].title : k \in Below(C, n)} = {h[k].title : k \in Below(C, n)}
    BY <2>3
  <2>5. n \in r.include
    BY DEF C
  <2>6. ~(Cardinality(Below(C, n)) >= r.limit)
    BY <1>3, <1>4
  <2> QED BY <2>2, <2>3, <2>4, <2>5, <2>6 DEF Passed
<1>6. Chosen(m, h, r) = C
  <2>1. \A n \in U \ C : Passed(m, h, r, Below(C, n), n)
    BY DEF Passed, C
  <2>2. ChoosesInTurn(m, h, r, C)
    BY <1>1, <1>2, <1>5, <2>1 DEF ChoosesInTurn
  <2> QED BY <2>2, ChosenIsTheChoice
<1>7. Selectable(m, h, r)
  <2>1. ASSUME NEW n \in r.include \cap DOMAIN m PROVE FALSE
    <3>1. n \in C /\ n \in U /\ ~Passed(m, g, o, Below(C, n), n)
      BY <1>2, <2>1 DEF C
    <3>2. n \in o.include /\ ~(Cardinality(Below(C, n)) >= o.limit)
      BY <3>1 DEF Passed
    <3>3. Cardinality({k \in C : k < n}) >= o.limit
      BY <2>1, <3>2 DEF ImportPlannable, Selectable, C
    <3> QED BY <3>2, <3>3 DEF Below
  <2>2. r.include \subseteq Unmanaged(h)
    BY <1>1, <1>2 DEF C
  <2> QED BY <2>1, <2>2 DEF Selectable
<1>8. ImportItems(m, h, r) = ImportItems(m, g, o)
  <2>1. CASE C = {}
    <3>1. Chosen(m, g, o) = {} /\ Chosen(m, h, r) = {}
      BY <1>6, <2>1 DEF C
    <3> QED BY <3>1, NothingProposed
  <2>2. CASE C # {}
    <3> DEFINE new == [n \in C |-> n]
    <3>1. o.infer = r.infer
      BY <1>1, <1>2, <2>2
    <3>2. /\ FlatItems(g, new) = FlatItems(h, new)
          /\ o.infer => Inferred(m, g, DOMAIN m, new) = Inferred(m, h, DOMAIN m, new)
      <4>1. \A n \in C : SameText(g[n], h[n]) /\ (o.infer => SameLinks(g, h, n))
        BY <1>1, <1>2
      <4> QED BY <1>1, <1>2, <4>1, AlikeItems
    <3>3. /\ [n \in Chosen(m, g, o) |-> n] = new /\ [n \in Chosen(m, h, r) |-> n] = new
      BY <1>6 DEF C
    <3> HIDE DEF new
    <3> QED BY <3>1, <3>2, <3>3 DEF ImportItems
  <2> QED BY <2>1, <2>2
<1>9. [n \in C |-> g[n].prose] = [n \in C |-> h[n].prose]
  BY <1>1, <1>2 DEF SameText
<1>10. ImportPlannable(m, h, r)
  BY <1>7, <1>8 DEF ImportPlannable
<1>11. ImportPlanOf(m, h, r) = ImportPlanOf(m, g, o)
  BY <1>6, <1>8, <1>9 DEF ImportPlanOf, C
<1> QED BY <1>10, <1>11

-----------------------------------------------------------------------------
(* The plan a process holds is of the repository as it once was, under the  *)
(* options asked for, and was accepted.                                     *)
Accepted(plan, g, o) ==
    /\ Issues(g) /\ Listable(g) /\ ImportPlannable(plan.manifest, g, o)
    /\ plan = ImportPlanOf(plan.manifest, g, o)
    /\ o.limit \in Nat /\ o.duplicates \in BOOLEAN /\ o.infer \in BOOLEAN
Planned(a) ==
    run[a].pc \in {"planned", "reloaded"} \/ run[a].plan # <<>> =>
        /\ "infer" \in DOMAIN run[a].opts /\ run[a].opts.infer \in BOOLEAN
        /\ \E g, o : Accepted(run[a].plan, g, o) /\ o.duplicates = run[a].opts.duplicates

(* The repository has finitely many issues, fewer than no limit.            *)
Few == IsFiniteSet(DOMAIN github) /\ Cardinality(DOMAIN github) < NoLimit
PlansInv == IInv /\ job \in Case /\ Few /\ \A a \in Adopter : Planned(a)

(* The issues listed are some of them.                                      *)
LEMMA FewAreListed ==
    ASSUME Few, Issues(github)
    PROVE  /\ Listable(github) /\ Cardinality(Unmanaged(github)) < NoLimit
<1>1. Unmanaged(github) \subseteq DOMAIN github /\ Unmanaged(github) \subseteq Nat
  BY NumbersArePositive DEF Unmanaged, Issues
<1>2. IsFiniteSet(Unmanaged(github)) /\ Cardinality(Unmanaged(github)) <= Cardinality(DOMAIN github)
  BY <1>1, FS_Subset DEF Few
<1>3. Cardinality(Unmanaged(github)) \in Nat /\ Cardinality(DOMAIN github) \in Nat /\ NoLimit \in Nat
  BY <1>2, FS_CardinalityType, NoLimitIsAboveAll DEF Few
<1> QED BY <1>1, <1>2, <1>3 DEF Listable, Few

(* What each step of an adopter does to its plan.                           *)
LEMMA PlanStays ==
    ASSUME PlansInv, NEW a \in Adopter,
           run'[a].plan = run[a].plan, run'[a].opts = run[a].opts,
           run'[a].pc \in {"planned", "reloaded"} => 
               run[a].pc \in {"planned", "reloaded"} \/ run[a].plan # <<>>
    PROVE  Planned(a)'
BY DEF PlansInv, Planned

(* A plan just made is accepted.                                            *)
LEMMA PlanIsMade ==
    ASSUME PlansInv, NEW a \in Adopter, MakePlan(a)
    PROVE  Planned(a)'
<1>0. /\ run = [q \in Process |-> run[q]] /\ Shaped(run[a]) /\ a \in Process /\ Issues(github)
      /\ run[a].pc = "loaded"
  BY DEF PlansInv, IInv, Process, MakePlan
<1>1. PICK o \in Options :
        IF ImportPlannable(run[a].manifest, github, o)
        THEN run' = [run EXCEPT ![a].pc = "planned", ![a].opts = o,
                                ![a].plan = ImportPlanOf(run[a].manifest, github, o)]
        ELSE Becomes(a, "refused")
  BY DEF MakePlan
<1>2. /\ o.limit \in Nat /\ o.duplicates \in BOOLEAN /\ o.infer \in BOOLEAN
      /\ "infer" \in DOMAIN o
  <2>1. PICK include \in Selection, x \in job.opts : o = Selecting(include, x)
    BY DEF Options
  <2>2. x.limit \in Nat /\ x.duplicates \in BOOLEAN /\ x.infer \in BOOLEAN
    BY CasesAreStates DEF PlansInv
  <2> QED BY <2>1, <2>2 DEF Selecting
<1>3. CASE ~ImportPlannable(run[a].manifest, github, o)
  <2>1. /\ run'[a].pc = "refused" /\ run'[a].plan = run[a].plan /\ run'[a].opts = run[a].opts
    BY <1>0, <1>1, <1>3, Moving DEF PlansInv
  <2> QED BY <2>1, PlanStays
<1>4. CASE ImportPlannable(run[a].manifest, github, o)
  <2> DEFINE plan == ImportPlanOf(run[a].manifest, github, o)
  <2>1. run' = [run EXCEPT ![a].pc = "planned", ![a].opts = o, ![a].plan = plan]
    BY <1>1, <1>4
  <2>2. Accepted(plan, github, o)
    <3>1. plan.manifest = run[a].manifest
      BY DEF ImportPlanOf
    <3>2. Listable(github)
      BY <1>0, FewAreListed DEF PlansInv
    <3> HIDE DEF plan
    <3>3. plan = ImportPlanOf(run[a].manifest, github, o)
      BY DEF plan
    <3> QED BY <1>0, <1>2, <1>4, <3>1, <3>2, <3>3 DEF Accepted
  <2> HIDE DEF plan
  <2>3. run'[a].plan = plan /\ run'[a].opts = o
    <3>1. run'[a] = [run[a] EXCEPT !.pc = "planned", !.opts = o, !.plan = plan]
      BY <1>0, <2>1
    <3> QED BY <1>0, <3>1 DEF Shaped
  <2> QED BY <1>2, <2>2, <2>3 DEF Planned
<1> QED BY <1>3, <1>4

(* An edited mode is a mode.                                                *)
LEMMA ModeIsEdited ==
    ASSUME PlansInv, NEW a \in Adopter, EditMode(a)
    PROVE  Planned(a)'
<1> DEFINE x == run[a].opts
           opts == [x EXCEPT !.infer = ~@]
<1>1. /\ run = [q \in Process |-> run[q]] /\ Shaped(run[a]) /\ run[a].pc = "planned"
      /\ run' = [run EXCEPT ![a] = [run[a] EXCEPT !.opts = opts]] /\ a \in Process
  BY DEF PlansInv, IInv, EditMode, Process
<1>2. run'[a].plan = run[a].plan /\ run'[a].opts = opts
  <2> HIDE DEF opts
  <2>1. run'[a] = [run[a] EXCEPT !.opts = opts]
    BY <1>1
  <2> QED BY <1>1, <2>1 DEF Shaped
<1>3. opts.duplicates = x.duplicates /\ opts.infer \in BOOLEAN /\ "infer" \in DOMAIN opts
  <2>0. "infer" \in DOMAIN x
    BY <1>1 DEF PlansInv, Planned
  <2> HIDE DEF x
  <2>1. opts.duplicates = x.duplicates
    OBVIOUS
  <2>2. opts.infer \in BOOLEAN /\ "infer" \in DOMAIN opts
    BY <2>0
  <2> QED BY <2>1, <2>2
<1> HIDE DEF opts
<1> QED BY <1>1, <1>2, <1>3 DEF PlansInv, Planned

(* Nobody opens an issue, and the case stays what it is.                    *)
LEMMA SameIssues ==
    ASSUME IInv, [Next]_vars
    PROVE  job' = job /\ DOMAIN github' = DOMAIN github
<1>1. \A a : DOMAIN Patched(a) = DOMAIN github
  BY DEF Patched
<1>2. ASSUME EditIssue PROVE DOMAIN github' = DOMAIN github /\ job' = job
  <2>1. PICK n \in DOMAIN github : \E x : github' = [github EXCEPT ![n] = x]
    BY <1>2 DEF EditIssue
  <2> QED BY <1>2, <2>1 DEF EditIssue
<1>3. ASSUME NEW a \in Adopter, Mark(a) \/ MarkFails(a)
      PROVE  DOMAIN github' = DOMAIN github /\ job' = job
  BY <1>1, <1>3 DEF Mark, MarkFails
<1>4. ASSUME NEW p \in Process, Load(p) \/ Save(p) \/ SaveFails(p) \/ Crash(p)
      PROVE  github' = github /\ job' = job
  BY <1>4 DEF Load, Save, SaveFails, Crash
<1>5. ASSUME NEW a \in Adopter,
             MakePlan(a) \/ EditMode(a) \/ Reload(a) \/ Refuse(a) \/ Start(a) \/ Marked(a)
      PROVE  github' = github /\ job' = job
  BY <1>5 DEF MakePlan, EditMode, Reload, Refuse, Start, Marked
<1>6. ASSUME NEW q \in Recoverer, Recover(q) PROVE github' = github /\ job' = job
  BY <1>6 DEF Recover
<1>7. EditManifest \/ UNCHANGED vars => github' = github /\ job' = job
  BY DEF EditManifest, vars
<1> QED BY <1>2, <1>3, <1>4, <1>5, <1>6, <1>7 DEF Next

(* Whatever else a process does, it keeps the plan it has.                  *)
LEMMA OthersKeepPlans ==
    ASSUME PlansInv, NEW p \in Process, Apart(p),
           p \in Adopter => Planned(p)'
    PROVE  \A a \in Adopter : Planned(a)'
<1> SUFFICES ASSUME NEW a \in Adopter, a # p PROVE Planned(a)'
  OBVIOUS
<1>1. a \in Process
  BY DEF Process
<1>2. run'[a] = run[a]
  BY <1>1 DEF Apart
<1> QED BY <1>2, PlanStays

(* Every step keeps that, ...                                              *)
LEMMA NextPlanned ==
    ASSUME PlansInv, [Next]_vars
    PROVE  PlansInv'
<1>0. IInv
  BY DEF PlansInv
<1>1. IInv' /\ job' \in Case /\ Few'
  BY <1>0, NextKeeps, SameIssues DEF PlansInv, Few
<1>2. ASSUME NEW p \in Process, Load(p) \/ Save(p) \/ SaveFails(p) \/ Crash(p)
      PROVE  \A a \in Adopter : Planned(a)'
  <2>1. /\ Apart(p) /\ run'[p].plan = run[p].plan /\ run'[p].opts = run[p].opts
        /\ run'[p].pc \notin {"planned", "reloaded"}
    <3>1. CASE Load(p)
      BY <1>0, <3>1, Loading
    <3>2. CASE Save(p) \/ SaveFails(p) \/ Crash(p)
      BY <1>0, <3>2, Moving DEF Save, SaveFails, Crash
    <3> QED BY <1>2, <3>1, <3>2
  <2>2. p \in Adopter => Planned(p)'
    BY <2>1, PlanStays
  <2> QED BY <2>1, <2>2, OthersKeepPlans
<1>3. ASSUME NEW a \in Adopter,
             \/ MakePlan(a) \/ EditMode(a) \/ Reload(a) \/ Refuse(a) \/ Start(a)
             \/ Mark(a) \/ MarkFails(a) \/ Marked(a)
      PROVE  \A b \in Adopter : Planned(b)'
  <2>0. a \in Process
    BY DEF Process
  <2>1. Apart(a)
    BY <1>0, <1>3, <2>0, Planning, Editing, Reloading, Starting, Marking, Moving
       DEF Refuse, MarkFails, Marked
  <2>2. Planned(a)'
    <3>1. CASE MakePlan(a)
      BY <3>1, PlanIsMade
    <3>2. CASE EditMode(a)
      BY <3>2, ModeIsEdited
    <3>3. CASE Reload(a)
      <4>1. run'[a].plan = run[a].plan /\ run'[a].opts = run[a].opts
        BY <1>0, <2>0, <3>3, Reloading
      <4>2. run[a].plan # <<>>
        BY <3>3 DEF Reload
      <4> QED BY <4>1, <4>2, PlanStays
    <3>4. CASE Start(a) \/ Mark(a)
      <4>1. /\ run'[a].plan = run[a].plan /\ run'[a].opts = run[a].opts
            /\ run'[a].pc = "marking"
        BY <1>0, <2>0, <3>4, Starting, Marking
      <4> QED BY <4>1, PlanStays
    <3>5. CASE Refuse(a) \/ MarkFails(a) \/ Marked(a)
      <4>1. /\ run'[a].plan = run[a].plan /\ run'[a].opts = run[a].opts
            /\ run'[a].pc \in {"refused", "failed", "saving"}
        BY <1>0, <2>0, <3>5, Moving DEF Refuse, MarkFails, Marked
      <4> QED BY <4>1, PlanStays
    <3> QED BY <1>3, <3>1, <3>2, <3>3, <3>4, <3>5
  <2> QED BY <2>0, <2>1, <2>2, OthersKeepPlans
<1>4. ASSUME NEW q \in Recoverer, Recover(q) PROVE \A a \in Adopter : Planned(a)'
  <2>1. q \in Process /\ q \notin Adopter
    BY ProcessesDiffer DEF Process
  <2> QED BY <1>0, <1>4, <2>1, Recovering, OthersKeepPlans
<1>5. ASSUME EditIssue \/ EditManifest \/ UNCHANGED vars
      PROVE  \A a \in Adopter : Planned(a)'
  <2>1. run' = run
    BY <1>5 DEF EditIssue, EditManifest, vars
  <2> QED BY <2>1, PlanStays
<1> QED BY <1>1, <1>2, <1>3, <1>4, <1>5 DEF Next, PlansInv

(* ... and it holds at the start.                                          *)
LEMMA InitPlanned ==
    ASSUME Init PROVE PlansInv
<1>1. IInv /\ job \in Case
  BY InitIInv DEF Init
<1>2. Few
  BY NoLimitIsAboveAll DEF Init, Few
<1>3. \A a \in Adopter : Planned(a)
  <2> SUFFICES ASSUME NEW a \in Adopter PROVE Planned(a)
    OBVIOUS
  <2>1. run[a] = IdleImport
    BY DEF Init, Process
  <2>2. IdleImport.pc = "idle" /\ IdleImport.plan = <<>>
    BY DEF IdleImport
  <2> QED BY <2>1, <2>2 DEF Planned
<1> QED BY <1>1, <1>2, <1>3 DEF PlansInv

(* A plan that nobody has changed anything under is accepted, whatever it   *)
(* selected and in whatever mode its file says (build_import_plan,          *)
(* apply_import_plan, importing.py 544-553).                                *)
THEOREM UnchangedIsAccepted == Spec => []AcceptedIfUnchanged
<1>1. ASSUME PlansInv PROVE AcceptedIfUnchanged
  <2> SUFFICES ASSUME NEW a \in Adopter, run[a].pc = "reloaded", Unchanged(a),
                      ~run[a].opts.duplicates
               PROVE  Matches(a)
    BY DEF AcceptedIfUnchanged
  <2> DEFINE plan == run[a].plan
             m == run[a].manifest
             r == Rebuilt(a)
  <2>1. PICK g, o : Accepted(plan, g, o) /\ o.duplicates = run[a].opts.duplicates
    BY <1>1 DEF PlansInv, Planned
  <2>2. run[a].opts.infer \in BOOLEAN /\ NoLimit \in Nat
    BY <1>1, NoLimitIsAboveAll DEF PlansInv, Planned
  <2>3. /\ Issues(github) /\ Listable(github) /\ Cardinality(Unmanaged(github)) < NoLimit
    BY <1>1, FewAreListed DEF PlansInv, IInv
  <2>4. m = plan.manifest /\ Listing(github, run[a].opts.infer) = plan.listing
    BY DEF Unchanged
  <2>5. /\ Issues(g) /\ Listable(g) /\ ImportPlannable(m, g, o) /\ plan = ImportPlanOf(m, g, o)
        /\ o.limit \in Nat /\ o.infer \in BOOLEAN /\ ~o.duplicates
    BY <2>1, <2>4 DEF Accepted
  <2>6. plan.listing = Listing(g, o.infer) /\ DOMAIN plan.bodies = Chosen(m, g, o)
    <3>1. /\ ImportPlanOf(m, g, o).listing = Listing(g, o.infer)
          /\ ImportPlanOf(m, g, o).bodies = [n \in Chosen(m, g, o) |-> g[n].prose]
      BY DEF ImportPlanOf
    <3> HIDE DEF plan, m
    <3> QED BY <2>5, <3>1
  <2>7. /\ r.include = Chosen(m, g, o) /\ r.limit = NoLimit /\ ~r.duplicates
        /\ r.infer = run[a].opts.infer
    BY <2>6 DEF Rebuilt
  <2>8. ImportPlannable(m, github, r) /\ ImportPlanOf(m, github, r) = plan
    <3> HIDE DEF plan, m, r
    <3>1. /\ r.infer \in BOOLEAN /\ r.limit \in Nat /\ Cardinality(Unmanaged(github)) < r.limit
          /\ Listing(g, o.infer) = Listing(github, r.infer)
      BY <2>2, <2>3, <2>4, <2>6, <2>7
    <3> QED BY <2>3, <2>5, <2>7, <3>1, RebuildAgrees
  <2> QED BY <2>8 DEF Matches
<1>2. PlansInv /\ [Next]_vars => PlansInv'
  BY NextPlanned
<1>3. Init => PlansInv
  BY InitPlanned
<1>4. PlansInv => AcceptedIfUnchanged
  BY <1>1
<1> QED BY <1>2, <1>3, <1>4, PTL DEF Spec

-----------------------------------------------------------------------------
(* Dependencies as edges between finitely many items, and what an item      *)
(* leads to.                                                                *)
Edges(adj) == IsFiniteSet(DOMAIN adj) /\ adj \in [DOMAIN adj -> SUBSET (DOMAIN adj)]
Closed(adj, S) == \A i \in S : adj[i] \subseteq S
Reachable(adj, from) == {t \in DOMAIN adj : Reaches(adj, from, t)}

(* The steps of _reaches.                                                   *)
Spread(adj, x) == x \cup UNION {adj[i] : i \in x}
Spreads(adj, from, R) ==
    /\ R \in [0..Cardinality(DOMAIN adj) -> SUBSET (DOMAIN adj)]
    /\ R[0] = {from}
    /\ \A k \in 1..Cardinality(DOMAIN adj) : R[k] = Spread(adj, R[k - 1])

(* The steps exist: _reaches has a value, and they are it.                  *)
LEMMA ReachSteps ==
    ASSUME NEW adj, Edges(adj), NEW from \in DOMAIN adj
    PROVE  \E R : /\ Spreads(adj, from, R)
                  /\ \A t : Reaches(adj, from, t) <=> t \in R[Cardinality(DOMAIN adj)]
<1> DEFINE D == DOMAIN adj
           N == Cardinality(D)
           X == SUBSET D
           F == [p \in X \X (1..N) |-> Spread(adj, p[1])]
           Value(h, k) == IF k = 0 THEN {from} ELSE h[k-1] \cup UNION {adj[i] : i \in h[k-1]}
           G(h) == h = [k \in 0..N |-> Value(h, k)]
           R == CHOOSE h : G(h)
<1>1. N \in Nat /\ {from} \in X
  BY FS_CardinalityType DEF Edges
<1>2. ASSUME NEW x \in X PROVE Spread(adj, x) \in X
  <2>1. \A i \in x : adj[i] \subseteq D
    BY DEF Edges
  <2> HIDE DEF D
  <2> QED BY <2>1 DEF Spread
<1>3. F \in [X \X (1..N) -> X]
  <2>1. \A p \in X \X (1..N) : p[1] \in X
    OBVIOUS
  <2> HIDE DEF X, N
  <2> QED BY <1>2, <2>1
<1>4. \A x \in X : \A k \in 1..N : F[<<x, k>>] = Spread(adj, x)
  OBVIOUS
<1> HIDE DEF F
<1>a. PICK f : Folded(f, N, X, {from}, F)
  <2> HIDE DEF X, N
  <2> QED BY <1>1, <1>3, FoldExists
<1>5. /\ f \in [SUBSET (1..N) -> X]
      /\ \A s \in SUBSET (1..N) :
            f[s] = IF s = {} THEN {from} ELSE F[<<f[s \ {Max(s)}], Max(s)>>]
  BY <1>a DEF Folded
<1> HIDE DEF N
<1> DEFINE h == [k \in 0..N |-> f[1..k]]
<1>6. /\ h \in [0..N -> X] /\ h[0] = {from}
      /\ \A k \in 1..N : h[k] = Spread(adj, h[k - 1])
  <2>1. ASSUME NEW k \in 0..N PROVE 1..k \in SUBSET (1..N) /\ h[k] = f[1..k]
    BY <1>1
  <2>2. h \in [0..N -> X]
    <3>1. \A k \in 0..N : f[1..k] \in X
      BY <1>5, <2>1
    <3> HIDE DEF X
    <3> QED BY <3>1
  <2>3. h[0] = {from}
    <3>1. 0 \in 0..N /\ 1..0 = {}
      BY <1>1
    <3>2. h[0] = f[1..0] /\ 1..0 \in SUBSET (1..N)
      BY <2>1, <3>1
    <3> HIDE DEF h
    <3> QED BY <1>5, <3>1, <3>2
  <2>4. ASSUME NEW k \in 1..N PROVE h[k] = Spread(adj, h[k - 1])
    <3>1. k \in Nat /\ k # 0 /\ k \in 0..N /\ k - 1 \in 0..N
      BY <1>1
    <3>2. Max(1..k) = k /\ (1..k) \ {k} = 1..(k - 1) /\ 1..k # {}
      BY <3>1, LastOfPrefix
    <3>3. h[k] = f[1..k] /\ h[k - 1] = f[1..(k - 1)] /\ 1..k \in SUBSET (1..N)
          /\ 1..(k - 1) \in SUBSET (1..N)
      BY <2>1, <3>1
    <3>4. f[1..(k - 1)] \in X
      BY <1>5, <3>3
    <3>5. F[<<f[1..(k - 1)], k>>] = Spread(adj, f[1..(k - 1)])
      <4> HIDE DEF X
      <4> QED BY <1>4, <3>4
    <3> HIDE DEF h
    <3> QED BY <1>5, <3>2, <3>3, <3>5
  <2> QED BY <2>2, <2>3, <2>4
<1> HIDE DEF h
<1>7. G(h)
  <2>1. h = [k \in 0..N |-> h[k]]
    BY <1>6
  <2>2. ASSUME NEW k \in 0..N PROVE h[k] = Value(h, k)
    <3>1. k # 0 => k \in 1..N
      BY <1>1
    <3> QED BY <1>6, <3>1 DEF Spread
  <2> HIDE DEF Value
  <2> QED BY <2>1, <2>2
<1>8. G(R)
  <2> HIDE DEF G
  <2> QED BY <1>7
<1> HIDE DEF R
<1>9. R = [k \in 0..N |-> Value(R, k)]
  BY <1>8
<1>10. \A k \in 0..N : R[k] = Value(R, k)
  <2> HIDE DEF Value
  <2> QED BY <1>9
<1>11. R[0] = {from} /\ \A k \in 1..N : R[k] = Spread(adj, R[k - 1])
  <2>1. R[0] = {from}
    <3>1. 0 \in 0..N
      BY <1>1
    <3>2. R[0] = Value(R, 0)
      <4> HIDE DEF Value
      <4> QED BY <1>10, <3>1
    <3> QED BY <3>2
  <2>2. ASSUME NEW k \in 1..N PROVE R[k] = Spread(adj, R[k - 1])
    <3>1. k # 0 /\ k \in 0..N
      BY <1>1
    <3> QED BY <1>10, <3>1 DEF Spread
  <2> QED BY <2>1, <2>2
<1>12. R \in [0..N -> X]
  <2> DEFINE Bad == {k \in 0..N : R[k] \notin X}
  <2>1. Bad = {}
    <3> SUFFICES ASSUME Bad # {} PROVE FALSE
      OBVIOUS
    <3>1. PICK k \in Bad : \A i \in Bad : k <= i
      <4>1. Bad \in SUBSET Nat
        OBVIOUS
      <4> HIDE DEF Bad
      <4> QED BY <4>1, LeastNumber
    <3>2. CASE k = 0
      BY <1>1, <1>11, <3>1, <3>2
    <3>3. CASE k # 0
      <4>1. k \in 1..N /\ k - 1 \in 0..N /\ ~(k <= k - 1)
        BY <1>1, <3>3
      <4>2. R[k - 1] \in X
        <5>1. k - 1 \notin Bad
          <6> HIDE DEF Bad
          <6> QED BY <3>1, <4>1
        <5> HIDE DEF X
        <5> QED BY <4>1, <5>1
      <4>3. R[k] \in X
        <5> HIDE DEF X
        <5> QED BY <1>2, <1>11, <4>1, <4>2
      <4> HIDE DEF X
      <4> QED BY <3>1, <4>3
    <3> QED BY <3>2, <3>3
  <2>2. \A k \in 0..N : R[k] \in X
    <3> HIDE DEF X
    <3> QED BY <2>1
  <2>3. R = [k \in 0..N |-> R[k]]
    <3> HIDE DEF Value
    <3> QED BY <1>9
  <2> HIDE DEF X
  <2> QED BY <2>2, <2>3
<1>13. \A t : Reaches(adj, from, t) <=> t \in R[N]
  BY DEF Reaches, R, N
<1>14. Spreads(adj, from, R)
  BY <1>11, <1>12 DEF Spreads, N
<1> QED BY <1>13, <1>14 DEF N

(* It reaches the least closed set: as long as a step adds something, the   *)
(* set has more members than steps were made, so N steps are enough.        *)
LEMMA ReachableIs ==
    ASSUME NEW adj, Edges(adj), NEW from \in DOMAIN adj
    PROVE  /\ from \in Reachable(adj, from) /\ Reachable(adj, from) \subseteq DOMAIN adj
           /\ Closed(adj, Reachable(adj, from))
           /\ \A S : from \in S /\ Closed(adj, S) => Reachable(adj, from) \subseteq S
<1> DEFINE D == DOMAIN adj
           N == Cardinality(D)
<1>1. PICK R : /\ Spreads(adj, from, R)
               /\ \A t : Reaches(adj, from, t) <=> t \in R[N]
  BY ReachSteps
<1>2. N \in Nat /\ N # 0 /\ IsFiniteSet(D)
  BY FS_CardinalityType, FS_EmptySet DEF Edges
<1>3. /\ \A k \in 0..N : R[k] \in SUBSET D
      /\ R[0] = {from}
      /\ \A k \in 1..N : R[k] = Spread(adj, R[k - 1])
  BY <1>1 DEF Spreads
<1> HIDE DEF N, D
<1>4. \A k \in 1..N : R[k - 1] \subseteq R[k]
  BY <1>3 DEF Spread
<1>5. Reachable(adj, from) = R[N]
  <2>1. R[N] \subseteq D
    BY <1>2, <1>3
  <2> QED BY <1>1, <2>1 DEF Reachable, D
<1>6. ASSUME NEW S, from \in S, Closed(adj, S) PROVE R[N] \subseteq S
  <2> DEFINE Bad == {k \in 0..N : ~(R[k] \subseteq S)}
  <2>1. Bad = {}
    <3> SUFFICES ASSUME Bad # {} PROVE FALSE
      OBVIOUS
    <3>1. PICK k \in Bad : \A i \in Bad : k <= i
      <4>1. Bad \in SUBSET Nat
        OBVIOUS
      <4> HIDE DEF Bad
      <4> QED BY <4>1, LeastNumber
    <3>2. CASE k = 0
      BY <1>3, <1>6, <3>1, <3>2
    <3>3. CASE k # 0
      <4>1. k \in 1..N /\ k - 1 \in 0..N /\ ~(k <= k - 1)
        BY <1>2, <3>3
      <4>2. k - 1 \notin Bad
        <5> HIDE DEF Bad
        <5> QED BY <3>1, <4>1
      <4>3. R[k - 1] \subseteq S
        BY <4>1, <4>2
      <4>4. R[k] \subseteq S
        BY <1>3, <1>6, <4>1, <4>3 DEF Spread, Closed
      <4> QED BY <3>1, <4>4
    <3> QED BY <3>2, <3>3
  <2> QED BY <1>2, <2>1
<1>7. \E k \in 1..N : R[k] = R[k - 1]
  <2> SUFFICES ASSUME \A k \in 1..N : R[k] # R[k - 1] PROVE FALSE
    OBVIOUS
  <2>1. \A k \in 0..N : IsFiniteSet(R[k]) /\ Cardinality(R[k]) \in Nat /\ Cardinality(R[k]) <= N
    <3> SUFFICES ASSUME NEW k \in 0..N
                 PROVE  IsFiniteSet(R[k]) /\ Cardinality(R[k]) \in Nat /\ Cardinality(R[k]) <= N
      OBVIOUS
    <3>1. R[k] \in SUBSET D
      BY <1>3
    <3>2. IsFiniteSet(R[k]) /\ Cardinality(R[k]) <= Cardinality(D)
      BY <1>2, <3>1, FS_Subset
    <3> QED BY <3>2, FS_CardinalityType DEF N
  <2> DEFINE Bad == {k \in 0..N : ~(Cardinality(R[k]) >= k + 1)}
  <2>2. Bad = {}
    <3> SUFFICES ASSUME Bad # {} PROVE FALSE
      OBVIOUS
    <3>1. PICK k \in Bad : \A i \in Bad : k <= i
      <4>1. Bad \in SUBSET Nat
        OBVIOUS
      <4> HIDE DEF Bad
      <4> QED BY <4>1, LeastNumber
    <3>2. CASE k = 0
      <4>1. Cardinality(R[0]) = 1
        BY <1>3, FS_Singleton
      <4> QED BY <3>1, <3>2, <4>1
    <3>3. CASE k # 0
      <4>1. k \in 1..N /\ k - 1 \in 0..N /\ ~(k <= k - 1) /\ k \in 0..N
        BY <1>2, <3>3
      <4>2. k - 1 \notin Bad
        <5> HIDE DEF Bad
        <5> QED BY <3>1, <4>1
      <4>3. Cardinality(R[k - 1]) >= (k - 1) + 1
        BY <4>1, <4>2
      <4>4. Cardinality(R[k - 1]) <= Cardinality(R[k]) /\ Cardinality(R[k - 1]) # Cardinality(R[k])
        BY <1>4, <2>1, <4>1, FS_Subset
      <4>5. Cardinality(R[k]) >= k + 1
        <5>1. Cardinality(R[k]) \in Nat /\ Cardinality(R[k - 1]) \in Nat /\ k \in Nat
          BY <2>1, <4>1
        <5> QED BY <4>3, <4>4, <5>1
      <4> QED BY <3>1, <4>5
    <3> QED BY <3>2, <3>3
  <2>3. N \in 0..N /\ Cardinality(R[N]) <= N /\ Cardinality(R[N]) \in Nat
    BY <1>2, <2>1
  <2>4. Cardinality(R[N]) >= N + 1
    BY <2>2, <2>3
  <2> QED BY <1>2, <2>3, <2>4
<1>8. PICK k \in 1..N : R[k] = R[k - 1]
  BY <1>7
<1>9. Closed(adj, R[k])
  BY <1>3, <1>8 DEF Spread, Closed
<1>10. R[N] = R[k]
  <2> DEFINE Bad == {j \in k..N : R[j] # R[k]}
  <2>1. Bad = {}
    <3> SUFFICES ASSUME Bad # {} PROVE FALSE
      OBVIOUS
    <3>1. PICK j \in Bad : \A i \in Bad : j <= i
      <4>1. Bad \in SUBSET Nat
        BY <1>2
      <4> HIDE DEF Bad
      <4> QED BY <4>1, LeastNumber
    <3>2. j # k /\ j \in k..N
      BY <3>1
    <3>3. j \in 1..N /\ j - 1 \in k..N /\ ~(j <= j - 1)
      BY <1>2, <3>2
    <3>4. j - 1 \notin Bad
      <4> HIDE DEF Bad
      <4> QED BY <3>1, <3>3
    <3>5. R[j - 1] = R[k]
      BY <3>3, <3>4
    <3>6. R[j] = Spread(adj, R[k])
      BY <1>3, <3>3, <3>5
    <3>7. R[j] = R[k]
      BY <1>9, <3>6 DEF Spread, Closed
    <3> QED BY <3>1, <3>7
  <2> QED BY <1>2, <2>1
<1>11. from \in R[N]
  <2> DEFINE Bad == {j \in 0..N : from \notin R[j]}
  <2>1. Bad = {}
    <3> SUFFICES ASSUME Bad # {} PROVE FALSE
      OBVIOUS
    <3>1. PICK j \in Bad : \A i \in Bad : j <= i
      <4>1. Bad \in SUBSET Nat
        OBVIOUS
      <4> HIDE DEF Bad
      <4> QED BY <4>1, LeastNumber
    <3>2. j # 0
      BY <1>3, <3>1
    <3>3. j \in 1..N /\ j - 1 \in 0..N /\ ~(j <= j - 1)
      BY <1>2, <3>2
    <3>4. j - 1 \notin Bad
      <4> HIDE DEF Bad
      <4> QED BY <3>1, <3>3
    <3> QED BY <1>4, <3>1, <3>3, <3>4
  <2> QED BY <1>2, <2>1
<1>12. R[N] \subseteq D
  BY <1>2, <1>3
<1> QED BY <1>5, <1>6, <1>9, <1>10, <1>11, <1>12 DEF D

(* No item leads to itself.                                                 *)
NoCycle(adj) == \A i \in DOMAIN adj : \A d \in adj[i] : i \notin Reachable(adj, d)

(* More edges lead further.                                                 *)
LEMMA ReachableGrows ==
    ASSUME NEW adj, NEW more, Edges(adj), Edges(more), DOMAIN adj = DOMAIN more,
           \A i \in DOMAIN adj : adj[i] \subseteq more[i], NEW from \in DOMAIN adj
    PROVE  Reachable(adj, from) \subseteq Reachable(more, from)
<1> DEFINE S == Reachable(more, from)
<1>1. from \in S /\ S \subseteq DOMAIN more /\ Closed(more, S)
  BY ReachableIs
<1> HIDE DEF S
<1>2. Closed(adj, S)
  BY <1>1 DEF Closed
<1>3. Reachable(adj, from) \subseteq S
  BY <1>1, <1>2, ReachableIs
<1> QED BY <1>3 DEF S

(* What does not lead to an item may be what it depends on: taken all at    *)
(* once, they close no cycle.                                               *)
LEMMA DependKeeps ==
    ASSUME NEW adj, Edges(adj), NoCycle(adj), NEW item \in DOMAIN adj,
           NEW wanted \in SUBSET (DOMAIN adj)
    PROVE  Edges(Depend(adj, item, wanted)) /\ NoCycle(Depend(adj, item, wanted))
<1> DEFINE D == DOMAIN adj
           W == {d \in wanted \ {item} : ~Reaches(adj, d, item)}
           next == Depend(adj, item, wanted)
<1>1. next = [adj EXCEPT ![item] = W] /\ W \subseteq D
  BY DEF Depend
<1>2. \A d \in W : item \notin Reachable(adj, d) /\ d # item
  BY DEF Reachable
<1> HIDE DEF W
<1>3. DOMAIN next = D /\ next[item] = W /\ \A i \in D \ {item} : next[i] = adj[i]
  BY <1>1 DEF Edges
<1>4. Edges(next)
  <2>1. \A i \in D : next[i] \in SUBSET D
    BY <1>1, <1>3 DEF Edges
  <2>2. next = [i \in D |-> next[i]]
    BY <1>1 DEF Edges
  <2>3. IsFiniteSet(D)
    BY DEF Edges
  <2> HIDE DEF next, D
  <2> QED BY <1>3, <2>1, <2>2, <2>3 DEF Edges
<1> HIDE DEF next
<1>5. \A d \in D : /\ d \in Reachable(adj, d) /\ Reachable(adj, d) \subseteq D
                   /\ Closed(adj, Reachable(adj, d))
                   /\ \A S : d \in S /\ Closed(adj, S) => Reachable(adj, d) \subseteq S
  BY ReachableIs
<1>6. ASSUME NEW i \in D, NEW d \in next[i], NEW S, d \in S, Closed(next, S), i \notin S
      PROVE  i \notin Reachable(next, d)
  <2>1. d \in DOMAIN next
    BY <1>3, <1>4 DEF Edges
  <2>2. Reachable(next, d) \subseteq S
    BY <1>4, <1>6, <2>1, ReachableIs
  <2> QED BY <1>6, <2>2
<1>7. ASSUME NEW S, S \subseteq D, Closed(adj, S), item \notin S PROVE Closed(next, S)
  BY <1>3, <1>7 DEF Closed
<1>8. ASSUME NEW i \in D, NEW d \in next[i] PROVE i \notin Reachable(next, d)
  <2> DEFINE S == Reachable(adj, d)
  <2>0. d \in D /\ next[i] \subseteq D
    BY <1>3, <1>4 DEF Edges
  <2>1. d \in S /\ S \subseteq D /\ Closed(adj, S)
    BY <1>5, <2>0
  <2>2. CASE i = item
    <3>1. item \notin S
      BY <1>2, <1>3, <2>2
    <3> HIDE DEF S
    <3> QED BY <1>6, <1>7, <2>1, <2>2, <3>1
  <2>3. CASE i # item
    <3>1. d \in adj[i] /\ i \notin S
      BY <1>3, <2>3 DEF NoCycle
    <3>2. CASE item \notin S
      <4> HIDE DEF S
      <4> QED BY <1>6, <1>7, <2>1, <3>1, <3>2
    <3>3. CASE item \in S
      <4> DEFINE T == S \cup UNION {Reachable(adj, w) : w \in W}
      <4>1. Closed(next, T)
        <5> SUFFICES ASSUME NEW j \in T PROVE next[j] \subseteq T
          BY DEF Closed
        <5>1. CASE j = item
          <6>1. \A w \in W : w \in Reachable(adj, w)
            BY <1>1, <1>5
          <6> QED BY <1>3, <5>1, <6>1
        <5>2. CASE j # item
          <6>1. CASE j \in S
            <7>1. next[j] = adj[j] /\ adj[j] \subseteq S
              BY <1>3, <2>1, <5>2, <6>1 DEF Closed
            <7> QED BY <7>1
          <6>2. CASE j \notin S
            <7>1. PICK w \in W : j \in Reachable(adj, w)
              BY <6>2
            <7>2. w \in D
              BY <1>1
            <7>3. next[j] = adj[j] /\ adj[j] \subseteq Reachable(adj, w)
              BY <1>3, <1>5, <5>2, <7>1, <7>2 DEF Closed
            <7> QED BY <7>3
          <6> QED BY <6>1, <6>2
        <5> QED BY <5>1, <5>2
      <4>2. \A w \in W : i \notin Reachable(adj, w)
        <5> SUFFICES ASSUME NEW w \in W, i \in Reachable(adj, w) PROVE FALSE
          OBVIOUS
        <5>1. w \in D /\ Closed(adj, Reachable(adj, w))
          BY <1>1, <1>5
        <5>2. d \in Reachable(adj, w)
          BY <3>1, <5>1 DEF Closed
        <5>3. S \subseteq Reachable(adj, w)
          BY <1>5, <2>0, <5>1, <5>2
        <5> QED BY <1>2, <3>3, <5>3
      <4>3. d \in T /\ i \notin T
        <5> HIDE DEF S
        <5> QED BY <2>1, <3>1, <4>2
      <4> HIDE DEF T
      <4> QED BY <1>6, <4>1, <4>3
    <3> QED BY <3>2, <3>3
  <2> QED BY <2>2, <2>3
<1>9. NoCycle(next)
  BY <1>3, <1>8 DEF NoCycle
<1> QED BY <1>4, <1>9 DEF next

-----------------------------------------------------------------------------
(* The dependency loop of _infer_relationships, issue by issue.             *)
Linked(m) == [i \in DOMAIN m |-> m[i].deps]
Linking(all, new, wanted, order) ==
    CHOOSE f : f = [s \in SUBSET (DOMAIN order) |->
        IF s = {} THEN Linked(all)
        ELSE Depend(f[s \ {Max(s)}], new[order[Max(s)]], wanted[order[Max(s)]])]
LinkingAt(all, new, wanted, order, k) == Linking(all, new, wanted, order)[1..k]

(* Dependencies is where the loop ends.                                     *)
LEMMA DependenciesAreLinking ==
    ASSUME NEW all, NEW new, NEW wanted
    PROVE  Dependencies(all, new, wanted) =
             Linking(all, new, wanted, InOrder(DOMAIN new))[DOMAIN InOrder(DOMAIN new)]
BY DEF Dependencies, FoldLeft, MapThenFoldSet, Linking, Linked

(* What the loop is given: a manifest without a cycle, and for each new     *)
(* item, which depends on nothing yet, the items wanted.                    *)
Linkable(all, new, wanted) ==
    /\ Edges(Linked(all)) /\ NoCycle(Linked(all))
    /\ IsFiniteSet(DOMAIN new) /\ DOMAIN new \subseteq Int
    /\ \A n \in DOMAIN new : /\ new[n] \in DOMAIN all /\ all[new[n]].deps = {}
                             /\ wanted[n] \subseteq DOMAIN all
    /\ \A n, k \in DOMAIN new : new[n] = new[k] => n = k

(* It starts with the manifest's own edges and goes on issue by issue.      *)
LEMMA LinkingSteps ==
    ASSUME NEW all, NEW new, NEW wanted, Linkable(all, new, wanted),
           NEW n \in Nat, NEW order \in [1..n -> DOMAIN new]
    PROVE  /\ LinkingAt(all, new, wanted, order, 0) = Linked(all)
           /\ \A k \in 1..n :
                 LinkingAt(all, new, wanted, order, k)
                 = Depend(LinkingAt(all, new, wanted, order, k - 1), new[order[k]], wanted[order[k]])
<1> DEFINE D == DOMAIN all
           X == [D -> SUBSET D]
           F == [p \in X \X (1..n) |-> Depend(p[1], new[order[p[2]]], wanted[order[p[2]]])]
           w == Linking(all, new, wanted, order)
           base == Linked(all)
<1>1. /\ DOMAIN order = 1..n /\ \A k \in 1..n : order[k] \in DOMAIN new
      /\ \A k \in 1..n : new[order[k]] \in D /\ wanted[order[k]] \subseteq D
  BY DEF Linkable
<1>b. base \in X
  BY DEF Linkable, Edges, Linked
<1>2. ASSUME NEW x \in X, NEW k \in 1..n
      PROVE  Depend(x, new[order[k]], wanted[order[k]]) \in X
  <2>1. {d \in wanted[order[k]] \ {new[order[k]]} : ~Reaches(x, d, new[order[k]])} \in SUBSET D
    BY <1>1
  <2> QED BY <2>1 DEF Depend
<1>3. F \in [X \X (1..n) -> X]
  <2>1. \A p \in X \X (1..n) : p[1] \in X /\ p[2] \in 1..n
    OBVIOUS
  <2> HIDE DEF X
  <2> QED BY <1>2, <2>1
<1>4. \A x \in X : \A k \in 1..n : F[<<x, k>>] = Depend(x, new[order[k]], wanted[order[k]])
  <2> HIDE DEF X
  <2> QED OBVIOUS
<1> HIDE DEF F, base
<1>a. PICK f : Folded(f, n, X, base, F)
  <2> HIDE DEF X
  <2> QED BY <1>3, <1>b, FoldExists
<1>5. /\ f \in [SUBSET (1..n) -> X]
      /\ \A s \in SUBSET (1..n) :
            f[s] = IF s = {} THEN base ELSE F[<<f[s \ {Max(s)}], Max(s)>>]
  BY <1>a DEF Folded
<1> DEFINE Value(h, s) == IF s = {} THEN base
                          ELSE Depend(h[s \ {Max(s)}], new[order[Max(s)]], wanted[order[Max(s)]])
<1>6. ASSUME NEW s \in SUBSET (1..n) PROVE f[s] = Value(f, s)
  <2>1. CASE s = {}
    BY <1>5, <2>1
  <2>2. CASE s # {}
    <3>1. Max(s) \in 1..n
      BY <2>2, GreatestIs
    <3>2. f[s \ {Max(s)}] \in X
      BY <1>5
    <3> HIDE DEF X
    <3> QED BY <1>4, <1>5, <2>2, <3>1, <3>2
  <2> QED BY <2>1, <2>2
<1>7. f = [s \in SUBSET (1..n) |-> Value(f, s)]
  <2>1. f = [s \in SUBSET (1..n) |-> f[s]]
    BY <1>5
  <2> HIDE DEF Value
  <2> QED BY <1>6, <2>1
<1>8. w = [s \in SUBSET (1..n) |-> Value(w, s)]
  <2> DEFINE G(h) == h = [s \in SUBSET (DOMAIN order) |-> Value(h, s)]
  <2>1. G(f)
    BY <1>1, <1>7
  <2>2. w = CHOOSE h : G(h)
    BY DEF Linking, base
  <2>3. G(w)
    <3> HIDE DEF G, w
    <3> QED BY <2>1, <2>2
  <2> HIDE DEF w, Value
  <2> QED BY <1>1, <2>3
<1>9. \A s \in SUBSET (1..n) : w[s] = Value(w, s)
  <2> HIDE DEF w, Value
  <2> QED BY <1>8
<1>10. w[1..0] = base
  <2>1. 1..0 = {} /\ 1..0 \in SUBSET (1..n)
    OBVIOUS
  <2> HIDE DEF w
  <2> QED BY <1>9, <2>1
<1>11. ASSUME NEW k \in 1..n
       PROVE  w[1..k] = Depend(w[1..(k - 1)], new[order[k]], wanted[order[k]])
  <2>1. Max(1..k) = k /\ (1..k) \ {k} = 1..(k - 1) /\ 1..k # {}
    <3>1. k \in Nat /\ k # 0
      OBVIOUS
    <3> QED BY <3>1, LastOfPrefix
  <2>2. 1..k \in SUBSET (1..n)
    OBVIOUS
  <2> HIDE DEF w
  <2> QED BY <1>9, <2>1, <2>2
<1> QED BY <1>10, <1>11 DEF LinkingAt, base

(* What it makes of them: no cycle, what there was, and of what was wanted  *)
(* all but what leads back to the item.                                     *)
OwnLinks(A, item, wanted) ==
    /\ A[item] \subseteq wanted \ {item}
    /\ \A d \in wanted \ {item} : d \notin A[item] => Reaches(A, d, item)
LinkedUp(A, all, new, wanted) ==
    /\ Edges(A) /\ NoCycle(A) /\ DOMAIN A = DOMAIN all
    /\ \A i \in DOMAIN all : (\A n \in DOMAIN new : new[n] # i) => A[i] = all[i].deps
    /\ \A n \in DOMAIN new : OwnLinks(A, new[n], wanted[n])

(* So does the whole loop: it ends with all that could be accepted.         *)
LEMMA DependenciesAre ==
    ASSUME NEW all, NEW new, NEW wanted, Linkable(all, new, wanted)
    PROVE  LinkedUp(Dependencies(all, new, wanted), all, new, wanted)
<1> DEFINE U == DOMAIN new
           D == DOMAIN all
           order == InOrder(U)
           N == Cardinality(U)
           T(k) == LinkingAt(all, new, wanted, order, k)
<1>1. /\ N \in Nat /\ order \in [1..N -> U]
      /\ \A j, k \in 1..N : j < k => order[j] < order[k]
      /\ \A n \in U : \E k \in 1..N : order[k] = n
      /\ U \subseteq Int
  <2>1. IsFiniteSet(U) /\ U \subseteq Int
    BY DEF Linkable
  <2> HIDE DEF U
  <2> QED BY <2>1, InOrderLists
<1>2. Dependencies(all, new, wanted) = T(N)
  <2>1. DOMAIN order = 1..N
    BY <1>1
  <2>2. Dependencies(all, new, wanted) = Linking(all, new, wanted, order)[DOMAIN order]
    BY DependenciesAreLinking
  <2> HIDE DEF order, N
  <2> QED BY <2>1, <2>2 DEF LinkingAt
<1> HIDE DEF order, N
<1>3. /\ T(0) = Linked(all)
      /\ \A k \in 1..N : T(k) = Depend(T(k - 1), new[order[k]], wanted[order[k]])
  <2>1. N \in Nat /\ order \in [1..N -> DOMAIN new]
    BY <1>1
  <2>2. /\ LinkingAt(all, new, wanted, order, 0) = Linked(all)
        /\ \A k \in 1..N :
              LinkingAt(all, new, wanted, order, k)
              = Depend(LinkingAt(all, new, wanted, order, k - 1), new[order[k]], wanted[order[k]])
    BY <2>1, LinkingSteps
  <2> QED BY <2>2
<1> HIDE DEF T
<1> DEFINE item(k) == new[order[k]]
<1>4. /\ \A k \in 1..N : /\ order[k] \in U /\ item(k) \in D /\ all[item(k)].deps = {}
                         /\ wanted[order[k]] \subseteq D
      /\ \A j, k \in 1..N : j < k => item(j) # item(k)
  <2>1. \A k \in 1..N : /\ order[k] \in U /\ item(k) \in D /\ all[item(k)].deps = {}
                        /\ wanted[order[k]] \subseteq D
    BY <1>1 DEF Linkable
  <2>2. ASSUME NEW j \in 1..N, NEW k \in 1..N, j < k PROVE item(j) # item(k)
    <3>1. order[j] # order[k]
      <4>1. order[j] < order[k] /\ order[j] \in Int /\ order[k] \in Int
        BY <1>1, <2>2
      <4> QED BY <4>1
    <3>2. order[j] \in DOMAIN new /\ order[k] \in DOMAIN new
      BY <1>1
    <3> QED BY <3>1, <3>2 DEF Linkable
  <2> QED BY <2>1, <2>2
<1> HIDE DEF U
<1> DEFINE Sound(k) == Edges(T(k)) /\ NoCycle(T(k)) /\ DOMAIN T(k) = D
           Rest(k) == \A i \in D : (\A j \in 1..k : item(j) # i) => T(k)[i] = all[i].deps
           Done(k) == \A j \in 1..k : OwnLinks(T(k), item(j), wanted[order[j]])
           Right(k) == Sound(k) /\ Rest(k) /\ Done(k)
           Bad == {k \in 0..N : ~Right(k)}
<1> HIDE DEF item
<1>5. Right(0)
  <2>1. Sound(0)
    BY <1>3 DEF Linkable, Linked
  <2>2. Rest(0)
    BY <1>3 DEF Linked
  <2> QED BY <2>1, <2>2
<1>6. ASSUME NEW k \in 1..N, Right(k - 1) PROVE Right(k)
  <2> DEFINE x == item(k)
             w == wanted[order[k]]
             A == T(k - 1)
             B == T(k)
  <2>1. /\ B = Depend(A, x, w) /\ x \in D /\ w \in SUBSET D
        /\ Edges(A) /\ NoCycle(A) /\ DOMAIN A = D
    BY <1>3, <1>4, <1>6 DEF item
  <2>2. \A j \in 1..k : j = k \/ (j \in 1..(k - 1) /\ item(j) # x)
    <3> SUFFICES ASSUME NEW j \in 1..k, j # k PROVE j \in 1..(k - 1) /\ item(j) # x
      OBVIOUS
    <3>1. j \in 1..N /\ j < k /\ j \in 1..(k - 1)
      BY <1>1
    <3> QED BY <1>4, <3>1
  <2>3. \A j \in 1..(k - 1) : j \in 1..k /\ item(j) # x
    <3> SUFFICES ASSUME NEW j \in 1..(k - 1) PROVE j \in 1..k /\ item(j) # x
      OBVIOUS
    <3>1. j \in 1..N /\ j < k /\ j \in 1..k
      BY <1>1
    <3> QED BY <1>4, <3>1
  <2>4. A[x] = {}
    <3>1. A[x] = all[x].deps
      BY <1>6, <2>1, <2>3
    <3> QED BY <1>4, <3>1
  <2>5. k \in 1..k
    BY <1>1
  <2>w. wanted[order[k]] = w /\ item(k) = x
    OBVIOUS
  <2>a. \A j \in 1..(k - 1) : OwnLinks(A, item(j), wanted[order[j]])
    BY <1>6
  <2>b. \A i \in D : (\A j \in 1..(k - 1) : item(j) # i) => A[i] = all[i].deps
    BY <1>6
  <2> HIDE DEF x, w, A, B
  <2>6. Edges(B) /\ NoCycle(B)
    BY <2>1, DependKeeps
  <2>7. /\ DOMAIN B = D /\ B[x] = {d \in w \ {x} : ~Reaches(A, d, x)}
        /\ \A i \in D \ {x} : B[i] = A[i]
    BY <2>1 DEF Depend
  <2>8. \A d \in D : \A t \in D : Reaches(A, d, t) => Reaches(B, d, t)
    <3> SUFFICES ASSUME NEW d \in D, NEW t \in D, Reaches(A, d, t) PROVE Reaches(B, d, t)
      OBVIOUS
    <3>1. \A i \in DOMAIN A : A[i] \subseteq B[i]
      BY <2>1, <2>4, <2>7
    <3>2. Reachable(A, d) \subseteq Reachable(B, d)
      BY <2>1, <2>6, <2>7, <3>1, ReachableGrows
    <3> QED BY <2>1, <3>2 DEF Reachable
  <2>9. \A i \in D : (\A j \in 1..k : item(j) # i) => B[i] = all[i].deps
    <3> SUFFICES ASSUME NEW i \in D, \A j \in 1..k : item(j) # i PROVE B[i] = all[i].deps
      OBVIOUS
    <3>1. i # x /\ \A j \in 1..(k - 1) : item(j) # i
      BY <2>3, <2>5, <2>w
    <3> QED BY <2>7, <2>b, <3>1
  <2>10. ASSUME NEW j \in 1..k PROVE OwnLinks(B, item(j), wanted[order[j]])
    <3>1. CASE j = k
      <4>1. \A d \in w \ {x} : d \notin B[x] => Reaches(B, d, x)
        <5> SUFFICES ASSUME NEW d \in w \ {x}, d \notin B[x] PROVE Reaches(B, d, x)
          OBVIOUS
        <5>1. Reaches(A, d, x) /\ d \in D
          BY <2>1, <2>7
        <5> QED BY <2>1, <2>8, <5>1
      <4> QED BY <2>7, <2>w, <3>1, <4>1 DEF OwnLinks
    <3>2. CASE j # k
      <4>1. j \in 1..(k - 1) /\ item(j) # x
        BY <2>2, <3>2
      <4>2. j \in 1..N
        BY <1>1, <4>1
      <4>3. item(j) \in D /\ wanted[order[j]] \subseteq D /\ OwnLinks(A, item(j), wanted[order[j]])
        BY <1>4, <2>a, <4>1, <4>2
      <4>4. B[item(j)] = A[item(j)]
        BY <2>7, <4>1, <4>3
      <4> QED BY <2>8, <4>3, <4>4 DEF OwnLinks
    <3> QED BY <3>1, <3>2
  <2> QED BY <2>6, <2>7, <2>9, <2>10 DEF B
<1>7. Bad = {}
  <2> SUFFICES ASSUME Bad # {} PROVE FALSE
    OBVIOUS
  <2>1. PICK k \in Bad : \A i \in Bad : k <= i
    <3>1. Bad \in SUBSET Nat
      OBVIOUS
    <3> HIDE DEF Bad
    <3> QED BY <3>1, LeastNumber
  <2> HIDE DEF Right
  <2>2. k # 0
    BY <1>5, <2>1
  <2>3. k \in 1..N /\ k - 1 \in 0..N /\ ~(k <= k - 1)
    BY <1>1, <2>2
  <2>4. k - 1 \notin Bad
    <3> HIDE DEF Bad
    <3> QED BY <2>1, <2>3
  <2>5. Right(k - 1)
    BY <2>3, <2>4
  <2> QED BY <1>6, <2>1, <2>3, <2>5
<1>8. Right(N)
  <2> HIDE DEF Right
  <2> QED BY <1>1, <1>7
<1>9. \A i \in D : (\A n \in DOMAIN new : new[n] # i) => T(N)[i] = all[i].deps
  <2>1. \A j \in 1..N : order[j] \in DOMAIN new
    BY <1>4 DEF U
  <2> QED BY <1>8, <2>1 DEF item
<1>10. ASSUME NEW n \in DOMAIN new PROVE OwnLinks(T(N), new[n], wanted[n])
  <2>1. PICK k \in 1..N : order[k] = n
    BY <1>1 DEF U
  <2> QED BY <1>8, <2>1 DEF item
<1> QED BY <1>2, <1>8, <1>9, <1>10 DEF LinkedUp

-----------------------------------------------------------------------------
(* A manifest's relationships in terms of the graph: validate_manifest      *)
(* accepts parents one level up and dependencies without a cycle.           *)
Ranked(m) ==
    \A i \in DOMAIN m :
        m[i].parent # NoId =>
            m[i].parent \in DOMAIN m /\ Level[m[i].type] = Level[m[m[i].parent].type] + 1
Acyclic(m) == Edges(Linked(m)) /\ NoCycle(Linked(m))

(* The two say the same of a finite manifest.                               *)
LEMMA ValidIs ==
    ASSUME NEW m, IsFiniteSet(DOMAIN m)
    PROVE  Valid(m) <=> Ranked(m) /\ Acyclic(m)
<1> DEFINE adj == Linked(m)
<1>1. DOMAIN adj = DOMAIN m /\ \A i \in DOMAIN m : adj[i] = m[i].deps
  BY DEF Linked
<1>2. adj = [j \in DOMAIN m |-> m[j].deps]
  BY DEF Linked
<1>3. Edges(adj) <=> \A i \in DOMAIN m : m[i].deps \subseteq DOMAIN m
  BY DEF Edges, Linked
<1> HIDE DEF adj
<1>4. ASSUME NEW i \in DOMAIN m, NEW d
      PROVE  i \in Reachable(adj, d) <=> Reaches(adj, d, i)
  BY <1>1 DEF Reachable
<1>5. NoCycle(adj) <=> \A i \in DOMAIN m : \A d \in m[i].deps : ~Reaches(adj, d, i)
  BY <1>1, <1>4 DEF NoCycle
<1>6. Edges(adj) => \A i \in DOMAIN m : i \in Reachable(adj, i)
  BY <1>1, ReachableIs
<1>7. Valid(m) <=> /\ Ranked(m) /\ \A i \in DOMAIN m : m[i].deps \subseteq DOMAIN m \ {i}
                   /\ \A i \in DOMAIN m : \A d \in m[i].deps : ~Reaches(adj, d, i)
  BY <1>2 DEF Valid, Ranked
<1>8. Edges(adj) /\ NoCycle(adj) => \A i \in DOMAIN m : i \notin m[i].deps
  BY <1>1, <1>6 DEF NoCycle
<1> QED BY <1>3, <1>5, <1>7, <1>8 DEF Acyclic, adj

(* A manifest as it is in any state, and the ids a pass gives its issues.   *)
SoundManifest(m) ==
    /\ IsFiniteSet(DOMAIN m) /\ DOMAIN m \subseteq Id /\ Valid(m)
    /\ \A i \in DOMAIN m : m[i].type \in DOMAIN Level
Fresh(m, g, new) ==
    /\ IsFiniteSet(DOMAIN new) /\ DOMAIN new \subseteq Int
    /\ \A n \in DOMAIN new : new[n] \in Id \ DOMAIN m /\ g[n].type \in DOMAIN Level
    /\ \A n, k \in DOMAIN new : new[n] = new[k] => n = k
IdsOf(new) == {new[n] : n \in DOMAIN new}

(* No id is what stands for none.                                           *)
LEMMA NoIdIsNoId == NoId \notin Id
BY NoIdIsNone, NumbersArePositive DEF Id, NoId

(* The items of a pass without relationships, among those there are.        *)
FlatIn(all, m, g, new) ==
    /\ DOMAIN all = DOMAIN m \cup IdsOf(new) /\ IsFiniteSet(DOMAIN all)
    /\ \A i \in DOMAIN m : all[i] = m[i]
    /\ \A n \in DOMAIN new : all[new[n]] = FlatItem(g[n])

(* Merging them adds them and changes nothing else.                         *)
LEMMA FlatItemsIn ==
    ASSUME NEW m, NEW g, NEW new, SoundManifest(m), Fresh(m, g, new)
    PROVE  FlatIn(Merged(m, FlatItems(g, new)), m, g, new)
<1> DEFINE flat == FlatItems(g, new)
           I == IdsOf(new)
           all == Merged(m, flat)
<1>1. /\ flat = [id \in I |-> FlatItem(g[CHOOSE n \in DOMAIN new : new[n] = id])]
      /\ I \cap DOMAIN m = {} /\ \A n \in DOMAIN new : new[n] \in I
  BY DEF FlatItems, IdsOf, Fresh
<1>2. DOMAIN flat = I
  BY <1>1
<1>3. ASSUME NEW n \in DOMAIN new PROVE flat[new[n]] = FlatItem(g[n])
  <2>1. (CHOOSE k \in DOMAIN new : new[k] = new[n]) = n
    BY DEF Fresh
  <2> QED BY <1>1, <2>1
<1> HIDE DEF flat, I
<1>4. all = [id \in I \cup DOMAIN m |-> IF id \in I THEN flat[id] ELSE m[id]]
  BY <1>2 DEF Merged
<1>5. IsFiniteSet(I)
  <2> DEFINE N == DOMAIN new
             f == [n \in N |-> new[n]]
  <2>1. I = {f[n] : n \in N}
    BY DEF I, IdsOf
  <2>2. IsFiniteSet(N) /\ f \in Surjection(N, I)
    BY <2>1 DEF Fresh, Surjection
  <2> HIDE DEF N, f
  <2> QED BY <2>2, FS_Surjection
<1>6. IsFiniteSet(I \cup DOMAIN m)
  BY <1>5, FS_Union DEF SoundManifest
<1> HIDE DEF all
<1>7. /\ DOMAIN all = DOMAIN m \cup I
      /\ \A i \in DOMAIN m : all[i] = m[i]
      /\ \A n \in DOMAIN new : all[new[n]] = FlatItem(g[n])
  BY <1>1, <1>3, <1>4
<1>8. IsFiniteSet(DOMAIN all)
  BY <1>6, <1>7
<1> QED BY <1>7, <1>8 DEF FlatIn, all, flat, I

(* They add no edge.                                                        *)
LEMMA FlatAcyclic ==
    ASSUME NEW m, NEW g, NEW new, NEW all, SoundManifest(m), Fresh(m, g, new),
           FlatIn(all, m, g, new)
    PROVE  /\ Acyclic(all)
           /\ \A n \in DOMAIN new : all[new[n]].deps = {} /\ all[new[n]].parent = NoId
<1> DEFINE adj == Linked(m)
           more == Linked(all)
<1>1. Acyclic(m)
  BY ValidIs DEF SoundManifest
<1>2. \A n \in DOMAIN new :
        /\ all[new[n]].deps = {} /\ all[new[n]].parent = NoId
  <2>1. \A x : FlatItem(x).deps = {} /\ FlatItem(x).parent = NoId
    BY DEF FlatItem
  <2> QED BY <2>1 DEF FlatIn
<1>3. /\ DOMAIN adj = DOMAIN m /\ DOMAIN more = DOMAIN m \cup IdsOf(new)
      /\ \A i \in DOMAIN m : adj[i] = m[i].deps /\ more[i] = m[i].deps
      /\ \A i \in IdsOf(new) : more[i] = {}
  <2>1. \A i \in IdsOf(new) : all[i].deps = {}
    BY <1>2 DEF IdsOf
  <2> QED BY <2>1 DEF Linked, FlatIn
<1>4. Edges(adj) /\ NoCycle(adj)
  BY <1>1 DEF Acyclic
<1>5. more = [i \in DOMAIN more |-> more[i]]
  BY DEF Linked
<1> HIDE DEF adj, more
<1>6. Edges(more)
  <2>1. IsFiniteSet(DOMAIN more)
    BY <1>3 DEF FlatIn
  <2>2. \A i \in DOMAIN more : more[i] \in SUBSET (DOMAIN more)
    BY <1>3, <1>4 DEF Edges
  <2> QED BY <1>5, <2>1, <2>2 DEF Edges
<1>7. ASSUME NEW i \in DOMAIN more, NEW d \in more[i] PROVE i \notin Reachable(more, d)
  <2>1. i \in DOMAIN m /\ d \in adj[i]
    BY <1>3
  <2>2. d \in DOMAIN adj /\ d \in DOMAIN more
    BY <1>3, <1>4, <2>1 DEF Edges
  <2> DEFINE S == Reachable(adj, d)
  <2>3. d \in S /\ S \subseteq DOMAIN adj /\ Closed(adj, S) /\ i \notin S
    BY <1>3, <1>4, <2>1, <2>2, ReachableIs DEF NoCycle
  <2> HIDE DEF S
  <2>4. Closed(more, S)
    BY <1>3, <2>3 DEF Closed
  <2>5. Reachable(more, d) \subseteq S
    BY <1>6, <2>2, <2>3, <2>4, ReachableIs
  <2> QED BY <2>3, <2>5
<1>8. NoCycle(more)
  BY <1>7 DEF NoCycle
<1> QED BY <1>2, <1>6, <1>8 DEF Acyclic, more

(* What a related issue stands for is an item there is, or none.            *)
LEMMA ResolvedIs ==
    ASSUME NEW g, NEW related, NEW known, NEW new
    PROVE  Resolved(g, related, known, new) \in known \cup IdsOf(new) \cup {NoId}
BY DEF Resolved, IdsOf

(* So is what an issue is blocked by.                                       *)
LEMMA WantedIs ==
    ASSUME NEW g, NEW n, NEW known, NEW new
    PROVE  Wanted(g, n, known, new) \subseteq known \cup IdsOf(new)
<1> SUFFICES ASSUME NEW d \in Wanted(g, n, known, new) PROVE d \in known \cup IdsOf(new)
  OBVIOUS
<1>1. PICK related : d = Resolved(g, related, known, new) /\ d # NoId
  BY DEF Wanted
<1> QED BY <1>1, ResolvedIs

(* The dependency loop is given what it needs.                              *)
Wants(g, known, new) == [n \in DOMAIN new |-> Wanted(g, n, known, new)]

(* The merged manifest has no cycle, and the new items no dependency.       *)
LEMMA FlatLinkable ==
    ASSUME NEW m, NEW g, NEW new, NEW known, NEW all, SoundManifest(m), Fresh(m, g, new),
           known \subseteq DOMAIN m \cup IdsOf(new), FlatIn(all, m, g, new)
    PROVE  Linkable(all, new, Wants(g, known, new))
<1>1. Acyclic(all) /\ \A n \in DOMAIN new : all[new[n]].deps = {}
  BY FlatAcyclic
<1>2. \A n \in DOMAIN new : new[n] \in DOMAIN all
  BY DEF FlatIn, IdsOf
<1>3. ASSUME NEW n \in DOMAIN new PROVE Wants(g, known, new)[n] \subseteq DOMAIN all
  <2>1. Wants(g, known, new)[n] = Wanted(g, n, known, new)
    BY DEF Wants
  <2> QED BY <2>1, WantedIs DEF FlatIn
<1> QED BY <1>1, <1>2, <1>3 DEF Acyclic, Linkable, Fresh

(* The manifest with the items of a pass: its own items as they were, and   *)
(* the others related as _infer_relationships relates them.                 *)
InferredIn(M, all, m, g, known, new) ==
    /\ DOMAIN M = DOMAIN all /\ FlatIn(all, m, g, new)
    /\ \A i \in DOMAIN m : M[i] = m[i]
    /\ \A n \in DOMAIN new : /\ M[new[n]].type = g[n].type
                             /\ M[new[n]].parent = ParentOf(m, g, n, known, new)
    /\ all = Merged(m, FlatItems(g, new))
    /\ LinkedUp(Linked(M), all, new, Wants(g, known, new))

(* Inferring relationships gives them, and only to the new items.           *)
LEMMA InferredItemsIn ==
    ASSUME NEW m, NEW g, NEW new, NEW known, SoundManifest(m), Fresh(m, g, new),
           known \subseteq DOMAIN m \cup IdsOf(new)
    PROVE  InferredIn(Merged(m, Inferred(m, g, known, new)), Merged(m, FlatItems(g, new)),
                      m, g, known, new)
<1> DEFINE flat == FlatItems(g, new)
           all == Merged(m, flat)
           wanted == Wants(g, known, new)
           A == Dependencies(all, new, wanted)
           parents == [n \in DOMAIN new |-> ParentOf(m, g, n, known, new)]
           numberOf(id) == CHOOSE n \in DOMAIN new : new[n] = id
           items == Inferred(m, g, known, new)
           M == Merged(m, items)
           I == IdsOf(new)
<1>1. FlatIn(all, m, g, new)
  BY FlatItemsIn
<1>2. Linkable(all, new, wanted)
  BY <1>1, FlatLinkable
<1>3. LinkedUp(A, all, new, wanted)
  <2> HIDE DEF all, wanted
  <2> QED BY <1>2, DependenciesAre
<1>4. items = [id \in DOMAIN flat |->
                 [flat[id] EXCEPT !.parent = parents[numberOf(id)], !.deps = A[id]]]
  BY DEF Inferred, Wants
<1>5. DOMAIN flat = I /\ I \cap DOMAIN m = {} /\ \A n \in DOMAIN new : new[n] \in I
  BY DEF FlatItems, IdsOf, Fresh
<1>6. ASSUME NEW n \in DOMAIN new PROVE numberOf(new[n]) = n /\ flat[new[n]] = FlatItem(g[n])
  <2>1. numberOf(new[n]) = n
    BY DEF Fresh
  <2>2. flat[new[n]] = FlatItem(g[n])
    BY <1>5, <2>1 DEF FlatItems, IdsOf
  <2> QED BY <2>1, <2>2
<1>7. \A x, p, d : /\ [FlatItem(x) EXCEPT !.parent = p, !.deps = d].type = x.type
                   /\ [FlatItem(x) EXCEPT !.parent = p, !.deps = d].parent = p
                   /\ [FlatItem(x) EXCEPT !.parent = p, !.deps = d].deps = d
  BY DEF FlatItem
<1> HIDE DEF A, flat, I
<1>8. ASSUME NEW n \in DOMAIN new
      PROVE  /\ items[new[n]].type = g[n].type
             /\ items[new[n]].parent = ParentOf(m, g, n, known, new)
             /\ items[new[n]].deps = A[new[n]]
  <2>1. parents[n] = ParentOf(m, g, n, known, new)
    OBVIOUS
  <2> HIDE DEF items, numberOf, parents
  <2>2. items[new[n]] = [FlatItem(g[n]) EXCEPT !.parent = parents[n], !.deps = A[new[n]]]
    BY <1>4, <1>5, <1>6
  <2> QED BY <1>7, <2>1, <2>2
<1>9. DOMAIN items = I
  <2> HIDE DEF items
  <2> QED BY <1>4, <1>5
<1> HIDE DEF items
<1>10. M = [id \in I \cup DOMAIN m |-> IF id \in I THEN items[id] ELSE m[id]]
  BY <1>9 DEF Merged
<1> HIDE DEF M, all
<1>11. /\ DOMAIN M = DOMAIN all /\ \A i \in DOMAIN m : M[i] = m[i]
       /\ \A n \in DOMAIN new : M[new[n]] = items[new[n]]
  BY <1>1, <1>5, <1>10 DEF FlatIn, I
<1>12. Linked(M) = A
  <2>1. DOMAIN A = DOMAIN all /\ A = [i \in DOMAIN all |-> A[i]]
    BY <1>3 DEF LinkedUp, Edges
  <2>2. ASSUME NEW i \in DOMAIN all PROVE M[i].deps = A[i]
    <3>1. CASE i \in DOMAIN m
      <4>1. \A n \in DOMAIN new : new[n] # i
        BY <1>5, <3>1
      <4>2. A[i] = all[i].deps /\ all[i] = m[i]
        BY <1>1, <1>3, <3>1, <4>1 DEF LinkedUp, FlatIn
      <4> QED BY <1>11, <3>1, <4>2
    <3>2. CASE i \notin DOMAIN m
      <4>1. PICK n \in DOMAIN new : i = new[n]
        BY <1>1, <3>2 DEF FlatIn, IdsOf
      <4> QED BY <1>8, <1>11, <4>1
    <3> QED BY <3>1, <3>2
  <2> QED BY <1>11, <2>1, <2>2 DEF Linked
<1>13. all = Merged(m, FlatItems(g, new))
  BY DEF all, flat
<1> HIDE DEF wanted
<1>14. InferredIn(M, all, m, g, known, new)
  BY <1>1, <1>3, <1>8, <1>11, <1>12, <1>13 DEF InferredIn, wanted
<1> QED BY <1>14 DEF M, items, all, flat

(* It is accepted, and so is a manifest with unrelated items.               *)
LEMMA InferredIsSound ==
    ASSUME NEW m, NEW g, NEW new, NEW known, NEW all, NEW M, SoundManifest(m), Fresh(m, g, new),
           known \subseteq DOMAIN m \cup IdsOf(new), InferredIn(M, all, m, g, known, new)
    PROVE  SoundManifest(M) /\ \A i \in DOMAIN M : M[i].type = all[i].type
<1>1. /\ DOMAIN M = DOMAIN m \cup IdsOf(new) /\ IsFiniteSet(DOMAIN M)
      /\ \A i \in DOMAIN m : M[i] = m[i] /\ all[i] = m[i]
      /\ \A n \in DOMAIN new : /\ M[new[n]].type = g[n].type
                               /\ M[new[n]].parent = ParentOf(m, g, n, known, new)
                               /\ all[new[n]] = FlatItem(g[n])
  BY DEF InferredIn, FlatIn
<1>2. DOMAIN M \subseteq Id
  BY <1>1 DEF SoundManifest, Fresh, IdsOf
<1>3. \A i \in DOMAIN M : M[i].type \in DOMAIN Level /\ M[i].type = all[i].type
  <2>1. \A x : FlatItem(x).type = x.type
    BY DEF FlatItem
  <2> SUFFICES ASSUME NEW i \in DOMAIN M
               PROVE  M[i].type \in DOMAIN Level /\ M[i].type = all[i].type
    OBVIOUS
  <2>2. CASE i \in DOMAIN m
    BY <1>1, <2>2 DEF SoundManifest
  <2>3. CASE i \notin DOMAIN m
    <3>1. PICK n \in DOMAIN new : i = new[n]
      BY <1>1, <2>3 DEF IdsOf
    <3> QED BY <1>1, <2>1, <3>1 DEF Fresh
  <2> QED BY <2>2, <2>3
<1>4. Acyclic(M)
  BY DEF InferredIn, LinkedUp, Acyclic
<1>5. Ranked(M)
  <2>1. ASSUME NEW i \in DOMAIN M, M[i].parent # NoId
        PROVE  /\ M[i].parent \in DOMAIN M
               /\ Level[M[i].type] = Level[M[M[i].parent].type] + 1
    <3>1. CASE i \in DOMAIN m
      <4>1. Ranked(m)
        BY ValidIs DEF SoundManifest
      <4>2. M[i] = m[i] /\ m[i].parent # NoId
        BY <1>1, <2>1, <3>1
      <4>3. /\ m[i].parent \in DOMAIN m
            /\ Level[m[i].type] = Level[m[m[i].parent].type] + 1
        BY <3>1, <4>1, <4>2 DEF Ranked
      <4> QED BY <1>1, <4>2, <4>3
    <3>2. CASE i \notin DOMAIN m
      <4>1. PICK n \in DOMAIN new : i = new[n]
        BY <1>1, <3>2 DEF IdsOf
      <4> DEFINE p == Resolved(g, g[n].parent, known, new)
      <4>2. M[i].parent = ParentOf(m, g, n, known, new) /\ M[i].type = g[n].type
        BY <1>1, <4>1
      <4>3. p \in DOMAIN M \cup {NoId}
        BY <1>1, ResolvedIs
      <4>4. all = Merged(m, FlatItems(g, new))
        BY DEF InferredIn
      <4>5. ParentOf(m, g, n, known, new)
            = IF p # NoId /\ Level[g[n].type] = Level[all[p].type] + 1 THEN p ELSE NoId
        BY <4>4 DEF ParentOf
      <4> HIDE DEF p
      <4>6. M[i].parent = p /\ Level[g[n].type] = Level[all[p].type] + 1 /\ p \in DOMAIN M
        BY <2>1, <4>2, <4>3, <4>5
      <4> QED BY <1>3, <4>2, <4>6
    <3> QED BY <3>1, <3>2
  <2> QED BY <2>1 DEF Ranked
<1>6. Valid(M)
  BY <1>1, <1>4, <1>5, ValidIs
<1> QED BY <1>1, <1>2, <1>3, <1>6 DEF SoundManifest

(* The same without relationships.                                          *)
LEMMA FlatIsSound ==
    ASSUME NEW m, NEW g, NEW new, NEW all, SoundManifest(m), Fresh(m, g, new),
           FlatIn(all, m, g, new)
    PROVE  SoundManifest(all)
<1>1. /\ DOMAIN all = DOMAIN m \cup IdsOf(new) /\ IsFiniteSet(DOMAIN all)
      /\ \A i \in DOMAIN m : all[i] = m[i]
      /\ \A n \in DOMAIN new : all[new[n]] = FlatItem(g[n])
  BY DEF FlatIn
<1>2. DOMAIN all \subseteq Id
  BY <1>1 DEF SoundManifest, Fresh, IdsOf
<1>3. Acyclic(all) /\ \A n \in DOMAIN new : all[new[n]].parent = NoId
  BY FlatAcyclic
<1>4. Ranked(m)
  BY ValidIs DEF SoundManifest
<1>5. ASSUME NEW i \in DOMAIN all
      PROVE  /\ all[i].type \in DOMAIN Level
             /\ all[i].parent # NoId =>
                   /\ all[i].parent \in DOMAIN all
                   /\ Level[all[i].type] = Level[all[all[i].parent].type] + 1
  <2>1. CASE i \in DOMAIN m
    BY <1>1, <1>4, <2>1 DEF SoundManifest, Ranked
  <2>2. CASE i \notin DOMAIN m
    <3>1. PICK n \in DOMAIN new : i = new[n]
      BY <1>1, <2>2 DEF IdsOf
    <3>2. \A x : FlatItem(x).type = x.type
      BY DEF FlatItem
    <3> QED BY <1>1, <1>3, <3>1, <3>2 DEF Fresh
  <2> QED BY <2>1, <2>2
<1>6. Ranked(all)
  BY <1>5 DEF Ranked
<1>7. Valid(all)
  BY <1>1, <1>3, <1>6, ValidIs
<1> QED BY <1>1, <1>2, <1>5, <1>7 DEF SoundManifest

(* GitHub as it is in any state.                                            *)
SoundIssues(g) ==
    /\ Issues(g) /\ IsFiniteSet(DOMAIN g)
    /\ \A n \in DOMAIN g : g[n].type \in DOMAIN Level /\ g[n].marker \in Id \cup {NoId}

(* Adoption: the issues chosen are fresh, ...                               *)
AsNumbered(C) == [n \in C |-> n]

(* An id claimed by the manifest is refused, unless beyond the limit.       *)
LEMMA ChosenAreFresh ==
    ASSUME NEW m, NEW g, NEW o, SoundIssues(g), Selectable(m, g, o)
    PROVE  /\ Chosen(m, g, o) \subseteq Unmanaged(g) /\ Unmanaged(g) \subseteq DOMAIN g
           /\ Fresh(m, g, AsNumbered(Chosen(m, g, o)))
<1> DEFINE C == Chosen(m, g, o)
           new == AsNumbered(C)
<1>1. /\ Unmanaged(g) \subseteq DOMAIN g /\ Unmanaged(g) \subseteq Number
      /\ IsFiniteSet(Unmanaged(g)) /\ Number \subseteq Nat
  <2>1. Unmanaged(g) \subseteq DOMAIN g
    BY DEF Unmanaged
  <2>2. IsFiniteSet(Unmanaged(g))
    BY <2>1, FS_Subset DEF SoundIssues
  <2> QED BY <2>1, <2>2, NumbersArePositive DEF SoundIssues, Issues
<1>2. Listable(g)
  BY <1>1 DEF Listable
<1>3. /\ C \subseteq Unmanaged(g)
      /\ \A n \in Unmanaged(g) : n \in C <=> ~Passed(m, g, o, Below(C, n), n)
  BY <1>2, ChosenInTurn DEF ChoosesInTurn
<1> HIDE DEF C
<1>4. IsFiniteSet(C)
  BY <1>1, <1>3, FS_Subset
<1>5. ASSUME NEW n \in C, n \in DOMAIN m PROVE FALSE
  <2>1. n \in Unmanaged(g) /\ ~Passed(m, g, o, Below(C, n), n)
    BY <1>3
  <2>2. n \in o.include /\ ~(Cardinality(Below(C, n)) >= o.limit)
    BY <2>1 DEF Passed
  <2>3. Cardinality({k \in C : k < n}) >= o.limit
    BY <1>5, <2>2 DEF Selectable, C
  <2> QED BY <2>2, <2>3 DEF Below
<1>6. DOMAIN new = C /\ \A n \in C : new[n] = n
  BY DEF AsNumbered
<1> HIDE DEF new
<1>7. \A n \in C : n \in Int /\ n \in Id /\ n \notin DOMAIN m /\ g[n].type \in DOMAIN Level
  <2> SUFFICES ASSUME NEW n \in C
               PROVE  n \in Int /\ n \in Id /\ n \notin DOMAIN m /\ g[n].type \in DOMAIN Level
    OBVIOUS
  <2>1. n \in Number /\ n \in DOMAIN g
    BY <1>1, <1>3
  <2>2. g[n].type \in DOMAIN Level
    BY <2>1 DEF SoundIssues
  <2>3. n \in Nat
    BY <1>1, <2>1
  <2> QED BY <1>5, <2>1, <2>2, <2>3 DEF Id
<1>8. Fresh(m, g, new)
  BY <1>4, <1>6, <1>7 DEF Fresh
<1> QED BY <1>1, <1>3, <1>8 DEF C, new

(* ... and so is what is recovered if no two issues carry one marker.       *)
AsMarked(m, g) == [n \in Orphans(m, g) |-> g[n].marker]

(* A marker the manifest does not know is a fresh id.                       *)
LEMMA OrphansAreFresh ==
    ASSUME NEW m, NEW g, SoundIssues(g), Recoverable(m, g)
    PROVE  Fresh(m, g, AsMarked(m, g))
<1> DEFINE O == Orphans(m, g)
           new == AsMarked(m, g)
<1>1. /\ O \subseteq DOMAIN g /\ O \subseteq Number /\ Number \subseteq Nat
      /\ \A n \in O : g[n].marker \notin DOMAIN m \cup {NoId}
  BY NumbersArePositive DEF Orphans, SoundIssues, Issues
<1>2. IsFiniteSet(O)
  BY <1>1, FS_Subset DEF SoundIssues
<1>3. DOMAIN new = O /\ \A n \in O : new[n] = g[n].marker
  BY DEF AsMarked
<1>4. \A n, k \in O : g[n].marker = g[k].marker => n = k
  BY DEF Recoverable
<1> HIDE DEF O, new
<1>5. \A n \in O : /\ n \in Int /\ g[n].marker \in Id \ DOMAIN m
                   /\ g[n].type \in DOMAIN Level
  <2> SUFFICES ASSUME NEW n \in O
               PROVE  /\ n \in Int /\ g[n].marker \in Id \ DOMAIN m
                      /\ g[n].type \in DOMAIN Level
    OBVIOUS
  <2>1. n \in Nat /\ n \in DOMAIN g /\ g[n].marker \notin DOMAIN m \cup {NoId}
    BY <1>1
  <2>2. g[n].type \in DOMAIN Level /\ g[n].marker \in Id \cup {NoId}
    BY <2>1 DEF SoundIssues
  <2> QED BY <2>1, <2>2
<1>6. Fresh(m, g, new)
  BY <1>2, <1>3, <1>4, <1>5 DEF Fresh
<1> QED BY <1>6 DEF new

(* So either pass makes a manifest that is accepted.                        *)
LEMMA AdoptionIsSound ==
    ASSUME NEW m, NEW g, NEW o, SoundManifest(m), SoundIssues(g), Selectable(m, g, o)
    PROVE  SoundManifest(Merged(m, ImportItems(m, g, o)))
<1> DEFINE new == AsNumbered(Chosen(m, g, o))
<1>1. Fresh(m, g, new)
  BY ChosenAreFresh
<1>2. ImportItems(m, g, o) = IF o.infer THEN Inferred(m, g, DOMAIN m, new) ELSE FlatItems(g, new)
  BY DEF ImportItems, AsNumbered
<1> HIDE DEF new
<1>3. SoundManifest(Merged(m, Inferred(m, g, DOMAIN m, new)))
  BY <1>1, InferredItemsIn, InferredIsSound
<1>4. SoundManifest(Merged(m, FlatItems(g, new)))
  BY <1>1, FlatItemsIn, FlatIsSound
<1> QED BY <1>2, <1>3, <1>4

(* The same of a recovery, which may relate what it recovers.               *)
LEMMA RecoveryIsSound ==
    ASSUME NEW m, NEW g, NEW infer, SoundManifest(m), SoundIssues(g), Recoverable(m, g)
    PROVE  SoundManifest(Reconciled(m, g, infer))
<1> DEFINE new == AsMarked(m, g)
           known == DOMAIN m \cup IdsOf(new)
<1>1. Fresh(m, g, new)
  BY OrphansAreFresh
<1>2. Reconciled(m, g, infer)
      = Merged(m, IF infer THEN Inferred(m, g, known, new) ELSE FlatItems(g, new))
  BY DEF Reconciled, AsMarked, IdsOf
<1>3. known \subseteq DOMAIN m \cup IdsOf(new)
  OBVIOUS
<1> HIDE DEF new, known
<1>4. SoundManifest(Merged(m, Inferred(m, g, known, new)))
  BY <1>1, <1>3, InferredItemsIn, InferredIsSound
<1>5. SoundManifest(Merged(m, FlatItems(g, new)))
  BY <1>1, FlatItemsIn, FlatIsSound
<1> QED BY <1>2, <1>4, <1>5

(* Adoption and recovery of whatever there is are therefore possible.       *)
LEMMA SoundIsExpressible ==
    ASSUME SoundManifest(manifest), SoundIssues(github)
    PROVE  AlwaysExpressible
<1>1. ASSUME NEW o \in job.opts, Selectable(manifest, github, AllUnmanaged(o))
      PROVE  ImportPlannable(manifest, github, AllUnmanaged(o))
  BY <1>1, AdoptionIsSound DEF ImportPlannable, SoundManifest
<1>2. ASSUME Recoverable(manifest, github), NEW infer \in BOOLEAN
      PROVE  Valid(Reconciled(manifest, github, infer))
  BY <1>2, RecoveryIsSound DEF SoundManifest
<1> QED BY <1>1, <1>2 DEF AlwaysExpressible

(* And nothing is withheld that a manifest could express.                   *)
LEMMA ItemsAreResolved ==
    ASSUME SoundManifest(manifest), SoundIssues(github), NEW taken \in SUBSET Unmanaged(github),
           NEW k \in DOMAIN github
    PROVE  ItemOf(k, taken) = Resolved(github, k, DOMAIN manifest, AsNumbered(taken))
<1>1. NoId \notin DOMAIN manifest
  BY NoIdIsNoId DEF SoundManifest
<1>2. k \in taken => github[k].marker = NoId
  BY DEF Unmanaged
<1>3. DOMAIN AsNumbered(taken) = taken /\ (k \in taken => AsNumbered(taken)[k] = k)
  BY DEF AsNumbered
<1> QED BY <1>1, <1>2, <1>3 DEF ItemOf, Resolved

(* A link missing in the end would have closed a cycle there.               *)
LEMMA SoundWithholdsNothing ==
    ASSUME SoundManifest(manifest), SoundIssues(github)
    PROVE  WithholdsOnlyTheInexpressible
<1> SUFFICES ASSUME NEW o \in job.opts, o.infer, Selectable(manifest, github, AllUnmanaged(o)),
                    NEW n \in Chosen(manifest, github, AllUnmanaged(o))
             PROVE  LET taken == Chosen(manifest, github, AllUnmanaged(o))
                        merged == Merged(manifest, ImportItems(manifest, github, AllUnmanaged(o)))
                        edges == [i \in DOMAIN merged |-> merged[i].deps]
                    IN  /\ \A k \in github[n].blockedBy \cap DOMAIN github :
                              ItemOf(k, taken) \notin merged[n].deps \cup {n, NoId}
                                  => Reaches(edges, ItemOf(k, taken), n)
                        /\ LET up == github[n].parent
                           IN  up \in DOMAIN github /\ ItemOf(up, taken) # NoId
                                 => \/ merged[n].parent = ItemOf(up, taken)
                                    \/ Level[github[n].type]
                                          # Level[merged[ItemOf(up, taken)].type] + 1
  BY DEF WithholdsOnlyTheInexpressible
<1> DEFINE m == manifest
           g == github
           taken == Chosen(m, g, AllUnmanaged(o))
           new == AsNumbered(taken)
           known == DOMAIN m
           M == Merged(m, ImportItems(m, g, AllUnmanaged(o)))
           all == Merged(m, FlatItems(g, new))
           wanted == Wants(g, known, new)
           edges == [i \in DOMAIN M |-> M[i].deps]
<1>1. taken \subseteq Unmanaged(g) /\ Unmanaged(g) \subseteq DOMAIN g /\ Fresh(m, g, new)
  BY ChosenAreFresh
<1>2. M = Merged(m, Inferred(m, g, known, new))
  BY DEF ImportItems, AsNumbered, AllUnmanaged, Selecting
<1>3. InferredIn(M, all, m, g, known, new)
  BY <1>1, <1>2, InferredItemsIn
<1>4. \A i \in DOMAIN M : M[i].type = all[i].type
  <2> HIDE DEF M, all, known
  <2>1. known \subseteq DOMAIN m \cup IdsOf(new)
    BY DEF known
  <2> QED BY <1>1, <1>3, <2>1, InferredIsSound
<1>5. n \in taken /\ DOMAIN new = taken /\ new[n] = n
  BY DEF AsNumbered
<1>6. edges = Linked(M) /\ all = Merged(m, FlatItems(g, new))
  BY DEF Linked
<1> HIDE DEF M, all
<1>7. M[n].deps = edges[n] /\ n \in DOMAIN M
  <2>1. n \in DOMAIN M
    BY <1>3, <1>5 DEF InferredIn, FlatIn, IdsOf
  <2> QED BY <2>1
<1>8. ASSUME NEW k \in DOMAIN g
      PROVE  ItemOf(k, taken) = Resolved(g, k, known, new)
  BY <1>1, ItemsAreResolved
<1> HIDE DEF edges, known
<1>9. OwnLinks(edges, n, Wanted(g, n, known, new))
  <2>1. wanted[n] = Wanted(g, n, known, new)
    BY <1>5 DEF Wants
  <2>2. LinkedUp(edges, all, new, wanted)
    BY <1>3, <1>6 DEF InferredIn
  <2> HIDE DEF wanted, new
  <2>3. OwnLinks(edges, new[n], wanted[n])
    BY <1>5, <2>2 DEF LinkedUp
  <2> QED BY <1>5, <2>1, <2>3
<1>10. M[n].parent = ParentOf(m, g, n, known, new)
  BY <1>3, <1>5 DEF InferredIn
<1> HIDE DEF new
<1>11. ASSUME NEW k \in g[n].blockedBy \cap DOMAIN g,
              ItemOf(k, taken) \notin M[n].deps \cup {n, NoId}
       PROVE  Reaches(edges, ItemOf(k, taken), n)
  <2>1. ItemOf(k, taken) \in Wanted(g, n, known, new) \ {n}
    BY <1>8, <1>11 DEF Wanted
  <2> QED BY <1>7, <1>9, <1>11, <2>1 DEF OwnLinks
<1>12. ASSUME g[n].parent \in DOMAIN g, ItemOf(g[n].parent, taken) # NoId,
              Level[g[n].type] = Level[M[ItemOf(g[n].parent, taken)].type] + 1
       PROVE  M[n].parent = ItemOf(g[n].parent, taken)
  <2> DEFINE p == Resolved(g, g[n].parent, known, new)
  <2>1. p = ItemOf(g[n].parent, taken)
    BY <1>8, <1>12
  <2>2. M[n].parent = IF p # NoId /\ Level[g[n].type] = Level[all[p].type] + 1 THEN p ELSE NoId
    BY <1>6, <1>10 DEF ParentOf
  <2>3. p \in known \cup IdsOf(new) \cup {NoId}
    BY ResolvedIs
  <2>4. DOMAIN M = DOMAIN m \cup IdsOf(new)
    BY <1>3 DEF InferredIn, FlatIn
  <2> HIDE DEF p
  <2>5. p \in DOMAIN M
    BY <1>12, <2>1, <2>3, <2>4 DEF known
  <2>6. M[p].type = all[p].type
    BY <1>4, <2>5
  <2> QED BY <1>12, <2>1, <2>2, <2>6
<1> QED BY <1>11, <1>12 DEF M, edges, known

-----------------------------------------------------------------------------
(* An item nothing refers to can go.                                        *)
LEMMA ItemRemoved ==
    ASSUME NEW m, SoundManifest(m), NEW id \in DOMAIN m,
           \A i \in DOMAIN m \ {id} : m[i].parent # id /\ id \notin m[i].deps
    PROVE  SoundManifest([i \in DOMAIN m \ {id} |-> m[i]])
<1> DEFINE rest == DOMAIN m \ {id}
           k == [i \in rest |-> m[i]]
           adj == Linked(m)
           less == Linked(k)
<1>1. Ranked(m) /\ Edges(adj) /\ NoCycle(adj)
  BY ValidIs DEF SoundManifest, Acyclic
<1>2. /\ DOMAIN k = rest /\ \A i \in rest : k[i] = m[i]
      /\ IsFiniteSet(rest) /\ rest \subseteq DOMAIN m
  BY FS_Subset DEF SoundManifest
<1> HIDE DEF k
<1>3. /\ DOMAIN adj = DOMAIN m /\ DOMAIN less = rest /\ less = [i \in rest |-> less[i]]
      /\ \A i \in DOMAIN m : adj[i] = m[i].deps
      /\ \A i \in rest : less[i] = m[i].deps
  BY <1>2 DEF Linked
<1> HIDE DEF adj, less
<1>4. \A i \in rest : less[i] = adj[i] /\ id \notin adj[i]
  BY <1>3
<1>5. Edges(less)
  <2>1. \A i \in rest : less[i] \in SUBSET rest
    BY <1>1, <1>3, <1>4 DEF Edges
  <2> HIDE DEF rest
  <2> QED BY <1>2, <1>3, <2>1 DEF Edges
<1>6. ASSUME NEW i \in rest, NEW d \in less[i] PROVE i \notin Reachable(less, d)
  <2>1. i \in DOMAIN adj /\ d \in adj[i] /\ d \in DOMAIN adj /\ d # id
    BY <1>1, <1>3, <1>4 DEF Edges
  <2> DEFINE S == Reachable(adj, d)
  <2>2. d \in S /\ S \subseteq DOMAIN adj /\ Closed(adj, S) /\ i \notin S
    BY <1>1, <2>1, ReachableIs DEF NoCycle
  <2> HIDE DEF S
  <2> DEFINE T == S \ {id}
  <2>3. d \in T /\ i \notin T /\ d \in DOMAIN less /\ T \subseteq rest
    BY <1>3, <2>1, <2>2
  <2>4. Closed(less, T)
    <3> SUFFICES ASSUME NEW j \in T PROVE less[j] \subseteq T
      BY DEF Closed
    <3>1. j \in rest /\ adj[j] \subseteq S
      BY <2>2, <2>3 DEF Closed
    <3> QED BY <1>4, <3>1
  <2> HIDE DEF T
  <2>5. Reachable(less, d) \subseteq T
    BY <1>5, <2>3, <2>4, ReachableIs
  <2> QED BY <2>3, <2>5
<1>7. Acyclic(k)
  BY <1>3, <1>5, <1>6 DEF Acyclic, NoCycle, less
<1>8. Ranked(k)
  BY <1>1, <1>2 DEF Ranked
<1>9. Valid(k)
  BY <1>2, <1>7, <1>8, ValidIs
<1>10. SoundManifest(k)
  BY <1>2, <1>9 DEF SoundManifest
<1> QED BY <1>10 DEF k

(* An issue keeps its type, and its marker unless it is given its number    *)
(* or none.                                                                 *)
LEMMA IssuesStaySound ==
    ASSUME NEW g, NEW h, SoundIssues(g), Issues(h), DOMAIN h = DOMAIN g,
           \A n \in DOMAIN g : h[n].type = g[n].type /\ h[n].marker \in {g[n].marker, n, NoId}
    PROVE  SoundIssues(h)
<1>1. \A n \in DOMAIN g : n \in Id
  BY DEF SoundIssues, Issues, Id
<1> QED BY <1>1 DEF SoundIssues

(* A PATCH gives the issue its number.                                      *)
LEMMA PatchIsSound ==
    ASSUME IInv, SoundIssues(github), NEW a \in Adopter
    PROVE  SoundIssues(Patched(a))
<1> DEFINE k == NextIssue(a)
           prose == run[a].plan.bodies[k]
           h == Patched(a)
<1>1. h = [github EXCEPT ![k] = [github[k] EXCEPT !.marker = k, !.prose = prose]]
  BY DEF Patched
<1>2. Issues(h)
  BY PatchedIssues
<1> HIDE DEF k, prose, h
<1>3. DOMAIN h = DOMAIN github
  BY <1>1
<1>4. ASSUME NEW n \in DOMAIN github
      PROVE  h[n].type = github[n].type /\ h[n].marker \in {github[n].marker, n, NoId}
  <2> DEFINE y == github[n]
  <2>1. y = [marker |-> y.marker, title |-> y.title, type |-> y.type, prose |-> y.prose,
             closed |-> y.closed, parent |-> y.parent, blockedBy |-> y.blockedBy]
    BY DEF IInv, Issues
  <2>2. n # k => h[n] = y
    BY <1>1
  <2>3. n = k => h[n] = [y EXCEPT !.marker = n, !.prose = prose]
    BY <1>1
  <2>4. CASE n # k
    BY <2>2, <2>4
  <2>5. CASE n = k
    <3> DEFINE x == h[n]
    <3>1. x = [y EXCEPT !.marker = n, !.prose = prose]
      BY <2>3, <2>5
    <3> HIDE DEF x, y
    <3>2. x.type = y.type /\ x.marker = n
      BY <2>1, <3>1
    <3> QED BY <3>2 DEF x, y
  <2> QED BY <2>4, <2>5
<1>5. SoundIssues(h)
  BY <1>2, <1>3, <1>4, IssuesStaySound
<1> QED BY <1>5 DEF h

(* A person drops a marker or leaves it.                                    *)
LEMMA EditIsSound ==
    ASSUME IInv, SoundIssues(github), EditIssue
    PROVE  SoundIssues(github')
<1>1. Issues(github')
  BY EditsKeep DEF IInv, Issues
<1>2. PICK n \in DOMAIN github :
        \E x \in PersonEdits(github[n]) : github' = [github EXCEPT ![n] = x]
  BY DEF EditIssue
<1>3. PICK x \in PersonEdits(github[n]) : github' = [github EXCEPT ![n] = x]
  BY <1>2
<1> DEFINE y == github[n]
<1>4. y = [marker |-> y.marker, title |-> y.title, type |-> y.type, prose |-> y.prose,
           closed |-> y.closed, parent |-> y.parent, blockedBy |-> y.blockedBy]
  BY DEF IInv, Issues
<1>5. \/ x \in {[y EXCEPT !.prose = "rewritten"], [y EXCEPT !.marker = NoId],
                [y EXCEPT !.closed = TRUE], [y EXCEPT !.title = "renamed"],
                [y EXCEPT !.parent = NoId]}
      \/ \E k \in DOMAIN github : x = [y EXCEPT !.blockedBy = @ \cup {k}]
  BY DEF PersonEdits
<1> HIDE DEF y
<1>6. x.type = y.type /\ x.marker \in {y.marker, NoId}
  <2>1. CASE x \in {[y EXCEPT !.prose = "rewritten"], [y EXCEPT !.closed = TRUE],
                    [y EXCEPT !.title = "renamed"], [y EXCEPT !.parent = NoId]}
    BY <1>4, <2>1
  <2>2. CASE x = [y EXCEPT !.marker = NoId]
    BY <1>4, <2>2
  <2>3. CASE \E k \in DOMAIN github : x = [y EXCEPT !.blockedBy = @ \cup {k}]
    <3>1. PICK k \in DOMAIN github : x = [y EXCEPT !.blockedBy = @ \cup {k}]
      BY <2>3
    <3> QED BY <1>4, <3>1
  <2> QED BY <1>5, <2>1, <2>2, <2>3
<1>7. DOMAIN github' = DOMAIN github
  BY <1>3
<1>8. \A k \in DOMAIN github : github'[k].type = github[k].type
                               /\ github'[k].marker \in {github[k].marker, k, NoId}
  <2> SUFFICES ASSUME NEW k \in DOMAIN github
               PROVE  github'[k].type = github[k].type
                      /\ github'[k].marker \in {github[k].marker, k, NoId}
    OBVIOUS
  <2>1. CASE k = n
    <3>1. github'[k] = x
      BY <1>3, <2>1
    <3> QED BY <1>6, <2>1, <3>1 DEF y
  <2>2. CASE k # n
    <3>1. github'[k] = github[k]
      BY <1>3, <2>2
    <3> QED BY <3>1
  <2> QED BY <2>1, <2>2
<1> QED BY <1>1, <1>7, <1>8, IssuesStaySound

(* Every manifest there is, saved, loaded or about to be saved, is sound.   *)
Held(p) ==
    /\ run[p].todo \subseteq Number
    /\ run[p].pc # "idle" => SoundManifest(run[p].manifest)
    /\ run[p].pc \in {"marking", "saving"} => SoundManifest(run[p].result)
SoundInv ==
    /\ IInv /\ job \in Case /\ events \in 0..job.events
    /\ SoundManifest(manifest) /\ SoundIssues(github)
    /\ \A p \in Process : Held(p)

(* A process that goes on with what it holds, and the others.               *)
LEMMA HeldStays ==
    ASSUME SoundInv, NEW p \in Process, run'[p].todo \subseteq run[p].todo,
           run'[p].manifest = run[p].manifest, run'[p].pc # "idle" => run[p].pc # "idle",
           run'[p].pc \in {"marking", "saving"} =>
               run[p].pc \in {"marking", "saving"} /\ run'[p].result = run[p].result
    PROVE  Held(p)'
<1>1. Held(p)
  BY DEF SoundInv
<1>2. run'[p].todo \subseteq Number
  BY <1>1 DEF Held
<1>3. run'[p].pc # "idle" => SoundManifest(run'[p].manifest)
  BY <1>1 DEF Held
<1>4. run'[p].pc \in {"marking", "saving"} => SoundManifest(run'[p].result)
  BY <1>1 DEF Held
<1>5. \A x : SoundManifest(x)' <=> SoundManifest(x)
  BY DEF SoundManifest
<1> QED BY <1>2, <1>3, <1>4, <1>5 DEF Held, SoundManifest

(* What one process does, the others do not notice.                         *)
LEMMA HeldByAll ==
    ASSUME SoundInv, NEW p \in Process, Apart(p), Held(p)'
    PROVE  \A q \in Process : Held(q)'
<1> SUFFICES ASSUME NEW q \in Process, q # p PROVE Held(q)'
  OBVIOUS
<1>1. run'[q] = run[q]
  BY DEF Apart
<1> QED BY <1>1, HeldStays

(* Only edits and failures are counted.                                     *)
LEMMA EventsBounded ==
    ASSUME SoundInv, [Next]_vars
    PROVE  events' \in 0..job'.events /\ job' \in Case
<1>1. job' = job /\ job.events \in Nat /\ job' \in Case
  BY SameIssues, CasesAreStates DEF SoundInv
<1>2. Fault => events' \in 0..job.events
  BY <1>1 DEF SoundInv, Fault
<1>3. ASSUME NEW p \in Process, Load(p) \/ Save(p) \/ SaveFails(p) \/ Crash(p)
      PROVE  events' = events \/ Fault
  BY <1>3 DEF Load, Save, SaveFails, Crash
<1>4. ASSUME NEW a \in Adopter,
             \/ MakePlan(a) \/ EditMode(a) \/ Reload(a) \/ Refuse(a) \/ Start(a)
             \/ Mark(a) \/ MarkFails(a) \/ Marked(a)
      PROVE  events' = events \/ Fault
  BY <1>4 DEF MakePlan, EditMode, Reload, Refuse, Start, Mark, MarkFails, Marked
<1>5. ASSUME NEW q \in Recoverer, Recover(q) PROVE events' = events
  BY <1>5 DEF Recover
<1>6. EditIssue \/ EditManifest => Fault
  BY DEF EditIssue, EditManifest
<1>7. UNCHANGED vars => events' = events
  BY DEF vars
<1>8. events' = events \/ Fault
  BY <1>3, <1>4, <1>5, <1>6, <1>7 DEF Next
<1> QED BY <1>1, <1>2, <1>8 DEF SoundInv

(* The manifest an adoption starts with is one its rebuild accepted.        *)
LEMMA StartIsSound ==
    ASSUME SoundInv, NEW a \in Adopter, Start(a)
    PROVE  Held(a)'
<1> DEFINE m == run[a].manifest
           r == Rebuilt(a)
           items == ImportItems(m, github, r)
           plan == run[a].plan
<1>1. /\ a \in Process /\ IInv /\ SoundIssues(github) /\ Held(a)
  BY DEF SoundInv, Process
<1>2. /\ run[a].pc = "reloaded" /\ run'[a].pc = "marking"
      /\ run'[a].manifest = m /\ run'[a].todo = DOMAIN plan.bodies
      /\ run'[a].result = Merged(m, plan.items)
  BY <1>1, Starting
<1>3. Selectable(m, github, r) /\ ImportPlanOf(m, github, r) = plan
  BY DEF Start, Matches, ImportPlannable
<1>4. SoundManifest(m)
  BY <1>1, <1>2 DEF Held
<1>5. /\ ImportPlanOf(m, github, r).items = items
      /\ DOMAIN ImportPlanOf(m, github, r).bodies = Chosen(m, github, r)
  BY DEF ImportPlanOf
<1> HIDE DEF m, r, items, plan
<1>6. plan.items = items /\ DOMAIN plan.bodies = Chosen(m, github, r)
  BY <1>3, <1>5
<1>7. SoundManifest(Merged(m, items))
  BY <1>1, <1>3, <1>4, AdoptionIsSound DEF items
<1>8. Chosen(m, github, r) \subseteq Number
  <2>1. Chosen(m, github, r) \subseteq DOMAIN github
    BY <1>1, <1>3, ChosenAreFresh
  <2> QED BY <1>1, <2>1 DEF SoundIssues, Issues
<1>9. /\ run'[a].todo \subseteq Number /\ SoundManifest(run'[a].manifest)
      /\ SoundManifest(run'[a].result)
  BY <1>2, <1>4, <1>6, <1>7, <1>8
<1> QED BY <1>9 DEF Held, SoundManifest

(* A process that has loaded the manifest holds what is there.              *)
LEMMA LoadIsSound ==
    ASSUME SoundInv, NEW p \in Process, Load(p) \/ Reload(p)
    PROVE  Held(p)'
<1>1. /\ run'[p].todo = run[p].todo /\ run'[p].manifest = manifest
      /\ run'[p].pc \in {"loaded", "reloaded"}
  BY Loading, Reloading DEF SoundInv
<1>2. run[p].todo \subseteq Number /\ SoundManifest(manifest)
  BY DEF SoundInv, Held
<1> QED BY <1>1, <1>2 DEF Held, SoundManifest

(* What a recovery is going to save is sound.                               *)
LEMMA RecoverIsSound ==
    ASSUME SoundInv, NEW q \in Process, Recover(q)
    PROVE  Held(q)'
<1>1. /\ run[q].pc = "loaded" /\ run'[q].manifest = run[q].manifest
      /\ run'[q].todo = run[q].todo
      /\ \/ run'[q].pc \in {"completed", "refused"}
         \/ /\ run'[q].pc = "saving"
            /\ \E infer \in BOOLEAN :
                 run'[q].result = Reconciled(run[q].manifest, github, infer)
  BY Recovering DEF SoundInv
<1>2. CASE run'[q].pc \in {"completed", "refused"}
  BY <1>1, <1>2, HeldStays
<1>3. CASE run'[q].pc = "saving"
  <2>1. PICK infer \in BOOLEAN : run'[q].result = Reconciled(run[q].manifest, github, infer)
    BY <1>1, <1>3
  <2>2. Recoverable(run[q].manifest, github)
    <3>1. /\ ~(Becomes(q, "completed")) /\ ~(Becomes(q, "refused"))
      BY <1>3, Moving DEF SoundInv
    <3> QED BY <3>1 DEF Recover
  <2>3. SoundManifest(run[q].manifest) /\ run[q].todo \subseteq Number
    BY <1>1 DEF SoundInv, Held
  <2>4. SoundManifest(run'[q].result)
    BY <2>1, <2>2, <2>3, RecoveryIsSound DEF SoundInv
  <2> QED BY <1>1, <1>3, <2>3, <2>4 DEF Held, SoundManifest
<1> QED BY <1>1, <1>2, <1>3

(* Every step keeps all that, ...                                           *)
LEMMA NextIsSound ==
    ASSUME SoundInv, [Next]_vars
    PROVE  SoundInv'
<1>0. IInv /\ SoundManifest(manifest) /\ SoundIssues(github)
  BY DEF SoundInv
<1>1. IInv' /\ events' \in 0..job'.events /\ job' \in Case
  BY <1>0, NextKeeps, EventsBounded
<1> SUFFICES /\ SoundManifest(manifest') /\ SoundIssues(github')
             /\ \A p \in Process : Held(p)'
  BY <1>1 DEF SoundInv, SoundManifest, SoundIssues, Issues
<1>2. ASSUME NEW p \in Process, Load(p)
      PROVE  SoundManifest(manifest') /\ SoundIssues(github') /\ \A q \in Process : Held(q)'
  <2>1. Apart(p) /\ manifest' = manifest /\ github' = github
    BY <1>0, <1>2, Loading DEF Load
  <2>2. Held(p)'
    BY <1>2, LoadIsSound
  <2> QED BY <1>0, <2>1, <2>2, HeldByAll
<1>3. ASSUME NEW p \in Process, Save(p) \/ SaveFails(p) \/ Crash(p)
      PROVE  SoundManifest(manifest') /\ SoundIssues(github') /\ \A q \in Process : Held(q)'
  <2>1. /\ Apart(p) /\ run'[p].todo = run[p].todo /\ run'[p].manifest = run[p].manifest
        /\ run'[p].pc \in Ended /\ run[p].pc # "idle" /\ github' = github
    BY <1>0, <1>3, Moving DEF Save, SaveFails, Crash, Ended
  <2>2. Held(p)'
    BY <2>1, HeldStays DEF Ended
  <2>3. SoundManifest(manifest')
    <3>1. CASE Save(p)
      BY <3>1 DEF Save, SoundInv, Held
    <3>2. CASE SaveFails(p) \/ Crash(p)
      BY <1>0, <3>2 DEF SaveFails, Crash
    <3> QED BY <1>3, <3>1, <3>2
  <2> QED BY <1>0, <2>1, <2>2, <2>3, HeldByAll
<1>4. ASSUME NEW a \in Adopter, MakePlan(a) \/ EditMode(a) \/ Reload(a) \/ Refuse(a) \/ Start(a)
      PROVE  SoundManifest(manifest') /\ SoundIssues(github') /\ \A q \in Process : Held(q)'
  <2>0. a \in Process
    BY DEF Process
  <2>1. manifest' = manifest /\ github' = github
    BY <1>4 DEF MakePlan, EditMode, Reload, Refuse, Start
  <2>2. Apart(a) /\ Held(a)'
    <3>1. CASE MakePlan(a) \/ EditMode(a)
      <4>1. /\ Apart(a) /\ run'[a].todo = run[a].todo /\ run'[a].manifest = run[a].manifest
            /\ run'[a].pc \in {"planned", "refused"} /\ run[a].pc # "idle"
        BY <1>0, <2>0, <3>1, Planning, Editing
      <4> QED BY <2>0, <4>1, HeldStays
    <3>2. CASE Refuse(a)
      <4>1. /\ Apart(a) /\ run'[a].todo = run[a].todo /\ run'[a].manifest = run[a].manifest
            /\ run'[a].pc = "refused" /\ run[a].pc # "idle"
        BY <1>0, <2>0, <3>2, Moving DEF Refuse
      <4> QED BY <2>0, <4>1, HeldStays
    <3>3. CASE Reload(a)
      BY <1>0, <2>0, <3>3, Reloading, LoadIsSound
    <3>4. CASE Start(a)
      BY <1>0, <2>0, <3>4, Starting, StartIsSound
    <3> QED BY <1>4, <3>1, <3>2, <3>3, <3>4
  <2> QED BY <1>0, <2>0, <2>1, <2>2, HeldByAll
<1>5. ASSUME NEW a \in Adopter, Mark(a) \/ MarkFails(a) \/ Marked(a)
      PROVE  SoundManifest(manifest') /\ SoundIssues(github') /\ \A q \in Process : Held(q)'
  <2>0. a \in Process
    BY DEF Process
  <2>1. manifest' = manifest /\ (github' = github \/ github' = Patched(a))
    BY <1>5 DEF Mark, MarkFails, Marked
  <2>2. SoundIssues(github')
    BY <1>0, <2>1, PatchIsSound
  <2>3. Apart(a) /\ Held(a)'
    <3>1. CASE Mark(a)
      <4>1. /\ Apart(a) /\ run'[a].todo \subseteq run[a].todo
            /\ run'[a].manifest = run[a].manifest /\ run'[a].result = run[a].result
            /\ run'[a].pc = "marking" /\ run[a].pc = "marking"
        BY <1>0, <2>0, <3>1, Marking
      <4> QED BY <2>0, <4>1, HeldStays
    <3>2. CASE MarkFails(a) \/ Marked(a)
      <4>1. /\ Apart(a) /\ run'[a].todo = run[a].todo
            /\ run'[a].manifest = run[a].manifest /\ run'[a].result = run[a].result
            /\ run'[a].pc \in {"failed", "saving"} /\ run[a].pc = "marking"
        BY <1>0, <2>0, <3>2, Moving DEF MarkFails, Marked
      <4> QED BY <2>0, <4>1, HeldStays
    <3> QED BY <1>5, <3>1, <3>2
  <2> QED BY <1>0, <2>0, <2>1, <2>2, <2>3, HeldByAll
<1>6. ASSUME NEW q \in Recoverer, Recover(q)
      PROVE  SoundManifest(manifest') /\ SoundIssues(github') /\ \A p \in Process : Held(p)'
  <2>0. q \in Process
    BY DEF Process
  <2>1. Apart(q) /\ manifest' = manifest /\ github' = github
    BY <1>0, <1>6, <2>0, Recovering DEF Recover
  <2>2. Held(q)'
    BY <1>6, <2>0, RecoverIsSound
  <2> QED BY <1>0, <2>0, <2>1, <2>2, HeldByAll
<1>7. ASSUME EditIssue \/ EditManifest \/ UNCHANGED vars
      PROVE  SoundManifest(manifest') /\ SoundIssues(github') /\ \A p \in Process : Held(p)'
  <2>1. run' = run
    BY <1>7 DEF EditIssue, EditManifest, vars
  <2>2. \A p \in Process : Held(p)'
    BY <2>1, HeldStays
  <2>3. SoundIssues(github')
    <3>1. CASE EditIssue
      BY <1>0, <3>1, EditIsSound
    <3>2. CASE EditManifest \/ UNCHANGED vars
      <4>1. github' = github
        BY <3>2 DEF EditManifest, vars
      <4> QED BY <1>0, <4>1
    <3> QED BY <1>7, <3>1, <3>2
  <2>4. SoundManifest(manifest')
    <3>1. CASE EditManifest
      <4>1. PICK id \in DOMAIN manifest :
              /\ \A i \in DOMAIN manifest \ {id} :
                    manifest[i].parent # id /\ id \notin manifest[i].deps
              /\ manifest' = [i \in DOMAIN manifest \ {id} |-> manifest[i]]
        BY <3>1 DEF EditManifest
      <4> QED BY <1>0, <4>1, ItemRemoved
    <3>2. CASE EditIssue \/ UNCHANGED vars
      <4>1. manifest' = manifest
        BY <3>2 DEF EditIssue, vars
      <4> QED BY <1>0, <4>1
    <3> QED BY <1>7, <3>1, <3>2
  <2> QED BY <2>2, <2>3, <2>4
<1> QED BY <1>2, <1>3, <1>4, <1>5, <1>6, <1>7 DEF Next

(* ... it holds at the start, ...                                           *)
LEMMA InitIsSound ==
    ASSUME Init PROVE SoundInv
<1>1. IInv /\ job \in Case /\ manifest = job.manifest /\ github = job.github /\ events = 0
  BY InitIInv DEF Init
<1>2. SoundManifest(manifest)
  BY <1>1, CasesAreStates, CasesAreTyped DEF SoundManifest
<1>3. SoundIssues(github)
  BY <1>1, CasesAreStates, CasesAreTyped, NoLimitIsAboveAll DEF SoundIssues
<1>4. events \in 0..job.events
  <2>1. job.events \in Nat
    BY <1>1, CasesAreStates
  <2> QED BY <1>1, <2>1
<1>5. ASSUME NEW p \in Process PROVE Held(p)
  <2>1. run[p] = IdleImport
    BY DEF Init
  <2>2. run[p].pc = "idle" /\ run[p].todo = {}
    BY <2>1 DEF IdleImport
  <2> QED BY <2>2 DEF Held
<1> QED BY <1>1, <1>2, <1>3, <1>4, <1>5 DEF SoundInv

(* ... and it is more than the types.                                       *)
LEMMA SoundIsTyped ==
    ASSUME SoundInv PROVE TypeOK
<1>1. \A i \in DOMAIN manifest :
         /\ manifest[i].type \in DOMAIN Level
         /\ manifest[i].parent \in Id \cup {NoId} /\ manifest[i].deps \subseteq Id
  <2>1. DOMAIN manifest \subseteq Id /\ Valid(manifest)
    BY DEF SoundInv, SoundManifest
  <2>2. \A i \in DOMAIN manifest :
          /\ manifest[i].parent # NoId => manifest[i].parent \in DOMAIN manifest
          /\ manifest[i].deps \subseteq DOMAIN manifest
    BY <2>1 DEF Valid
  <2> QED BY <2>1, <2>2 DEF SoundInv, SoundManifest
<1>2. ASSUME NEW p \in Process
      PROVE  /\ run[p].pc \in {"idle", "loaded", "planned", "reloaded", "marking", "saving"}
                              \cup Ended
             /\ run[p].todo \subseteq Number
  BY DEF SoundInv, IInv, Own, Held
<1> QED BY <1>1, <1>2 DEF TypeOK, SoundInv, SoundManifest, SoundIssues, IInv

(* Whatever GitHub links to what, and whoever edits it, adoption and        *)
(* recovery propose a manifest that is valid and leave out no link it could *)
(* hold: every manifest on the way is acyclic, each dependency is judged    *)
(* against all that is accepted before it, and what is refused then would   *)
(* still close a cycle at the end (_infer_relationships, importing.py       *)
(* 224-315).                                                                *)
THEOREM InferenceIsRight == Spec => []Inv
<1>1. SoundInv => Inv
  <2>1. SoundInv => SoundManifest(manifest) /\ SoundIssues(github)
    BY DEF SoundInv
  <2> QED BY <2>1, SoundIsTyped, SoundIsExpressible, SoundWithholdsNothing DEF Inv
<1>2. SoundInv /\ [Next]_vars => SoundInv'
  BY NextIsSound
<1>3. Init => SoundInv
  BY InitIsSound
<1> QED BY <1>1, <1>2, <1>3, PTL DEF Spec
=============================================================================
