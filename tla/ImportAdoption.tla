---------------------------- MODULE ImportAdoption ----------------------------
(***************************************************************************)
(* import-plan, import-apply and import-reconcile.  Adoption marks issues  *)
(* on GitHub one by one and only then records their items in the manifest, *)
(* so whatever interrupts it strands marked issues; recovery records what  *)
(* it finds marked and unrecorded.  Adopters and recoverers run at the     *)
(* same time, while people edit issues, the manifest and plan files.       *)
(*                                                                         *)
(* The save is one step: ManifestStore has its own.                        *)
(***************************************************************************)
EXTENDS ImportPlanner

CONSTANTS
    Adopter, Recoverer,     \* processes
    NoLimit,                \* more than there are issues
    Case                    \* the starting states, each with the processes
                            \* that run, the options plans are made with and
                            \* the bound on edits and failures

ASSUME ProcessesDiffer == Adopter \cap Recoverer = {}

(* Numbered issues, each with what the kit reads of it. *)
Issues(g) ==
    /\ DOMAIN g \subseteq Number /\ g = [n \in DOMAIN g |-> g[n]]
    /\ \A n \in DOMAIN g :
          g[n] = [marker |-> g[n].marker, title |-> g[n].title, type |-> g[n].type,
                  prose |-> g[n].prose, closed |-> g[n].closed,
                  parent |-> g[n].parent, blockedBy |-> g[n].blockedBy]

ASSUME CasesAreStates ==
    \A c \in Case :
        /\ {"manifest", "github", "processes", "opts", "events"} \subseteq DOMAIN c
        /\ Valid(c.manifest) /\ Issues(c.github) /\ c.events \in Nat
        /\ \A o \in c.opts :
              o.limit \in Nat \ {0} /\ o.duplicates \in BOOLEAN /\ o.infer \in BOOLEAN

(* Finitely many items and issues, identified and of the hierarchy's types. *)
ASSUME CasesAreTyped ==
    \A c \in Case :
        /\ IsFiniteSet(DOMAIN c.manifest) /\ DOMAIN c.manifest \subseteq Id
        /\ \A id \in DOMAIN c.manifest : c.manifest[id].type \in DOMAIN Level
        /\ \A n \in DOMAIN c.github :
              c.github[n].type \in DOMAIN Level /\ c.github[n].marker \in Id \cup {NoId}

ASSUME NoLimitIsAboveAll ==
    /\ NoLimit \in Nat
    /\ \A c \in Case : IsFiniteSet(DOMAIN c.github) /\ Cardinality(DOMAIN c.github) < NoLimit

VARIABLES
    job,        \* the case
    manifest,   \* the manifest file
    github,     \* the repository's issues
    run,        \* the processes
    clean,      \* history: nobody else changed anything since a process loaded
    touched,    \* history: the issues somebody else changed since an adopter
                \* read them to rebuild its plan
    events      \* edits and failures so far

vars == <<job, manifest, github, run, clean, touched, events>>

Process == Adopter \cup Recoverer
Ended == {"refused", "failed", "crashed", "completed"}

(* A process: what it loaded, the options and the plan it has, the issues  *)
(* left to mark, and the manifest it is going to save.                     *)
IdleImport == [pc |-> "idle", manifest |-> <<>>, opts |-> <<>>, plan |-> <<>>,
               todo |-> {}, result |-> <<>>]

Init ==
    /\ job \in Case
    /\ manifest = job.manifest /\ github = job.github
    /\ run = [p \in Process |-> IdleImport]
    /\ clean = [p \in Process |-> TRUE]
    /\ touched = [a \in Adopter |-> {}]
    /\ events = 0

Becomes(p, pc) == run' = [run EXCEPT ![p].pc = pc]
Alone(p) == [q \in Process |-> clean[q] /\ q = p]
Touched(n, others) ==
    [a \in Adopter |-> IF a \in others /\ run[a].pc = "marking" THEN touched[a] \cup {n}
                                                              ELSE touched[a]]
Fault == events < job.events /\ events' = events + 1

-----------------------------------------------------------------------------
(* Every command loads the manifest first. *)
Load(p) ==
    /\ run[p].pc = "idle" /\ p \in job.processes
    /\ run' = [run EXCEPT ![p].pc = "loaded", ![p].manifest = manifest]
    /\ clean' = [clean EXCEPT ![p] = TRUE]
    /\ UNCHANGED <<job, manifest, github, touched, events>>

(* So does import-apply, which may be given one plan file again and again. *)
Reload(a) ==
    /\ run[a].pc \in {"planned"} \cup Ended /\ run[a].plan # <<>>
    /\ run' = [run EXCEPT ![a].pc = "reloaded", ![a].manifest = manifest, ![a].result = <<>>]
    /\ clean' = [clean EXCEPT ![a] = TRUE]
    /\ UNCHANGED <<job, manifest, github, touched, events>>

(* import-plan, with --include or for all there is. *)
Selection == {Unmanaged(github)} \cup ((SUBSET Unmanaged(github)) \ {{}})
Selecting(include, o) ==
    [include |-> include, limit |-> o.limit, duplicates |-> o.duplicates, infer |-> o.infer]
Options == {Selecting(include, o) : include \in Selection, o \in job.opts}

MakePlan(a) ==
    /\ run[a].pc = "loaded"
    /\ \E o \in Options :
          IF ImportPlannable(run[a].manifest, github, o)
          THEN run' = [run EXCEPT ![a].pc = "planned", ![a].opts = o,
                                  ![a].plan = ImportPlanOf(run[a].manifest, github, o)]
          ELSE Becomes(a, "refused")
    /\ UNCHANGED <<job, manifest, github, clean, touched, events>>

(* Somebody changes the mode a plan file records; its digest still holds. *)
EditMode(a) ==
    /\ run[a].pc = "planned" /\ Fault
    /\ run' = [run EXCEPT ![a].opts.infer = ~@]
    /\ UNCHANGED <<job, manifest, github, clean, touched>>

(* Faulty: the mode of the plan is forgotten. *)
RebuiltFlat(a) ==
    [include |-> DOMAIN run[a].plan.bodies, limit |-> NoLimit, duplicates |-> FALSE,
     infer |-> FALSE]

(* The options import-apply rebuilds a plan with. *)
Rebuilt(a) ==
    [include |-> DOMAIN run[a].plan.bodies, limit |-> NoLimit, duplicates |-> FALSE,
     infer |-> run[a].opts.infer]

Matches(a) ==
    /\ ImportPlannable(run[a].manifest, github, Rebuilt(a))
    /\ ImportPlanOf(run[a].manifest, github, Rebuilt(a)) = run[a].plan

Refuse(a) ==
    /\ run[a].pc = "reloaded" /\ ~Matches(a)
    /\ Becomes(a, "refused")
    /\ UNCHANGED <<job, manifest, github, clean, touched, events>>

Begin(a) ==
    /\ run' = [run EXCEPT ![a].pc = "marking", ![a].todo = DOMAIN run[a].plan.bodies,
                          ![a].result = Merged(run[a].manifest, run[a].plan.items)]
    /\ touched' = [touched EXCEPT ![a] = {}]

(* Faulty: the digest is enough. *)
StartUnrebuilt(a) ==
    /\ run[a].pc = "reloaded" /\ Begin(a)
    /\ UNCHANGED <<job, manifest, github, clean, events>>

Start(a) ==
    /\ run[a].pc = "reloaded" /\ Matches(a) /\ Begin(a)
    /\ UNCHANGED <<job, manifest, github, clean, events>>

(* ImportExecutor: one PATCH of the body, in the order of the numbers. *)
NextIssue(a) == CHOOSE n \in run[a].todo : \A k \in run[a].todo : n <= k
Patched(a) ==
    LET n == NextIssue(a)
    IN  [github EXCEPT ![n].marker = n, ![n].prose = run[a].plan.bodies[n]]

Mark(a) ==
    /\ run[a].pc = "marking" /\ run[a].todo # {}
    /\ github' = Patched(a)
    /\ run' = [run EXCEPT ![a].todo = @ \ {NextIssue(a)}]
    /\ clean' = Alone(a)
    /\ touched' = Touched(NextIssue(a), Adopter \ {a})
    /\ UNCHANGED <<job, manifest, events>>

(* Faulty: a failed action is stepped over. *)
MarkSkipped(a) ==
    /\ run[a].pc = "marking" /\ run[a].todo # {} /\ Fault
    /\ run' = [run EXCEPT ![a].todo = @ \ {NextIssue(a)}]
    /\ UNCHANGED <<job, manifest, github, clean, touched>>

(* The PATCH is refused, or its answer is lost. *)
MarkFails(a) ==
    /\ run[a].pc = "marking" /\ run[a].todo # {} /\ Fault
    /\ \/ UNCHANGED <<github, clean, touched>>
       \/ /\ github' = Patched(a) /\ clean' = Alone(a)
          /\ touched' = Touched(NextIssue(a), Adopter \ {a})
    /\ Becomes(a, "failed")
    /\ UNCHANGED <<job, manifest>>

Marked(a) ==
    /\ run[a].pc = "marking" /\ run[a].todo = {}
    /\ Becomes(a, "saving")
    /\ UNCHANGED <<job, manifest, github, clean, touched, events>>

(* import-reconcile, with and without --infer-relationships. *)
Recover(q) ==
    /\ run[q].pc = "loaded"
    /\ \/ /\ Orphans(run[q].manifest, github) = {} /\ Becomes(q, "completed")
       \/ /\ ~Recoverable(run[q].manifest, github) /\ Becomes(q, "refused")
       \/ /\ Orphans(run[q].manifest, github) # {} /\ Recoverable(run[q].manifest, github)
          /\ \E infer \in BOOLEAN :
                run' = [run EXCEPT ![q].pc = "saving",
                                   ![q].result = Reconciled(run[q].manifest, github, infer)]
    /\ UNCHANGED <<job, manifest, github, clean, touched, events>>

(* What is saved was merged into the manifest as loaded; the expected hash *)
(* is taken of the file as it is, so an edit since is overwritten.         *)
Save(p) ==
    /\ run[p].pc = "saving"
    /\ manifest' = run[p].result
    /\ Becomes(p, "completed")
    /\ clean' = Alone(p)
    /\ UNCHANGED <<job, github, touched, events>>

(* The manifest's lock is taken, or it changed after it was hashed. *)
SaveFails(p) ==
    /\ run[p].pc = "saving" /\ Fault
    /\ Becomes(p, "failed")
    /\ UNCHANGED <<job, manifest, github, clean, touched>>

Crash(p) ==
    /\ run[p].pc \notin Ended \cup {"idle", "planned"} /\ Fault
    /\ Becomes(p, "crashed")
    /\ UNCHANGED <<job, manifest, github, clean, touched>>

(* A person rewrites an issue, drops its marker, closes or renames it, or  *)
(* links it to another.                                                    *)
PersonEdits(x) ==
    {[x EXCEPT !.prose = "rewritten"], [x EXCEPT !.marker = NoId],
     [x EXCEPT !.closed = TRUE], [x EXCEPT !.title = "renamed"], [x EXCEPT !.parent = NoId]}
    \cup {[x EXCEPT !.blockedBy = @ \cup {n}] : n \in DOMAIN github}

EditIssue ==
    /\ Fault
    /\ \E n \in DOMAIN github : \E x \in PersonEdits(github[n]) \ {github[n]} :
          /\ github' = [github EXCEPT ![n] = x]
          /\ touched' = Touched(n, Adopter)
    /\ clean' = [p \in Process |-> FALSE]
    /\ UNCHANGED <<job, manifest, run>>

(* The owner removes an item nothing refers to. *)
EditManifest ==
    /\ Fault
    /\ \E id \in DOMAIN manifest :
          LET rest == DOMAIN manifest \ {id}
          IN  /\ \A i \in rest : manifest[i].parent # id /\ id \notin manifest[i].deps
              /\ manifest' = [i \in rest |-> manifest[i]]
    /\ clean' = [p \in Process |-> FALSE]
    /\ UNCHANGED <<job, github, run, touched>>

Next ==
    \/ \E p \in Process : Load(p) \/ Save(p) \/ SaveFails(p) \/ Crash(p)
    \/ \E a \in Adopter : \/ MakePlan(a) \/ EditMode(a) \/ Reload(a) \/ Refuse(a) \/ Start(a)
                          \/ Mark(a) \/ MarkFails(a) \/ Marked(a)
    \/ \E q \in Recoverer : Recover(q)
    \/ EditIssue \/ EditManifest

Spec == Init /\ [][Next]_vars

-----------------------------------------------------------------------------
TypeOK ==
    /\ DOMAIN manifest \subseteq Id
    /\ \A id \in DOMAIN manifest :
          /\ manifest[id].type \in DOMAIN Level
          /\ manifest[id].parent \in Id \cup {NoId} /\ manifest[id].deps \subseteq Id
    /\ Issues(github) /\ \A n \in DOMAIN github : github[n].marker \in Id \cup {NoId}
    /\ \A p \in Process :
          /\ run[p].pc \in {"idle", "loaded", "planned", "reloaded", "marking", "saving"} \cup Ended
          /\ run[p].todo \subseteq Number
    /\ events \in 0..job.events

AllUnmanaged(o) == Selecting(Unmanaged(github), o)

(* Whatever relationships GitHub holds, between whatever is managed, being *)
(* adopted, stranded or foreign, the items proposed for them make a valid  *)
(* manifest: inference alone never makes adoption or recovery impossible   *)
(* (importing.py 244-247).                                                 *)
AlwaysExpressible ==
    /\ \A o \in job.opts :
          LET all == AllUnmanaged(o)
          IN  Selectable(manifest, github, all) => ImportPlannable(manifest, github, all)
    /\ Recoverable(manifest, github) =>
          \A infer \in BOOLEAN : Valid(Reconciled(manifest, github, infer))

(* And no more is withheld than must be: a parent one level up and a       *)
(* dependency between items that exist, or will, are proposed unless the   *)
(* dependency would close a cycle with what is proposed.                   *)
ItemOf(n, taken) ==
    IF github[n].marker \in DOMAIN manifest THEN github[n].marker
    ELSE IF n \in taken THEN n ELSE NoId
WithholdsOnlyTheInexpressible ==
    \A o \in {x \in job.opts : x.infer} :
        LET all == AllUnmanaged(o)
            taken == Chosen(manifest, github, all)
            merged == Merged(manifest, ImportItems(manifest, github, all))
            edges == [i \in DOMAIN merged |-> merged[i].deps]
        IN  Selectable(manifest, github, all) =>
              \A n \in taken :
                /\ \A k \in github[n].blockedBy \cap DOMAIN github :
                      ItemOf(k, taken) \notin merged[n].deps \cup {n, NoId}
                          => Reaches(edges, ItemOf(k, taken), n)
                /\ LET up == github[n].parent
                   IN  up \in DOMAIN github /\ ItemOf(up, taken) # NoId
                         => \/ merged[n].parent = ItemOf(up, taken)
                            \/ Level[github[n].type] # Level[merged[ItemOf(up, taken)].type] + 1

(* The state is well formed, and inference keeps all a manifest can        *)
(* express and nothing it cannot.                                          *)
Inv == TypeOK /\ AlwaysExpressible /\ WithholdsOnlyTheInexpressible

AddsMarkerOnly(n) == n \in Unmanaged(github) /\ github' = [github EXCEPT ![n].marker = n]

(* Adoption adds a marker and nothing else, and never to an issue that has *)
(* one, whichever plan files are applied again and however many adopt at    *)
(* once: the body its PATCH replaces whole is the one the plan recorded,    *)
(* unless somebody else has changed that very issue since the process read  *)
(* it to rebuild its plan (importing.py 544-550, github.py 580; importing.md*)
(* 36: "nothing already in the body is removed").                          *)
MarksKeepWords ==
    [][\A a \in Adopter :
         run[a].pc = "marking" /\ run[a].todo # {} /\ github' # github /\ run'[a] # run[a]
         => NextIssue(a) \in touched[a] \/ AddsMarkerOnly(NextIssue(a))]_vars

(* A plan is accepted if neither side has changed since it was made,       *)
(* whatever was selected and however it was limited: the rebuild names the *)
(* selection only by the issues that came out of it (importing.py 544-550).*)
Unchanged(a) ==
    /\ run[a].manifest = run[a].plan.manifest
    /\ Listing(github, run[a].opts.infer) = run[a].plan.listing
AcceptedIfUnchanged ==
    \A a \in Adopter :
        run[a].pc = "reloaded" /\ Unchanged(a) /\ ~run[a].opts.duplicates => Matches(a)

(* The same of every plan: an issue with the title of a managed item can   *)
(* be adopted "anyway with --allow-duplicate-titles" (importing.md 127-128).*)
DuplicatesCanBeAdopted ==
    \A a \in Adopter : run[a].pc = "reloaded" /\ Unchanged(a) => Matches(a)

(* The manifest only ever records what GitHub already marks: a process     *)
(* nobody disturbs adds no item whose issue does not carry its id, so sync *)
(* never creates a second issue for it (importing.py 568-590, cli.py 1076). *)
RecordsOnlyMarked ==
    [][\A p \in Process :
         run[p].pc = "saving" /\ clean[p] /\ run'[p].pc = "completed"
         => \A id \in DOMAIN manifest' \ DOMAIN manifest :
               \E n \in DOMAIN github : github[n].marker = id]_vars

(* Recovery in the mode of the plan completes an adoption interrupted      *)
(* after its marks exactly as it would have completed itself, links among  *)
(* the adopted included (importing.py 632-657).                            *)
RecoveryCompletes ==
    \A a \in Adopter :
        LET p == run[a]
        IN  p.pc \in {"failed", "crashed"} /\ p.result # <<>> /\ clean[a]
            /\ p.plan.items # <<>> /\ Orphans(manifest, github) = DOMAIN p.plan.bodies
            => Reconciled(manifest, github, p.opts.infer) = p.result

(* A recovery nobody disturbs leaves nothing stranded: every marker there  *)
(* is, of whatever origin, is then of an item (importing.md 141-149).      *)
RecoveryLeavesNoOrphan ==
    [][\A q \in Recoverer :
         clean[q] /\ run[q].pc # "completed" /\ run'[q].pc = "completed"
         => \A n \in DOMAIN github : github[n].marker \in DOMAIN manifest' \cup {NoId}]_vars
=============================================================================
