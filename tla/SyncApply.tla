----------------------------- MODULE SyncApply -----------------------------
(***************************************************************************)
(* sync-plan and sync-apply: the reviewed-apply protocol over the planner  *)
(* and executor of build_sync_plan.  The constants of ReviewedApply are    *)
(* given SyncPlanner's operators in the configuration.                     *)
(***************************************************************************)
EXTENDS ReviewedApply, SyncPlanner

CONSTANT Score      \* the numbers Impact and Priority take in this instance

TextPatches == Issue \cup [body : Body, td : Title \cup {NoDigest}, bd : Body \cup {NoDigest}]
FieldSets ==
    {<<>>} \cup [Status : BoardStatus] \cup [Impact : Score] \cup [Priority : Score]
    \cup [Impact : Score, Priority : Score]
    \cup [Impact : Score, Priority : Score, Status : BoardStatus]

SyncAction ==
    [kind : {"issue.create"}, item : Item, arg : [text : Issue]]
    \cup [kind : {"issue.update"}, item : Item, arg : [text : TextPatches]]
    \cup [kind : {"project.add_item", "project.set_fields", "project.transition",
                  "issue.close_parent"},
          item : Item, arg : [fields : FieldSets]]
    \cup [kind : {"issue.set_parent", "issue.remove_parent",
                  "issue.add_dependency", "issue.remove_dependency"},
          item : Item, arg : [to : Item]]

(* validate_manifest: parents and dependencies are items it holds, and no   *)
(* items wait on each other.                                               *)
ValidManifest(m) ==
    /\ DOMAIN m \subseteq Item
    /\ \A i \in DOMAIN m : /\ m[i].deps \subseteq DOMAIN m
                            /\ m[i].parent \in DOMAIN m \cup {NoItem}
    /\ \A S \in SUBSET DOMAIN m : S # {} => \E i \in S : m[i].deps \cap S = {}

(* Only valid manifests are saved, and GitHub starts in a state it may be in. *)
ASSUME ScoreType == 0 \in Score
ASSUME ManifestType ==
    \A m \in Manifest : ValidManifest(m) /\ \A i \in DOMAIN m : m[i].text \in Desired

GitHubIssue ==
    {NoIssue} \cup
    [copies : 1..2, text : Issue, open : BOOLEAN, member : BOOLEAN,
     status : BoardStatus \cup {Unset}, impact : Score, priority : Score,
     parent : Item \cup {NoItem}, deps : SUBSET Item]

ASSUME InitRemoteType == InitRemote \subseteq [Item -> GitHubIssue]

SyncTypeOK ==
    /\ TypeOK
    /\ remote \in [Item -> GitHubIssue]

-----------------------------------------------------------------------------
(* A process that was given no digest changes nothing on GitHub but the    *)
(* Priority field, whatever its plan file says (sync.py 1052-1056).        *)
UnconfirmedTouchesPriorityOnly ==
    [][\A r \in Run : landed'[r] # landed[r] /\ run[r].confirm = None =>
          \A i \in Item : \/ remote'[i] = remote[i]
                          \/ remote'[i] = [remote[i] EXCEPT !.priority = remote'[i].priority]]_vars

(* Left alone since its own read, a process is never refused a mutation by *)
(* the state its earlier mutations left: issues exist before they are      *)
(* added, fields set and linked, and no order of removals and additions    *)
(* asks GitHub to hold a dependency cycle (sync.py 1012-1013).  Only links *)
(* between manifest items are removed (sync.py 959), so an issue outside   *)
(* the manifest that waits on another can still close a cycle.             *)
Enclosed(m) == \A i \in Item \ DOMAIN m : Missing(remote, i) \/ remote[i].deps = {}
CleanRunNeverRejected ==
    \A r \in Run :
        clean[r] /\ Pending(r) /\ Enclosed(run[r].manifest)
        => GitHubAccepts(NextWrite(r), remote)

(* The state is well formed, and mutations are well ordered. *)
Inv == SyncTypeOK /\ CleanRunNeverRejected

(* Retries after refusals, lost answers and crashes never project an item  *)
(* twice: a second issue for one id only ever comes from a process whose   *)
(* snapshot another writer has overtaken (architecture.md, rate limits:    *)
(* "the next plan re-reads state first").                                  *)
DuplicateOnlyWhenOvertaken ==
    [][\A r \in Run : landed'[r] # landed[r] /\ clean[r] =>
          \A i \in Item : remote'[i].copies <= 1]_vars

(* A completed apply nobody disturbed leaves nothing to plan, the parents   *)
(* that are complete only now apart (architecture.md item 9: "a successful *)
(* reconciliation has zero remaining actions"; quickstart.md 242-245).     *)
(* What it left of the text, the Priorities, the Statuses and the links is *)
(* what the planner asks for of the state it left.  Two sources of one     *)
(* Status can contradict each other, and are set apart: a parent the plan  *)
(* closes that it adds to the Project as well, or is asked to transition.  *)
Settles(r) ==
    \A i \in CompletedParents(run[r].manifest, run[r].snapshot) :
        Member(run[r].snapshot, i) /\ i \notin DOMAIN run[r].plan.opts.transitions
Residual(r) ==
    LET o == run[r].plan.opts
    IN  SyncPlanOf(run[r].manifest, remote,
                   [manage |-> o.manage, transitions |-> o.transitions, overwrite |-> {}])
Converges ==
    \A r \in Run :
        /\ run[r].pc = "completed" /\ clean[r] /\ Settles(r)
        /\ CompletedParents(run[r].manifest, remote) = {}
        => Residual(r) = <<>>

=============================================================================
