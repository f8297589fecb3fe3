--------------------------- MODULE ReviewedApply ---------------------------
(***************************************************************************)
(* plan -> review -> refresh -> apply, the protocol every writing command  *)
(* of the kit follows.  A planner reads the manifest and GitHub and leaves *)
(* a plan file; a person confirms its digest; an apply process re-reads    *)
(* both sides, rebuilds the plan, refuses unless it is exactly the one     *)
(* confirmed, and then issues the plan's mutations one by one, journaling  *)
(* the completed prefix after every action, step by step as ReceiptFile    *)
(* says.  People keep editing GitHub, the manifest and the plan file       *)
(* meanwhile; mutations are refused or lose their answer; processes die.   *)
(*                                                                         *)
(* A digest is the record it digests (SHA-256 is taken to be injective).   *)
(* What a plan contains and what a mutation does are parameters.           *)
(***************************************************************************)
EXTENDS ReceiptFile, Sequences

CONSTANTS
    Manifest,           \* valid manifests the owner may save
    Opts,               \* plan options: body mode, transitions, overwrites
    Action,             \* well-formed plan actions
    EditedActions,      \* what a tampered plan file may list
    PriorityUpdate(_),  \* the action sets the Priority field and nothing else
    Plannable(_, _, _), \* build_sync_plan does not raise
    PlanOf(_, _, _),    \* build_sync_plan: manifest, snapshot, options
    Writes(_),          \* the mutations an action issues, in order
    Accepts(_, _),      \* GitHub accepts the mutation in this state
    Effect(_, _),       \* and what it then becomes
    HumanEdit(_),       \* the states one person's edit leads to
    InitRemote,         \* the states GitHub may start in
    MaxEvents           \* bound on edits and faults

ASSUME MaxEventsType == MaxEvents \in Nat
ASSUME WritesType == \A a \in Action : Len(Writes(a)) \in Nat

VARIABLES
    manifest,   \* .agentic-backlog/manifest.json
    remote,     \* GitHub
    snapshot,   \* the saved snapshot a plan is built from
    planFile,   \* .agentic-backlog/cache/sync-plan.json
    confirmed,  \* the digest the person last confirmed
    run,        \* the apply processes
    reported,   \* what each failing process printed about its receipt
    landed,     \* history: <<action, mutation>> indices each process got through
    clean,      \* history: nobody else changed GitHub since the process read it
    events      \* edits and faults so far

filing == <<receipt, temporary, writer, contested>>
vars == <<manifest, remote, snapshot, planFile, confirmed, run, reported,
          landed, clean, events, receipt, temporary, writer, contested>>

(* What sync_plan_from_dict accepts: the actions are well formed.  That     *)
(* they are the planner's is what the rebuild checks.  GitHub's state, here *)
(* and below, is whatever GitHub answers.                                   *)
IsPlan(p) ==
    /\ p = [actions |-> p.actions, manifest |-> p.manifest,
            remote |-> p.remote, opts |-> p.opts]
    /\ p.actions \in Seq(Action)
Phase == {"idle", "loaded", "fetched", "executing", "failing",
          "refused", "failed", "completed", "verified", "crashed"}
Terminal == {"refused", "failed", "completed", "verified", "crashed"}
Journaling == {"executing", "failed", "completed", "verified"}

(* The process: what it loaded, the action it is at (next), and how many   *)
(* of that action's mutations GitHub has answered (done).                  *)
IsProcess(p) ==
    /\ p = [pc |-> p.pc, plan |-> p.plan, confirm |-> p.confirm,
            manifest |-> p.manifest, snapshot |-> p.snapshot,
            next |-> p.next, done |-> p.done]
    /\ p.pc \in Phase
    /\ p.pc # "idle" => IsPlan(p.plan)
    /\ p.manifest \in Manifest \cup {None}
    /\ p.next \in Nat \ {0} /\ p.done \in Nat

(* is_priority_only: read off the actions, an empty plan is not one. *)
IsPriorityOnly(actions) ==
    /\ Len(actions) > 0
    /\ \A k \in 1..Len(actions) : PriorityUpdate(actions[k])

TypeOK ==
    /\ manifest \in Manifest
    /\ DOMAIN run = Run /\ \A r \in Run : IsProcess(run[r])
    /\ FilesTypeOK /\ \A r \in Run : Journaled(r) \/ run[r].pc \in Journaling
    /\ reported \in [Run -> Content \cup {NoFile}]
    /\ landed \in [Run -> SUBSET (Nat \X Nat)]
    /\ clean \in [Run -> BOOLEAN]
    /\ events \in 0..MaxEvents

IdleProcess == [pc |-> "idle", plan |-> None, confirm |-> None, manifest |-> None,
                snapshot |-> None, next |-> 1, done |-> 0]

Init ==
    /\ manifest \in Manifest /\ remote \in InitRemote
    /\ snapshot = None /\ planFile = None /\ confirmed = None
    /\ run = [r \in Run |-> IdleProcess]
    /\ FilesInit
    /\ reported = [r \in Run |-> NoFile]
    /\ landed = [r \in Run |-> {}]
    /\ clean = [r \in Run |-> FALSE]
    /\ events = 0

-----------------------------------------------------------------------------
(* The planner and the reviewer, at work while a process is yet to start:  *)
(* a bound, no later plan is loaded by anyone.                             *)

Waiting == \E r \in Run : run[r].pc = "idle"

(* GitHubSnapshotReader.read, saved to a file. *)
Observe ==
    /\ Waiting
    /\ snapshot' = remote
    /\ UNCHANGED <<manifest, remote, planFile, confirmed, run, filing,
                   reported, landed, clean, events>>

(* sync-plan, from the saved snapshot. *)
BuildPlan(o) ==
    /\ Waiting
    /\ snapshot # None
    /\ Plannable(manifest, snapshot, o)
    /\ planFile' = [actions |-> PlanOf(manifest, snapshot, o),
                    manifest |-> manifest, remote |-> snapshot, opts |-> o]
    /\ UNCHANGED <<manifest, remote, snapshot, confirmed, run, filing,
                   reported, landed, clean, events>>

(* The person confirms the digest of the plan file as it now reads. *)
Review ==
    /\ Waiting
    /\ planFile # None
    /\ confirmed' = planFile
    /\ UNCHANGED <<manifest, remote, snapshot, planFile, run, filing,
                   reported, landed, clean, events>>

-----------------------------------------------------------------------------
(* One apply process, in the order of cli.py 1118-1156 and apply_plan. *)

Goto(r, pc) == run' = [run EXCEPT ![r].pc = pc]

(* The plan file's own digest is recomputed, the manifest is read again;   *)
(* --confirm is the digest the person gave, or absent.                     *)
Load(r) ==
    /\ run[r].pc = "idle"
    /\ planFile # None /\ IsPlan(planFile)
    /\ \E c \in {confirmed, None} :
          run' = [run EXCEPT ![r] = [IdleProcess EXCEPT !.pc = "loaded",
                      !.plan = planFile, !.confirm = c, !.manifest = manifest]]
    /\ UNCHANGED <<manifest, remote, snapshot, planFile, confirmed, filing,
                   reported, landed, clean, events>>

Fetch(r) ==
    /\ run[r].pc = "loaded"
    /\ run' = [run EXCEPT ![r].pc = "fetched", ![r].snapshot = remote]
    /\ clean' = [clean EXCEPT ![r] = TRUE]
    /\ UNCHANGED <<manifest, remote, snapshot, planFile, confirmed, filing,
                   reported, landed, events>>

(* The two ways a plan is authorized, and the rebuild it must survive. *)
ConfirmationHolds(p) ==
    \/ p.confirm = None /\ IsPriorityOnly(p.plan.actions)
    \/ p.confirm # None /\ p.confirm = p.plan

(* Faulty: the rebuilt actions are compared, the fingerprints are not. *)
RebuildMatchesActions(p) ==
    /\ Plannable(p.manifest, p.snapshot, p.plan.opts)
    /\ p.plan.actions = PlanOf(p.manifest, p.snapshot, p.plan.opts)

RebuildMatches(p) ==
    /\ Plannable(p.manifest, p.snapshot, p.plan.opts)
    /\ p.plan = [actions |-> PlanOf(p.manifest, p.snapshot, p.plan.opts),
                 manifest |-> p.manifest, remote |-> p.snapshot, opts |-> p.plan.opts]

Authorized(p) == ConfirmationHolds(p) /\ RebuildMatches(p)

(* journal(current): the process writes its receipt, in the steps of       *)
(* FileReceipt, before it does anything else.                              *)
Journal(r, status, applied) ==
    WriteText(r, [owner |-> r, status |-> status, applied |-> applied])
FileReceipt(r) ==
    /\ OpenTemporary(r) \/ FillTemporary(r) \/ ReplaceReceipt(r)
    /\ UNCHANGED <<manifest, remote, snapshot, planFile, confirmed, run, reported,
                   landed, clean, events>>

(* The temporary file is gone: the process dies of it, whatever it had     *)
(* done since its last receipt.                                            *)
ReceiptLost(r) ==
    /\ NothingToReplace(r)
    /\ Goto(r, "crashed")
    /\ Abandon(r)
    /\ UNCHANGED <<manifest, remote, snapshot, planFile, confirmed, reported,
                   landed, clean, events>>

(* Refused before the first write: a failed read, no authorization, drift, *)
(* or a route that cannot perform the actions.  main prints whatever the   *)
(* receipt file holds, an earlier process's text or a mixture included.    *)
Refuse(r) ==
    /\ run[r].pc \in {"loaded", "fetched"}
    /\ Goto(r, "refused")
    /\ reported' = [reported EXCEPT ![r] = receipt[ReceiptPath[r]]]
    /\ UNCHANGED <<manifest, remote, snapshot, planFile, confirmed, filing,
                   landed, clean, events>>

(* Faulty: the plan is confirmed but not rebuilt. *)
StartUnrebuilt(r) ==
    /\ run[r].pc = "fetched"
    /\ ConfirmationHolds(run[r])
    /\ Goto(r, "executing")
    /\ Journal(r, "running", 0)
    /\ UNCHANGED <<manifest, remote, snapshot, planFile, confirmed, reported,
                   landed, clean, events>>

Start(r) ==
    /\ run[r].pc = "fetched"
    /\ Authorized(run[r])
    /\ Goto(r, "executing")
    /\ Journal(r, "running", 0)
    /\ UNCHANGED <<manifest, remote, snapshot, planFile, confirmed, reported,
                   landed, clean, events>>

Actions(r) == run[r].plan.actions
Remaining(r) ==
    run[r].pc = "executing" /\ Journaled(r) /\ run[r].next <= Len(Actions(r))
CurrentWrites(r) == Writes(Actions(r)[run[r].next])
Pending(r) == Remaining(r) /\ run[r].done < Len(CurrentWrites(r))
NextWrite(r) == CurrentWrites(r)[run[r].done + 1]

(* The mutation lands on GitHub; to every other process it is somebody     *)
(* else's change.                                                          *)
Land(r) ==
    /\ Accepts(NextWrite(r), remote)
    /\ remote' = Effect(NextWrite(r), remote)
    /\ landed' = [landed EXCEPT ![r] = @ \cup {<<run[r].next, run[r].done + 1>>}]
    /\ clean' = [q \in Run |-> IF q = r \/ remote' = remote THEN clean[q] ELSE FALSE]

Write(r) ==
    /\ Pending(r)
    /\ Land(r)
    /\ run' = [run EXCEPT ![r].done = @ + 1]
    /\ UNCHANGED <<manifest, snapshot, planFile, confirmed, filing, reported, events>>

(* It lands but the answer is lost (timeout, dropped connection, 5xx): the *)
(* executor raises and nothing is retried.                                 *)
WriteUnanswered(r) ==
    /\ Pending(r)
    /\ events < MaxEvents
    /\ Land(r)
    /\ Goto(r, "failing")
    /\ events' = events + 1
    /\ UNCHANGED <<manifest, snapshot, planFile, confirmed, filing, reported>>

(* GitHub refuses the mutation because of the state it is in ... *)
WriteRejected(r) ==
    /\ Pending(r)
    /\ ~Accepts(NextWrite(r), remote)
    /\ Goto(r, "failing")
    /\ UNCHANGED <<manifest, remote, snapshot, planFile, confirmed, filing,
                   reported, landed, clean, events>>

(* ... or for a reason of its own (permission, rate limit, outage). *)
WriteFails(r) ==
    /\ Pending(r)
    /\ events < MaxEvents
    /\ Goto(r, "failing")
    /\ events' = events + 1
    /\ UNCHANGED <<manifest, remote, snapshot, planFile, confirmed, filing,
                   reported, landed, clean>>

(* The executor returned: the action joins the completed prefix. *)
ActionDone(r) ==
    /\ Remaining(r)
    /\ run[r].done = Len(CurrentWrites(r))
    /\ run' = [run EXCEPT ![r].next = @ + 1, ![r].done = 0]
    /\ Journal(r, "running", run[r].next)
    /\ UNCHANGED <<manifest, remote, snapshot, planFile, confirmed, reported,
                   landed, clean, events>>

(* Faulty: the failed action is counted as applied. *)
JournalFailureCounted(r) ==
    /\ run[r].pc = "failing"
    /\ Goto(r, "failed")
    /\ Journal(r, "failed", run[r].next)
    /\ UNCHANGED <<manifest, remote, snapshot, planFile, confirmed, reported,
                   landed, clean, events>>

(* The executor raised: the failed action is journaled. *)
JournalFailure(r) ==
    /\ run[r].pc = "failing"
    /\ Goto(r, "failed")
    /\ Journal(r, "failed", run[r].next - 1)
    /\ UNCHANGED <<manifest, remote, snapshot, planFile, confirmed, reported,
                   landed, clean, events>>

(* Faulty: one action more is awaited than there is. *)
CompleteLate(r) ==
    /\ run[r].pc = "executing" /\ Journaled(r)
    /\ run[r].next > Len(Actions(r)) + 1
    /\ Goto(r, "completed")
    /\ Journal(r, "completed", Len(Actions(r)))
    /\ UNCHANGED <<manifest, remote, snapshot, planFile, confirmed, reported,
                   landed, clean, events>>

Complete(r) ==
    /\ run[r].pc = "executing" /\ Journaled(r)
    /\ run[r].next > Len(Actions(r))
    /\ Goto(r, "completed")
    /\ Journal(r, "completed", Len(Actions(r)))
    /\ UNCHANGED <<manifest, remote, snapshot, planFile, confirmed, reported,
                   landed, clean, events>>

(* GitHub was read again and compared, for as long as the verify window    *)
(* allows (Verification): the receipt is written once more, with the       *)
(* verdict added.                                                          *)
RecordVerification(r) ==
    /\ run[r].pc = "completed" /\ Journaled(r)
    /\ reported[r] = NoFile
    /\ Goto(r, "verified")
    /\ Journal(r, "completed", Len(Actions(r)))
    /\ UNCHANGED <<manifest, remote, snapshot, planFile, confirmed, reported,
                   landed, clean, events>>

(* The process failed, or its verification raised: main prints what the     *)
(* receipt file holds by now.                                              *)
Report(r) ==
    /\ run[r].pc \in {"failed", "completed"} /\ Journaled(r)
    /\ reported[r] = NoFile
    /\ reported' = [reported EXCEPT ![r] = receipt[ReceiptPath[r]]]
    /\ UNCHANGED <<manifest, remote, snapshot, planFile, confirmed, filing, run,
                   landed, clean, events>>

-----------------------------------------------------------------------------
(* The environment. *)

(* The process dies between two steps, of a kill or of a disk that cannot  *)
(* be written, journaling nothing more.                                    *)
Crash(r) ==
    /\ run[r].pc \in {"executing", "failing"} \/ ~Journaled(r)
    /\ events < MaxEvents
    /\ Goto(r, "crashed")
    /\ Abandon(r)
    /\ events' = events + 1
    /\ UNCHANGED <<manifest, remote, snapshot, planFile, confirmed, reported,
                   landed, clean>>

EditRemote ==
    /\ events < MaxEvents
    /\ remote' \in HumanEdit(remote) \ {remote}
    /\ clean' = [r \in Run |-> FALSE]
    /\ events' = events + 1
    /\ UNCHANGED <<manifest, snapshot, planFile, confirmed, run, filing,
                   reported, landed>>

EditManifest ==
    /\ events < MaxEvents
    /\ manifest' \in Manifest \ {manifest}
    /\ events' = events + 1
    /\ UNCHANGED <<remote, snapshot, planFile, confirmed, run, filing,
                   reported, landed, clean>>

(* Somebody rewrites the plan file's actions and its digest with them. *)
EditPlanFile ==
    /\ events < MaxEvents
    /\ planFile # None
    /\ \E acts \in EditedActions \ {planFile.actions} :
          planFile' = [planFile EXCEPT !.actions = acts]
    /\ events' = events + 1
    /\ UNCHANGED <<manifest, remote, snapshot, confirmed, run, filing,
                   reported, landed, clean>>

(* The steps of a process that is left to run. *)
Progress(r) ==
    \/ Load(r) \/ Fetch(r) \/ Refuse(r) \/ Start(r)
    \/ Write(r) \/ WriteRejected(r) \/ ActionDone(r)
    \/ JournalFailure(r) \/ Complete(r)
    \/ FileReceipt(r) \/ ReceiptLost(r)

Next ==
    \/ Observe \/ Review
    \/ \E o \in Opts : BuildPlan(o)
    \/ \E r \in Run : \/ Progress(r) \/ RecordVerification(r) \/ Report(r)
                      \/ WriteUnanswered(r) \/ WriteFails(r) \/ Crash(r)
    \/ EditRemote \/ EditManifest \/ EditPlanFile

Spec == Init /\ [][Next]_vars

(* A started process is scheduled until it ends; nobody owes it a review.  *)
FairSpec == Spec /\ \A r \in Run : WF_vars(Progress(r))

-----------------------------------------------------------------------------
(* Mutations reach GitHub in plan order, none skipped and none twice: a    *)
(* process that stands at mutation (next, done) has landed exactly the     *)
(* ones before it, and one more if that one's answer was lost.             *)
WritesOf(r, k) == {k} \X (1..Len(Writes(Actions(r)[k])))
Whole(r, k) == UNION {WritesOf(r, a) : a \in 1..k}
Before(r) == Whole(r, run[r].next - 1) \cup ({run[r].next} \X (1..run[r].done))
InPlanOrder ==
    \A r \in Run :
        run[r].pc # "idle" =>
            landed[r] \in {Before(r), Before(r) \cup {<<run[r].next, run[r].done + 1>>}}

(* Receipts tell the truth about the processes that wrote them, whatever   *)
(* failed, wherever a process died and however many wrote one path at once: *)
(* every action a receipt counts as applied landed whole, nothing landed   *)
(* beyond the one action after them, "completed" means the whole plan      *)
(* (apply_plan's journal, sync.py 1098-1157).  And a receipt is one text,  *)
(* whole, and the one its process wrote, wherever no two processes were    *)
(* writing it at once; there alone main's "unreadable" (cli.py 637) occurs *)
(* and a process finds its temporary file gone or another's in its place.  *)
Tells(text) ==
    LET r == text.owner
        k == text.applied
    IN  /\ k <= Len(Actions(r))
        /\ Whole(r, k) \subseteq landed[r]
        /\ \A w \in landed[r] : w[1] <= k + 1
        /\ text.status = "completed" => k = Len(Actions(r))
TextsTell == \A p \in Path : receipt[p] # NoFile => \A text \in receipt[p] : Tells(text)
OwnText(r) == temporary[ReceiptPath[r]] = {writer[r].text}
WholeUnlessContested ==
    /\ \A p \in Path \ contested : receipt[p] # NoFile => IsWhole(receipt[p])
    /\ \A r \in Run : ReceiptPath[r] \notin contested =>
          /\ writer[r].step = "replace" => OwnText(r)
          /\ reported[r] # NoFile => IsWhole(reported[r])
JournalTruth == TextsTell /\ WholeUnlessContested

(* Nothing reaches GitHub but the planner's own answer to the manifest and *)
(* the GitHub the process itself read, and, Priority updates apart, a plan *)
(* whose digest a person confirmed: a rewritten plan file, an edited       *)
(* manifest or a stale confirmation never gets a mutation through          *)
(* (architecture.md, apply_plan).                                          *)
ReviewedWrites == \A r \in Run : landed[r] # {} => Authorized(run[r])

(* Undisturbed between its own read and its first mutation, a process      *)
(* meets exactly the GitHub its plan was reviewed against.                 *)
CleanStart ==
    \A r \in Run :
        run[r].pc = "executing" /\ landed[r] = {} /\ clean[r]
        => remote = run[r].plan.remote

(* The protocol keeps its promise: seen from GitHub, all it ever does is   *)
(* let mutations of a granted plan through, each in its turn; files,       *)
(* receipts, failures and crashes show only as jobs that stop early.       *)
Begun == {"executing", "failing", "failed", "completed", "verified", "crashed"}
Change == INSTANCE ReviewedChange WITH
    NeedsNoConsent <- IsPriorityOnly,
    consent <- [r \in Run |-> run[r].confirm],
    seen <- [r \in Run |-> run[r].snapshot],
    granted <- [r \in Run |-> IF run[r].pc \in Begun THEN {run[r].plan} ELSE {}]
KeepsThePromise == Change!Spec

(* Every process that loaded a plan ends, its last receipt written,        *)
(* whatever GitHub answers.                                                *)
Terminates ==
    \A r \in Run : run[r].pc # "idle" ~> run[r].pc \in Terminal /\ Journaled(r)
=============================================================================
