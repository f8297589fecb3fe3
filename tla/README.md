# Formal models of agentic-backlog-kit

`abk` keeps a backlog manifest (a JSON file) and a GitHub repository with its
Project in step. Every change of GitHub is planned, reviewed, confirmed by the
digest of the plan, re-planned against fresh state, and only then applied. This
directory holds TLA+ models of that machinery, TLC runs that check them on small
instances, and TLAPS proofs of the properties that matter most.

Paths are relative to `src/src/agentic_backlog_kit/` unless they start otherwise.

## 1. The system

| Part | State it keeps | Operations | Interacts with |
|---|---|---|---|
| Manifest store (`manifest.py`, `mutations.py`, the mutating commands of `cli.py`) | `manifest.json`, `manifest.json.lock` | load, `add_item`, `update_item`, `merge_imported_items`, `file_sha256`, `save_manifest` | every command loads it; people edit it with an editor |
| Issue text (`sync.py` 97-305, 553-667) | title, body, identity marker and written-baseline comment of an issue | plan title and body, hold a person's edit, overwrite one, correct a GUID | people edit the issue |
| Sync planner (`sync.py` 316-1038, `priority.py`) | none (a function) | `build_sync_plan` | manifest and snapshot in, actions out |
| Reviewed apply (`sync.py` 1041-1225, `execution.py`, `cli.py`) | snapshot file, plan file, receipt file and the `.tmp` beside it | `sync-plan`, `sync-apply`: confirm, refresh, rebuild, journal, fail | planner, executor, GitHub, other processes over the same files |
| Executor (`github.py` 380-1124) | none | the REST and GraphQL mutations of each action | GitHub |
| Post-apply verification (`verification.py`) | the plan, the waits left | re-read, re-plan, classify, wait | snapshot reader, planner |
| Freshness cache (`freshness.py`, `cli.py`) | `observed-snapshot.json` | `resolve_snapshot`, `write_cache`, `invalidate_cache` | planning commands, `abk snapshot`, every apply |
| Transports and rate limits (`github.py` 84-378) | seconds waited so far | send, retry a definite refusal | executor, readers |
| Snapshot reader (`snapshot.py`) | none | paged reads | GitHub |
| Import and adoption (`importing.py`) | markers on GitHub, items in the manifest | `import-plan`, `import-apply`, `import-reconcile` | manifest store, executor |
| Scaffolding and bootstrap (`scaffold.py`, `bootstrap.py`, `capabilities.py`) | Project fields, views, labels | plan and apply as above | GitHub |
| Iterations (`iterations.py`, `github.py` 685-754) | the iteration field on GitHub: active and completed entries with ids | `iteration-plan`, `iteration-apply` (replace the whole configuration, then verify) | items on the board refer to its ids |
| Backlog graph, ranking and next (`manifest.py` 138-174, `priority.py`) | none | cycle check, scores, order, `next` | every planning command |
| Sprint packing and schedule (`sprint.py`, `schedule.py`) | none | `sprint-plan`, `gantt` | observed board state, iterations |
| Views, evidence, benchmarks | none | compare, report | snapshots |

What is hard here:

* **Two writers of everything.** People edit GitHub and the manifest at any
  moment: between snapshot and plan, plan and confirmation, confirmation and
  apply, the apply's own read and its writes, one write and the next.
* **No locks on GitHub, and partial failure.** A plan is many mutations, an
  action up to four; any may be refused, or land and lose its answer, or be the
  last before the process dies. Recovery is a new plan over re-read state.
* **Shared files without locks** (receipt, its temporary file, plan file, cache),
  and one file with a lock that nothing removes after a crash.
* **Reads that trail writes**, which verification must tell from drift.
* **Reads that take a while.** A snapshot is dozens of requests; issues are
  opened, deleted, linked and moved between any two of them, and one list lags.
* **Identities that GitHub owns.** A replaced iteration configuration may come
  back with new ids, and every commitment on the board refers to one.
* **Derived values.** Priority depends on statuses that transitions and closures
  of the same plan change.

What makes each part correct, in words: a save replaces what it was computed
from; a person's text is never replaced unasked, however long the history; only
the reviewed plan lands, in order; what a receipt says is true of its writer,
and it is whole unless two processes write it at once; an undisturbed apply leaves nothing to plan; verification neither calls lag drift
nor convergence what is not; a cached answer is of the right target and as
fresh as asked; a snapshot says nothing that was not true while it was read; no
request GitHub may have carried out is sent again; no commitment is lost
unnoticed; and there is always a next item unless a person is in the way. The
`hazards` of `PROJECT.json` list the places in the code
where these could go wrong.

## 2. The modules

| Module | Models | Main correspondences |
|---|---|---|
| `IssueText` | title and body of one issue, markers, digests and holds, as operators | `PlannedIssue` is `_issue_title_body_plan`; a digest is the value it digests |
| `HeldEdits` | one issue's text over a lifetime of syncs and edits | `Sync` is one undisturbed sync-plan and sync-apply of that text; `settled` is a history variable: what the kit last wrote, or found equal to the manifest |
| `Backlog` | the item graph: cycle search, scores, order, next item | `SearchStep` is one turn of the depth-first search of `_find_dependency_cycle`; `ReleaseOrder` the heap loop that `prioritize` and `build_schedule` share; `NextItem` is `explain_next` |
| `SyncPlanner` | `build_sync_plan`, the mutations of each action, GitHub's answer | `SyncPlanOf` concatenates the lists in the order of `sync.py` 1007-1017; `SyncWrites` is `GitHubPlanExecutor`; `GitHubAccepts`, `PersonEdit` are external |
| `ReviewedChange` | what a reviewed apply promises, with no files, journals or crashes | abstract: a job sees GitHub, is granted one plan, and mutates in its order |
| `ReviewedApply` | the plan, review, refresh, apply protocol of several processes, over any planner and executor (constant operators) | `Load`, `Fetch`, `Refuse`, `Start` are the steps of `_dispatch` and the head of `apply_plan`; `Write*`, `ActionDone`, `JournalFailure`, `Complete` its loop; `FileReceipt`, `ReceiptLost` are a journal call under way; `RecordVerification` is the last receipt, `Report` what `main` prints on failure (`reported`) |
| `ReceiptFile` | how a receipt reaches its file: `_write_json` | `OpenTemporary`, `FillTemporary`, `ReplaceReceipt` are `write_text` (the opening truncates) and `replace`; a file's content is the set of texts it holds parts of; `NothingToReplace` is the `FileNotFoundError` |
| `SyncApply` | `ReviewedApply` with `SyncPlanner`'s operators for its constants | the composition of the two |
| `Verification` | `verify_sync_apply` over `SyncPlanner` | `seen` is the view reads get; `Propagate` moves one part of one issue into it |
| `RateLimit` | how a request fails on either transport, which failures are refusals, how long to wait and when to send again | a response says what GitHub really did (`ran`), which no caller sees; `ErrorStatus` is what each transport makes of it |
| `SnapshotRead` | `sync-plan` and `sync-apply` request by request: the two reads, their comparison, the creation of issues | one action per request of `GitHubSnapshotReader.read`; `Resend`, `FallBack`, `GiveUp` are `RateLimitBudget.call` and the callers' handling of its error |
| `ManifestStore` | the manifest file, its lock and its commands | one action per step of `save_manifest`; `Load` and `Hash` are separate because `cli.py` 759 and 923 are |
| `FreshnessCache` | readers, manual snapshots and writers over one cache file | one action per step of `resolve_snapshot`; `Invalidate`, `Land`, `End` are an apply |
| `ImportPlanner` | `build_import_plan` and `reconcile_orphans` as operators | `Inferred` is `_infer_relationships`; `Chosen` the selection loop; `Listing` what the plan's snapshot fingerprint covers; an adopted item's id is its issue number |
| `ImportAdoption` | `import-plan`, `import-apply`, `import-reconcile` as processes, failures, retries of one plan file, edits | `Load`, `Reload`, `Start`, `Mark`, `Save` follow `cli.py` 986-1081; `Rebuilt` is the options `apply_import_plan` rebuilds with; `Save` is one step, `ManifestStore` has its parts |
| `Iterations` | the iteration field: reading, planning, verifying, as operators | `Readable` is `normalize_iteration_field`; `IterationPlans` is `build_iteration_plan` (no plan where it raises); `Verified` is `verify_iteration_apply` returning |
| `SprintPlanner` | `plan_sprint` and `build_schedule` as operators over `Backlog` | `Packed` and `Placed` are their loops |
| `SprintCycle` | a team's sprints: iteration plan and apply, commitments, work, closures, days and people | `FetchIterations`, `ReplaceIterations`, `CheckIterations` are the steps of `iteration-apply`; `Stored`, `Untouched` are what GitHub may make of the request |
| `MCSyncApply`, `MCVerification`, `MCFreshnessCache`, `MCImportAdoption`, `MCSnapshotRead`, `MCSprintCycle` | the instances TLC checks | manifests, starting states, responses, options, symmetry |
| `HeldEditsProofs`, `ReviewedApplyProofs`, `SyncApplyProofs`, `ManifestStoreProofs`, `FreshnessCacheProofs`, `SnapshotReadProofs`, `ImportAdoptionProofs`, `SprintCycleProofs` | theorems and proofs | section 5 |

How they compose: `SyncPlanner` and `SprintPlanner` extend `Backlog`; `SyncApply`
is `ReviewedApply` over `SyncPlanner`, and `Verification` uses the same planner;
`ReviewedApply` extends `ReceiptFile` and implements `ReviewedChange`; `SnapshotRead` extends `RateLimit`;
`SprintCycle` extends `Iterations` and `SprintPlanner`; `ImportAdoption` extends
`ImportPlanner`; `HeldEdits` extends `IssueText`.

Definitions marked `Faulty` are never part of a specification. Each is a
plausible mistake in the definition that follows it, and is there to show that
the property named for it in `PROJECT.json` (`mutants`) would notice.

Abstractions common to the modules: digests and fingerprints are the values
they are taken of (SHA-256 is treated as injective); ids, titles and prose are
model values or small numbers; outside `SnapshotRead` a snapshot is read in one
step; JSON, formatting and messages are left out. In the sync planner, `Status`
stands for both fields GitHub owns (Status and Sprint), `Impact` for the planning
fields copied from the manifest, and `Priority` for itself with the dependency
boost that makes it depend on other items; issue types and labels are left out.
In `Iterations` a day is an integer and a title the number it ends in.

## 3. What the runs check

Passing runs:

* **held_edits** (`HeldEdits.cfg`). Three titles and proses, with and without a
  GUID. A person's edit, the manifest's next value and the baseline are three
  values, so any two of them can differ; the run is exhaustive and has no other
  bound. No ordinary sync replaces a person's words (`NoSilentRevert`), holds
  survive syncs in either body mode (`HoldPersists`), a digest is always of what
  the kit settled (`DigestsVouch`, in `Inv`), one sync settles (`SettlesAtOnce`).
* **sync_apply**. One process, two items with a parent and a dependency that the
  second manifest turns round, an empty and a synced GitHub, with and without a
  transition, a tampered plan file, and any two edits or faults (`MaxEvents`)
  anywhere. Two are the fewest that let the manifest and GitHub both move, or an
  edit meet a lost answer. `KeepsThePromise` is the refinement: the protocol
  implements `ReviewedChange`, so only the plan of the state the process itself
  read lands, in plan order, each mutation once. An undisturbed process starts
  on the reviewed state (`CleanStart`), is never refused by the state its own
  earlier mutations left (`CleanRunNeverRejected`, in `Inv`: provided no issue
  outside the manifest waits on another, `Enclosed`), and leaves nothing
  to plan (`Converges`: unless a parent is complete only now, or the plan gave
  one Status two sources, `Settles`); a process given no digest changes Priority
  alone; and, under fairness, each process ends. A third starting state has a
  child that is closed and a parent that is gone, so the plan creates a parent
  whose children are all complete: the case `Converges` must except.
* **sync_retry**. Two processes that share one receipt file and the temporary file
  beside it, at the same time or one after the other, step by step: opened,
  filled, renamed. Whatever a receipt holds is true of the process that wrote it,
  mixtures included, and a receipt is one whole text unless two processes were
  writing it at once (`JournalTruth`: `TextsTell`, `WholeUnlessContested`); a
  second issue for one id only comes from a process another has overtaken since
  its read. One item with one title is enough for both and keeps the
  interleavings checkable; the two processes are symmetric.
* **manifest_store**. Three commands, an editor, one crash: mutual exclusion (in
  `Inv`), compare and replace, an orphaned lock blocks for good.
* **freshness_cache**. Two planning commands, one `abk snapshot`, one apply, two
  targets, `--max-age` 1 with a clock to 2, one change of GitHub. Two readers
  and a writer are what it takes to store an old snapshot after an invalidation.
  Commands and targets are symmetric. `Inv` has `AnswersOwnTarget`.
* **verification**. Every order in which the writes of a plan become visible,
  for two items from five starting states, a chain of three with any of its
  items closed or outside the Project, and one edit by a person; windows 0 and 5
  (which gives the waits 2 and 3, the last one cut). `ConvergedIsTrue` (in
  `Inv`), `LagIsWaitedFor`, and `RemainderIsNextClosure`: what an undisturbed
  apply leaves is only the closure its own closures made possible (documented in
  `src/docs/quickstart.md` 242-245). `Decides` is liveness.
* **import_adoption**. One adopter and one recoverer at the same time, and in one
  case two adopters of the same issues, with one edit or failure. Without
  failures, over all 64 ways an Epic, a Story and a Task can block each other,
  the Epic unmanaged, managed or stranded, with an allowed and a forbidden
  parent; over two issues linked both ways, with two edits or failures in any
  order, and with one where the marks may be stranded before. A plan file may be
  applied again after any end. Inference never makes adoption or recovery
  impossible and withholds only what a manifest cannot say (`AlwaysExpressible`,
  `WithholdsOnlyTheInexpressible`, both in `Inv`); an unchanged plan is accepted
  whatever its selection and limit (`AcceptedIfUnchanged`); marks add a marker
  and nothing else, unless somebody else changed that issue since the process read
  it (`MarksKeepWords`, with the history variable `touched`); an undisturbed process
  records only marked issues (`RecordsOnlyMarked`); recovery gives exactly what the interrupted adoption
  would have (`RecoveryCompletes`) and, undisturbed, leaves no orphan
  (`RecoveryLeavesNoOrphan`). Three issues are the fewest with a cycle that is
  not a pair.
* **snapshot_read**. Issue numbers 1 to 8 (4 is a pull request; `NumbersSuffice` says
  they cannot run out), pages of one
  issue, batches of two, dependencies one at a time, so that every loop of the
  reader turns more than once; two starting repositories; two changes by others
  (`MaxEvents`) between any requests, and any response to any request; two
  attempts and a budget of two secondary waits, so that both the attempts and
  the budget can run out; REST (`Route` "api"; the proofs cover both). What a
  read reports was true at some moment of it (`EveryPartWasTrue`); it leaves out
  what held throughout only if an issue vanished while the list was paged by
  offset (`TornOnlyWhereItShifts`); the comparison of two reads leaves a
  duplicate issue possible only if both were torn (`NoUntornDuplicate`); nothing
  GitHub may have done is sent again; waits keep to the budget (in `TypeOK`);
  and `Ends` is liveness.
* **sprint_cycle**. Two kinds of start. Six iteration fields (none, one entry, two,
  titles out of order, one without a number, a gap) with one Story, where the
  schedule is what happens; and, on the last day, in a current and a next
  iteration, five graphs of four items (an Epic with a child or none, another
  Epic or a Story, dependencies along and across the hierarchy, a commitment or
  none). Days 0 to 4 with iterations of two days, so that one can end
  between plan, read, write and verification; two plans or changes by people;
  capacities and lanes 1 to 3. `PlanIterations` stops at the last day, which is
  a bound and not a guard. `Inv` has `Acyclic`. `ResumesWhereItStopped` and
  `ScheduleSound` compare `Packed` and `Placed` with what a sprint and a schedule
  owe their reader, in every reachable backlog. `HonouredUpdatesVerify` and
  `VerifiedKeepsAssignments` are the two sides of the verification: it accepts
  what GitHub kept, and rejects what would lose a commitment.
  `NeverEmptyHanded`: while nothing hinders the work, `next` or a closure has a
  step to offer, and each such step makes one more item done, so the backlog
  drains without any fairness being assumed of the team.

Runs that TLC finds violated, each a statement of the repository the code does
not keep:

* **manifest_lost** / `NoLostUpdate`. `item-add` and `item-update` load the
  manifest at `cli.py` 759 and hash the file at 923. A save in between passes
  the check of the later save and is lost. Hashing before, or with, the load
  would close the window.
* **verification_raises** / `NeverRaises`. After `--overwrite-remote-edit` the
  re-plan passes the same overwrite, which is no longer held, and
  `build_sync_plan` raises after a successful apply.
* **import_duplicates** / `DuplicatesCanBeAdopted`. `apply_import_plan` rebuilds a
  plan made with `--allow-duplicate-titles` without the option; the duplicate
  drops out of the rebuild and the plan is refused as drifted, always.

Further disagreements and limits were met while modelling and are recorded here
without a run:

* a process refused before its first write has written no receipt; `main` still
  merges the file at the receipt path, an earlier run's, into the failure it
  prints (`cli.py` 634, against the comment at 618-619);
* a closed parent whose Done status is not visible yet is scored as open work;
  the Priority this asks for was never written, so verification reports drift at
  once, though it is lag (`verification.py` 164, against
  `src/docs/architecture.md` 48-49). `LagIsWaitedFor` shows that plans without
  closures are free of it;
* a reader that fetched before an apply's write stores its snapshot after the
  invalidation (`freshness.py` 277), and the next planning command answers from
  it, against `src/docs/operational-authority.md` 141-143; `RefetchesUnlessRacing`
  says that it takes a read that overlaps the apply;
* a completed parent outside the Project gets no Status from its
  `issue.close_parent` and the manifest's from the plan's `project.add_item`
  (`sync.py` 996), so it is closed but not "marked Done" (`src/README.md` 245),
  and one that is asked to transition gets the Status of the transition after it
  was closed; `RemainderIsNextClosure` and `Converges` therefore except plans
  with such a parent (`ClosedAndMoved`, `Settles`);
* `import-apply` and `import-reconcile` save what they merged into the manifest
  they loaded and hash the file only then (`cli.py` 1038, 1080): the window of
  **manifest_lost**;
* an entry of `abk snapshot` is stamped after its read (`cli.py` 938), so it can
  hide a change for longer than `--max-age`; `BoundedStaleness` therefore
  excepts answers that come from such an entry;
* a `--preserve-body` sync that corrects a marker's GUID carries the old body
  digest forward (`sync.py` 640-644), so a later managed sync can hold a body
  only the kit changed; `HoldPersists` and `NoSilentRevert` are not affected;
* sync removes only links between manifest items (`sync.py` 959), so a chain of
  blockers through an issue outside the manifest stays, and a dependency the
  manifest adds can close a cycle over it, which GitHub refuses in the middle of
  the apply. `CleanRunNeverRejected` therefore speaks of issues outside the
  manifest that wait on nothing;
* a title edited on GitHub between an apply's read and its PATCH is overwritten,
  since the PATCH (`github.py` 511) has no precondition. `CleanStart` and
  `KeepsThePromise` say what holds instead: what lands was reviewed against what
  the process read;
* likewise `import-apply` writes the whole body as its plan recorded it
  (`github.py` 580), so a person's edit of an issue between the apply's read and
  that issue's PATCH is reverted, against `src/docs/importing.md` 36, and a marker
  somebody set meanwhile is replaced. `MarksKeepWords` says that this
  window, of one issue, is the only one;
* processes given one receipt path share one temporary file too (`cli.py` 99), and
  the path has a default. One may rename the file another is still writing: a
  receipt is then empty, the other's, or a mixture that `main` cannot read
  (`cli.py` 637), and the other's rename raises `FileNotFoundError`, which `main` does
  not catch: it dies in the middle of its plan, or after its last mutation.
  `write_cache` uses a name of its own each time for this reason (`freshness.py`
  129-131). `JournalTruth` says what survives, and that nothing goes wrong at a path
  no two processes are writing at once;
* if both reads are torn alike, each by an issue that vanished while it paged
  the list, they agree, and an issue that was there all along is created again;
  `NoUntornDuplicate` says that nothing less does it;
* the title derived for a new iteration may be one the schedule already has,
  since `build_iteration_plan` validates what it read and not what it writes
  (`iterations.py` 536-590); GitHub then holds a field the kit refuses to read.
  `HonouredUpdatesVerify` excepts schedules whose titles do not rise with the
  dates, and additions that are over when they are written, which can never
  verify;
* if an iteration ends between the read and the verification, it moves from the
  active to the completed entries, and `iteration-apply` reports a failure
  although nothing was lost (`iterations.py` 703);
* an iteration a person adds between the apply's read and its write is replaced
  with the rest, since the write has no precondition (`github.py` 685). The
  commitments the apply read are covered by `VerifiedKeepsAssignments`, ones
  made in between are not;
* the critical path "sets the end date" (`schedule.py` 260) only while there are
  lanes enough; `ScheduleSound` gives the bounds that hold in general. A
  dependency through an item the chart leaves out (a container, a completed
  item) is not carried over to what depends on it;
* a child may depend on the container it is in: validation accepts it, and
  neither can ever be handed out (`Hindered` in `NeverEmptyHanded`);
* the `gh` subprocess has no timeout (`github.py` 321), so `Ends` speaks for
  commands whose requests are answered or time out.

`CHECK_DEADLOCK FALSE` is set wherever commands end, or days run out: a
terminated system stops. `HeldEdits` can always move and keeps the check.

## 4. Fairness

Fairness is only ever assumed of the tool's own next step: a started process is
scheduled until it ends (`WF` of `Progress(r)` in `ReviewedApply`, of `Proceed` in
`Verification` and in `SnapshotRead`). It is one operating-system process that
waits for nothing but answered or timed-out requests and finite sleeps. Nobody is
owed a review, a propagation of a write, an edit, or a crash. In `Verification`,
`Proceed` speaks of `pc` alone: the command's steps are the ones that change it,
so the propagation of writes cannot starve or replace them. In `SnapshotRead`,
`Proceed` includes a failed answer: GitHub may fail every request, and the
command ends because attempts and budget run out. `SprintCycle`, `ManifestStore`,
`FreshnessCache`, `HeldEdits` and `ImportAdoption` state no fairness and have no
liveness property.

## 5. What is proved

TLAPS proves the following for every value of the constants, under the named
assumptions of the modules, which TLC evaluates in every run:

* `IssueText`: `NoDigest` is neither a title nor a body;
* `ReviewedApply`: each process has a receipt path, actions issue a finite number
  of mutations, the event bound is a natural number;
* `SyncPlanner`, `SyncApply`: ids are finitely many, ordered, and not the absent
  one (`ItemType`); Done is a Status (`DoneType`); GitHub starts with well-formed
  issues (`InitRemoteType`); only manifests that `validate_manifest` accepts are
  saved (`ManifestType`: references resolve, no items wait on each other, texts
  are texts);
* `ManifestStore`: commands and hand edits have different names;
* `FreshnessCache`: manual processes are planners, bounds are natural numbers;
* `RateLimit`: what responses are like, and that GitHub does no work before it
  refuses a request with 403, 422, 429 or `RATE_LIMITED` alone
  (`RefusedBeforeWork`, which the retry loop relies on, `github.py` 141);
* `SnapshotRead`: GitHub starts well formed, pages are not empty, and there are
  numbers enough for every issue anyone may still open (`NumbersSuffice`; GitHub's
  own numbers do not run out);
* `ImportPlanner`, `ImportAdoption`: issue numbers are positive and what stands
  for no id is none; adopters and recoverers are different processes; each case
  starts with a finite valid manifest and finitely many numbered issues, their
  ids ids and their types of the hierarchy (`CasesAreStates`, `CasesAreTyped`);
  options are options, and the limit that stands for none is above the number of
  issues (`NoLimitIsAboveAll`);
* `SprintCycle`: it starts from a backlog the cycle search accepts, a finite
  iteration field, and an assignment for each item; capacities are positive
  (`sprint.py` refuses others), and what stands for no iteration is no title.

Bounds may be any number, so the proofs say nothing less than the unbounded
claim.

* `HeldEditsProofs`. `InvHolds`: the invariant *a recorded digest is the digest of
  what was last settled* is inductive with the type invariant.
  `EditsAreNeverReverted` and `HoldsPersist` are action properties that follow
  from it in each sync, by cases on whether the digest is there; `SyncSettles`
  from the idempotence of `PlannedIssue` (`PlanIsIdempotent`).
* `ReviewedApplyProofs`, over any planner and executor.
  * `OnlyReviewedWrites`: `AuthInv` says that every process past the check is
    authorized against its own read and that no other has landed anything;
    needed because mutations land long after the check.
  * `StartsClean`: `CleanInv` says that what an undisturbed process read is what
    GitHub holds, until its own first mutation.
  * `LandsInPlanOrder`: `OrderInv` says for each program counter exactly which
    pairs have landed. `InPlanOrder` alone is not inductive: it does not say
    that a lost answer can only be followed by failing.
  * `ReceiptsAreTrue` (`JournalTruth`): `TextInv` says that every text, in a
    receipt, in a temporary file or still to be written, counts the actions before
    the one its author stands at, also after the author died; `OrderInv` turns that
    into what has landed. `AloneInv` says of a path no two have been writing at once
    that the one who is has its own text, whole, in the temporary file, and that
    the receipt is whole. A process that another renames under is still writing to
    the file it opened, so the invariants follow the file and not its name.
  * `PromiseKept`: `ReviewedApply` implements `ReviewedChange`. Each step maps to
    a step or a stutter; `AuthInv` gives the grant, `OrderInv` the order.
* `SyncApplyProofs`. Each theorem assumes `Composed`: the parameters of the
  protocol are `SyncPlanner`'s operators, as the configurations give them. So
  everything proved of `ReviewedApply` holds here too, and what is added is about
  the planner and the mutations.
  * `PlanIsWell` is the lemma the others rest on: for any valid manifest and any
    GitHub, the plan is a finite list without repetitions, in seven parts by kind
    of action; it creates each lacking item, removes each unwanted dependency,
    and no action asks for anything the GitHub it was planned from cannot give.
    Lists are built by `FlattenSeq` over the ids in order, so `InOrderLists` (the
    ids of a finite set, each once) and `FlattenIsFlat` come first.
  * `SyncTypeCorrect`: `GitHubEffect` keeps issues, links and fields well formed.
  * `UnconfirmedIsPriorityOnly`: `AuthInv` says that without a digest the plan is
    Priority updates alone, and such an update is one write of one field.
  * `DuplicatesNeedARival` and `SyncIsSafe` (`Inv`; its second half on its own is
    `CleanRunsAreNeverRejected`) share the invariant `FreshInv`: while nobody
    interferes, what is lacking on GitHub will still be created, what is unwanted
    still be dropped, and the actions ahead find what they need (`Ready`).
    `CleanRunNeverRejected` alone is not inductive: it says nothing of the
    mutation after the next. That GitHub never sees a cycle is then an argument
    about graphs (`NoCycleCloses`): when links are added nothing unwanted is
    left, so what a new dependency leads to stays in a set that is closed under
    the manifest's dependencies and leaves the waiting item out.
  * `CleanAppliesConverge` (`Converges`), in two halves. What the apply does: by
    the invariant `Converging`, each part of each issue is what the plan found
    (`Had`) or what it aims at (`Goal`), and what the mutations passed so far
    asked has arrived (`OnTheWay`); so at completion the state is the goal
    (`LandedIsAtGoal`). `Converges` alone speaks of completion only and is not
    inductive. What a new plan asks of the goal: nothing (`NothingIsAsked`). A
    settled text plans nothing; the intended Status of the goal is that of the
    state the plan read (`SameIntended`), therefore its Priorities are, whatever
    the scores (`SamePriorities`). Carrying it out showed two states the property
    had to except and TLC's starting states did not reach; it does now.
* `ManifestStoreProofs`. `InvHolds`: mutual exclusion is inductive with types;
  `CheckHolds` (a checked, undisturbed command still sees its hash) gives
  `SavesReplaceExpected`; `OrphanedLockIsForever` is an action property of the
  same invariants.
* `FreshnessCacheProofs`. `InvHolds`: `OwnTarget` ties what a process holds, from
  the moment it fetched or answered, to the target its manifest named. `AgeInv`
  has three parts: no recorded time is ahead of the clock, what a process
  fetched was complete when its freshness was judged, and what
  `resolve_snapshot` stored was complete at the time stamped on it. It gives
  `StalenessIsBounded`. `AppliesAreSeen` (`RefetchesUnlessRacing`), for any number
  of readers and writers: as long as no read has overlapped an apply, nobody
  reads and nothing is cached while one writes, and what is cached or fetched is
  no older than the last write (`NoRaceInv`).
* `SnapshotReadProofs`. `NothingIsDoneTwice`: a response that is taken for a
  rate limit, on either route, is one GitHub gives before it does any work
  (`OnlyRefusalsAreSentAgain`). `BudgetIsKept` is inductive over the requests of
  a process, which share one sum of waits. `PartsAreTrue`, `OmissionsMeanShifts`
  and `OldIssuesAreKnown` (`NoUntornDuplicate`) are one induction over the
  requests, `IInv`: who is not among the items read and no longer asked about was
  outside the Project or has vanished (`AskedInv`); the pages read hold what was
  there all along unless an issue vanished, and nothing a later page shows unless
  one was opened (`PagesInv`); what is missing of an issue's dependencies lies
  beyond those read (`LinksInv`); the plan knows what the first read found, and
  the apply creates nothing that either found (`PlanInv`). `TypeCorrect` needs
  `RoomInv`, that numbers are left for what may still be opened.
* `ImportAdoptionProofs`, for any number of adopters and recoverers. `IInv` says
  that until somebody else interferes, GitHub without the markers an adoption has
  set is what its plan was rebuilt from, and the markers are on the issues it has
  passed (`OnTrack`). `AdoptionKeepsWords` (`MarksKeepWords`) rests on an invariant that
  holds disturbed or not, `WordsInv`: an issue left to mark that nobody else has
  touched is unmarked and worded as the plan recorded it. `IInv` gives
  `OnlyMarkedAreRecorded`, `RecoveryFindsAll` and `RecoveryIsCompletion`: the last
  needs that inference gives an issue the same parent and dependencies before and
  after the markers.
  * `UnchangedIsAccepted` (`AcceptedIfUnchanged`). What the selection loop chooses
    is characterised without the loop (`ChosenIsTheChoice`): an issue is chosen
    exactly if it is selected and neither the limit nor a title stands against it
    after those chosen before it. The rebuild selects just those and has no
    limit, so it chooses the same. `AcceptedIfUnchanged` alone is not inductive:
    `PlansInv` adds that the plan a process holds was accepted of some state of
    GitHub, and two states with one listing give one plan (`ListingsTell`,
    `RebuildAgrees`). A plan file whose mode was edited differs in its listing,
    or nothing is unmanaged and both plans are empty.
  * `InferenceIsRight` (`Inv`). `_reaches` finds the least closed set of items
    (`ReachableIs`: a step that adds something makes the set larger, so as many
    steps as there are items are enough). What does not lead to an item may all
    become its dependencies at once (`DependKeeps`), so the loop never closes a
    cycle; more edges lead further (`ReachableGrows`), so what is refused in the
    loop would close one in the end too (`DependenciesAre`). New items that depend
    on nothing close none (`FlatAcyclic`). The inductive invariant `SoundInv` says
    this of every manifest there is, saved, loaded or about to be: finite, valid,
    of known types. `Inv` alone speaks of the saved one, which another process
    overwrites with what it merged into an older one.
* `SprintCycleProofs`. `CommitmentsOutliveUpdates`: the invariant `Anchored` says
  that from the apply's read on, an item held to a title has the id of an entry
  of that title in the reviewed field. `VerifiedKeepsAssignments` alone is not
  inductive: it says nothing before the write. That verification compares ids,
  and that no two entries of a readable field share one, closes the argument.
  * `SearchFindsCycles`: for every graph, `_find_dependency_cycle` reports a cycle
    exactly if some items each wait for another of them. The states of the search
    are followed as a sequence; each step marks one item more, so it ends.
  * `BacklogsStayAcyclic` (`Inv`): no sequence of edits gets a cycle past it.
  * `HonestUpdatesVerify`: `Formed` adds to the types that fields are finite and
    that the plan is one `IterationPlans` makes. An update GitHub honoured is
    accepted by the verification, for every schedule whose titles rise.
  * `OrderIsComplete` and `NextIsTheBest` hold of every acyclic backlog: scores,
    defined by recursion along dependencies, exist on it, and as long as an item is
    unplaced one that waits for none unplaced is left, so the ranking loop ends
    with each open item once and after what it depends on.
  * `WorkIsNeverOut` (`NeverEmptyHanded`): unless something hinders the open items
    (a block, a lack of refinement, a circle through parents and dependencies), one
    of them waits for no other; `next` may recommend it, or it is a parent to
    close.
  * `SprintsResume` (`ResumesWhereItStopped`): turn by turn, the resumed plan takes
    what the first one took and had not been assigned (`TurnResumes`). The room the
    first one still had at its end the second has at every turn, and a dependency
    that counts as met because it was assigned had been taken earlier.
  * `SchedulesAreSound` (`ScheduleSound`), by invariants over the prefixes of the
    placing loop: an item starts when its dependencies have ended and its lane is
    free. A lane more never ends later, because the lanes of the smaller schedule
    map injectively to lanes of the larger that are free no later, and the
    earliest free lane is exchanged for its image; the busy days of the lanes add
    up to the work, which bounds the length from below, as does the critical
    path, which is reached when no item waits for a lane.

Recursive definitions and lists are reasoned about with `LeastNumber` instead of
an induction rule: the numbers for which a claim fails would have a least one.

Only model-checked:

* the liveness properties (`Terminates`, `Decides`, `Ends`): the prover does not
  reach fairness;
* the invariants of `Verification`. `ConvergedIsTrue` and `LagIsWaitedFor` are
  about a plan made from a mixture of the states before and after the apply, each
  part of each issue one or the other. The lemmas on the planner that
  `SyncApplyProofs` has (`NothingIsAsked`, `SameIntended`, `SamePriorities`) are
  about one such state, the goal; the mixture needs them again for each part
  that may lag, and is not done. `RemainderIsNextClosure` is
  `Converges` for an apply that is one step; that theorem is of `SyncApply`'s
  states and was not carried over.

## 6. What is not modelled

`PROJECT.json` lists every part with its status.

* Manifest validation is a sequential check of one document; its cycle search
  and its rules on parents and dependencies are modelled, the checks of single
  fields are not.
* A receipt's text is taken to be written by one write after the truncation
  (receipts are small). Directories, full disks and `--force` are left out; the
  receipts of the other commands and the plan files go through the same
  `_write_json` and are not modelled as shared. A receipt path starts without a
  file: what is found there was left by a process of the model.
* Scaffolding, bootstrap and views compare configurations and apply the
  difference by the protocol of `ReviewedApply`, which is modelled for any
  planner; only sync's planner is given.
* Evidence, benchmarks, schedule rendering, the release scripts and the
  evaluation harnesses keep no state of the program.
* Issue types, labels and the Sprint field are left out of the sync planner (the
  label fallback of `create_issue` is in `SnapshotRead`); `EditPlanFile` rewrites
  the actions of a plan and its digest, not its options.
* `read_unmanaged` and `read_marked_issues` are one step of `ImportAdoption`; they
  page through the list by the code that `SnapshotRead` models. The Project
  discovery reader of bootstrap is not modelled.
* GitHub's answer to a replaced iteration configuration is a choice between
  keeping and reassigning ids, and keeping and dropping completed entries: the
  repository documents none of them as guaranteed.

## 7. Plan

Done: the parts of section 2, with the proofs of section 5.

What could follow:

1. The invariants of `Verification`, with the lemmas on the planner stated for a
   mixture of two states; and the end of its waits as an invariant with a variant.
2. The scaffold and bootstrap planners as further instances of `ReviewedApply`,
   and `iteration-apply` with its receipt as another.
3. The Project discovery reader of bootstrap, by the pages of `SnapshotRead`.
