---------------------------- MODULE SnapshotRead ----------------------------
(***************************************************************************)
(* sync-plan and sync-apply as a sequence of requests: the pages a         *)
(* snapshot is read in, once to plan and once to refresh before the apply, *)
(* the comparison of the two, and the issues the plan then creates.  Other *)
(* people and tools change GitHub between any two requests, and any        *)
(* request may be refused, lost, or answered after a wait.                 *)
(*                                                                         *)
(* One digest stands for the reviewed plan: it changes exactly when the    *)
(* snapshot does, the manifest being fixed here.                           *)
(***************************************************************************)
EXTENDS RateLimit, FiniteSetsExt

CONSTANTS
    Number,         \* issue numbers, 1..n: newer issues have greater ones
    PullRequest,    \* the numbers that are pull requests
    Id,             \* ids of the manifest's items
    PageSize,       \* per_page=100 of issues, first: 100 of Project items
    BatchSize,      \* RELATIONSHIP_BATCH_SIZE, MEMBERSHIP_BATCH_SIZE
    LinkPageSize,   \* first: 100 of an issue's dependencies
    InitGitHub,     \* what GitHub may start as
    MaxEvents       \* bound on changes by others

ASSUME PageSizes == {PageSize, BatchSize, LinkPageSize} \subseteq Nat \ {0}
ASSUME MaxEventsType == MaxEvents \in Nat
ASSUME NumberType == Number \subseteq Nat \ {0}

(* An issue in the list of Project items is in the Project; no number is    *)
(* given twice.                                                             *)
WellFormed(g) ==
    /\ g \in [issues : SUBSET Number, next : Nat,
              member : SUBSET Number, listed : SUBSET Number,
              marker : [Number -> Id \cup {None}], deps : [Number -> SUBSET Number]]
    /\ g.listed \subseteq g.member /\ g.member \subseteq g.issues
    /\ \A n \in g.issues : n < g.next

ASSUME InitGitHubType == \A g \in InitGitHub : WellFormed(g)

(* The bound on numbers leaves one for every issue others may open and for  *)
(* every item.                                                              *)
ASSUME NumbersSuffice ==
    /\ IsFiniteSet(Id)
    /\ \A g \in InitGitHub :
          g.next .. (g.next + MaxEvents + Cardinality(Id) - 1) \subseteq Number

VARIABLES
    github,     \* issues, markers, Project membership, dependencies
    pc,         \* what is requested next
    round,      \* 1: sync-plan reads; 2: sync-apply reads
    page,       \* of the issue list
    cursor,     \* in the Project items
    found,      \* managed issues listed so far
    doubled,    \* numbers of those listed twice
    others,     \* unmanaged issues listed so far
    items,      \* issues seen to be in the Project
    wanted,     \* issues still to be asked about
    links,      \* the dependencies read, of each issue
    more,       \* issues of the last batch with a further page of them
    planned,    \* the snapshot the reviewed plan was built from
    todo,       \* ids still to be created
    typed,      \* the create request names the issue type
    waited,     \* seconds of the budget used by this process
    attempt,    \* retries of the present request
    ran,        \* history: GitHub did some of the present request's work
    always,     \* history: what has held since each read began
    ever,       \* history: what held at some moment of the present read
    shifted,    \* history: reads that saw an issue vanish from, or join, the list
    events

reading == <<page, cursor, found, doubled, others, items, wanted, links, more>>
writing == <<planned, todo, typed>>
budget == <<waited, attempt, ran>>
history == <<always, ever, shifted>>
vars == <<github, pc, round, reading, writing, budget, history, events>>

Terminal == {"refused", "failed", "completed"}

-----------------------------------------------------------------------------
(* GitHub.  The issue list is newest first; the list of Project items may   *)
(* lag behind an issue's own membership (snapshot.py 373-377).              *)

(* The kth page of it. *)
ListPage(g, k) ==
    {n \in g.issues : Cardinality({m \in g.issues : m > n}) \div PageSize = k - 1}
Marked(g) == {n \in g.issues \ PullRequest : g.marker[n] # None}

(* What holds of each issue, for comparison with what a read reports. *)
Facts(g) ==
    {<<"marked", n, g.marker[n]>> : n \in Marked(g)}
    \cup {<<"member", n, n \in g.member>> : n \in g.issues}
    \cup UNION {{<<"linked", n, d>> : d \in g.deps[n] \cap g.issues} : n \in g.issues}

WithIssue(g, id) ==
    [g EXCEPT !.issues = @ \cup {g.next}, !.marker[g.next] = id, !.next = @ + 1]

(* The waits of a process never add up to more than its budget. *)
WithinBudget == waited <= MaxTotalWait

TypeOK ==
    /\ WellFormed(github)
    /\ pc \in {"list", "items", "membership", "relations", "links", "review", "create"}
              \cup Terminal
    /\ round \in {1, 2} /\ page \in Nat \ {0}
    /\ doubled \subseteq {f.number : f \in found}
    /\ more \subseteq DOMAIN links
    /\ todo \subseteq Id
    /\ waited \in Nat /\ WithinBudget /\ attempt \in 0..(MaxAttempts - 1)
    /\ ran \in BOOLEAN
    /\ events \in 0..MaxEvents

(* A reader that has asked for nothing yet. *)
ReadFromTheStart ==
    /\ pc' = "list" /\ page' = 1 /\ cursor' = 0
    /\ found' = {} /\ doubled' = {} /\ others' = 0 /\ items' = {}
    /\ wanted' = {} /\ links' = <<>> /\ more' = {}

Init ==
    /\ github \in InitGitHub
    /\ pc = "list" /\ round = 1 /\ page = 1 /\ cursor = 0
    /\ found = {} /\ doubled = {} /\ others = 0 /\ items = {}
    /\ wanted = {} /\ links = <<>> /\ more = {}
    /\ planned = None /\ todo = {} /\ typed = TRUE
    /\ waited = 0 /\ attempt = 0 /\ ran = FALSE
    /\ always = [r \in {1, 2} |-> Facts(github)]
    /\ ever = Facts(github) /\ shifted = {}
    /\ events = 0

-----------------------------------------------------------------------------
(* The requests of GitHubSnapshotReader.read, each answered in one step.    *)

(* The answer arrived: the next request starts with its first attempt. *)
Answered ==
    /\ attempt' = 0 /\ ran' = FALSE
    /\ UNCHANGED <<github, round, writing, waited, history, events>>

FirstOf(S, n) == {x \in S : Cardinality({y \in S : y < x}) < n}
ManagedNumbers == {f.number : f \in found}

(* Faulty: the first page is taken for the whole list. *)
ListFirstPage ==
    /\ pc = "list"
    /\ LET batch == ListPage(github, page)
           managed == batch \cap Marked(github)
       IN  /\ found' = found \cup {[number |-> n, marker |-> github.marker[n]] : n \in managed}
           /\ doubled' = doubled \cup (managed \cap ManagedNumbers)
           /\ others' = others + Cardinality((batch \ managed) \ PullRequest)
    /\ pc' = "items"
    /\ UNCHANGED <<page, cursor, items, wanted, links, more>>
    /\ Answered

(* _list_issues: pages by offset, until one is not full. *)
ListIssues ==
    /\ pc = "list"
    /\ LET batch == ListPage(github, page)
           managed == batch \cap Marked(github)
       IN  /\ found' = found \cup {[number |-> n, marker |-> github.marker[n]] : n \in managed}
           /\ doubled' = doubled \cup (managed \cap ManagedNumbers)
           /\ others' = others + Cardinality((batch \ managed) \ PullRequest)
           /\ IF Cardinality(batch) < PageSize
              THEN pc' = "items" /\ UNCHANGED page
              ELSE page' = page + 1 /\ UNCHANGED pc
    /\ UNCHANGED <<cursor, items, wanted, links, more>>
    /\ Answered

(* Faulty: an issue the item list left out is taken to be outside. *)
ProjectItemsAlone ==
    /\ pc = "items"
    /\ LET after == {n \in github.listed : n > cursor}
           batch == FirstOf(after, PageSize)
       IN  /\ items' = items \cup batch
           /\ IF batch # after
              THEN cursor' = Max(batch) /\ UNCHANGED <<pc, wanted>>
              ELSE pc' = "relations" /\ wanted' = ManagedNumbers /\ UNCHANGED cursor
    /\ UNCHANGED <<page, found, doubled, others, links, more>>
    /\ Answered

(* _project_items: pages by cursor.  Managed issues it left out are asked   *)
(* themselves.                                                              *)
ProjectItems ==
    /\ pc = "items"
    /\ LET after == {n \in github.listed : n > cursor}
           batch == FirstOf(after, PageSize)
           missing == ManagedNumbers \ (items \cup batch)
       IN  /\ items' = items \cup batch
           /\ IF batch # after
              THEN cursor' = Max(batch) /\ UNCHANGED <<pc, wanted>>
              ELSE /\ pc' = IF missing = {} THEN "relations" ELSE "membership"
                   /\ wanted' = IF missing = {} THEN ManagedNumbers ELSE missing
                   /\ UNCHANGED cursor
    /\ UNCHANGED <<page, found, doubled, others, links, more>>
    /\ Answered

(* _membership_from_issues: a batch of them; a vanished one answers nothing.*)
MembershipFromIssues ==
    /\ pc = "membership"
    /\ LET batch == FirstOf(wanted, BatchSize)
           rest == wanted \ batch
       IN  /\ items' = items \cup (batch \cap github.member)
           /\ pc' = IF rest = {} THEN "relations" ELSE pc
           /\ wanted' = IF rest = {} THEN ManagedNumbers ELSE rest
    /\ UNCHANGED <<page, cursor, found, doubled, others, links, more>>
    /\ Answered

(* A page of an issue's dependencies, each with the marker its body holds   *)
(* at that moment; whether there is another.                                *)
LinksAfter(n, last) ==
    {d \in IF n \in github.issues THEN github.deps[n] \cap github.issues ELSE {} : d > last}
AsRead(ns) ==
    {[number |-> d, marker |-> IF d \in Marked(github) THEN github.marker[d] ELSE None] : d \in ns}

(* _relationships: a batch of issues.  One that vanished since it was       *)
(* listed fails the read.                                                   *)
Relationships ==
    /\ pc = "relations" /\ wanted # {}
    /\ LET batch == FirstOf(wanted, BatchSize)
       IN  IF batch \subseteq github.issues
           THEN /\ links' = [n \in DOMAIN links \cup batch |->
                               IF n \in batch
                               THEN AsRead(FirstOf(LinksAfter(n, 0), LinkPageSize))
                               ELSE links[n]]
                /\ more' = {n \in batch : Cardinality(LinksAfter(n, 0)) > LinkPageSize}
                /\ wanted' = wanted \ batch
                /\ pc' = IF more' = {} THEN pc ELSE "links"
           ELSE pc' = "failed" /\ UNCHANGED <<links, more, wanted>>
    /\ UNCHANGED <<page, cursor, found, doubled, others, items>>
    /\ Answered

(* Faulty: an issue paged through is asked for with the next batch. *)
RemainingBlockedByAgain ==
    /\ pc = "links"
    /\ LET n == Min(more)
           last == Max({l.number : l \in links[n]})
           batch == FirstOf(LinksAfter(n, last), LinkPageSize)
       IN  /\ links' = [links EXCEPT ![n] = @ \cup AsRead(batch)]
           /\ more' = IF batch = LinksAfter(n, last) THEN more \ {n} ELSE more
           /\ pc' = IF more' = {} THEN "relations" ELSE pc
    /\ wanted' = wanted \cup (more \ more')
    /\ UNCHANGED <<page, cursor, found, doubled, others, items>>
    /\ Answered

(* _remaining_blocked_by: one issue after another, by cursor. *)
RemainingBlockedBy ==
    /\ pc = "links"
    /\ LET n == Min(more)
           last == Max({l.number : l \in links[n]})
           batch == FirstOf(LinksAfter(n, last), LinkPageSize)
       IN  /\ links' = [links EXCEPT ![n] = @ \cup AsRead(batch)]
           /\ more' = IF batch = LinksAfter(n, last) THEN more \ {n} ELSE more
           /\ pc' = IF more' = {} THEN "relations" ELSE pc
    /\ UNCHANGED <<page, cursor, found, doubled, others, items, wanted>>
    /\ Answered

-----------------------------------------------------------------------------
(* What is made of a read: a plan to review, or the check that nothing has  *)
(* changed since.                                                           *)

Snapshot ==
    [entries |-> {[number |-> f.number, marker |-> f.marker,
                   member |-> f.number \in items,
                   deps |-> {l.marker : l \in links[f.number]} \ {None}] : f \in found},
     doubled |-> doubled, others |-> others]

(* _normalize_remote: an id found twice is refused. *)
Plannable ==
    /\ doubled = {}
    /\ \A f, g \in found : f.marker = g.marker => f = g

WholeReadDone == pc = "relations" /\ wanted = {} /\ more = {}

(* Faulty: only the first read is planned from, the second not compared. *)
FinishReadUncompared ==
    /\ WholeReadDone
    /\ planned' = IF round = 1 THEN Snapshot ELSE planned
    /\ todo' = IF round = 2 THEN Id \ {e.marker : e \in planned.entries} ELSE todo
    /\ pc' = IF round = 2 THEN "create" ELSE IF Plannable THEN "review" ELSE "refused"
    /\ UNCHANGED <<github, round, reading, typed, budget, history, events>>

(* build_sync_plan from the snapshot; in sync-apply the rebuild, which must *)
(* have the reviewed digest, and so the reviewed snapshot.                  *)
FinishRead ==
    /\ WholeReadDone
    /\ IF round = 1
       THEN /\ planned' = Snapshot
            /\ pc' = IF Plannable THEN "review" ELSE "refused"
            /\ UNCHANGED todo
       ELSE /\ pc' = IF Plannable /\ Snapshot = planned THEN "create" ELSE "refused"
            /\ todo' = Id \ {f.marker : f \in found}
            /\ UNCHANGED planned
    /\ UNCHANGED <<github, round, reading, typed, budget, history, events>>

(* The plan is confirmed; sync-apply is a new process with a new budget. *)
Refresh ==
    /\ pc = "review"
    /\ round' = 2 /\ ReadFromTheStart
    /\ waited' = 0
    /\ always' = [always EXCEPT ![2] = Facts(github)]
    /\ ever' = Facts(github)
    /\ UNCHANGED <<github, writing, attempt, ran, shifted, events>>

(* GitHub becomes g. *)
Becomes(g) ==
    /\ github' = g
    /\ always' = [r \in {1, 2} |-> always[r] \cap Facts(g)]
    /\ ever' = ever \cup Facts(g)

Created == CHOOSE id \in todo : TRUE

(* create_issue, one item after the other. *)
CreateIssue ==
    /\ pc = "create" /\ todo # {}
    /\ Becomes(WithIssue(github, Created))
    /\ todo' = todo \ {Created} /\ typed' = TRUE
    /\ attempt' = 0 /\ ran' = FALSE
    /\ UNCHANGED <<pc, round, reading, planned, waited, shifted, events>>

Complete ==
    /\ pc = "create" /\ todo = {}
    /\ pc' = "completed"
    /\ UNCHANGED <<github, round, reading, writing, budget, history, events>>

-----------------------------------------------------------------------------
(* A request that does not succeed.                                         *)

Requesting ==
    \/ pc \in {"list", "items", "membership", "links"}
    \/ pc = "relations" /\ wanted # {}
    \/ pc = "create" /\ todo # {}

(* Only GraphQL, which the listing and the creation are not, fails with 200.*)
Fails(x) ==
    /\ Requesting
    /\ ~Succeeded(x)
    /\ x.status = 200 => pc \notin {"list", "create"}

(* What it did at GitHub all the same. *)
Outcome(x) ==
    IF pc = "create" /\ x.ran
    THEN Becomes(WithIssue(github, Created)) /\ UNCHANGED shifted
    ELSE UNCHANGED <<github, history>>

Resend(x) ==
    /\ Fails(x)
    /\ SentAgain(x, attempt, waited)
    /\ Outcome(x)
    /\ waited' = waited + WaitFor(x, attempt)
    /\ attempt' = attempt + 1 /\ ran' = (ran \/ x.ran)
    /\ UNCHANGED <<pc, round, reading, writing, events>>

(* native_or_label: a type the repository does not know becomes a label. *)
LabelsInstead(x) == pc = "create" /\ typed /\ ErrorStatus(x) = 422

FallBack(x) ==
    /\ Fails(x)
    /\ LabelsInstead(x)
    /\ Outcome(x)
    /\ typed' = FALSE
    /\ attempt' = 0 /\ ran' = (ran \/ x.ran)
    /\ UNCHANGED <<pc, round, reading, planned, todo, waited, events>>

(* The error is raised through the reader or the executor. *)
GiveUp(x) ==
    /\ Fails(x)
    /\ ~SentAgain(x, attempt, waited) /\ ~LabelsInstead(x)
    /\ Outcome(x)
    /\ pc' = "failed"
    /\ UNCHANGED <<round, reading, writing, budget, events>>

-----------------------------------------------------------------------------
(* Everybody else, at any moment.                                           *)

Shifts(kind) == IF pc = "list" THEN shifted \cup {<<round, kind>>} ELSE shifted

Change(g, shift) ==
    /\ pc \notin Terminal
    /\ events < MaxEvents
    /\ events' = events + 1
    /\ Becomes(g) /\ shifted' = shift
    /\ UNCHANGED <<pc, round, reading, writing, budget>>

(* An issue is opened, by a person or by another copy of the tool ... *)
Open == \E id \in Id \cup {None} : Change(WithIssue(github, id), Shifts("new"))

(* ... deleted or transferred ... *)
Vanish ==
    \E n \in github.issues :
        Change([github EXCEPT !.issues = @ \ {n}, !.member = @ \ {n}, !.listed = @ \ {n}],
               Shifts("gone"))

(* ... adopted, put into the Project, or linked. *)
Mark ==
    \E n \in github.issues \ PullRequest, id \in Id :
        /\ github.marker[n] = None
        /\ Change([github EXCEPT !.marker[n] = id], shifted)
Join ==
    \E n \in github.issues \ github.member :
        Change([github EXCEPT !.member = @ \cup {n}], shifted)
Relink ==
    \E n \in Marked(github), d \in github.issues \ PullRequest :
        /\ n # d
        /\ Change([github EXCEPT !.deps[n] = IF d \in @ THEN @ \ {d} ELSE @ \cup {d}], shifted)

(* The list of items shows what was put into the Project before. *)
CatchUp ==
    /\ pc \notin Terminal
    /\ \E n \in github.member \ github.listed : github' = [github EXCEPT !.listed = @ \cup {n}]
    /\ UNCHANGED <<pc, round, reading, writing, budget, history, events>>

-----------------------------------------------------------------------------
Requests == ListIssues \/ ProjectItems \/ MembershipFromIssues \/ Relationships
            \/ RemainingBlockedBy \/ CreateIssue
Failures == \E x \in Response : Resend(x) \/ FallBack(x) \/ GiveUp(x)
Proceed == Requests \/ Failures \/ FinishRead \/ Complete
Others == Open \/ Vanish \/ Mark \/ Join \/ Relink \/ CatchUp

Next == Proceed \/ Refresh \/ Others

Spec == Init /\ [][Next]_vars

(* A request gets an answer or runs into its timeout; a wait is a sleep.    *)
(* Nobody has to confirm a plan, and nobody else has to do anything.        *)
FairSpec == Spec /\ WF_vars(Proceed)

-----------------------------------------------------------------------------
(* Every single thing a snapshot says was true at some moment of the read,  *)
(* also when the list of Project items lags: nobody is told an issue is     *)
(* outside the Project that was inside all along.                           *)
EveryPartWasTrue ==
    WholeReadDone =>
        \A f \in found :
            /\ <<"marked", f.number, f.marker>> \in ever
            /\ <<"member", f.number, f.number \in items>> \in ever
            /\ \A l \in links[f.number] :
                 /\ <<"linked", f.number, l.number>> \in ever
                 /\ l.marker # None => <<"marked", l.number, l.marker>> \in ever

(* A read leaves out nothing that held throughout it, unless an issue       *)
(* vanished while the list was paged by offset; and it lists an issue twice *)
(* only when one was opened meanwhile.                                      *)
TornOnlyWhereItShifts ==
    WholeReadDone =>
        /\ \A fact \in always[round] : fact[1] = "marked" =>
              \/ [number |-> fact[2], marker |-> fact[3]] \in found
              \/ <<round, "gone">> \in shifted
        /\ \A fact \in always[round] : fact[1] = "linked" /\ fact[2] \in ManagedNumbers =>
              \E l \in links[fact[2]] : l.number = fact[3]
        /\ doubled # {} => <<round, "new">> \in shifted

(* The apply creates no second issue for an id some issue has carried since *)
(* a read began, unless that very read was torn: with two reads that must   *)
(* agree, both have to be torn for a duplicate of an old issue.             *)
NoUntornDuplicate ==
    [][ \A r \in {1, 2}, n \in Number :
          /\ todo' # todo /\ todo # {}
          /\ <<"marked", n, Created>> \in always[r]
          => <<r, "gone">> \in shifted ]_vars

(* No request is sent again of which GitHub may have done some work. *)
ResentOnlyIfNothingRan == ~ran

(* Reading and applying come to an end, whatever GitHub answers and however *)
(* often: pages run out, and so do attempts and the budget.                 *)
Ends == []<>(pc \in Terminal \cup {"review"})
=============================================================================
