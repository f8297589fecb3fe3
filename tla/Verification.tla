---------------------------- MODULE Verification ----------------------------
(***************************************************************************)
(* verify_sync_apply: after a whole plan has been applied, sync-apply      *)
(* reads GitHub again, plans again, and decides what a remaining action    *)
(* means.  GitHub answers reads from a view that trails its own writes,    *)
(* field by field; an action that asks again for what the apply wrote is   *)
(* lag and is waited for, any other is drift.                              *)
(*                                                                         *)
(* The apply is one step here (SyncApply has its interleavings); what      *)
(* varies is the order in which its writes become visible, and one person  *)
(* who may edit GitHub meanwhile.                                          *)
(***************************************************************************)
EXTENDS SyncPlanner

CONSTANT Case       \* the runs looked at: what each is given, and the state
                    \* of GitHub when its plan is reviewed

ASSUME CasesAreRuns ==
    \A c \in Case :
        /\ {"manifest", "remote", "opts", "window", "edits"} \subseteq DOMAIN c
        /\ c.window \in Nat      \* --verify-window, in seconds
        /\ c.edits \in Nat       \* edits people make after the apply

VARIABLES
    job,        \* the run: its case, and its plan
    remote,     \* GitHub
    seen,       \* GitHub as reads see it
    pc,         \* "planned", "read", "sleep", or the outcome
    delays,     \* waits left
    slept,      \* seconds waited
    edits       \* edits people have made

vars == <<job, remote, seen, pc, delays, slept, edits>>

Outcome == {"converged", "drift", "raised"}

-----------------------------------------------------------------------------
(* verify_delays: 2, 4, 8, ... cut so that they add up to the window. *)
VerifyDelays(window) ==
    LET delaysFrom[remaining \in 0..window, delay \in Nat \ {0}] ==
          IF remaining = 0 THEN <<>>
          ELSE LET step == Min({delay, remaining})
               IN  <<step>> \o delaysFrom[remaining - step, 2 * delay]
    IN  delaysFrom[window, 2]

(* Faulty: kinds are not grouped. *)
KindAlone(kind) == kind

(* A write can surface as a different action on the same item. *)
KindGroup(kind) ==
    CASE kind \in {"issue.create", "issue.update"} -> "issue"
      [] kind \in {"project.add_item", "project.set_fields", "project.transition"} -> "project"
      [] OTHER -> kind

WriteKey(a) ==
    IF "to" \in DOMAIN a.arg
    THEN <<KindGroup(a.kind), a.item, a.arg.to>>
    ELSE <<KindGroup(a.kind), a.item>>

WrittenValues(a) ==
    IF KindGroup(a.kind) = "project" THEN a.arg.fields
    ELSE IF KindGroup(a.kind) = "issue" THEN a.arg.text ELSE <<>>

(* Everything a plan writes under one key, later actions winning. *)
Written(plan, key) ==
    FoldLeft(LAMBDA values, a : WrittenValues(a) @@ values, <<>>,
             SelectSeq(plan, LAMBDA a : WriteKey(a) = key))

IsLag(a, plan) ==
    /\ \E k \in 1..Len(plan) : WriteKey(plan[k]) = WriteKey(a)
    /\ LET asked == WrittenValues(a)
           wrote == Written(plan, WriteKey(a))
       IN  \A f \in DOMAIN asked : f \in DOMAIN wrote /\ wrote[f] = asked[f]

-----------------------------------------------------------------------------
Plan == job.plan
Replan(r) == SyncPlanOf(job.manifest, r, job.opts)
Drift(residual) == {k \in 1..Len(residual) : ~IsLag(residual[k], Plan)}

(* The state every mutation of a plan leaves, nobody interfering. *)
Applied(plan, r) ==
    FoldLeft(LAMBDA s, w : GitHubEffect(w, s), r,
             FlattenSeq([k \in 1..Len(plan) |-> SyncWrites(plan[k])]))

Init ==
    \E c \in Case :
        /\ SyncPlannable(c.manifest, c.remote, c.opts)
        /\ job = [manifest |-> c.manifest, opts |-> c.opts, window |-> c.window,
                  edits |-> c.edits, plan |-> SyncPlanOf(c.manifest, c.remote, c.opts)]
        /\ remote = c.remote /\ seen = c.remote
        /\ pc = "planned" /\ delays = VerifyDelays(c.window)
        /\ slept = 0 /\ edits = 0

Apply ==
    /\ pc = "planned"
    /\ remote' = Applied(Plan, remote)
    /\ pc' = "read"
    /\ UNCHANGED <<job, seen, delays, slept, edits>>

Conclude(next) ==
    /\ pc = "read" /\ pc' = next
    /\ UNCHANGED <<job, remote, seen, delays, slept, edits>>

(* The read is planned with the options of the plan, its overwrites too. *)
Raise ==
    ~SyncPlannable(job.manifest, seen, job.opts) /\ Conclude("raised")

(* Faulty: what the apply did not write is ignored. *)
ReadOwnWritesOnly ==
    /\ SyncPlannable(job.manifest, seen, job.opts)
    /\ LET residual == SelectSeq(Replan(seen), LAMBDA a : IsLag(a, Plan))
       IN  \/ residual = <<>> /\ Conclude("converged")
           \/ residual # <<>> /\ delays = <<>> /\ Conclude("drift")
           \/ residual # <<>> /\ delays # <<>> /\ Conclude("sleep")

Read ==
    /\ SyncPlannable(job.manifest, seen, job.opts)
    /\ LET residual == Replan(seen)
           spent == Drift(residual) # {} \/ delays = <<>>
       IN  \/ residual = <<>> /\ Conclude("converged")
           \/ residual # <<>> /\ spent /\ Conclude("drift")
           \/ residual # <<>> /\ ~spent /\ Conclude("sleep")

(* Faulty: the delay slept is not taken off the list. *)
WakeKeepingDelay ==
    /\ pc = "sleep" /\ pc' = "read"
    /\ UNCHANGED <<job, remote, seen, delays, slept, edits>>

Wake ==
    /\ pc = "sleep" /\ pc' = "read"
    /\ slept' = slept + Head(delays) /\ delays' = Tail(delays)
    /\ UNCHANGED <<job, remote, seen, edits>>

(* One part of one issue catches up.  A new issue appears with its text    *)
(* and outside the Project; an issue appears in the Project by itself, its *)
(* fields before or after it.                                              *)
Parts(i) == {f \in DOMAIN remote[i] : f \in DOMAIN seen[i] => seen[i][f] # remote[i][f]}
Propagate ==
    /\ pc \in {"read", "sleep"}
    /\ \E i \in Item :
         \/ /\ Missing(seen, i) /\ ~Missing(remote, i)
            /\ seen' = [seen EXCEPT ![i] = NewIssue(remote[i].text)]
         \/ /\ ~Missing(seen, i)
            /\ \E f \in Parts(i) : seen' = [seen EXCEPT ![i][f] = remote[i][f]]
    /\ UNCHANGED <<job, remote, pc, delays, slept, edits>>

Person ==
    /\ pc \in {"read", "sleep"} /\ edits < job.edits
    /\ remote' \in PersonEdit(remote) \ {remote}
    /\ edits' = edits + 1
    /\ UNCHANGED <<job, seen, pc, delays, slept>>

Next == Apply \/ Raise \/ Read \/ Wake \/ Propagate \/ Person

Spec == Init /\ [][Next]_vars

(* The command runs on; GitHub owes no propagation and people no edit.     *)
(* The steps of the command are those that change pc, and before an        *)
(* outcome one of them is always possible.                                 *)
Proceed == pc \notin Outcome /\ pc' \in ({"read", "sleep"} \cup Outcome) \ {pc}
FairSpec == Spec /\ WF_pc(Proceed)

-----------------------------------------------------------------------------
TypeOK ==
    /\ pc \in {"planned", "read", "sleep"} \cup Outcome
    /\ delays \in Seq(Nat \ {0}) /\ slept \in 0..job.window
    /\ edits \in 0..job.edits
    /\ DOMAIN remote = Item /\ DOMAIN seen = Item

ClosesParent == \E k \in 1..Len(Plan) : Plan[k].kind = "issue.close_parent"

(* A trailing read never makes an unfinished reconciliation pass: when     *)
(* verification reports convergence and nobody has edited GitHub, GitHub   *)
(* itself has nothing left to plan, although the read that decided it may  *)
(* still be showing old values (verification.py 150-161).                  *)
ConvergedIsTrue ==
    pc = "converged" /\ edits = 0 => Replan(remote) = <<>>

(* The state is well formed and convergence is never claimed wrongly. *)
Inv == TypeOK /\ ConvergedIsTrue

(* Lag is never called drift before the window is spent, provided the plan *)
(* closed no parent: the values of half-visible issues, memberships and    *)
(* fields are always recognised as the apply's own (architecture.md 45-50).*)
LagIsWaitedFor ==
    pc = "drift" /\ edits = 0 /\ ~ClosesParent => slept = job.window /\ delays = <<>>

(* Every planned option set that was accepted once is accepted again: a    *)
(* verification nobody disturbs gives a verdict and never raises           *)
(* (architecture.md 50-51: "The receipt's `verification` block records the *)
(* outcome").                                                              *)
NeverRaises == edits = 0 => pc # "raised"

(* What an undisturbed apply leaves to plan is only ever the closure its   *)
(* own closures made possible: with no newly completed parent nothing is   *)
(* left (architecture.md item 9: "a successful reconciliation has zero     *)
(* remaining actions"; quickstart.md 242-245 names the exception).  A      *)
(* parent the plan closes and also adds to the Project, or is asked to     *)
(* transition, is left out.                                                *)
ClosedAndMoved ==
    \E k \in 1..Len(Plan) :
        /\ Plan[k].kind = "issue.close_parent"
        /\ \/ Plan[k].item \in DOMAIN job.opts.transitions
           \/ \E j \in 1..Len(Plan) : /\ Plan[j].kind = "project.add_item"
                                       /\ Plan[j].item = Plan[k].item
RemainderIsNextClosure ==
    pc = "read" /\ edits = 0 /\ ~ClosedAndMoved
        => Replan(remote) = <<>> \/ CompletedParents(job.manifest, remote) # {}

(* Verification gives a verdict however long GitHub lags. *)
Decides == <>(pc \in Outcome)
=============================================================================
