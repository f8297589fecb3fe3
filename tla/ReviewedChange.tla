--------------------------- MODULE ReviewedChange ---------------------------
(***************************************************************************)
(* What a reviewed apply promises, whatever its files, journals, retries   *)
(* and crashes: GitHub changes by a person's edit, or by the next mutation *)
(* of a grant.  A grant is one plan, given to a job once, that is the      *)
(* planner's answer to the GitHub the job has seen, and that a person      *)
(* consented to or that needs no consent.                                  *)
(***************************************************************************)
EXTENDS Naturals, Sequences

CONSTANTS
    Run,                \* the jobs
    None,
    NeedsNoConsent(_),  \* of the actions of a plan
    Plannable(_, _, _), PlanOf(_, _, _), Writes(_), Accepts(_, _), Effect(_, _),
    HumanEdit(_), InitRemote

VARIABLES
    remote,     \* GitHub
    confirmed,  \* the plan a person consented to last
    consent,    \* the consent each job was started with, or None
    seen,       \* the GitHub each job has seen
    granted,    \* job -> the plan granted to it, as a set of at most one
    landed      \* job -> the <<action, mutation>> indices that reached GitHub

vars == <<remote, confirmed, consent, seen, granted, landed>>

Init ==
    /\ remote \in InitRemote
    /\ confirmed = None
    /\ consent = [r \in Run |-> None]
    /\ seen = [r \in Run |-> None]
    /\ granted = [r \in Run |-> {}]
    /\ landed = [r \in Run |-> {}]

(* A person consents to something, or edits GitHub. *)
Consent == UNCHANGED <<remote, consent, seen, granted, landed>>
Edit ==
    /\ remote' \in HumanEdit(remote)
    /\ UNCHANGED <<confirmed, consent, seen, granted, landed>>

(* A job is started, with the person's consent or without, and nothing seen. *)
Ask(r) ==
    /\ granted[r] = {}
    /\ \E c \in {confirmed, None} : consent' = [consent EXCEPT ![r] = c]
    /\ seen' = [seen EXCEPT ![r] = None]
    /\ UNCHANGED <<remote, confirmed, granted, landed>>

See(r) ==
    /\ granted[r] = {}
    /\ seen' = [seen EXCEPT ![r] = remote]
    /\ UNCHANGED <<remote, confirmed, consent, granted, landed>>

Answers(p, state) ==
    /\ Plannable(p.manifest, state, p.opts)
    /\ p.remote = state
    /\ p.actions = PlanOf(p.manifest, state, p.opts)

Grant(r) ==
    /\ granted[r] = {}
    /\ \E p \in granted'[r] :
          /\ granted' = [granted EXCEPT ![r] = {p}]
          /\ Answers(p, seen[r])
          /\ consent[r] = p \/ (consent[r] = None /\ NeedsNoConsent(p.actions))
    /\ UNCHANGED <<remote, confirmed, consent, seen, landed>>

(* The mutations before the j-th of the k-th action. *)
Earlier(actions, k, j) ==
    (UNION {{a} \X (1..Len(Writes(actions[a]))) : a \in 1..(k - 1)}) \cup ({k} \X (1..(j - 1)))

Mutate(r) ==
    /\ \E p \in granted[r] : \E k \in 1..Len(p.actions) :
       \E j \in 1..Len(Writes(p.actions[k])) :
          LET w == Writes(p.actions[k])[j]
          IN  /\ landed[r] = Earlier(p.actions, k, j)
              /\ landed' = [landed EXCEPT ![r] = @ \cup {<<k, j>>}]
              /\ Accepts(w, remote)
              /\ remote' = Effect(w, remote)
    /\ UNCHANGED <<confirmed, consent, seen, granted>>

Next ==
    \/ Consent \/ Edit
    \/ \E r \in Run : Ask(r) \/ See(r) \/ Grant(r) \/ Mutate(r)

Spec == Init /\ [][Next]_vars
=============================================================================
