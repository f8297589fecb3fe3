----------------------------- MODULE RateLimit -----------------------------
(***************************************************************************)
(* How a request fails, and when it is sent again: what the two transports *)
(* make of GitHub's response, which failures are rate-limit refusals, and  *)
(* the wait budget all requests of a run share.                            *)
(*                                                                         *)
(* A response is what really happened at GitHub: ran says whether any of   *)
(* the request's work was done, which the caller is never told.            *)
(***************************************************************************)
EXTENDS Integers

CONSTANTS
    Route,              \* "api" or "gh"
    Response,           \* what may become of a request
    None,
    MaxTotalWait,       \* DEFAULT_RATE_LIMIT_WAIT_BUDGET, seconds
    MaxAttempts,        \* DEFAULT_RATE_LIMIT_ATTEMPTS
    SecondaryWait       \* SECONDARY_RATE_LIMIT_WAIT

(* status 0 is no answer at all; named: gh's diagnostic carries the status; *)
(* says: the message speaks of a rate limit; noneLeft, untilReset,          *)
(* retryAfter: the headers; errors, data: the two parts of a GraphQL answer.*)
ResponseShape ==
    [status : Nat, ran : BOOLEAN, named : BOOLEAN, says : BOOLEAN,
     noneLeft : BOOLEAN, retryAfter : Nat \cup {None},
     untilReset : Int \cup {None},
     errors : SUBSET {"RATE_LIMITED", "OTHER"}, data : BOOLEAN]

(* GitHub does no work before it answers so (github.py 141; a 422 is a      *)
(* request it would not take).                                              *)
Refusal(x) ==
    \/ x.status \in {403, 422, 429}
    \/ x.errors = {"RATE_LIMITED"} /\ ~x.data

ASSUME RouteType == Route \in {"api", "gh"}
ASSUME ResponseType == Response \subseteq ResponseShape
ASSUME RefusedBeforeWork == \A x \in Response : Refusal(x) => ~x.ran
ASSUME WaitBounds ==
    /\ MaxTotalWait \in Nat /\ MaxAttempts \in Nat \ {0} /\ SecondaryWait \in Nat
ASSUME NoneIsNoNumber == None \notin Int

Succeeded(x) == x.status \in 200..299 /\ x.errors = {} /\ x.data

(* Faulty: data that came with the errors is not looked at. *)
GraphqlRefusedInPart(x) == x.errors = {"RATE_LIMITED"}

(* _graphql_data: an error next to data, or of another kind, is no refusal. *)
GraphqlRefused(x) == x.errors = {"RATE_LIMITED"} /\ ~x.data

(* The status of the GitHubApiError each route raises.  gh exits 1 whatever *)
(* went wrong: the status comes from its diagnostic (a 404 never does), and *)
(* from the included header for the two that can mean a rate limit.         *)
ErrorStatus(x) ==
    IF Route = "api" THEN x.status
    ELSE IF x.named /\ x.status \notin {0, 404} THEN x.status
    ELSE IF x.status \in {403, 429} THEN x.status
    ELSE 1

(* is_rate_limited: a 403 is one only when GitHub says so. *)
IsRateLimited(x) ==
    \/ GraphqlRefused(x)
    \/ ErrorStatus(x) = 429
    \/ ErrorStatus(x) = 403 /\ (x.noneLeft \/ x.says)

AtLeast(low, n) == IF n < low THEN low ELSE n

(* rate_limit_wait: what GitHub asks for, in order of precedence. *)
WaitFor(x, attempt) ==
    IF x.retryAfter # None THEN AtLeast(1, x.retryAfter)
    ELSE IF x.noneLeft /\ x.untilReset # None THEN AtLeast(0, x.untilReset) + 1
    ELSE SecondaryWait * 2^attempt

(* Faulty: the budget is per request, or checked before the wait is added. *)
SentAgainIfBudgetLeft(x, attempt, waited) ==
    /\ IsRateLimited(x)
    /\ attempt + 1 < MaxAttempts
    /\ waited < MaxTotalWait

(* RateLimitBudget.call: a refused request is sent again after the wait,    *)
(* unless it was the last attempt or the wait would overrun the budget.     *)
SentAgain(x, attempt, waited) ==
    /\ IsRateLimited(x)
    /\ attempt + 1 < MaxAttempts
    /\ waited + WaitFor(x, attempt) <= MaxTotalWait
=============================================================================
