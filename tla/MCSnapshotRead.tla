--------------------------- MODULE MCSnapshotRead ---------------------------
(***************************************************************************)
(* Three issues, one to a page: two of them managed; or one, behind an     *)
(* unmanaged one and a pull request, so that two reads can be torn alike.  *)
(***************************************************************************)
EXTENDS SnapshotRead, TLC

CONSTANTS A, B

MCId == {A, B}

Issues(numbers, marker, member, listed, deps) ==
    [issues |-> numbers, next |-> 5, member |-> member, listed |-> listed,
     marker |-> [n \in Number |-> IF n \in DOMAIN marker THEN marker[n] ELSE None],
     deps |-> [n \in Number |-> IF n \in DOMAIN deps THEN deps[n] ELSE {}]]

(* Both items have their issue, the older depends on two others and is not  *)
(* yet listed in the Project; or one of them is still to be created.        *)
MCInitGitHub ==
    {Issues({1, 2, 3}, 1 :> A @@ 2 :> B, {1, 2}, {2}, 1 :> {2, 3}),
     Issues({2, 3, 4}, 2 :> B, {2}, {2}, 2 :> {3})}

Ordinary ==
    [status |-> 0, ran |-> FALSE, named |-> FALSE, says |-> FALSE, noneLeft |-> FALSE,
     retryAfter |-> None, untilReset |-> None, errors |-> {}, data |-> TRUE]

MCResponse ==
    {Ordinary,                                                      \* not sent
     [Ordinary EXCEPT !.ran = TRUE],                                \* answer lost
     [Ordinary EXCEPT !.status = 502, !.named = TRUE, !.ran = TRUE],
     [Ordinary EXCEPT !.status = 422, !.named = TRUE],
     [Ordinary EXCEPT !.status = 429, !.retryAfter = 200],
     [Ordinary EXCEPT !.status = 403, !.says = TRUE],               \* secondary limit
     [Ordinary EXCEPT !.status = 403, !.noneLeft = TRUE, !.untilReset = 99],
     [Ordinary EXCEPT !.status = 403, !.named = TRUE],              \* no permission
     [Ordinary EXCEPT !.status = 200, !.errors = {"RATE_LIMITED"}, !.data = FALSE],
     [Ordinary EXCEPT !.status = 200, !.errors = {"RATE_LIMITED"}, !.ran = TRUE],
     [Ordinary EXCEPT !.status = 200, !.errors = {"OTHER"}, !.data = FALSE]}
=============================================================================
