--------------------------- MODULE MCVerification ---------------------------
(* A chain of items, 1 the parent of 2 and 2 the parent of 3, of which a   *)
(* manifest holds the first two or all three.                              *)
EXTENDS Verification

CONSTANTS title1, title2, prose1, noGuid

TextOf(t) == [title |-> t, body |-> [prose |-> prose1, guid |-> noGuid]]
Entry(t, parent, deps) ==
    [text |-> TextOf(t), impact |-> 1, parent |-> parent, deps |-> deps, status |-> "Ready"]

Pair == (1 :> Entry(title1, NoItem, {})) @@ (2 :> Entry(title1, 1, {1}))
Turned == (1 :> Entry(title2, NoItem, {2})) @@ (2 :> Entry(title1, NoItem, {}))
Chain == (1 :> Entry(title1, NoItem, {})) @@ (2 :> Entry(title1, 1, {}))
         @@ (3 :> Entry(title1, 2, {}))

InStep(m) ==
    [i \in Item |->
       IF i \notin DOMAIN m THEN NoIssue
       ELSE [copies |-> 1, text |-> FreshIssue(m[i].text), open |-> TRUE, member |-> TRUE,
             status |-> "Ready", impact |-> 1,
             priority |-> Scores(m, [j \in DOMAIN m |-> "Ready"])[i],
             parent |-> m[i].parent, deps |-> m[i].deps]]
Empty == [i \in Item |-> NoIssue]
Finished(r, i) == [r EXCEPT ![i].open = FALSE, ![i].status = "Done"]
NotMember(x) == [x EXCEPT !.member = FALSE, !.status = Unset, !.impact = 0, !.priority = 0]
Outside(r, i) == [r EXCEPT ![i] = NotMember(@)]

Plain == [manage |-> TRUE, transitions |-> <<>>, overwrite |-> {}]
Finish2 == [Plain EXCEPT !.transitions = (2 :> "Done")]
Overwrite1 == [Plain EXCEPT !.overwrite = {1}]

Cases(manifests, remotes, opts, windows, most) ==
    [manifest : manifests, remote : remotes, opts : opts, window : windows, edits : {most}]

ChildDone == Finished(InStep(Pair), 2)
Starts == {Empty, InStep(Pair), Outside(InStep(Pair), 1), ChildDone, Outside(ChildDone, 1)}

(* Any items closed, marked Done if in the Project, and any outside it. *)
ChainStarts ==
    {[i \in Item |->
        LET x == InStep(Chain)[i]
            y == [x EXCEPT !.open = i \notin closed,
                           !.status = IF i \in closed THEN "Done" ELSE @]
        IN  IF i \in outside THEN NotMember(y) ELSE y]
     : closed \in SUBSET Item, outside \in SUBSET {1, 2}}

(* Two items, nobody interfering; one person's edit; a chain of three. *)
PairCases == Cases({Pair, Turned}, Starts, {Plain, Finish2}, {0, 5}, 0)
EditCases == Cases({Pair}, {InStep(Pair), ChildDone}, {Plain, Finish2}, {0, 5}, 1)
ChainCases == Cases({Chain}, ChainStarts, {Plain}, {5}, 0)
AllCases == PairCases \cup EditCases \cup ChainCases

OverwriteCase ==
    Cases({Pair}, {[InStep(Pair) EXCEPT ![1].text.title = title2]}, {Overwrite1}, {5}, 0)
=============================================================================
