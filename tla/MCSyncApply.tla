---------------------------- MODULE MCSyncApply ----------------------------
(* Two items, 2 a child of 1, and two manifests: the second renames item 1 *)
(* and turns the dependency between them round.  GitHub starts empty,      *)
(* in step with the first manifest but for a Priority, or without the      *)
(* issue of item 1 and with that of item 2 closed.                         *)
EXTENDS SyncApply

CONSTANTS r1, r2, path1, path2, title1, title2, prose1, noGuid

TextOf(t) == [title |-> t, body |-> [prose |-> prose1, guid |-> noGuid]]

Entry(t, parent, deps) ==
    [text |-> TextOf(t), impact |-> 1, parent |-> parent, deps |-> deps, status |-> "Ready"]

M1 == (1 :> Entry(title1, NoItem, {})) @@ (2 :> Entry(title1, 1, {1}))
M2 == (1 :> Entry(title2, NoItem, {2})) @@ (2 :> Entry(title1, 1, {}))
M0 == 1 :> Entry(title1, NoItem, {})
M0Only == {M0}
MCManifest == {M1, M2}

Plain == [manage |-> TRUE, transitions |-> <<>>, overwrite |-> {}]
Finish2 == [Plain EXCEPT !.transitions = (2 :> "Done")]
PlainOpts == {Plain}
MCOpts == {Plain, Finish2}

Synced ==
    [i \in 1..2 |->
       [copies |-> 1, text |-> FreshIssue(M1[i].text), open |-> TRUE, member |-> TRUE,
        status |-> "Ready", impact |-> 1, priority |-> 1,
        parent |-> M1[i].parent, deps |-> M1[i].deps]]
Empty == [i \in Item |-> NoIssue]
ParentLost == [Synced EXCEPT ![1] = NoIssue, ![2].open = FALSE, ![2].parent = NoItem, ![2].deps = {}]
MCInitRemote == {Empty, Synced, ParentLost}
EmptyOnly == {Empty}
SyncedOnly == {Synced}

(* A tampered plan: one Priority update, or a forged creation. *)
MCEditedActions ==
    {<<Act("project.set_fields", 1, [fields |-> [Priority |-> 0]])>>,
     <<Act("issue.create", 2, [text |-> FreshIssue(TextOf(title2))])>>}

OneReceipt == r1 :> path1
RunSymmetry == Permutations({r1, r2})

OwnReceipts == (r1 :> path1) @@ (r2 :> path2)
SharedReceipt == (r1 :> path1) @@ (r2 :> path1)
=============================================================================
