----------------------------- MODULE IssueText -----------------------------
(***************************************************************************)
(* The title and body of one managed issue: what sync.py decides to write, *)
(* what it holds back, and the baseline comment it leaves behind.          *)
(*                                                                         *)
(* A body is a record of its prose and of the GUID inside the identity     *)
(* marker: the two parts the planner tells apart.  A digest is modelled by *)
(* the canonical value it digests, so two digests are equal exactly when   *)
(* the texts are.  The baseline comment is the pair of digests <<td, bd>>, *)
(* NoDigest where the comment does not record that field.                  *)
(***************************************************************************)

CONSTANTS
    Title,      \* canonical issue titles
    Prose,      \* canonical issue prose
    Guid,       \* GUIDs a marker may carry, the absent one included
    NoDigest    \* the comment records no digest for the field

ASSUME NoDigestIsNoText ==
    /\ NoDigest \notin Title
    /\ NoDigest \notin [prose : Prose, guid : Guid]

Body == [prose : Prose, guid : Guid]

(* What the manifest says of the issue, and what GitHub holds. *)
Desired == [title : Title, body : Body]
Issue   == [title : Title, body : Body,
            td : Title \cup {NoDigest}, bd : Body \cup {NoDigest}]

(* with_written_comment: a new issue vouches for both fields. *)
FreshIssue(d) == [title |-> d.title, body |-> d.body, td |-> d.title, bd |-> d.body]

(* with_marker: the marker's GUID is corrected in place, the prose stays. *)
WithMarker(body, d) == [body EXCEPT !.guid = d.body.guid]

TitleHeld(d, r) ==
    /\ r.td # NoDigest
    /\ r.td # r.title
    /\ r.title # d.title

(* Faulty: a comment that vouches for the title alone is no hold. *)
BodyHeldIfVouched(d, r) ==
    r.body # d.body /\ r.bd # NoDigest /\ r.bd # r.body

(* A comment that vouches for the title alone was written while the body   *)
(* was preserved, so the prose is a person's.                              *)
BodyHeld(d, r) ==
    /\ r.body # d.body
    /\ \/ r.td # NoDigest /\ r.bd = NoDigest
       \/ r.bd # NoDigest /\ r.bd # r.body

(* The fields sync.py reports as held.  A preserved body never is. *)
HeldFields(d, r, manage) ==
    {f \in {"title", "body"} :
        \/ f = "title" /\ TitleHeld(d, r)
        \/ f = "body" /\ manage /\ BodyHeld(d, r)}

(* Faulty: a kept field is given a fresh digest, or none. *)
PlannedIssueDigesting(d, r, manage, overwrite, TitleDigest(_)) ==
    LET kept == IF overwrite THEN {} ELSE HeldFields(d, r, manage)
        title == IF "title" \in kept THEN r.title ELSE d.title
        candidate == IF manage THEN d.body ELSE WithMarker(r.body, d)
        body == IF "body" \in kept THEN r.body ELSE candidate
    IN  [title |-> title, body |-> body,
         td |-> IF "title" \in kept THEN TitleDigest(title) ELSE title,
         bd |-> IF ~manage \/ "body" \in kept THEN r.bd ELSE body]

PlannedIssueLaundering(d, r, manage, overwrite) ==
    PlannedIssueDigesting(d, r, manage, overwrite, LAMBDA title : title)

PlannedIssueForgetting(d, r, manage, overwrite) ==
    PlannedIssueDigesting(d, r, manage, overwrite, LAMBDA title : NoDigest)

(* _issue_title_body_plan: the issue as the plan would leave it.  A field  *)
(* that is kept carries its recorded digest forward; a preserved body is   *)
(* never given one.                                                        *)
PlannedIssue(d, r, manage, overwrite) ==
    LET kept == IF overwrite THEN {} ELSE HeldFields(d, r, manage)
        title == IF "title" \in kept THEN r.title ELSE d.title
        candidate == IF manage THEN d.body ELSE WithMarker(r.body, d)
        body == IF "body" \in kept THEN r.body ELSE candidate
    IN  [title |-> title,
         body  |-> body,
         td    |-> IF "title" \in kept THEN r.td ELSE title,
         bd    |-> IF ~manage \/ "body" \in kept THEN r.bd ELSE body]

(* The plan has an issue.update for the text exactly when this holds. *)
TextChanges(d, r, manage, overwrite) == PlannedIssue(d, r, manage, overwrite) # r
=============================================================================
