----------------------------- MODULE HeldEdits -----------------------------
(***************************************************************************)
(* The life of one issue's title and body under three writers: the owner   *)
(* of the manifest, people who edit the issue on GitHub, and the kit,      *)
(* which synchronizes in managed or --preserve-body mode and may be told   *)
(* to overwrite a held edit.  Each synchronization is one step here: the   *)
(* windows inside an apply are the subject of ReviewedApply.               *)
(***************************************************************************)
EXTENDS IssueText

VARIABLES
    desired,    \* the manifest's title and body for the item
    issue,      \* the GitHub issue
    settled     \* history: per field, the value the kit last wrote or found
                \* equal to the manifest (a GUID it corrects in place included)

vars == <<desired, issue, settled>>

TypeOK ==
    /\ desired \in Desired
    /\ issue \in Issue
    /\ settled \in [title : Title, body : Body]

(* issue.create is always rendered from the manifest with both digests. *)
Init ==
    /\ desired \in Desired
    /\ issue = FreshIssue(desired)
    /\ settled = [title |-> desired.title, body |-> desired.body]

-----------------------------------------------------------------------------
(* The owner edits the manifest item: its title, its description, or the   *)
(* GUID it carries.                                                        *)
EditManifest ==
    /\ desired' \in Desired \ {desired}
    /\ UNCHANGED <<issue, settled>>

(* A person edits the issue on GitHub.  The hidden comments usually stay.  *)
EditTitle ==
    /\ \E t \in Title \ {issue.title} : issue' = [issue EXCEPT !.title = t]
    /\ UNCHANGED <<desired, settled>>

EditBody ==
    /\ \E p \in Prose \ {issue.body.prose} :
          issue' = [issue EXCEPT !.body.prose = p]
    /\ UNCHANGED <<desired, settled>>

(* Or the baseline comment is lost: an older kit, or a body pasted anew.   *)
DropComment ==
    /\ issue.td # NoDigest \/ issue.bd # NoDigest
    /\ issue' = [issue EXCEPT !.td = NoDigest, !.bd = NoDigest]
    /\ UNCHANGED <<desired, settled>>

(* sync-plan and sync-apply for the item's text, undisturbed.  Overwriting *)
(* is refused unless a field is held.                                      *)
Sync(manage, overwrite) ==
    LET held == HeldFields(desired, issue, manage)
        kept == IF overwrite THEN {} ELSE held
    IN  /\ overwrite => held # {}
        /\ issue' = PlannedIssue(desired, issue, manage, overwrite)
        /\ settled' =
             [title |-> IF "title" \in kept THEN settled.title ELSE issue'.title,
              body  |-> IF "body" \in kept THEN settled.body
                        ELSE IF manage THEN issue'.body
                        ELSE WithMarker(settled.body, desired)]
        /\ UNCHANGED desired

Next ==
    \/ EditManifest
    \/ EditTitle
    \/ EditBody
    \/ DropComment
    \/ \E manage \in BOOLEAN : Sync(manage, FALSE)
    \/ \E manage \in BOOLEAN : Sync(manage, TRUE)

Spec == Init /\ [][Next]_vars

-----------------------------------------------------------------------------
(* A person's edit: the field no longer reads as the kit left it. *)
TitleEdited == issue.title # settled.title
ProseEdited == issue.body.prose # settled.body.prose

(* A recorded digest always vouches for the text the kit last settled:     *)
(* neither carrying a digest forward nor a preserved write may launder a   *)
(* person's words into a baseline (sync.py 569-576).                       *)
DigestsVouch ==
    /\ issue.td # NoDigest => issue.td = settled.title
    /\ issue.bd # NoDigest => issue.bd.prose = settled.body.prose
    /\ issue.bd # NoDigest => issue.td # NoDigest

(* The state is well formed and its digests are honest. *)
Inv == TypeOK /\ DigestsVouch

(* An ordinary synchronization, in either mode and after any history of    *)
(* edits and mode switches, never replaces a title or prose a person wrote *)
(* while the baseline comment was there to tell (sync.py 732-734).         *)
NoSilentRevert ==
    [][\A manage \in BOOLEAN : Sync(manage, FALSE) /\ issue.td # NoDigest =>
          /\ TitleEdited => issue'.title = issue.title
          /\ ProseEdited => issue'.body.prose = issue.body.prose]_vars

(* A held field is still held after the other field, or the marker, was    *)
(* rewritten for its own sake, whichever mode did the rewriting: only the  *)
(* owner, a person or an explicit overwrite ends a hold (sync.py 569-576). *)
HoldPersists ==
    [][\A manage \in BOOLEAN : Sync(manage, FALSE) =>
          /\ TitleHeld(desired, issue) => TitleHeld(desired', issue')
          /\ BodyHeld(desired, issue) /\ ProseEdited
                /\ issue.body.prose # desired.body.prose
                => BodyHeld(desired', issue')]_vars

(* One synchronization settles the text: planned again in the same mode,   *)
(* nothing is left to write (architecture.md item 9).                      *)
SettlesAtOnce ==
    [][\A manage, overwrite \in BOOLEAN : Sync(manage, overwrite) =>
          ~TextChanges(desired', issue', manage, FALSE)]_vars
=============================================================================
