--------------------------- MODULE HeldEditsProofs ---------------------------
(* The guarantees of the held-edit planner for any titles, proses and GUIDs. *)
EXTENDS HeldEdits, TLAPS

(* The plan for an issue is again an issue. *)
LEMMA PlannedIssueType ==
    ASSUME NEW d \in Desired, NEW r \in Issue,
           NEW manage \in BOOLEAN, NEW overwrite \in BOOLEAN
    PROVE  PlannedIssue(d, r, manage, overwrite) \in Issue
  BY DEF PlannedIssue, Desired, Issue, Body, WithMarker

(* No digest is ever a title or a body: NoDigest can be told apart. *)
LEMMA DigestsDiffer == NoDigest \notin Title /\ NoDigest \notin Body
  BY NoDigestIsNoText DEF Body

(* Every reachable state of one issue's text is well formed. *)
THEOREM TypeCorrect == Spec => []TypeOK
<1>1. Init => TypeOK
  BY DEF Init, TypeOK, FreshIssue, Desired, Issue
<1>2. ASSUME TypeOK, [Next]_vars
      PROVE  TypeOK'
  <2> USE <1>2 DEF TypeOK
  <2>1. CASE EditManifest
    BY <2>1 DEF EditManifest
  <2>2. CASE EditTitle
    BY <2>2 DEF EditTitle, Issue
  <2>3. CASE EditBody
    BY <2>3 DEF EditBody, Issue, Body
  <2>4. CASE DropComment
    BY <2>4 DEF DropComment, Issue
  <2>5. ASSUME NEW manage \in BOOLEAN, NEW overwrite \in BOOLEAN,
               Sync(manage, overwrite)
        PROVE  TypeOK'
    <3>1. issue' \in Issue
      BY <2>5, PlannedIssueType DEF Sync
    <3>2. settled' \in [title : Title, body : Body]
      BY <2>5, <3>1 DEF Sync, Issue, Desired, Body, WithMarker
    <3>3. desired' \in Desired
      BY <2>5 DEF Sync
    <3> QED BY <3>1, <3>2, <3>3
  <2>6. CASE UNCHANGED vars
    BY <2>6 DEF vars
  <2> QED BY <2>1, <2>2, <2>3, <2>4, <2>5, <2>6, <1>2 DEF Next
<1> QED BY <1>1, <1>2, PTL DEF Spec

(* A recorded digest always vouches for the text the kit last settled, for *)
(* any texts and any history of edits, mode switches and overwrites.       *)
THEOREM DigestsAlwaysVouch == Spec => []DigestsVouch
<1>1. Init => DigestsVouch
  BY DigestsDiffer DEF Init, DigestsVouch, FreshIssue, Desired
<1>2. ASSUME TypeOK, DigestsVouch, [Next]_vars
      PROVE  DigestsVouch'
  <2> USE <1>2 DEF DigestsVouch
  <2>1. CASE EditManifest
    BY <2>1 DEF EditManifest
  <2>2. CASE EditTitle
    BY <2>2 DEF EditTitle, TypeOK, Issue
  <2>3. CASE EditBody
    BY <2>3 DEF EditBody, TypeOK, Issue, Body
  <2>4. CASE DropComment
    BY <2>4 DEF DropComment, TypeOK, Issue
  <2>5. ASSUME NEW manage \in BOOLEAN, NEW overwrite \in BOOLEAN,
               Sync(manage, overwrite)
        PROVE  DigestsVouch'
    <3>1. issue'.td # NoDigest => issue'.td = settled'.title
      BY <2>5 DEF Sync, PlannedIssue, HeldFields, TypeOK
    <3>2. issue'.bd # NoDigest => issue'.bd.prose = settled'.body.prose
      BY <2>5 DEF Sync, PlannedIssue, HeldFields, WithMarker, TypeOK, Body
    <3>3. issue'.bd # NoDigest => issue'.td # NoDigest
      BY <2>5, DigestsDiffer
         DEF Sync, PlannedIssue, HeldFields, TitleHeld, TypeOK, Desired
    <3> QED BY <3>1, <3>2, <3>3
  <2>6. CASE UNCHANGED vars
    BY <2>6 DEF vars
  <2> QED BY <2>1, <2>2, <2>3, <2>4, <2>5, <2>6, <1>2 DEF Next
<1> QED BY <1>1, <1>2, TypeCorrect, PTL DEF Spec

(* Both together: the digests of a well-formed issue are honest, always.   *)
THEOREM InvHolds == Spec => []Inv
BY TypeCorrect, DigestsAlwaysVouch, PTL DEF Inv

-----------------------------------------------------------------------------
(* No ordinary synchronization replaces a person's words (sync.py 732-734): *)
(* an edited title either is held or already is the manifest's, and so is  *)
(* an edited body, because its digest, if there is one, is the settled text. *)
THEOREM EditsAreNeverReverted == Spec => NoSilentRevert
<1>1. ASSUME TypeOK, DigestsVouch, NEW manage \in BOOLEAN,
             Sync(manage, FALSE), issue.td # NoDigest
      PROVE  /\ TitleEdited => issue'.title = issue.title
             /\ ProseEdited => issue'.body.prose = issue.body.prose
  <2> USE <1>1 DEF Sync, PlannedIssue, HeldFields
  <2>1. ASSUME TitleEdited PROVE issue'.title = issue.title
    <3>1. issue.td = settled.title
      BY DEF DigestsVouch
    <3>2. issue.title = desired.title \/ TitleHeld(desired, issue)
      BY <2>1, <3>1 DEF TitleEdited, TitleHeld
    <3> QED BY <3>2
  <2>2. ASSUME ProseEdited, manage PROVE issue'.body.prose = issue.body.prose
    <3>1. issue.bd = NoDigest \/ issue.bd # issue.body
      BY <2>2 DEF DigestsVouch, ProseEdited
    <3>2. issue.body = desired.body \/ BodyHeld(desired, issue)
      BY <3>1 DEF BodyHeld
    <3> QED BY <2>2, <3>2
  <2>3. ASSUME ~manage PROVE issue'.body.prose = issue.body.prose
    BY <2>3 DEF WithMarker, TypeOK, Issue, Body
  <2> QED BY <2>1, <2>2, <2>3
<1>2. TypeOK /\ DigestsVouch => [\A manage \in BOOLEAN :
          Sync(manage, FALSE) /\ issue.td # NoDigest =>
          /\ TitleEdited => issue'.title = issue.title
          /\ ProseEdited => issue'.body.prose = issue.body.prose]_vars
  BY <1>1
<1> QED BY <1>2, TypeCorrect, DigestsAlwaysVouch, PTL DEF NoSilentRevert

(* A hold survives every ordinary synchronization, in either mode: the     *)
(* digest that justifies it is carried forward (sync.py 569-576).          *)
THEOREM HoldsPersist == Spec => HoldPersists
<1>1. ASSUME TypeOK, DigestsVouch, NEW manage \in BOOLEAN, Sync(manage, FALSE)
      PROVE  /\ TitleHeld(desired, issue) => TitleHeld(desired', issue')
             /\ BodyHeld(desired, issue) /\ ProseEdited
                   /\ issue.body.prose # desired.body.prose
                   => BodyHeld(desired', issue')
  <2>1. ASSUME TitleHeld(desired, issue) PROVE TitleHeld(desired', issue')
    BY <1>1, <2>1 DEF Sync, PlannedIssue, HeldFields, TitleHeld
  <2>2. ASSUME BodyHeld(desired, issue), ProseEdited,
               issue.body.prose # desired.body.prose
        PROVE  BodyHeld(desired', issue')
    <3>1. /\ issue'.bd = issue.bd
          /\ issue'.body.prose = issue.body.prose
          /\ desired' = desired
      BY <1>1, <2>2 DEF Sync, PlannedIssue, HeldFields, WithMarker, TypeOK, Issue, Body
    <3>2. issue.td # NoDigest => issue'.td # NoDigest
      BY <1>1, DigestsDiffer
         DEF Sync, PlannedIssue, HeldFields, TitleHeld, TypeOK, Desired
    <3>3. issue'.bd # NoDigest => issue'.bd # issue'.body
      BY <1>1, <2>2, <3>1 DEF DigestsVouch, ProseEdited
    <3>4. issue'.body # desired'.body
      BY <2>2, <3>1
    <3> QED BY <1>1, <2>2, <3>1, <3>2, <3>3, <3>4 DEF BodyHeld, DigestsVouch
  <2> QED BY <2>1, <2>2
<1>2. TypeOK /\ DigestsVouch => [\A manage \in BOOLEAN : Sync(manage, FALSE) =>
          /\ TitleHeld(desired, issue) => TitleHeld(desired', issue')
          /\ BodyHeld(desired, issue) /\ ProseEdited
                /\ issue.body.prose # desired.body.prose
                => BodyHeld(desired', issue')]_vars
  BY <1>1
<1> QED BY <1>2, TypeCorrect, DigestsAlwaysVouch, PTL DEF HoldPersists

(* Planning is idempotent on the text: what one synchronization leaves, the *)
(* next one keeps.                                                         *)
LEMMA PlanIsIdempotent ==
    ASSUME NEW d \in Desired, NEW r \in Issue,
           NEW manage \in BOOLEAN, NEW overwrite \in BOOLEAN
    PROVE  LET p == PlannedIssue(d, r, manage, overwrite)
           IN  PlannedIssue(d, p, manage, FALSE) = p
  BY DigestsDiffer
     DEF PlannedIssue, HeldFields, TitleHeld, BodyHeld, WithMarker, Desired, Issue, Body

(* One synchronization settles the text (architecture.md item 9).          *)
THEOREM SyncSettles == Spec => SettlesAtOnce
<1>1. ASSUME TypeOK, NEW manage \in BOOLEAN, NEW overwrite \in BOOLEAN,
             Sync(manage, overwrite)
      PROVE  ~TextChanges(desired', issue', manage, FALSE)
  BY <1>1, PlanIsIdempotent DEF Sync, TextChanges, TypeOK
<1>2. TypeOK => [\A manage, overwrite \in BOOLEAN : Sync(manage, overwrite) =>
          ~TextChanges(desired', issue', manage, FALSE)]_vars
  BY <1>1
<1> QED BY <1>2, TypeCorrect, PTL DEF SettlesAtOnce
=============================================================================
