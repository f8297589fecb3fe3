--------------------------- MODULE MCImportAdoption ---------------------------
(* Three issues of a repository whose hierarchy is Epic, Story, Task. *)
EXTENDS ImportAdoption

CONSTANTS
    x, y,           \* the item of a manifest, and one no manifest has
    a1, a2, r1      \* two adopters and a recoverer

MCLevel == [Epic |-> 0, Story |-> 1, Task |-> 2]

Item(title, type) ==
    [title |-> title, type |-> type, prose |-> "words", done |-> FALSE,
     parent |-> NoId, deps |-> {}]
Issue(marker, type, parent, blockedBy) ==
    [marker |-> marker, title |-> type, type |-> type, prose |-> "words", closed |-> FALSE,
     parent |-> parent, blockedBy |-> blockedBy]

NoItems == <<>>
OneItem == x :> Item("Managed", "Epic")

Made(limit, duplicates, infer) == [limit |-> limit, duplicates |-> duplicates, infer |-> infer]
Flat == Made(NoLimit, FALSE, FALSE)
Inferring == Made(NoLimit, FALSE, TRUE)
First == Made(1, FALSE, TRUE)
Duplicates == Made(NoLimit, TRUE, FALSE)

(* An Epic, managed, stranded or neither, a Story and a Task, with every   *)
(* way they can block each other; the Epic has a parent elsewhere, the     *)
(* Story the Epic or, which no manifest allows, the Task.                  *)
Graphs == [1..3 -> SUBSET (1..3)]
Shapes ==
    {(1 :> Issue(marker, "Epic", Foreign, blocked[1] \ {1}))
     @@ (2 :> Issue(NoId, "Story", parent, blocked[2] \ {2}))
     @@ (3 :> Issue(NoId, "Task", 2, blocked[3] \ {3}))
     : marker \in {NoId, x, y}, parent \in {1, 3},
       blocked \in {b \in Graphs : \A n \in 1..3 : n \in b[n]}}

Cases(processes, manifests, githubs, opts, most) ==
    [processes : {processes}, manifest : manifests, github : githubs, opts : opts,
     events : {most}]

ShapeCases == Cases({a1, r1}, {NoItems, OneItem}, Shapes, {{Inferring}}, 0)

(* Two issues, linked both ways. *)
Two(marker1, marker2) ==
    (1 :> Issue(marker1, "Epic", NoId, {2})) @@ (2 :> Issue(marker2, "Story", 1, {1}))
FaultCases ==
    Cases({a1, r1}, {OneItem}, {Two(NoId, NoId), Two(x, NoId)}, {{Flat}, {Inferring}}, 2)
    \cup Cases({a1, r1}, {NoItems}, {Two(NoId, NoId), Two(y, NoId), Two(y, y)},
               {{First, Inferring}}, 1)

(* Two adoptions of the same issues at once. *)
RivalCases == Cases({a1, a2}, {NoItems}, {Two(NoId, NoId)}, {{Flat}}, 1)

AllCases == ShapeCases \cup FaultCases \cup RivalCases

SameTitle == (1 :> [Issue(NoId, "Epic", NoId, {}) EXCEPT !.title = "Managed"])
DuplicateCases == Cases({a1, r1}, {OneItem}, {SameTitle}, {{Duplicates}}, 1)
=============================================================================
