--------------------------- MODULE ImportPlanner ---------------------------
(***************************************************************************)
(* build_import_plan and reconcile_orphans: the backlog items proposed for *)
(* issues the repository already has, the hierarchy and dependencies       *)
(* inferred for them, and the items recovered for issues that carry a      *)
(* marker the manifest does not know.                                      *)
(*                                                                         *)
(* GitHub maps issue numbers to issues, a manifest maps ids to items.  The *)
(* id proposed for an issue is its number; a marker may hold any id.       *)
(* Scores, maturity and acceptance criteria are constants of adoption and  *)
(* left out; so are untitled issues.                                       *)
(***************************************************************************)
EXTENDS Naturals, FiniteSets, Sequences, SequencesExt

CONSTANTS
    Number,     \* of the repository's issues
    Foreign,    \* an issue of another repository, as a relationship names it
    Native,     \* item ids not derived from an issue number
    Level       \* the hierarchy: each type's level

ASSUME NumbersArePositive == Number \subseteq Nat \ {0}
ASSUME ForeignIsOther == Foreign \notin Number
ASSUME LevelsAreNaturals == \A t \in DOMAIN Level : Level[t] \in Nat

NoId == 0
Id == Number \cup Native

ASSUME NoIdIsNone == NoId \notin Native

(* sorted: both loops take the issues by their numbers. *)
InOrder(S) ==
    [k \in 1..Cardinality(S) |-> CHOOSE n \in S : Cardinality({j \in S : j < n}) = k - 1]

(* The issues the kit does not manage, and those it manages unrecorded. *)
Unmanaged(g) == {n \in DOMAIN g : g[n].marker = NoId}

(* Faulty: only the ids adoption proposes are looked for. *)
OrphansAdopted(m, g) == {n \in DOMAIN g : g[n].marker = n /\ n \notin DOMAIN m}

Orphans(m, g) == {n \in DOMAIN g : g[n].marker \notin DOMAIN m \cup {NoId}}

-----------------------------------------------------------------------------
(* Relationships.  new maps the issues of this pass to their ids; known    *)
(* are the ids a marker may refer to.                                      *)

(* _resolve_related: the item a related issue stands for, or none. *)
Resolved(g, related, known, new) ==
    IF related \notin DOMAIN g THEN NoId
    ELSE IF g[related].marker # NoId
         THEN IF g[related].marker \in known THEN g[related].marker ELSE NoId
    ELSE IF related \in DOMAIN new THEN new[related] ELSE NoId

(* _reaches: along accepted dependencies. *)
Reaches(adjacency, from, to) ==
    LET reach[k \in 0..Cardinality(DOMAIN adjacency)] ==
          IF k = 0 THEN {from} ELSE reach[k-1] \cup UNION {adjacency[i] : i \in reach[k-1]}
    IN  to \in reach[Cardinality(DOMAIN adjacency)]

(* Faulty: no cycle is looked for. *)
DependOnAll(adjacency, item, wanted) == [adjacency EXCEPT ![item] = wanted \ {item}]

(* What an issue is blocked by, without what would close a cycle.  An edge *)
(* out of the item cannot help a path into it, so all are judged at once.  *)
Depend(adjacency, item, wanted) ==
    [adjacency EXCEPT ![item] = {d \in wanted \ {item} : ~Reaches(adjacency, d, item)}]

FlatItem(x) ==
    [title |-> x.title, type |-> x.type, prose |-> x.prose, done |-> x.closed,
     parent |-> NoId, deps |-> {}]

FlatItems(g, new) ==
    [id \in {new[n] : n \in DOMAIN new} |->
        FlatItem(g[CHOOSE n \in DOMAIN new : new[n] = id])]

(* What GitHub says an issue is blocked by, as far as it can be resolved. *)
Wanted(g, n, known, new) ==
    {Resolved(g, related, known, new) : related \in g[n].blockedBy} \ {NoId}

(* merge_imported_items, for items the manifest does not have. *)
Merged(m, items) ==
    [id \in DOMAIN items \cup DOMAIN m |-> IF id \in DOMAIN items THEN items[id] ELSE m[id]]

(* _infer_relationships: a parent exactly one level up ... *)
ParentOf(m, g, n, known, new) ==
    LET p == Resolved(g, g[n].parent, known, new)
        all == Merged(m, FlatItems(g, new))
    IN  IF p # NoId /\ Level[g[n].type] = Level[all[p].type] + 1 THEN p ELSE NoId

(* ... and dependencies issue by issue, the earlier edge winning.           *)
Dependencies(all, new, wanted) ==
    FoldLeft(LAMBDA adjacency, n : Depend(adjacency, new[n], wanted[n]),
             [id \in DOMAIN all |-> all[id].deps],
             InOrder(DOMAIN new))

Inferred(m, g, known, new) ==
    LET flat == FlatItems(g, new)
        parents == [n \in DOMAIN new |-> ParentOf(m, g, n, known, new)]
        wanted == [n \in DOMAIN new |-> Wanted(g, n, known, new)]
        adjacency == Dependencies(Merged(m, flat), new, wanted)
        numberOf(id) == CHOOSE n \in DOMAIN new : new[n] = id
    IN  [id \in DOMAIN flat |->
            [flat[id] EXCEPT !.parent = parents[numberOf(id)], !.deps = adjacency[id]]]

(* validate_manifest, as far as relationships go. *)
Valid(m) ==
    /\ \A i \in DOMAIN m :
          /\ m[i].parent # NoId =>
                m[i].parent \in DOMAIN m /\ Level[m[i].type] = Level[m[m[i].parent].type] + 1
          /\ m[i].deps \subseteq DOMAIN m \ {i}
    /\ \A i \in DOMAIN m : \A d \in m[i].deps :
          ~Reaches([j \in DOMAIN m |-> m[j].deps], d, i)

-----------------------------------------------------------------------------
(* Options: include, the issues selected (every unmanaged one unless told  *)
(* otherwise); limit; duplicates, to adopt an issue whose title a managed  *)
(* item has; infer.                                                        *)

Titles(m) == {m[i].title : i \in DOMAIN m}

Chosen(m, g, o) ==
    FoldLeft(LAMBDA taken, n :
                IF \/ n \notin o.include
                   \/ Cardinality(taken) >= o.limit
                   \/ ~o.duplicates /\ g[n].title \in Titles(m) \cup {g[k].title : k \in taken}
                THEN taken ELSE taken \cup {n},
             {}, InOrder(Unmanaged(g)))

(* An id the manifest claims already is refused, unless beyond the limit. *)
Selectable(m, g, o) ==
    /\ o.include \subseteq Unmanaged(g)
    /\ \A n \in o.include \cap DOMAIN m :
          Cardinality({k \in Chosen(m, g, o) : k < n}) >= o.limit

ImportItems(m, g, o) ==
    LET new == [n \in Chosen(m, g, o) |-> n]
    IN  IF o.infer THEN Inferred(m, g, DOMAIN m, new) ELSE FlatItems(g, new)

(* The listing a plan is fingerprinted over.  The relationships, and the   *)
(* markers of what they name, are there only if asked for, and a listing   *)
(* read without them differs from one that found none.                     *)
Listing(g, infer) ==
    [n \in Unmanaged(g) |->
        LET related == IF infer THEN ({g[n].parent} \cup g[n].blockedBy) \cap DOMAIN g ELSE {}
        IN  <<infer, IF infer THEN g[n] ELSE [g[n] EXCEPT !.parent = NoId, !.blockedBy = {}],
              [k \in related |-> g[k].marker]>>]

(* build_import_plan does not raise. *)
ImportPlannable(m, g, o) ==
    Selectable(m, g, o) /\ Valid(Merged(m, ImportItems(m, g, o)))

(* What the digest covers: not the options.  The bodies are those observed *)
(* (adopting one puts the marker above it).                                *)
ImportPlanOf(m, g, o) ==
    [items |-> ImportItems(m, g, o),
     bodies |-> [n \in Chosen(m, g, o) |-> g[n].prose],
     manifest |-> m, listing |-> Listing(g, o.infer)]

(* reconcile_orphans does not raise: no two issues carry one marker. *)
Recoverable(m, g) ==
    \A n, k \in Orphans(m, g) : g[n].marker = g[k].marker => n = k

(* Faulty: what this pass recovers cannot be referred to. *)
ReconciledAlone(m, g, infer) ==
    LET new == [n \in Orphans(m, g) |-> g[n].marker]
    IN  Merged(m, IF infer THEN Inferred(m, g, DOMAIN m, new) ELSE FlatItems(g, new))

(* reconcile_orphans: relationships may name what is recovered with them. *)
Reconciled(m, g, infer) ==
    LET new == [n \in Orphans(m, g) |-> g[n].marker]
        known == DOMAIN m \cup {new[n] : n \in DOMAIN new}
    IN  Merged(m, IF infer THEN Inferred(m, g, known, new) ELSE FlatItems(g, new))
=============================================================================
