------------------------- MODULE SnapshotReadProofs -------------------------
(***************************************************************************)
(* What a snapshot says, and what it may leave out, for any GitHub, any    *)
(* page and batch sizes and any number of changes by others; the wait      *)
(* budget and the rule that only definite refusals are resent, for any     *)
(* responses, any route and any budget.                                    *)
(***************************************************************************)
EXTENDS SnapshotRead, FiniteSetTheorems, TLAPS

-----------------------------------------------------------------------------
(* Sets of numbers: finite when bounded, ranked by size without a gap.      *)

(* Numbers below a bound are finitely many.                                 *)
LEMMA NumbersBelow ==
    ASSUME NEW S \in SUBSET Nat, NEW n \in Nat, \A s \in S : s < n
    PROVE  IsFiniteSet(S)
<1>1. \A s \in S : s <= n
  OBVIOUS
<1> QED BY <1>1, FS_BoundedSetOfNaturals

(* Counting the greater ones ranks a finite set of numbers from 0 up without *)
(* a gap, the greatest first.                                               *)
LEMMA RanksFill ==
    ASSUME NEW S \in SUBSET Nat, IsFiniteSet(S)
    PROVE  LET rank == [n \in S |-> Cardinality({m \in S : m > n})]
           IN  /\ Cardinality(S) \in Nat
               /\ rank \in [S -> 0..(Cardinality(S) - 1)]
               /\ \A n, k \in S : n < k => rank[k] < rank[n]
               /\ \A r \in 0..(Cardinality(S) - 1) : \E n \in S : rank[n] = r
<1> DEFINE above(n) == {m \in S : m > n}
           rank == [n \in S |-> Cardinality(above(n))]
           C == Cardinality(S)
<1>1. C \in Nat
  BY FS_CardinalityType
<1>2. ASSUME NEW n \in S
      PROVE  IsFiniteSet(above(n)) /\ Cardinality(above(n)) \in 0..(C - 1)
  <2>1. above(n) \in SUBSET S /\ above(n) # S
    OBVIOUS
  <2>2. IsFiniteSet(above(n)) /\ Cardinality(above(n)) <= C /\ Cardinality(above(n)) # C
    BY <2>1, FS_Subset
  <2>3. Cardinality(above(n)) \in Nat
    BY <2>2, FS_CardinalityType
  <2> HIDE DEF above
  <2> QED BY <1>1, <2>2, <2>3
<1>3. ASSUME NEW n \in S, NEW k \in S, n < k
      PROVE  Cardinality(above(k)) < Cardinality(above(n))
  <2>1. above(k) \in SUBSET above(n) /\ above(k) # above(n)
    <3>1. n \in Nat /\ k \in Nat /\ k \in above(n) /\ k \notin above(k)
      BY <1>3
    <3>2. \A m \in S : m > k => m > n
      BY <1>3, <3>1
    <3> QED BY <3>1, <3>2
  <2> HIDE DEF above
  <2>2. Cardinality(above(k)) <= Cardinality(above(n))
        /\ Cardinality(above(k)) # Cardinality(above(n))
    BY <1>2, <2>1, FS_Subset
  <2> QED BY <1>2, <2>2
<1>4. rank \in [S -> 0..(C - 1)]
  BY <1>2
<1>5. rank \in Injection(S, 0..(C - 1))
  <2>1. ASSUME NEW n \in S, NEW k \in S, n # k PROVE rank[n] # rank[k]
    <3>1. rank[n] \in Int /\ rank[k] \in Int
      BY <1>4
    <3>2. CASE n < k
      BY <1>3, <3>1, <3>2
    <3>3. CASE k < n
      BY <1>3, <3>1, <3>3
    <3> QED BY <2>1, <3>2, <3>3
  <2> HIDE DEF rank
  <2> QED BY <1>4, <2>1 DEF Injection, IsInjective
<1>6. IsFiniteSet(0..(C - 1)) /\ Cardinality(0..(C - 1)) = C
  <2>1. 0 \in Int /\ C - 1 \in Int /\ (IF 0 > C - 1 THEN 0 ELSE C - 1 - 0 + 1) = C
    BY <1>1
  <2> HIDE DEF C
  <2> QED BY <2>1, FS_Interval
<1>7. rank \in Surjection(S, 0..(C - 1))
  <2> HIDE DEF rank
  <2> QED BY <1>5, <1>6, FS_Injection
<1>8. \A r \in 0..(C - 1) : \E n \in S : rank[n] = r
  <2> HIDE DEF rank
  <2> QED BY <1>7 DEF Surjection
<1> QED BY <1>1, <1>3, <1>4, <1>8

(* A finite set of numbers has a greatest ...                               *)
LEMMA MaxIs ==
    ASSUME NEW S \in SUBSET Nat, IsFiniteSet(S), S # {}
    PROVE  Max(S) \in S /\ \A n \in S : n <= Max(S)
<1> DEFINE rank == [n \in S |-> Cardinality({m \in S : m > n})]
<1>1. Cardinality(S) \in Nat /\ Cardinality(S) # 0
  BY FS_CardinalityType, FS_EmptySet
<1>2. 0 \in 0..(Cardinality(S) - 1)
  BY <1>1
<1>3. PICK x \in S : rank[x] = 0
  BY <1>2, RanksFill
<1>4. IsFiniteSet({m \in S : m > x}) /\ Cardinality({m \in S : m > x}) = 0
  BY <1>3, FS_Subset
<1>5. {m \in S : m > x} = {}
  BY <1>4, FS_EmptySet
<1>6. \A n \in S : x >= n
  BY <1>5
<1> QED BY <1>6 DEF Max

(* ... and any set of them a smallest.                                      *)
LEMMA MinIs ==
    ASSUME NEW S \in SUBSET Nat, S # {}
    PROVE  Min(S) \in S /\ \A n \in S : Min(S) <= n
<1>1. PICK n \in S : TRUE
  OBVIOUS
<1> DEFINE T == {m \in S : m <= n}
           B == {n - m : m \in T}
<1>2. B \in SUBSET Nat /\ \A b \in B : b < n + 1
  OBVIOUS
<1>3. IsFiniteSet(B) /\ B # {}
  <2>1. IsFiniteSet(B)
    <3> HIDE DEF B
    <3> QED BY <1>2, NumbersBelow
  <2> QED BY <2>1
<1>4. Max(B) \in B /\ \A b \in B : b <= Max(B)
  <2> HIDE DEF B
  <2> QED BY <1>2, <1>3, MaxIs
<1>5. PICK x \in T : \A m \in T : n - m <= n - x
  BY <1>4
<1>6. \A m \in S : x <= m
  BY <1>5
<1> QED BY <1>5, <1>6 DEF Min

(* A division by a positive page size: pages grow with positions, and a     *)
(* position on a later page lies past the whole of every earlier one.       *)
LEMMA Division ==
    ASSUME NEW d \in Nat \ {0}
    PROVE  /\ \A r \in Nat : r \div d \in Nat
           /\ \A r, s \in Nat : r <= s => r \div d <= s \div d
           /\ \A k \in Nat : \A r \in (k * d)..(k * d + d - 1) : r \div d = k
           /\ \A k, r \in Nat : k + 1 <= r \div d => k * d + d <= r
<1>1. \A r \in Nat : r \div d \in Nat
  OBVIOUS
<1>2. \A r \in Nat : (r \div d) * d <= r /\ r < (r \div d) * d + d
  OBVIOUS
<1>3. \A r, s \in Nat : r <= s => r \div d <= s \div d
  BY <1>1, <1>2
<1>4. \A k \in Nat : \A r \in (k * d)..(k * d + d - 1) : r \div d = k
  BY <1>1, <1>2
<1>5. \A k, r \in Nat : k + 1 <= r \div d => k * d + d <= r
  BY <1>1, <1>2
<1> QED BY <1>1, <1>3, <1>4, <1>5

(* The first n of a set of numbers: nothing left out is smaller than        *)
(* anything taken, and something is left out only when there are more.      *)
LEMMA FirstOfIs ==
    ASSUME NEW S \in SUBSET Nat, IsFiniteSet(S), NEW n \in Nat \ {0}
    PROVE  /\ FirstOf(S, n) \subseteq S
           /\ S # {} => FirstOf(S, n) # {}
           /\ \A x \in S \ FirstOf(S, n) : \A y \in FirstOf(S, n) : y < x
           /\ S # FirstOf(S, n) => Cardinality(S) > n
<1> DEFINE below(x) == {y \in S : y < x}
<1>1. ASSUME NEW x \in S
      PROVE  IsFiniteSet(below(x)) /\ Cardinality(below(x)) \in Nat
  <2>1. below(x) \in SUBSET S
    OBVIOUS
  <2> HIDE DEF below
  <2> QED BY <2>1, FS_Subset, FS_CardinalityType
<1>2. FirstOf(S, n) = {x \in S : Cardinality(below(x)) < n}
  BY DEF FirstOf
<1>3. ASSUME S # {} PROVE FirstOf(S, n) # {}
  <2>1. PICK x \in S : \A y \in S : x <= y
    BY <1>3, MinIs
  <2>2. \A y \in S : ~(y < x)
    BY <2>1
  <2>3. Cardinality(below(x)) = 0
    BY <2>2, FS_EmptySet
  <2> HIDE DEF below
  <2> QED BY <1>2, <2>1, <2>3
<1>4. ASSUME NEW x \in S \ FirstOf(S, n), NEW y \in FirstOf(S, n)
      PROVE  y < x
  <2>1. y \in S /\ Cardinality(below(y)) < n /\ ~(Cardinality(below(x)) < n)
    BY <1>2, <1>4
  <2>2. SUFFICES ASSUME x <= y PROVE FALSE
    BY <2>1
  <2>3. below(x) \in SUBSET below(y)
    <3>1. \A z \in S : z < x => z < y
      BY <2>1, <2>2
    <3> QED BY <3>1
  <2> HIDE DEF below
  <2>4. Cardinality(below(x)) <= Cardinality(below(y))
    BY <1>1, <2>1, <2>3, FS_Subset
  <2> QED BY <1>1, <2>1, <2>4
<1>5. ASSUME S # FirstOf(S, n) PROVE Cardinality(S) > n
  <2>1. PICK x \in S : ~(Cardinality(below(x)) < n)
    BY <1>2, <1>5
  <2>2. below(x) \in SUBSET S /\ below(x) # S
    OBVIOUS
  <2> HIDE DEF below
  <2>3. Cardinality(below(x)) <= Cardinality(S) /\ Cardinality(below(x)) # Cardinality(S)
    BY <2>2, FS_Subset
  <2> QED BY <1>1, <2>1, <2>3, FS_CardinalityType
<1> QED BY <1>2, <1>3, <1>4, <1>5

(* The page of the issue list an issue is on.                               *)
Above(g, n) == {m \in g.issues : m > n}
PageOf(g, n) == Cardinality(Above(g, n)) \div PageSize

(* GitHub's issues are finitely many, and each is on some page.             *)
LEMMA Pages ==
    ASSUME NEW g, WellFormed(g)
    PROVE  /\ g.issues \in SUBSET Nat /\ g.issues \subseteq Number /\ IsFiniteSet(g.issues)
           /\ \A n : IsFiniteSet(Above(g, n)) /\ Cardinality(Above(g, n)) \in Nat
           /\ \A n : PageOf(g, n) \in Nat
           /\ \A k : ListPage(g, k) = {n \in g.issues : PageOf(g, n) = k - 1}
<1>1. g.issues \subseteq Number /\ g.next \in Nat /\ \A n \in g.issues : n < g.next
  BY DEF WellFormed
<1>2. g.issues \in SUBSET Nat
  BY <1>1, NumberType
<1>3. IsFiniteSet(g.issues)
  BY <1>1, <1>2, NumbersBelow
<1>4. ASSUME NEW n PROVE IsFiniteSet(Above(g, n)) /\ Cardinality(Above(g, n)) \in Nat
  <2>1. Above(g, n) \in SUBSET g.issues
    BY DEF Above
  <2> QED BY <1>3, <2>1, FS_Subset, FS_CardinalityType
<1>5. \A n : PageOf(g, n) \in Nat
  BY <1>4, PageSizes, Division DEF PageOf
<1>6. \A k : ListPage(g, k) = {n \in g.issues : PageOf(g, n) = k - 1}
  BY DEF ListPage, PageOf, Above
<1> QED BY <1>1, <1>2, <1>3, <1>4, <1>5, <1>6

(* A page is only short when no issue is on a later one.                    *)
LEMMA FullPages ==
    ASSUME NEW g, WellFormed(g), NEW k \in Nat, NEW n \in g.issues, PageOf(g, n) > k
    PROVE  Cardinality(ListPage(g, k + 1)) >= PageSize
<1> DEFINE S == g.issues
           rank == [m \in S |-> Cardinality(Above(g, m))]
           low == k * PageSize
           high == k * PageSize + PageSize - 1
           batch == ListPage(g, k + 1)
           position == [m \in batch |-> rank[m]]
<1>1. /\ S \in SUBSET Nat /\ IsFiniteSet(S)
      /\ \A m \in S : Cardinality(Above(g, m)) \in Nat
      /\ batch = {m \in S : PageOf(g, m) = k}
  BY Pages
<1>2. PageSize \in Nat \ {0} /\ low \in Nat /\ high \in Nat
  BY PageSizes
<1>3. /\ Cardinality(S) \in Nat
      /\ rank \in [S -> 0..(Cardinality(S) - 1)]
      /\ \A r \in 0..(Cardinality(S) - 1) : \E m \in S : rank[m] = r
  BY <1>1, RanksFill DEF Above
<1>4. high < Cardinality(S)
  <2>1. rank[n] \in Nat /\ rank[n] <= Cardinality(S) - 1 /\ k + 1 <= rank[n] \div PageSize
    <3>1. rank[n] = Cardinality(Above(g, n)) /\ rank[n] \in 0..(Cardinality(S) - 1)
      BY <1>3
    <3>2. PageOf(g, n) \in Nat /\ PageOf(g, n) = rank[n] \div PageSize
      BY <3>1, Pages DEF PageOf
    <3> HIDE DEF rank, S
    <3> QED BY <1>3, <3>1, <3>2
  <2>2. k * PageSize + PageSize <= rank[n]
    <3> HIDE DEF rank
    <3> QED BY <1>2, <2>1, Division
  <2> HIDE DEF rank, S
  <2> QED BY <1>2, <1>3, <2>1, <2>2
<1>5. ASSUME NEW r \in low..high PROVE \E m \in batch : position[m] = r
  <2>1. r \in 0..(Cardinality(S) - 1)
    <3> HIDE DEF S, low, high
    <3> QED BY <1>2, <1>3, <1>4
  <2>2. PICK m \in S : rank[m] = r
    <3> HIDE DEF rank
    <3> QED BY <1>3, <2>1
  <2>3. r \div PageSize = k
    BY <1>2, Division
  <2>4. m \in batch
    BY <1>1, <2>2, <2>3 DEF PageOf
  <2> QED BY <2>2, <2>4
<1>6. \A m \in batch : position[m] \in low..high
  <2> SUFFICES ASSUME NEW m \in batch PROVE rank[m] \in low..high
    OBVIOUS
  <2>1. rank[m] \in Nat /\ rank[m] \div PageSize = k
    BY <1>1 DEF PageOf
  <2> HIDE DEF rank
  <2> QED BY <1>2, <2>1
<1>7. IsFiniteSet(batch) /\ Cardinality(batch) \in Nat
  <2>1. batch \in SUBSET S
    BY <1>1
  <2> HIDE DEF batch, S
  <2> QED BY <1>1, <2>1, FS_Subset, FS_CardinalityType
<1>8. position \in Surjection(batch, low..high)
  <2>1. position = [m \in batch |-> position[m]]
    OBVIOUS
  <2> HIDE DEF position, batch, low, high
  <2> QED BY <1>5, <1>6, <2>1 DEF Surjection
<1>9. Cardinality(low..high) <= Cardinality(batch)
  <2> HIDE DEF position, batch, low, high
  <2> QED BY <1>7, <1>8, FS_Surjection
<1>10. Cardinality(low..high) = PageSize
  <2>1. low \in Int /\ high \in Int /\ (IF low > high THEN 0 ELSE high - low + 1) = PageSize
    BY <1>2
  <2> HIDE DEF low, high
  <2> QED BY <2>1, FS_Interval
<1> QED BY <1>2, <1>7, <1>9, <1>10

-----------------------------------------------------------------------------
(* What holds of GitHub, fact by fact.                                      *)
LEMMA FactsAre ==
    ASSUME NEW g
    PROVE  /\ \A n, m : <<"marked", n, m>> \in Facts(g) <=> n \in Marked(g) /\ m = g.marker[n]
           /\ \A n : n \in g.issues /\ n \in g.member => <<"member", n, TRUE>> \in Facts(g)
           /\ \A n : n \in g.issues /\ n \notin g.member => <<"member", n, FALSE>> \in Facts(g)
           /\ \A n, d : <<"linked", n, d>> \in Facts(g)
                          <=> n \in g.issues /\ d \in g.deps[n] \cap g.issues
<1> DEFINE A == {<<"marked", n, g.marker[n]>> : n \in Marked(g)}
           B == {<<"member", n, n \in g.member>> : n \in g.issues}
           C == UNION {{<<"linked", n, d>> : d \in g.deps[n] \cap g.issues} : n \in g.issues}
<1>1. Facts(g) = A \cup B \cup C
  BY DEF Facts
<1>2. \A x \in A : x[1] = "marked"
  OBVIOUS
<1>3. \A x \in B : x[1] = "member"
  OBVIOUS
<1>4. \A x \in C : x[1] = "linked"
  OBVIOUS
<1>5. \A n, m : <<"marked", n, m>>[1] = "marked" /\ <<"linked", n, m>>[1] = "linked"
  OBVIOUS
<1>6. \A n, m : <<"marked", n, m>> \in A <=> n \in Marked(g) /\ m = g.marker[n]
  OBVIOUS
<1>7. \A n, d : <<"linked", n, d>> \in C <=> n \in g.issues /\ d \in g.deps[n] \cap g.issues
  OBVIOUS
<1>8. ASSUME NEW n, n \in g.issues, n \in g.member PROVE <<"member", n, TRUE>> \in B
  <2>1. (n \in g.member) = TRUE
    BY <1>8
  <2>2. <<"member", n, n \in g.member>> \in B
    BY <1>8
  <2> QED BY <2>1, <2>2
<1>9. ASSUME NEW n, n \in g.issues, n \notin g.member PROVE <<"member", n, FALSE>> \in B
  <2>1. (n \in g.member) = FALSE
    BY <1>9
  <2>2. <<"member", n, n \in g.member>> \in B
    BY <1>9
  <2> QED BY <2>1, <2>2
<1> HIDE DEF A, B, C
<1> QED BY <1>1, <1>2, <1>3, <1>4, <1>5, <1>6, <1>7, <1>8, <1>9

(* A fact is of one of three kinds.                                         *)
LEMMA FactKinds ==
    ASSUME NEW g, NEW x \in Facts(g)
    PROVE  /\ x[1] = "marked" => \E n \in Marked(g) : x = <<"marked", n, g.marker[n]>>
           /\ x[1] = "linked" => \E n, d \in g.issues : x = <<"linked", n, d>>
<1> DEFINE A == {<<"marked", n, g.marker[n]>> : n \in Marked(g)}
           B == {<<"member", n, n \in g.member>> : n \in g.issues}
           C == UNION {{<<"linked", n, d>> : d \in g.deps[n] \cap g.issues} : n \in g.issues}
<1>1. x \in A \cup B \cup C
  BY DEF Facts
<1>2. x \in A => x[1] = "marked" /\ \E n \in Marked(g) : x = <<"marked", n, g.marker[n]>>
  OBVIOUS
<1>3. x \in B => x[1] = "member"
  OBVIOUS
<1>4. x \in C => x[1] = "linked" /\ \E n, d \in g.issues : x = <<"linked", n, d>>
  OBVIOUS
<1> HIDE DEF A, B, C
<1> QED BY <1>1, <1>2, <1>3, <1>4

(* The fields of a well-formed GitHub.                                      *)
LEMMA Fields ==
    ASSUME NEW g, WellFormed(g)
    PROVE  /\ g.issues \in SUBSET Number /\ g.issues \in SUBSET Nat /\ g.next \in Nat
           /\ g.listed \subseteq g.member /\ g.member \subseteq g.issues
           /\ g.marker \in [Number -> Id \cup {None}] /\ g.deps \in [Number -> SUBSET Number]
           /\ \A n \in g.issues : n < g.next
BY NumberType DEF WellFormed

(* A new issue takes the next number.                                       *)
LEMMA NewIssue ==
    ASSUME NEW g, WellFormed(g), g.next \in Number, NEW id \in Id \cup {None}
    PROVE  /\ WellFormed(WithIssue(g, id)) /\ WithIssue(g, id).next = g.next + 1
           /\ WithIssue(g, id).issues = g.issues \cup {g.next}
<1> DEFINE h == WithIssue(g, id)
           numbers == g.issues \cup {g.next}
           marks == [g.marker EXCEPT ![g.next] = id]
<1>0. /\ numbers \in SUBSET Number /\ marks \in [Number -> Id \cup {None}]
      /\ g.next + 1 \in Nat
  BY Fields
<1>1. /\ h.issues = numbers /\ h.next = g.next + 1
      /\ h.member = g.member /\ h.listed = g.listed
      /\ h \in [issues : SUBSET Number, next : Nat,
                member : SUBSET Number, listed : SUBSET Number,
                marker : [Number -> Id \cup {None}], deps : [Number -> SUBSET Number]]
  <2>1. h = [g EXCEPT !.issues = numbers, !.marker = marks, !.next = g.next + 1]
    BY DEF WithIssue, WellFormed
  <2> HIDE DEF h, numbers, marks
  <2> QED BY <1>0, <2>1 DEF WellFormed
<1>2. \A n \in h.issues : n < h.next
  BY <1>1, Fields
<1> HIDE DEF h
<1>3. WellFormed(h)
  BY <1>1, <1>2, Fields DEF WellFormed
<1> QED BY <1>1, <1>3 DEF h

(* The changes others make keep GitHub well formed.  *)
LEMMA OtherChanges ==
    ASSUME WellFormed(github)
    PROVE  /\ \A n \in github.issues :
                LET g == [github EXCEPT !.issues = @ \ {n}, !.member = @ \ {n}, !.listed = @ \ {n}]
                IN  WellFormed(g) /\ g.next = github.next /\ g.issues = github.issues \ {n}
           /\ \A n \in github.issues, id \in Id :
                LET g == [github EXCEPT !.marker[n] = id]
                IN  WellFormed(g) /\ g.next = github.next /\ g.issues = github.issues
           /\ \A n \in github.issues :
                LET g == [github EXCEPT !.member = @ \cup {n}]
                IN  WellFormed(g) /\ g.next = github.next /\ g.issues = github.issues
           /\ \A n \in github.issues, d \in github.issues :
                LET g == [github EXCEPT !.deps[n] = IF d \in @ THEN @ \ {d} ELSE @ \cup {d}]
                IN  WellFormed(g) /\ g.next = github.next /\ g.issues = github.issues
           /\ \A n \in github.member :
                LET g == [github EXCEPT !.listed = @ \cup {n}]
                IN  /\ WellFormed(g) /\ g.next = github.next /\ g.issues = github.issues
                    /\ Facts(g) = Facts(github)
<1>1. ASSUME NEW n \in github.issues
      PROVE  LET g == [github EXCEPT !.issues = @ \ {n}, !.member = @ \ {n}, !.listed = @ \ {n}]
             IN  WellFormed(g) /\ g.next = github.next /\ g.issues = github.issues \ {n}
  BY DEF WellFormed
<1>2. ASSUME NEW n \in github.issues, NEW id \in Id
      PROVE  LET g == [github EXCEPT !.marker[n] = id]
             IN  WellFormed(g) /\ g.next = github.next /\ g.issues = github.issues
  BY DEF WellFormed
<1>3. ASSUME NEW n \in github.issues
      PROVE  LET g == [github EXCEPT !.member = @ \cup {n}]
             IN  WellFormed(g) /\ g.next = github.next /\ g.issues = github.issues
  BY DEF WellFormed
<1>4. ASSUME NEW n \in github.issues, NEW d \in github.issues
      PROVE  LET g == [github EXCEPT !.deps[n] = IF d \in @ THEN @ \ {d} ELSE @ \cup {d}]
             IN  WellFormed(g) /\ g.next = github.next /\ g.issues = github.issues
  <2> DEFINE x == IF d \in github.deps[n] THEN github.deps[n] \ {d} ELSE github.deps[n] \cup {d}
  <2>1. n \in Number /\ d \in Number /\ github.deps[n] \in SUBSET Number
    BY Fields
  <2>2. x \in SUBSET Number
    BY <2>1
  <2> HIDE DEF x
  <2>3. LET g == [github EXCEPT !.deps[n] = x]
        IN  WellFormed(g) /\ g.next = github.next /\ g.issues = github.issues
    BY <2>1, <2>2 DEF WellFormed
  <2> QED BY <2>3 DEF x
<1>5. ASSUME NEW n \in github.member
      PROVE  LET g == [github EXCEPT !.listed = @ \cup {n}]
             IN  /\ WellFormed(g) /\ g.next = github.next /\ g.issues = github.issues
                 /\ Facts(g) = Facts(github)
  <2> DEFINE g == [github EXCEPT !.listed = @ \cup {n}]
  <2>1. /\ WellFormed(g) /\ g.next = github.next /\ g.issues = github.issues
        /\ g.marker = github.marker /\ g.member = github.member /\ g.deps = github.deps
    BY DEF WellFormed
  <2> HIDE DEF g
  <2>2. Facts(g) = Facts(github)
    BY <2>1 DEF Facts, Marked
  <2> QED BY <2>1, <2>2 DEF g
<1> QED BY <1>1, <1>2, <1>3, <1>4, <1>5

(* What the two routes take for a rate limit is one: GitHub answered so and *)
(* had done nothing, however the failure was reported.                      *)
LEMMA RateLimitedMeansRefused ==
    ASSUME NEW x \in Response, IsRateLimited(x)
    PROVE  ~x.ran
<1>1. x.status \in {403, 429} \/ GraphqlRefused(x)
  BY RouteType, ResponseType DEF IsRateLimited, ErrorStatus, ResponseShape
<1>2. Refusal(x)
  BY <1>1 DEF Refusal, GraphqlRefused
<1> QED
  BY <1>2, RefusedBeforeWork

(* A 422 is a refusal as well, so the fallback repeats no work. *)
LEMMA UnprocessableMeansRefused ==
    ASSUME NEW x \in Response, LabelsInstead(x)
    PROVE  ~x.ran
<1>1. x.status = 422
  BY RouteType, ResponseType DEF LabelsInstead, ErrorStatus, ResponseShape
<1> QED
  BY <1>1, RefusedBeforeWork DEF Refusal

(* Every step leaves the marks of the present request, or clears them, or   *)
(* sends the request again.                                                 *)
LEMMA BudgetSteps ==
    ASSUME [Next]_vars
    PROVE  \/ waited' = waited /\ ran' = ran
           \/ waited' = waited /\ ran' = FALSE
           \/ waited' = 0 /\ ran' = ran
           \/ \E x \in Response : Resend(x) \/ FallBack(x)
<1> USE DEF budget
<1>1. CASE Requests
  BY <1>1 DEF Requests, ListIssues, ProjectItems, MembershipFromIssues, Relationships,
              RemainingBlockedBy, CreateIssue, Answered
<1>2. CASE Failures
  BY <1>2 DEF Failures, GiveUp
<1>3. CASE FinishRead \/ Complete \/ Refresh
  BY <1>3 DEF FinishRead, Complete, Refresh
<1>4. CASE Others
  BY <1>4 DEF Others, Open, Vanish, Mark, Join, Relink, CatchUp, Change
<1>5. CASE UNCHANGED vars
  BY <1>5 DEF vars
<1> QED
  BY <1>1, <1>2, <1>3, <1>4, <1>5 DEF Next, Proceed

(* A request is sent again only when GitHub has done no part of it.  (The   *)
(* retry loop of RateLimitBudget.call, github.py 167-190, and the label     *)
(* fallback of create_issue, 501-508.)                                      *)
THEOREM NothingIsDoneTwice == Spec => []ResentOnlyIfNothingRan
<1>1. Init => ResentOnlyIfNothingRan
  BY DEF Init, ResentOnlyIfNothingRan
<1>2. ResentOnlyIfNothingRan /\ [Next]_vars => ResentOnlyIfNothingRan'
  <2> SUFFICES ASSUME ~ran, [Next]_vars PROVE ~ran'
    BY DEF ResentOnlyIfNothingRan
  <2>1. ASSUME NEW x \in Response, Resend(x) PROVE ~ran'
    BY <2>1, RateLimitedMeansRefused DEF Resend, SentAgain
  <2>2. ASSUME NEW x \in Response, FallBack(x) PROVE ~ran'
    BY <2>2, UnprocessableMeansRefused DEF FallBack
  <2> QED
    BY <2>1, <2>2, BudgetSteps
<1> QED
  BY <1>1, <1>2, PTL DEF Spec

(* The waits of a process stay within its budget, whatever GitHub asks it   *)
(* to wait and however many requests it refuses (github.py 167-190).        *)
THEOREM BudgetIsKept == Spec => []WithinBudget
<1>1. Init => WithinBudget
  BY WaitBounds DEF Init, WithinBudget
<1>2. WithinBudget /\ [Next]_vars => WithinBudget'
  <2> SUFFICES ASSUME WithinBudget, [Next]_vars PROVE WithinBudget'
    OBVIOUS
  <2>1. ASSUME NEW x \in Response, Resend(x) PROVE WithinBudget'
    BY <2>1 DEF Resend, SentAgain, WithinBudget
  <2>2. ASSUME NEW x \in Response, FallBack(x) PROVE WithinBudget'
    BY <2>2 DEF FallBack, WithinBudget
  <2>3. waited' = waited => WithinBudget'
    BY DEF WithinBudget
  <2>4. waited' = 0 => WithinBudget'
    BY WaitBounds DEF WithinBudget
  <2> QED
    BY <2>1, <2>2, <2>3, <2>4, BudgetSteps
<1> QED
  BY <1>1, <1>2, PTL DEF Spec

-----------------------------------------------------------------------------
(* The inductive invariant.  The histories say what they are meant to; the  *)
(* numbers suffice for what may still be opened or created ...              *)
HistoryInv ==
    /\ always = [r \in {1, 2} |-> always[r]]
    /\ \A r \in {1, 2} : always[r] \subseteq Facts(github)
    /\ Facts(github) \subseteq ever
StillToCome ==
    (MaxEvents - events)
    + (IF pc \in Terminal THEN 0 ELSE IF pc = "create" THEN Cardinality(todo) ELSE Cardinality(Id))
RoomInv == github.next .. (github.next + StillToCome - 1) \subseteq Number

(* ... what was read was true when it was read; who is not among the items  *)
(* and no longer asked about was outside the Project, or has vanished, which *)
(* the request for its dependencies will find ...                           *)
Outside(n) == <<"member", n, FALSE>> \in ever \/ n \notin github.issues
TruthInv ==
    /\ \A f \in found : /\ f.number \in Number /\ f.number < github.next
                        /\ <<"marked", f.number, f.marker>> \in ever
    /\ \A n \in items : <<"member", n, TRUE>> \in ever
    /\ \A n \in DOMAIN links : \A l \in links[n] :
          /\ l.number \in Number /\ l.number < github.next
          /\ <<"linked", n, l.number>> \in ever
          /\ l.marker # None => <<"marked", l.number, l.marker>> \in ever
AskedInv ==
    /\ wanted \subseteq ManagedNumbers /\ DOMAIN links \subseteq ManagedNumbers
    /\ pc = "membership" => \A n \in ManagedNumbers \ (items \cup wanted) : Outside(n)
    /\ pc \in {"relations", "links"} =>
          /\ ManagedNumbers \subseteq wanted \cup DOMAIN links
          /\ \A n \in ManagedNumbers \ items : Outside(n)
    /\ \A n \in DOMAIN links \ items : <<"member", n, FALSE>> \in ever

(* ... the pages read hold what was there all along, unless an issue        *)
(* vanished, and none that a later page shows, unless one was opened ...    *)
MarkedAlways(n, id) == <<"marked", n, id>> \in always[round]
Listed(n, id) == [number |-> n, marker |-> id] \in found
PagesInv ==
    /\ pc = "list" =>
          /\ <<round, "gone">> \in shifted \/ \A n \in Number, id \in Id :
               MarkedAlways(n, id) /\ PageOf(github, n) + 1 < page => Listed(n, id)
          /\ <<round, "new">> \in shifted \/ \A n \in ManagedNumbers \cap github.issues :
               PageOf(github, n) + 1 < page
    /\ pc \in {"items", "membership", "relations", "links"} =>
          <<round, "gone">> \in shifted \/ \A n \in Number, id \in Id :
               MarkedAlways(n, id) => Listed(n, id)
    /\ doubled # {} => <<round, "new">> \in shifted

(* ... and so do the dependencies read: what is missing lies beyond.        *)
LinksInv ==
    /\ pc \in {"list", "items", "membership", "relations"} => more = {}
    /\ more \subseteq DOMAIN links
    /\ pc = "links" => more # {} /\ \A n \in more : links[n] # {}
    /\ \A n \in DOMAIN links, d \in Number : <<"linked", n, d>> \in always[round] =>
          \/ \E l \in links[n] : l.number = d
          \/ n \in more /\ \A l \in links[n] : l.number < d

(* The plan knows what the first read found, and the apply creates nothing  *)
(* either read found.                                                       *)
PlanInv ==
    /\ pc = "review" => round = 1
    /\ pc \in {"list", "items", "membership", "relations", "links", "review"} => todo = {}
    /\ pc = "review" \/ round = 2 =>
          <<1, "gone">> \in shifted \/ \A n \in Number, id \in Id :
               <<"marked", n, id>> \in always[1] =>
                  \E e \in planned.entries : e.number = n /\ e.marker = id
    /\ pc = "create" =>
          \A r \in {1, 2}, n \in Number, id \in todo :
             <<"marked", n, id>> \in always[r] => <<r, "gone">> \in shifted

IInv == /\ TypeOK /\ HistoryInv /\ RoomInv /\ TruthInv /\ AskedInv
        /\ PagesInv /\ LinksInv /\ PlanInv

-----------------------------------------------------------------------------
(* What a step changes that does not read: GitHub, and what is known of its *)
(* history; of the apply only that less remains to be created.              *)
Elsewhere ==
    /\ UNCHANGED <<round, reading, planned>> /\ pc' \in {pc, "failed"}
    /\ WellFormed(github)' /\ github.next <= github'.next
    /\ \A n \in github'.issues : n \in github.issues \/ github.next <= n
    /\ HistoryInv'
    /\ \A r \in {1, 2} : always'[r] \subseteq always[r]
    /\ ever \subseteq ever' /\ shifted \subseteq shifted'
    /\ pc = "list" =>
          /\ github'.issues \subseteq github.issues \/ <<round, "new">> \in shifted'
          /\ github.issues \subseteq github'.issues \/ <<round, "gone">> \in shifted'
    /\ todo' \subseteq todo

(* The histories follow GitHub.                                             *)
LEMMA Histories ==
    ASSUME HistoryInv
    PROVE  /\ \A g : Becomes(g) =>
                /\ github' = g /\ HistoryInv' /\ ever \subseteq ever'
                /\ \A r \in {1, 2} : always'[r] \subseteq always[r]
           /\ UNCHANGED <<github, history>> =>
                /\ HistoryInv' /\ ever \subseteq ever'
                /\ \A r \in {1, 2} : always'[r] \subseteq always[r]
<1>1. ASSUME NEW g, Becomes(g)
      PROVE  /\ github' = g /\ HistoryInv' /\ ever \subseteq ever'
             /\ \A r \in {1, 2} : always'[r] \subseteq always[r]
  <2>1. /\ github' = g /\ ever' = ever \cup Facts(g)
        /\ always' = [r \in {1, 2} |-> always[r] \cap Facts(g)]
    BY <1>1 DEF Becomes
  <2>2. Facts(github)' = Facts(g)
    BY <2>1
  <2> QED BY <2>1, <2>2 DEF HistoryInv
<1>2. ASSUME UNCHANGED <<github, history>>
      PROVE  /\ HistoryInv' /\ ever \subseteq ever'
             /\ \A r \in {1, 2} : always'[r] \subseteq always[r]
  <2>1. always' = always /\ ever' = ever /\ Facts(github)' = Facts(github)
    BY <1>2 DEF history
  <2> QED BY <2>1 DEF HistoryInv
<1> QED BY <1>1, <1>2

(* While something may still come, its number is free.                      *)
LEMMA NextIsFree ==
    ASSUME TypeOK, RoomInv, events < MaxEvents \/ (pc = "create" /\ todo # {}),
           pc \notin Terminal
    PROVE  /\ github.next \in Number
           /\ StillToCome \in Nat
<1>1. /\ IsFiniteSet(todo) /\ Cardinality(todo) \in Nat /\ Cardinality(Id) \in Nat
      /\ todo # {} => Cardinality(todo) # 0
  BY NumbersSuffice, FS_Subset, FS_CardinalityType, FS_EmptySet DEF TypeOK
<1>2. MaxEvents - events \in Nat /\ (events < MaxEvents => MaxEvents - events > 0)
  BY MaxEventsType DEF TypeOK
<1>3. StillToCome \in Nat /\ StillToCome > 0
  BY <1>1, <1>2 DEF StillToCome
<1>4. github.next \in Nat
  BY Fields DEF TypeOK
<1>5. github.next \in github.next .. (github.next + StillToCome - 1)
  BY <1>3, <1>4
<1> QED BY <1>3, <1>5 DEF RoomInv

(* A request of the apply that did its work all the same.                   *)
LEMMA CreatedSomehow ==
    ASSUME IInv, pc = "create", todo # {}, Becomes(WithIssue(github, Created))
    PROVE  /\ WellFormed(github)' /\ github'.next = github.next + 1
           /\ github'.issues = github.issues \cup {github.next}
<1>1. Created \in todo /\ todo \subseteq Id /\ WellFormed(github) /\ github.next \in Number
  BY NextIsFree DEF Created, IInv, TypeOK, Terminal
<1>2. github' = WithIssue(github, Created)
  BY DEF Becomes
<1> QED BY <1>1, <1>2, NewIssue

(* Creating, failing, and everybody else leave the read alone.              *)
LEMMA CreatingIsElsewhere ==
    ASSUME IInv, CreateIssue PROVE Elsewhere
<1>1. /\ UNCHANGED <<round, reading, planned, shifted>> /\ pc' = pc /\ pc = "create"
      /\ Becomes(WithIssue(github, Created)) /\ todo # {} /\ todo' \subseteq todo
  BY DEF CreateIssue
<1>2. /\ WellFormed(github)' /\ github'.next = github.next + 1
      /\ github'.issues = github.issues \cup {github.next} /\ github.next \in Nat
  BY <1>1, CreatedSomehow, Fields DEF IInv, TypeOK
<1>3. /\ HistoryInv' /\ ever \subseteq ever' /\ \A r \in {1, 2} : always'[r] \subseteq always[r]
  BY <1>1, Histories DEF IInv
<1> QED BY <1>1, <1>2, <1>3 DEF Elsewhere

(* A failed request, also when GitHub did its work.                         *)
LEMMA FailingIsElsewhere ==
    ASSUME IInv, NEW x \in Response, Resend(x) \/ FallBack(x) \/ GiveUp(x) PROVE Elsewhere
<1>1. /\ UNCHANGED <<round, reading, planned>> /\ pc' \in {pc, "failed"}
      /\ Fails(x) /\ Outcome(x) /\ todo' = todo
  BY DEF Resend, FallBack, GiveUp, writing
<1>2. CASE pc = "create" /\ x.ran
  <2>1. /\ UNCHANGED shifted /\ Becomes(WithIssue(github, Created)) /\ todo # {}
    BY <1>1, <1>2 DEF Fails, Requesting, Outcome
  <2>2. /\ WellFormed(github)' /\ github'.next = github.next + 1
        /\ github'.issues = github.issues \cup {github.next} /\ github.next \in Nat
    BY <1>2, <2>1, CreatedSomehow, Fields DEF IInv, TypeOK
  <2>3. /\ HistoryInv' /\ ever \subseteq ever' /\ \A r \in {1, 2} : always'[r] \subseteq always[r]
    BY <2>1, Histories DEF IInv
  <2> QED BY <1>1, <1>2, <2>1, <2>2, <2>3 DEF Elsewhere
<1>3. CASE ~(pc = "create" /\ x.ran)
  <2>1. UNCHANGED <<github, history>>
    BY <1>1, <1>3 DEF Outcome
  <2>2. /\ HistoryInv' /\ ever \subseteq ever' /\ \A r \in {1, 2} : always'[r] \subseteq always[r]
    BY <2>1, Histories DEF IInv
  <2>3. WellFormed(github)' /\ github.next \in Nat
    BY <2>1, Fields DEF IInv, TypeOK
  <2> QED BY <1>1, <2>1, <2>2, <2>3 DEF Elsewhere, history
<1> QED BY <1>2, <1>3

(* Everybody else.                                                          *)
LEMMA OthersAreElsewhere ==
    ASSUME IInv, Others PROVE Elsewhere
<1>0. WellFormed(github) /\ github.next \in Nat
  BY Fields DEF IInv, TypeOK
<1>1. ASSUME NEW g, NEW shift, Change(g, shift), shifted \subseteq shift,
             WellFormed(g), github.next <= g.next,
             \A n \in g.issues : n \in github.issues \/ github.next <= n,
             pc = "list" => /\ g.issues \subseteq github.issues \/ <<round, "new">> \in shift
                            /\ github.issues \subseteq g.issues \/ <<round, "gone">> \in shift
      PROVE  Elsewhere
  <2>1. /\ UNCHANGED <<pc, round, reading, planned, todo>> /\ Becomes(g) /\ shifted' = shift
    BY <1>1 DEF Change, writing
  <2>2. /\ github' = g /\ HistoryInv' /\ ever \subseteq ever'
        /\ \A r \in {1, 2} : always'[r] \subseteq always[r]
    BY <2>1, Histories DEF IInv
  <2> QED BY <1>1, <2>1, <2>2 DEF Elsewhere
<1>2. CASE Open
  <2>1. PICK id \in Id \cup {None} : Change(WithIssue(github, id), Shifts("new"))
    BY <1>2 DEF Open
  <2>2. github.next \in Number
    BY <2>1, NextIsFree DEF Change, IInv
  <2>3. shifted \subseteq Shifts("new") /\ (pc = "list" => <<round, "new">> \in Shifts("new"))
    BY DEF Shifts
  <2> HIDE DEF Shifts
  <2> QED BY <1>0, <1>1, <2>1, <2>2, <2>3, NewIssue
<1>3. CASE Vanish
  <2>1. PICK n \in github.issues :
          Change([github EXCEPT !.issues = @ \ {n}, !.member = @ \ {n}, !.listed = @ \ {n}],
                 Shifts("gone"))
    BY <1>3 DEF Vanish
  <2> DEFINE g == [github EXCEPT !.issues = @ \ {n}, !.member = @ \ {n}, !.listed = @ \ {n}]
  <2>2. shifted \subseteq Shifts("gone") /\ (pc = "list" => <<round, "gone">> \in Shifts("gone"))
    BY DEF Shifts
  <2>3. WellFormed(g) /\ g.next = github.next /\ g.issues = github.issues \ {n}
    BY <1>0, OtherChanges
  <2>4. Change(g, Shifts("gone"))
    BY <2>1
  <2> HIDE DEF g, Shifts
  <2> QED BY <1>0, <1>1, <2>2, <2>3, <2>4
<1>4. CASE Mark
  <2>1. PICK n \in github.issues, id \in Id : Change([github EXCEPT !.marker[n] = id], shifted)
    BY <1>4 DEF Mark
  <2> DEFINE g == [github EXCEPT !.marker[n] = id]
  <2>2. WellFormed(g) /\ g.next = github.next /\ g.issues = github.issues /\ Change(g, shifted)
    BY <1>0, <2>1, OtherChanges
  <2> HIDE DEF g
  <2> QED BY <1>0, <1>1, <2>2
<1>5. CASE Join
  <2>1. PICK n \in github.issues : Change([github EXCEPT !.member = @ \cup {n}], shifted)
    BY <1>5 DEF Join
  <2> DEFINE g == [github EXCEPT !.member = @ \cup {n}]
  <2>2. WellFormed(g) /\ g.next = github.next /\ g.issues = github.issues /\ Change(g, shifted)
    BY <1>0, <2>1, OtherChanges
  <2> HIDE DEF g
  <2> QED BY <1>0, <1>1, <2>2
<1>6. CASE Relink
  <2>1. PICK n \in github.issues, d \in github.issues :
          Change([github EXCEPT !.deps[n] = IF d \in @ THEN @ \ {d} ELSE @ \cup {d}], shifted)
    BY <1>6 DEF Relink, Marked
  <2> DEFINE g == [github EXCEPT !.deps[n] = IF d \in @ THEN @ \ {d} ELSE @ \cup {d}]
  <2>2. WellFormed(g) /\ g.next = github.next /\ g.issues = github.issues
    BY <1>0, OtherChanges
  <2>3. Change(g, shifted)
    BY <2>1
  <2> HIDE DEF g
  <2> QED BY <1>0, <1>1, <2>2, <2>3
<1>7. CASE CatchUp
  <2>1. PICK n \in github.member : github' = [github EXCEPT !.listed = @ \cup {n}]
    BY <1>7 DEF CatchUp
  <2>2. UNCHANGED <<pc, round, reading, planned, todo, history>>
    BY <1>7 DEF CatchUp, writing
  <2>3. /\ WellFormed(github)' /\ github'.next = github.next /\ github'.issues = github.issues
        /\ Facts(github)' = Facts(github)
    BY <1>0, <2>1, OtherChanges
  <2>4. HistoryInv' /\ always' = always /\ ever' = ever /\ shifted' = shifted
    BY <2>2, <2>3 DEF HistoryInv, history, IInv
  <2> QED BY <1>0, <2>2, <2>3, <2>4 DEF Elsewhere
<1> QED BY <1>2, <1>3, <1>4, <1>5, <1>6, <1>7 DEF Others

(* Opening an issue moves others to the same or a later page, a vanished    *)
(* one to the same or an earlier page.                                      *)
LEMMA PagesMove ==
    ASSUME NEW g, NEW h, WellFormed(g), WellFormed(h), g.issues \subseteq h.issues, NEW n
    PROVE  PageOf(g, n) <= PageOf(h, n)
<1>1. /\ IsFiniteSet(Above(h, n)) /\ Cardinality(Above(h, n)) \in Nat
      /\ Cardinality(Above(g, n)) \in Nat
  BY Pages
<1>2. Above(g, n) \in SUBSET Above(h, n)
  BY DEF Above
<1>3. Cardinality(Above(g, n)) <= Cardinality(Above(h, n))
  BY <1>1, <1>2, FS_Subset
<1> QED BY <1>1, <1>3, PageSizes, Division DEF PageOf

(* Whatever changes outside the reader, what it has read stays true, and    *)
(* what it has yet to find stays ahead of it.                               *)
LEMMA ElsewhereKeeps ==
    ASSUME IInv, Elsewhere
    PROVE  TruthInv' /\ AskedInv' /\ PagesInv' /\ LinksInv' /\ PlanInv'
<1> USE DEF IInv
<1>0. /\ UNCHANGED <<page, found, doubled, items, wanted, links, more, round, planned>>
      /\ ManagedNumbers' = ManagedNumbers /\ pc' \in {pc, "failed"}
      /\ ever \subseteq ever' /\ shifted \subseteq shifted' /\ round \in {1, 2}
      /\ \A r \in {1, 2} : always'[r] \subseteq always[r]
  BY DEF Elsewhere, reading, ManagedNumbers, TypeOK
<1>1. /\ github.next \in Nat /\ github'.next \in Nat /\ github.next <= github'.next
      /\ WellFormed(github) /\ WellFormed(github')
      /\ \A n \in github'.issues : n \in github.issues \/ github.next <= n
  <2>1. WellFormed(github')
    BY DEF Elsewhere, WellFormed
  <2> QED BY <2>1, Fields DEF Elsewhere, TypeOK
<1>2. \A f \in found : f.number \in Nat /\ f.number < github.next
  BY NumberType DEF TruthInv
<1>3. TruthInv'
  <2>1. ASSUME NEW n \in Number, n < github.next PROVE n < github'.next
    BY <1>1, <2>1, NumberType
  <2> QED BY <1>0, <2>1 DEF TruthInv
<1>4. AskedInv'
  <2>1. ASSUME NEW n \in ManagedNumbers, Outside(n) PROVE Outside(n)'
    <3>1. n \in Nat /\ n < github.next
      BY <1>2 DEF ManagedNumbers
    <3> QED BY <1>0, <1>1, <2>1, <3>1 DEF Outside
  <2> QED BY <1>0, <2>1 DEF AskedInv
<1>5. PagesInv'
  <2>1. ASSUME pc' = "list", <<round, "gone">> \notin shifted', NEW n \in Number, NEW id \in Id,
               MarkedAlways(n, id)', PageOf(github', n) + 1 < page
        PROVE  Listed(n, id)'
    <3>1. pc = "list" /\ <<round, "gone">> \notin shifted /\ github.issues \subseteq github'.issues
      BY <1>0, <2>1 DEF Elsewhere
    <3>2. PageOf(github, n) <= PageOf(github', n) /\ PageOf(github, n) \in Nat
          /\ PageOf(github', n) \in Nat /\ page \in Nat
      BY <1>1, <3>1, PagesMove, Pages DEF TypeOK
    <3>3. PageOf(github, n) + 1 < page
      BY <2>1, <3>2
    <3>4. MarkedAlways(n, id)
      BY <1>0, <2>1 DEF MarkedAlways
    <3> QED BY <1>0, <3>1, <3>3, <3>4 DEF PagesInv, Listed
  <2>2. ASSUME pc' = "list", <<round, "new">> \notin shifted',
               NEW n \in ManagedNumbers \cap github'.issues
        PROVE  PageOf(github', n) + 1 < page
    <3>1. pc = "list" /\ <<round, "new">> \notin shifted /\ github'.issues \subseteq github.issues
      BY <1>0, <2>2 DEF Elsewhere
    <3>2. PageOf(github', n) <= PageOf(github, n) /\ PageOf(github, n) \in Nat
          /\ PageOf(github', n) \in Nat /\ page \in Nat
      BY <1>1, <3>1, PagesMove, Pages DEF TypeOK
    <3>3. PageOf(github, n) + 1 < page
      BY <3>1 DEF PagesInv
    <3> QED BY <3>2, <3>3
  <2>3. ASSUME pc' \in {"items", "membership", "relations", "links"},
               <<round, "gone">> \notin shifted', NEW n \in Number, NEW id \in Id,
               MarkedAlways(n, id)'
        PROVE  Listed(n, id)'
    BY <1>0, <2>3 DEF PagesInv, MarkedAlways, Listed
  <2>4. doubled' # {} => <<round, "new">> \in shifted'
    BY <1>0 DEF PagesInv
  <2> QED BY <1>0, <2>1, <2>2, <2>3, <2>4 DEF PagesInv
<1>6. LinksInv'
  BY <1>0 DEF LinksInv
<1>7. PlanInv'
  <2>1. todo' \subseteq todo
    BY DEF Elsewhere
  <2> QED BY <1>0, <2>1 DEF PlanInv
<1> QED BY <1>3, <1>4, <1>5, <1>6, <1>7

-----------------------------------------------------------------------------
(* One page of the issue list.                                              *)
LEMMA ListingKeeps ==
    ASSUME IInv, ListIssues
    PROVE  TruthInv' /\ AskedInv' /\ PagesInv' /\ LinksInv' /\ PlanInv'
<1> USE DEF IInv
<1> DEFINE batch == ListPage(github, page)
           managed == batch \cap Marked(github)
           new == {[number |-> n, marker |-> github.marker[n]] : n \in managed}
<1>0. /\ UNCHANGED <<github, round, always, ever, shifted, planned, todo, items, wanted, links, more>>
      /\ pc = "list" /\ found' = found \cup new
      /\ doubled' = doubled \cup (managed \cap ManagedNumbers)
      /\ \/ Cardinality(batch) < PageSize /\ pc' = "items" /\ page' = page
         \/ Cardinality(batch) >= PageSize /\ pc' = "list" /\ page' = page + 1
  <2>1. Cardinality(batch) \in Nat
    <3>1. batch \in SUBSET github.issues /\ IsFiniteSet(github.issues)
      BY Pages DEF TypeOK
    <3> HIDE DEF batch
    <3> QED BY <3>1, FS_Subset, FS_CardinalityType
  <2>2. PageSize \in Nat
    BY PageSizes
  <2>3. /\ UNCHANGED <<github, round, always, ever, shifted, planned, todo, items, wanted, links, more>>
        /\ pc = "list" /\ found' = found \cup new
        /\ doubled' = doubled \cup (managed \cap ManagedNumbers)
        /\ IF Cardinality(batch) < PageSize
           THEN pc' = "items" /\ UNCHANGED page
           ELSE page' = page + 1 /\ UNCHANGED pc
    BY DEF ListIssues, Answered, history, writing
  <2> HIDE DEF batch, managed, new
  <2> QED BY <2>1, <2>2, <2>3
<1>1. /\ ManagedNumbers' = ManagedNumbers \cup managed
      /\ \A f \in new : f.number \in managed /\ f.marker = github.marker[f.number]
      /\ \A n \in managed : [number |-> n, marker |-> github.marker[n]] \in new
  <2>1. /\ \A f \in new : f.number \in managed /\ f.marker = github.marker[f.number]
        /\ \A n \in managed : [number |-> n, marker |-> github.marker[n]] \in new
    OBVIOUS
  <2>2. {f.number : f \in new} = managed
    <3>1. ASSUME NEW n \in managed PROVE \E f \in new : f.number = n
      <4> DEFINE f == [number |-> n, marker |-> github.marker[n]]
      <4>1. f \in new /\ f.number = n
        BY <2>1
      <4> HIDE DEF new, managed, f
      <4> QED BY <4>1
    <3> HIDE DEF new, managed
    <3> QED BY <2>1, <3>1
  <2> HIDE DEF new, managed
  <2> QED BY <1>0, <2>1, <2>2 DEF ManagedNumbers
<1>2. /\ WellFormed(github) /\ page \in Nat \ {0} /\ round \in {1, 2}
      /\ batch = {n \in github.issues : PageOf(github, n) = page - 1}
      /\ \A n : PageOf(github, n) \in Nat
      /\ \A n \in github.issues : n \in Number /\ n < github.next
  BY Pages, Fields DEF TypeOK
<1>3. \A n \in managed : n \in github.issues /\ n \in Marked(github) /\ PageOf(github, n) = page - 1
  BY <1>2
<1> HIDE DEF new
<1>4. TruthInv'
  <2>1. ASSUME NEW f \in new
        PROVE  /\ f.number \in Number /\ f.number < github.next
               /\ <<"marked", f.number, f.marker>> \in ever
    BY <1>1, <1>2, <1>3, FactsAre DEF HistoryInv
  <2> HIDE DEF managed, batch
  <2> QED BY <1>0, <2>1 DEF TruthInv
<1>5. AskedInv'
  <2> HIDE DEF managed, batch
  <2> QED BY <1>0, <1>1 DEF AskedInv
<1>6. LinksInv'
  <2> HIDE DEF managed, batch
  <2> QED BY <1>0 DEF LinksInv
<1>7. PlanInv'
  <2> HIDE DEF managed, batch
  <2> QED BY <1>0 DEF PlanInv
<1>8. ASSUME <<round, "gone">> \notin shifted, NEW n \in Number, NEW id \in Id,
             MarkedAlways(n, id), PageOf(github, n) < page
      PROVE  Listed(n, id)'
  <2>1. n \in Marked(github) /\ id = github.marker[n] /\ n \in github.issues
    BY <1>2, <1>8, FactsAre DEF MarkedAlways, HistoryInv, Marked
  <2>2. CASE PageOf(github, n) + 1 < page
    BY <1>0, <1>8, <2>2 DEF PagesInv, Listed
  <2>3. CASE ~(PageOf(github, n) + 1 < page)
    <3>1. PageOf(github, n) = page - 1
      BY <1>2, <1>8, <2>3
    <3>2. [number |-> n, marker |-> id] \in new
      BY <1>1, <1>2, <2>1, <3>1
    <3> QED BY <1>0, <3>2 DEF Listed
  <2> QED BY <2>2, <2>3
<1>9. PagesInv'
  <2>1. ASSUME pc' = "list", <<round, "gone">> \notin shifted', NEW n \in Number, NEW id \in Id,
               MarkedAlways(n, id)', (PageOf(github, n) + 1 < page)'
        PROVE  Listed(n, id)'
    <3>1. MarkedAlways(n, id) /\ PageOf(github, n) + 1 < page + 1
      BY <1>0, <2>1 DEF MarkedAlways
    <3>2. PageOf(github, n) < page
      BY <1>2, <3>1
    <3> QED BY <1>0, <1>8, <2>1, <3>1, <3>2
  <2>2. ASSUME pc' = "list", <<round, "new">> \notin shifted',
               NEW n \in ManagedNumbers' \cap github'.issues
        PROVE  PageOf(github, n)' + 1 < page'
    <3>1. <<round, "new">> \notin shifted /\ n \in github.issues /\ page' = page + 1
          /\ PageOf(github, n)' = PageOf(github, n)
      BY <1>0, <2>2
    <3>2. CASE n \in managed
      BY <1>2, <1>3, <3>1, <3>2
    <3>3. CASE n \in ManagedNumbers
      <4>1. PageOf(github, n) + 1 < page
        BY <1>0, <3>1, <3>3 DEF PagesInv
      <4> QED BY <1>2, <3>1, <4>1
    <3> QED BY <1>1, <2>2, <3>2, <3>3
  <2>3. ASSUME pc' = "items", <<round, "gone">> \notin shifted', NEW n \in Number, NEW id \in Id,
               MarkedAlways(n, id)'
        PROVE  Listed(n, id)'
    <3>1. MarkedAlways(n, id) /\ Cardinality(batch) < PageSize
      BY <1>0, <2>3 DEF MarkedAlways
    <3>2. n \in github.issues
      BY <1>2, <3>1, FactsAre DEF MarkedAlways, HistoryInv, Marked
    <3>3. ~(PageOf(github, n) > page - 1)
      <4>1. page - 1 \in Nat /\ (page - 1) + 1 = page
        BY <1>2
      <4>2. PageOf(github, n) > page - 1 => Cardinality(ListPage(github, page)) >= PageSize
        BY <1>2, <3>2, <4>1, FullPages
      <4>3. Cardinality(batch) \in Nat /\ PageSize \in Nat
        <5>1. batch \in SUBSET github.issues /\ IsFiniteSet(github.issues)
          BY <1>2, Pages
        <5> HIDE DEF batch
        <5> QED BY <5>1, FS_Subset, FS_CardinalityType, PageSizes
      <4> QED BY <3>1, <4>2, <4>3
    <3>4. PageOf(github, n) < page
      BY <1>2, <3>3
    <3> QED BY <1>0, <1>8, <2>3, <3>1, <3>4
  <2>4. ASSUME doubled' # {} PROVE <<round, "new">> \in shifted'
    <3>1. CASE doubled # {}
      BY <1>0, <3>1 DEF PagesInv
    <3>2. CASE managed \cap ManagedNumbers # {}
      <4>1. PICK n \in managed : n \in ManagedNumbers
        BY <3>2
      <4>2. ~(PageOf(github, n) + 1 < page) /\ n \in github.issues
        BY <1>2, <1>3, <4>1
      <4> QED BY <1>0, <4>1, <4>2 DEF PagesInv
    <3> QED BY <1>0, <2>4, <3>1, <3>2
  <2>5. pc' \in {"list", "items"} /\ round' = round
    BY <1>0
  <2> HIDE DEF managed, batch
  <2> QED BY <2>1, <2>2, <2>3, <2>4, <2>5 DEF PagesInv
<1> QED BY <1>4, <1>5, <1>6, <1>7, <1>9

(* One page of the Project's items.                                         *)
LEMMA ItemsKeep ==
    ASSUME IInv, ProjectItems
    PROVE  TruthInv' /\ AskedInv' /\ PagesInv' /\ LinksInv' /\ PlanInv'
<1> USE DEF IInv
<1> DEFINE after == {n \in github.listed : n > cursor}
           batch == FirstOf(after, PageSize)
           missing == ManagedNumbers \ (items \cup batch)
<1>0. /\ UNCHANGED <<github, round, always, ever, shifted, planned, todo, found, doubled, links, more>>
      /\ ManagedNumbers' = ManagedNumbers
      /\ pc = "items" /\ items' = items \cup batch
      /\ \/ pc' = "items" /\ wanted' = wanted
         \/ pc' = "relations" /\ missing = {} /\ wanted' = ManagedNumbers
         \/ pc' = "membership" /\ missing # {} /\ wanted' = missing
  BY DEF ProjectItems, Answered, history, writing, ManagedNumbers
<1>1. batch \subseteq github.member /\ github.member \subseteq github.issues
  BY Fields DEF FirstOf, TypeOK
<1> HIDE DEF batch
<1>2. \A n \in batch : <<"member", n, TRUE>> \in ever
  BY <1>1, FactsAre DEF HistoryInv
<1>3. TruthInv'
  BY <1>0, <1>2 DEF TruthInv
<1>4. AskedInv'
  BY <1>0 DEF AskedInv
<1>5. PagesInv'
  BY <1>0 DEF PagesInv, MarkedAlways, Listed
<1>6. LinksInv' /\ PlanInv'
  BY <1>0 DEF LinksInv, PlanInv
<1> QED BY <1>3, <1>4, <1>5, <1>6

(* A batch of issues the item list left out.                                *)
LEMMA MembershipKeeps ==
    ASSUME IInv, MembershipFromIssues
    PROVE  TruthInv' /\ AskedInv' /\ PagesInv' /\ LinksInv' /\ PlanInv'
<1> USE DEF IInv
<1> DEFINE batch == FirstOf(wanted, BatchSize)
           rest == wanted \ batch
<1>0. /\ UNCHANGED <<github, round, always, ever, shifted, planned, todo, found, doubled, links, more>>
      /\ ManagedNumbers' = ManagedNumbers
      /\ pc = "membership" /\ items' = items \cup (batch \cap github.member)
      /\ \/ pc' = "relations" /\ rest = {} /\ wanted' = ManagedNumbers
         \/ pc' = "membership" /\ wanted' = rest
  BY DEF MembershipFromIssues, Answered, history, writing, ManagedNumbers
<1>1. batch \subseteq wanted
  BY DEF FirstOf
<1> HIDE DEF batch
<1>2. \A n \in batch \cap github.member : <<"member", n, TRUE>> \in ever
  BY Fields, FactsAre DEF HistoryInv, TypeOK
<1>3. \A n \in batch \ github.member : Outside(n)
  BY FactsAre DEF HistoryInv, Outside
<1>4. TruthInv'
  BY <1>0, <1>2 DEF TruthInv
<1>5. AskedInv'
  <2>1. ASSUME NEW n \in ManagedNumbers, n \notin items', n \notin rest PROVE Outside(n)'
    <3>1. CASE n \in wanted
      <4>1. n \in batch \ github.member
        BY <1>0, <2>1, <3>1
      <4> QED BY <1>0, <1>3, <4>1 DEF Outside
    <3>2. CASE n \notin wanted
      BY <1>0, <2>1, <3>2 DEF AskedInv, Outside
    <3> QED BY <3>1, <3>2
  <2> QED BY <1>0, <1>1, <2>1 DEF AskedInv
<1>6. PagesInv'
  BY <1>0 DEF PagesInv, MarkedAlways, Listed
<1>7. LinksInv' /\ PlanInv'
  BY <1>0 DEF LinksInv, PlanInv
<1> QED BY <1>4, <1>5, <1>6, <1>7

(* What a page of dependencies shows is so, and what it leaves out lies     *)
(* beyond it.                                                               *)
LEMMA LinkPages ==
    ASSUME IInv, NEW n \in Number, NEW last \in Nat
    PROVE  LET all == LinksAfter(n, last)
               batch == FirstOf(all, LinkPageSize)
           IN  /\ \A l \in AsRead(batch) :
                    /\ l.number \in batch /\ l.number > last
                    /\ l.number \in Number /\ l.number < github.next
                    /\ <<"linked", n, l.number>> \in ever
                    /\ l.marker # None => <<"marked", l.number, l.marker>> \in ever
               /\ \A d \in batch : \E l \in AsRead(batch) : l.number = d
               /\ all # {} => AsRead(batch) # {}
               /\ batch # all => Cardinality(all) > LinkPageSize
               /\ \A d \in Number : <<"linked", n, d>> \in always[round] /\ d > last =>
                    d \in batch \/ (batch # all /\ \A l \in AsRead(batch) : l.number < d)
<1> USE DEF IInv
<1> DEFINE all == LinksAfter(n, last)
           batch == FirstOf(all, LinkPageSize)
           known == IF n \in github.issues THEN github.deps[n] \cap github.issues ELSE {}
<1>1. /\ github.issues \in SUBSET Nat /\ github.issues \subseteq Number
      /\ IsFiniteSet(github.issues) /\ \A d \in github.issues : d < github.next
  BY Pages, Fields DEF TypeOK
<1>2. /\ all \in SUBSET github.issues /\ \A d \in all : d > last
      /\ \A d \in all : n \in github.issues /\ d \in github.deps[n] \cap github.issues
      /\ \A d \in github.issues :
           n \in github.issues /\ d \in github.deps[n] /\ d > last => d \in all
  BY DEF LinksAfter
<1>3. all \in SUBSET Nat /\ IsFiniteSet(all) /\ LinkPageSize \in Nat \ {0}
  <2> HIDE DEF all
  <2> QED BY <1>1, <1>2, FS_Subset, PageSizes
<1> HIDE DEF all
<1>4. /\ batch \subseteq all
      /\ all # {} => batch # {}
      /\ \A x \in all \ batch : \A y \in batch : y < x
      /\ all # batch => Cardinality(all) > LinkPageSize
  BY <1>3, FirstOfIs
<1> HIDE DEF batch
<1>5. /\ \A l \in AsRead(batch) :
           /\ l.number \in batch
           /\ l.marker # None => l.number \in Marked(github) /\ l.marker = github.marker[l.number]
      /\ \A d \in batch : \E l \in AsRead(batch) : l.number = d
  <2> DEFINE mark(d) == IF d \in Marked(github) THEN github.marker[d] ELSE None
  <2>1. AsRead(batch) = {[number |-> d, marker |-> mark(d)] : d \in batch}
    BY DEF AsRead
  <2>2. \A d : mark(d) # None => d \in Marked(github) /\ mark(d) = github.marker[d]
    OBVIOUS
  <2> HIDE DEF mark
  <2>3. ASSUME NEW d \in batch PROVE \E l \in AsRead(batch) : l.number = d
    <3> DEFINE l == [number |-> d, marker |-> mark(d)]
    <3>1. l \in AsRead(batch) /\ l.number = d
      BY <2>1
    <3> QED BY <3>1
  <2>4. \A l \in AsRead(batch) : l.number \in batch /\ l.marker = mark(l.number)
    BY <2>1
  <2> QED BY <2>2, <2>3, <2>4
<1>6. ASSUME NEW l \in AsRead(batch)
      PROVE  /\ l.number \in batch /\ l.number > last
             /\ l.number \in Number /\ l.number < github.next
             /\ <<"linked", n, l.number>> \in ever
             /\ l.marker # None => <<"marked", l.number, l.marker>> \in ever
  <2>1. l.number \in batch /\ l.number \in all
    BY <1>4, <1>5
  <2>2. <<"linked", n, l.number>> \in Facts(github)
    BY <1>2, <2>1, FactsAre
  <2>3. l.marker # None => <<"marked", l.number, l.marker>> \in Facts(github)
    BY <1>5, FactsAre
  <2> QED BY <1>1, <1>2, <2>1, <2>2, <2>3 DEF HistoryInv
<1>7. ASSUME NEW d \in Number, <<"linked", n, d>> \in always[round], d > last, d \notin batch
      PROVE  batch # all /\ \A l \in AsRead(batch) : l.number < d
  <2>1. <<"linked", n, d>> \in Facts(github)
    BY <1>7 DEF HistoryInv, TypeOK
  <2>2. d \in all
    BY <1>2, <1>7, <2>1, FactsAre
  <2> QED BY <1>4, <1>5, <1>7, <2>2
<1>8. all # {} => AsRead(batch) # {}
  BY <1>4, <1>5
<1> QED BY <1>4, <1>5, <1>6, <1>7, <1>8 DEF all, batch

(* A batch of issues with the first page of their dependencies.             *)
LEMMA RelationshipsKeep ==
    ASSUME IInv, Relationships
    PROVE  TruthInv' /\ AskedInv' /\ PagesInv' /\ LinksInv' /\ PlanInv'
<1> USE DEF IInv
<1> DEFINE batch == FirstOf(wanted, BatchSize)
           page1(n) == FirstOf(LinksAfter(n, 0), LinkPageSize)
           larger == {n \in batch : Cardinality(LinksAfter(n, 0)) > LinkPageSize}
<1>0. /\ UNCHANGED <<github, round, always, ever, shifted, planned, todo, found, doubled, items>>
      /\ ManagedNumbers' = ManagedNumbers /\ pc = "relations"
      /\ \/ pc' = "failed" /\ UNCHANGED <<links, more, wanted>>
         \/ /\ batch \subseteq github.issues
            /\ links' = [n \in DOMAIN links \cup batch |->
                           IF n \in batch THEN AsRead(page1(n)) ELSE links[n]]
            /\ more' = larger /\ wanted' = wanted \ batch
            /\ pc' = IF larger = {} THEN "relations" ELSE "links"
  BY DEF Relationships, Answered, history, writing, ManagedNumbers
<1>1. batch \subseteq wanted
  BY DEF FirstOf
<1>2. CASE pc' = "failed" /\ UNCHANGED <<links, more, wanted>>
  <2> HIDE DEF batch, larger, page1
  <2>0. /\ UNCHANGED <<github, always, ever, found, doubled, items, wanted, links, more>>
        /\ ManagedNumbers' = ManagedNumbers /\ pc' = "failed"
    BY <1>0, <1>2
  <2>1. TruthInv' /\ AskedInv'
    <3>1. \A n : Outside(n)' <=> Outside(n)
      BY <1>0 DEF Outside
    <3>2. TruthInv'
      BY <2>0 DEF TruthInv
    <3>3. AskedInv'
      BY <2>0, <3>1 DEF AskedInv
    <3> QED BY <3>2, <3>3
  <2>2. PagesInv' /\ LinksInv' /\ PlanInv'
    BY <1>0, <1>2 DEF PagesInv, LinksInv, PlanInv
  <2> QED BY <2>1, <2>2
<1>3. CASE ~(pc' = "failed" /\ UNCHANGED <<links, more, wanted>>)
  <2>1. /\ batch \subseteq github.issues
        /\ DOMAIN links' = DOMAIN links \cup batch
        /\ \A n \in batch : links'[n] = AsRead(page1(n))
        /\ \A n \in DOMAIN links \ batch : links'[n] = links[n]
        /\ more' = larger /\ wanted' = wanted \ batch
        /\ pc' = IF larger = {} THEN "relations" ELSE "links"
    BY <1>0, <1>3
  <2>2. /\ \A n \in batch : n \in Number
        /\ \A n \in Number : 0 < n
    BY <2>1, NumberType, Fields DEF TypeOK
  <2>3. ASSUME NEW n \in batch
        PROVE  /\ \A l \in links'[n] :
                    /\ l.number \in Number /\ l.number < github.next
                    /\ <<"linked", n, l.number>> \in ever
                    /\ l.marker # None => <<"marked", l.number, l.marker>> \in ever
               /\ n \in larger => links'[n] # {}
               /\ \A d \in Number : <<"linked", n, d>> \in always[round] =>
                    \/ \E l \in links'[n] : l.number = d
                    \/ n \in larger /\ \A l \in links'[n] : l.number < d
    <3>1. /\ \A l \in AsRead(page1(n)) :
               /\ l.number \in Number /\ l.number < github.next
               /\ <<"linked", n, l.number>> \in ever
               /\ l.marker # None => <<"marked", l.number, l.marker>> \in ever
          /\ \A d \in page1(n) : \E l \in AsRead(page1(n)) : l.number = d
          /\ LinksAfter(n, 0) # {} => AsRead(page1(n)) # {}
          /\ page1(n) # LinksAfter(n, 0) => Cardinality(LinksAfter(n, 0)) > LinkPageSize
          /\ \A d \in Number : <<"linked", n, d>> \in always[round] /\ d > 0 =>
               d \in page1(n) \/ (page1(n) # LinksAfter(n, 0)
                                  /\ \A l \in AsRead(page1(n)) : l.number < d)
      BY <2>2, LinkPages
    <3>2. n \in larger => LinksAfter(n, 0) # {}
      BY FS_EmptySet, PageSizes
    <3>3. page1(n) # LinksAfter(n, 0) => n \in larger
      BY <3>1
    <3> HIDE DEF page1, batch, larger
    <3> QED BY <2>1, <2>2, <3>1, <3>2, <3>3
  <2> HIDE DEF page1
  <2>4. larger \subseteq batch
    OBVIOUS
  <2> HIDE DEF larger, batch
  <2>5. TruthInv'
    BY <1>0, <2>1, <2>3 DEF TruthInv
  <2>6. AskedInv'
    <3>1. ASSUME NEW n \in batch, n \notin items PROVE <<"member", n, FALSE>> \in ever
      BY <1>0, <1>1, <2>1, <3>1 DEF AskedInv, Outside
    <3>2. \A n : Outside(n)' <=> Outside(n)
      BY <1>0 DEF Outside
    <3> QED BY <1>0, <1>1, <2>1, <3>1, <3>2 DEF AskedInv
  <2>7. PagesInv'
    BY <1>0, <2>1 DEF PagesInv, MarkedAlways, Listed
  <2>8. LinksInv'
    BY <1>0, <2>1, <2>3, <2>4 DEF LinksInv
  <2>9. PlanInv'
    BY <1>0, <2>1 DEF PlanInv
  <2> QED BY <2>5, <2>6, <2>7, <2>8, <2>9
<1> QED BY <1>2, <1>3

(* One more page of the dependencies of one issue.                          *)
LEMMA RemainingKeep ==
    ASSUME IInv, RemainingBlockedBy
    PROVE  TruthInv' /\ AskedInv' /\ PagesInv' /\ LinksInv' /\ PlanInv'
<1> USE DEF IInv
<1> DEFINE n == Min(more)
           numbers == {l.number : l \in links[n]}
           last == Max(numbers)
           all == LinksAfter(n, last)
           batch == FirstOf(all, LinkPageSize)
<1>0. /\ UNCHANGED <<github, round, always, ever, shifted, planned, todo, found, doubled, items, wanted>>
      /\ ManagedNumbers' = ManagedNumbers /\ pc = "links"
      /\ links' = [links EXCEPT ![n] = @ \cup AsRead(batch)]
      /\ more' = IF batch = all THEN more \ {n} ELSE more
      /\ pc' = IF more' = {} THEN "relations" ELSE "links"
  BY DEF RemainingBlockedBy, Answered, history, writing, ManagedNumbers
<1>1. \A k \in more : k \in DOMAIN links /\ k \in ManagedNumbers /\ k \in Number /\ k \in Nat
  BY NumberType DEF LinksInv, AskedInv, TruthInv, ManagedNumbers
<1>2. n \in more /\ n \in DOMAIN links /\ n \in Number
  <2>1. more \in SUBSET Nat /\ more # {}
    BY <1>0, <1>1 DEF LinksInv
  <2>2. n \in more
    BY <2>1, MinIs
  <2> QED BY <1>1, <2>2
<1> HIDE DEF n
<1>3. /\ numbers \in SUBSET Nat /\ numbers # {} /\ IsFiniteSet(numbers)
  <2>1. github.next \in Nat /\ links[n] # {}
    BY <1>0, <1>2, Fields DEF LinksInv, TypeOK
  <2>2. \A l \in links[n] : l.number \in Nat /\ l.number < github.next
    BY <1>2, NumberType DEF TruthInv
  <2>3. numbers \in SUBSET Nat /\ numbers # {} /\ \A s \in numbers : s < github.next
    BY <2>1, <2>2
  <2> HIDE DEF numbers
  <2> QED BY <2>1, <2>3, NumbersBelow
<1>4. last \in Nat /\ (\E l \in links[n] : l.number = last) /\ \A l \in links[n] : l.number <= last
  <2>1. last \in numbers /\ \A s \in numbers : s <= last
    <3> HIDE DEF numbers
    <3> QED BY <1>3, MaxIs
  <2> HIDE DEF last
  <2> QED BY <1>3, <2>1
<1> HIDE DEF last, numbers
<1>5. /\ \A l \in AsRead(batch) :
           /\ l.number > last
           /\ l.number \in Number /\ l.number < github.next
           /\ <<"linked", n, l.number>> \in ever
           /\ l.marker # None => <<"marked", l.number, l.marker>> \in ever
      /\ \A d \in batch : \E l \in AsRead(batch) : l.number = d
      /\ \A d \in Number : <<"linked", n, d>> \in always[round] /\ d > last =>
           d \in batch \/ (batch # all /\ \A l \in AsRead(batch) : l.number < d)
  BY <1>2, <1>4, LinkPages
<1> HIDE DEF batch, all
<1>6. /\ DOMAIN links' = DOMAIN links /\ links'[n] = links[n] \cup AsRead(batch)
      /\ \A k \in DOMAIN links \ {n} : links'[k] = links[k]
  BY <1>0, <1>2
<1>7. TruthInv'
  BY <1>0, <1>2, <1>5, <1>6 DEF TruthInv
<1>8. AskedInv'
  <2>1. \A k : Outside(k)' <=> Outside(k)
    BY <1>0 DEF Outside
  <2> QED BY <1>0, <1>6, <2>1 DEF AskedInv
<1>9. PagesInv'
  BY <1>0 DEF PagesInv, MarkedAlways, Listed
<1>10. LinksInv'
  <2>1. ASSUME NEW d \in Number, <<"linked", n, d>> \in always[round],
               ~ \E l \in links'[n] : l.number = d
        PROVE  batch # all /\ \A l \in links'[n] : l.number < d
    <3>1. d \in Nat /\ \A l \in links[n] : l.number \in Nat /\ l.number < d
      BY <1>2, <1>6, <2>1, NumberType DEF LinksInv, TruthInv
    <3>2. d > last
      BY <1>4, <3>1
    <3>3. d \notin batch
      BY <1>5, <1>6, <2>1
    <3> QED BY <1>5, <1>6, <2>1, <3>1, <3>2, <3>3
  <2>2. ASSUME NEW k \in DOMAIN links', NEW d \in Number, <<"linked", k, d>> \in always[round],
               ~ \E l \in links'[k] : l.number = d
        PROVE  k \in more' /\ \A l \in links'[k] : l.number < d
    <3>1. CASE k = n
      BY <1>0, <1>2, <2>1, <2>2, <3>1
    <3>2. CASE k # n
      <4>1. k \in DOMAIN links /\ links'[k] = links[k]
        BY <1>6, <2>2, <3>2
      <4>2. k \in more /\ \A l \in links[k] : l.number < d
        BY <2>2, <4>1 DEF LinksInv
      <4> QED BY <1>0, <3>2, <4>1, <4>2
    <3> QED BY <3>1, <3>2
  <2>3. \A k \in more' : k \in DOMAIN links' /\ links'[k] # {}
    BY <1>0, <1>1, <1>6 DEF LinksInv
  <2>4. pc' \in {"relations", "links"} /\ (pc' = "links" <=> more' # {})
    BY <1>0
  <2> QED BY <1>0, <2>2, <2>3, <2>4 DEF LinksInv
<1>11. PlanInv'
  BY <1>0 DEF PlanInv
<1> QED BY <1>7, <1>8, <1>9, <1>10, <1>11

-----------------------------------------------------------------------------
(* What a finished read says of each issue.                                 *)
LEMMA PartsWereTrue ==
    ASSUME IInv PROVE EveryPartWasTrue
<1> USE DEF IInv
<1> SUFFICES ASSUME WholeReadDone, NEW f \in found
             PROVE  /\ <<"marked", f.number, f.marker>> \in ever
                    /\ <<"member", f.number, f.number \in items>> \in ever
                    /\ \A l \in links[f.number] :
                         /\ <<"linked", f.number, l.number>> \in ever
                         /\ l.marker # None => <<"marked", l.number, l.marker>> \in ever
  BY DEF EveryPartWasTrue
<1>1. f.number \in ManagedNumbers /\ f.number \in DOMAIN links
  BY DEF WholeReadDone, AskedInv, ManagedNumbers
<1>2. <<"member", f.number, f.number \in items>> \in ever
  <2>1. CASE f.number \in items
    <3>1. (f.number \in items) = TRUE
      BY <2>1
    <3>2. <<"member", f.number, TRUE>> \in ever
      BY <2>1 DEF TruthInv
    <3> QED BY <3>1, <3>2
  <2>2. CASE f.number \notin items
    <3>1. (f.number \in items) = FALSE
      BY <2>2
    <3>2. <<"member", f.number, FALSE>> \in ever
      BY <1>1, <2>2 DEF AskedInv
    <3> QED BY <3>1, <3>2
  <2> QED BY <2>1, <2>2
<1> QED BY <1>1, <1>2 DEF TruthInv

(* What it leaves out, and what it lists twice.                             *)
LEMMA OmissionsAreTorn ==
    ASSUME IInv PROVE TornOnlyWhereItShifts
<1> USE DEF IInv
<1> SUFFICES ASSUME WholeReadDone PROVE TornOnlyWhereItShifts
  BY DEF TornOnlyWhereItShifts
<1>0. /\ pc = "relations" /\ more = {} /\ round \in {1, 2} /\ WellFormed(github)
      /\ always[round] \subseteq Facts(github)
  BY DEF WholeReadDone, HistoryInv, TypeOK
<1>1. ASSUME NEW fact \in always[round], fact[1] = "marked", <<round, "gone">> \notin shifted
      PROVE  [number |-> fact[2], marker |-> fact[3]] \in found
  <2>1. PICK n \in Marked(github) : fact = <<"marked", n, github.marker[n]>>
    BY <1>0, <1>1, FactKinds
  <2>2. fact[2] = n /\ fact[3] = github.marker[n]
    BY <2>1
  <2>3. n \in Number /\ github.marker[n] \in Id
    BY <1>0, Fields DEF Marked
  <2>4. MarkedAlways(n, github.marker[n])
    BY <1>1, <2>1 DEF MarkedAlways
  <2>5. [number |-> n, marker |-> github.marker[n]] \in found
    BY <1>0, <1>1, <2>3, <2>4 DEF PagesInv, Listed
  <2> QED BY <2>2, <2>5
<1>2. ASSUME NEW fact \in always[round], fact[1] = "linked", fact[2] \in ManagedNumbers
      PROVE  \E l \in links[fact[2]] : l.number = fact[3]
  <2>1. PICK n \in github.issues, d \in github.issues : fact = <<"linked", n, d>>
    BY <1>0, <1>2, FactKinds
  <2>2. fact[2] = n /\ fact[3] = d
    BY <2>1
  <2>3. d \in Number /\ n \in DOMAIN links
    BY <1>0, <1>2, <2>2, Fields DEF WholeReadDone, AskedInv
  <2>4. <<"linked", n, d>> \in always[round]
    BY <1>2, <2>1
  <2>5. \E l \in links[n] : l.number = d
    BY <1>0, <2>3, <2>4 DEF LinksInv
  <2> QED BY <2>2, <2>5
<1>3. doubled # {} => <<round, "new">> \in shifted
  BY DEF PagesInv
<1> QED BY <1>1, <1>2, <1>3 DEF TornOnlyWhereItShifts

(* A plan made of a read, or a rebuild that came out the same.              *)
LEMMA FinishKeeps ==
    ASSUME IInv, FinishRead
    PROVE  TruthInv' /\ AskedInv' /\ PagesInv' /\ LinksInv' /\ PlanInv'
<1> USE DEF IInv
<1>0. /\ UNCHANGED <<github, round, always, ever, shifted, found, doubled, items, wanted, links, more>>
      /\ ManagedNumbers' = ManagedNumbers /\ pc = "relations" /\ WholeReadDone
      /\ pc' \in {"review", "create", "refused"} /\ round \in {1, 2}
      /\ \A n : Outside(n)' <=> Outside(n)
  BY DEF FinishRead, WholeReadDone, history, reading, ManagedNumbers, Outside, TypeOK
<1>1. TruthInv' /\ AskedInv'
  <2>1. TruthInv'
    BY <1>0 DEF TruthInv
  <2>2. AskedInv'
    BY <1>0 DEF AskedInv
  <2> QED BY <2>1, <2>2
<1>2. PagesInv' /\ LinksInv'
  BY <1>0 DEF PagesInv, LinksInv
<1>3. <<round, "gone">> \in shifted \/ \A n \in Number, id \in Id :
         <<"marked", n, id>> \in always[round] => [number |-> n, marker |-> id] \in found
  BY <1>0 DEF PagesInv, MarkedAlways, Listed
<1>4. \A n, id : [number |-> n, marker |-> id] \in found =>
                    \E e \in Snapshot.entries : e.number = n /\ e.marker = id
  <2> DEFINE entry(f) == [number |-> f.number, marker |-> f.marker,
                          member |-> f.number \in items,
                          deps |-> {l.marker : l \in links[f.number]} \ {None}]
  <2>1. Snapshot.entries = {entry(f) : f \in found}
    BY DEF Snapshot
  <2>2. \A f : entry(f).number = f.number /\ entry(f).marker = f.marker
    OBVIOUS
  <2> HIDE DEF entry
  <2>3. ASSUME NEW n, NEW id, [number |-> n, marker |-> id] \in found
        PROVE  \E e \in Snapshot.entries : e.number = n /\ e.marker = id
    <3> DEFINE f == [number |-> n, marker |-> id]
    <3>1. f \in found /\ f.number = n /\ f.marker = id
      BY <2>3
    <3> HIDE DEF f
    <3> QED BY <2>1, <2>2, <3>1
  <2> QED BY <2>3
<1>5. \A e \in Snapshot.entries : \E f \in found : e.marker = f.marker
  BY DEF Snapshot
<1>6. CASE round = 1
  <2>1. planned' = Snapshot /\ pc' # "create" /\ todo' = todo /\ todo = {}
    BY <1>0, <1>6 DEF FinishRead, PlanInv
  <2>2. <<1, "gone">> \in shifted' \/ \A n \in Number, id \in Id :
           <<"marked", n, id>> \in always'[1] =>
              \E e \in planned'.entries : e.number = n /\ e.marker = id
    <3> SUFFICES ASSUME <<1, "gone">> \notin shifted, NEW n \in Number, NEW id \in Id,
                        <<"marked", n, id>> \in always[1]
                 PROVE  \E e \in Snapshot.entries : e.number = n /\ e.marker = id
      BY <1>0, <2>1
    <3>1. [number |-> n, marker |-> id] \in found
      BY <1>3, <1>6
    <3> QED BY <1>4, <3>1
  <2>3. /\ pc' \in {"review", "refused"} /\ todo' = {} /\ round' = 1
    BY <1>0, <1>6, <2>1
  <2>4. PlanInv'
    BY <2>2, <2>3 DEF PlanInv
  <2> QED BY <1>1, <1>2, <2>4
<1>7. CASE round = 2
  <2>1. /\ planned' = planned /\ todo' = Id \ {f.marker : f \in found}
        /\ pc' \in {"create", "refused"} /\ (pc' = "create" => Snapshot = planned)
    BY <1>0, <1>7 DEF FinishRead
  <2>2. ASSUME pc' = "create", NEW r \in {1, 2}, NEW n \in Number, NEW id \in todo',
               <<"marked", n, id>> \in always[r]
        PROVE  <<r, "gone">> \in shifted
    <3>1. id \in Id /\ ~ \E f \in found : f.marker = id
      BY <2>1
    <3>2. CASE r = 2
      <4>1. [number |-> n, marker |-> id] \notin found
        <5>1. [number |-> n, marker |-> id].marker = id
          OBVIOUS
        <5> QED BY <3>1, <5>1
      <4> QED BY <1>3, <1>7, <2>2, <3>1, <3>2, <4>1
    <3>3. CASE r = 1
      <4>1. ~ \E e \in planned.entries : e.number = n /\ e.marker = id
        BY <1>5, <2>1, <2>2, <3>1
      <4> QED BY <1>7, <2>2, <3>1, <3>3, <4>1 DEF PlanInv
    <3> QED BY <3>2, <3>3
  <2>3. <<1, "gone">> \in shifted' \/ \A n \in Number, id \in Id :
           <<"marked", n, id>> \in always'[1] =>
              \E e \in planned'.entries : e.number = n /\ e.marker = id
    BY <1>0, <1>7, <2>1 DEF PlanInv
  <2>4. /\ pc' \in {"create", "refused"} /\ always' = always /\ shifted' = shifted
    BY <1>0, <2>1
  <2>5. PlanInv'
    BY <2>2, <2>3, <2>4 DEF PlanInv
  <2> QED BY <1>1, <1>2, <2>5
<1> QED BY <1>0, <1>1, <1>2, <1>6, <1>7

(* The apply begins, or ends.                                               *)
LEMMA TurningKeeps ==
    ASSUME IInv, Refresh \/ Complete
    PROVE  TruthInv' /\ AskedInv' /\ PagesInv' /\ LinksInv' /\ PlanInv'
<1> USE DEF IInv
<1>1. CASE Complete
  <2>0. /\ UNCHANGED <<github, round, always, ever, shifted, found, doubled, items, wanted, links,
                       more, planned, todo>>
        /\ ManagedNumbers' = ManagedNumbers /\ pc' = "completed"
        /\ \A n : Outside(n)' <=> Outside(n)
    BY <1>1 DEF Complete, history, reading, writing, ManagedNumbers, Outside
  <2>1. TruthInv' /\ PagesInv' /\ LinksInv'
    BY <2>0 DEF TruthInv, PagesInv, LinksInv
  <2>2. AskedInv' /\ PlanInv'
    BY <2>0 DEF AskedInv, PlanInv
  <2> QED BY <2>1, <2>2
<1>2. CASE Refresh
  <2>0. /\ UNCHANGED <<github, planned, todo, shifted>> /\ pc = "review" /\ round' = 2 /\ pc' = "list"
        /\ page' = 1 /\ found' = {} /\ doubled' = {} /\ items' = {} /\ wanted' = {}
        /\ links' = <<>> /\ more' = {} /\ always' = [always EXCEPT ![2] = Facts(github)]
    BY <1>2 DEF Refresh, ReadFromTheStart, writing
  <2>1. DOMAIN links' = {} /\ ManagedNumbers' = {} /\ always'[1] = always[1]
    BY <2>0 DEF ManagedNumbers, HistoryInv
  <2>2. \A n : PageOf(github, n)' \in Nat
    <3>1. \A n : PageOf(github, n)' = PageOf(github, n)
      BY <2>0
    <3> QED BY <3>1, Pages DEF TypeOK
  <2>3. TruthInv' /\ AskedInv' /\ LinksInv'
    BY <2>0, <2>1 DEF TruthInv, AskedInv, LinksInv
  <2>4. PagesInv'
    BY <2>0, <2>1, <2>2 DEF PagesInv
  <2>5. PlanInv'
    BY <2>0, <2>1 DEF PlanInv
  <2> QED BY <2>3, <2>4, <2>5
<1> QED BY <1>1, <1>2

-----------------------------------------------------------------------------
(* Numbers are used up no faster than what is still to come.                *)
LEMMA RoomStep ==
    ASSUME RoomInv, github.next \in Nat, github'.next \in Nat, github.next <= github'.next,
           StillToCome \in Nat, StillToCome' \in Nat,
           github'.next + StillToCome' <= github.next + StillToCome
    PROVE  RoomInv'
<1>1. github'.next .. (github'.next + StillToCome' - 1)
        \subseteq github.next .. (github.next + StillToCome - 1)
  <2> HIDE DEF StillToCome
  <2> QED OBVIOUS
<1>2. github'.next .. (github'.next + StillToCome' - 1) \subseteq Number
  BY <1>1 DEF RoomInv
<1> QED BY <1>2 DEF RoomInv

(* How much is still to come.                                               *)
LEMMA ToCome ==
    ASSUME todo \subseteq Id, events \in 0..MaxEvents
    PROVE  /\ StillToCome \in Nat
           /\ Cardinality(todo) \in Nat /\ Cardinality(todo) <= Cardinality(Id)
           /\ Cardinality(Id) \in Nat /\ MaxEvents - events \in Nat
           /\ todo # {} => Cardinality(todo) > 0
           /\ \A id \in todo : Cardinality(todo \ {id}) = Cardinality(todo) - 1
<1>1. /\ IsFiniteSet(Id) /\ Cardinality(Id) \in Nat /\ IsFiniteSet(todo)
      /\ Cardinality(todo) \in Nat /\ Cardinality(todo) <= Cardinality(Id)
  BY NumbersSuffice, FS_Subset, FS_CardinalityType
<1>2. MaxEvents - events \in Nat
  BY MaxEventsType
<1>3. todo # {} => Cardinality(todo) > 0
  BY <1>1, FS_EmptySet
<1>4. \A id \in todo : Cardinality(todo \ {id}) = Cardinality(todo) - 1
  BY <1>1, FS_RemoveElement
<1> QED BY <1>1, <1>2, <1>3, <1>4 DEF StillToCome

(* A wait is a number of seconds.                                           *)
LEMMA WaitIsNat ==
    ASSUME NEW x \in Response, NEW n \in Nat
    PROVE  WaitFor(x, n) \in Nat
<1>1. 2^n \in Nat
  <2>1. IsFiniteSet(1..n) /\ Cardinality(1..n) = n
    <3>1. 1 \in Int /\ n \in Int /\ (IF 1 > n THEN 0 ELSE n - 1 + 1) = n
      OBVIOUS
    <3> QED BY <3>1, FS_Interval
  <2>2. IsFiniteSet(SUBSET (1..n)) /\ Cardinality(SUBSET (1..n)) = 2^n
    BY <2>1, FS_SUBSET
  <2> QED BY <2>2, FS_CardinalityType
<1>2. /\ x.retryAfter \in Nat \cup {None} /\ x.untilReset \in Int \cup {None}
      /\ SecondaryWait \in Nat
  BY ResponseType, WaitBounds DEF ResponseShape
<1>3. SecondaryWait * 2^n \in Nat
  <2> DEFINE p == 2^n
  <2>1. p \in Nat
    BY <1>1
  <2> HIDE DEF p
  <2>2. SecondaryWait * p \in Nat
    BY <1>2, <2>1
  <2> QED BY <2>2 DEF p
<1>4. \A k \in Int : AtLeast(1, k) \in Nat /\ AtLeast(0, k) + 1 \in Nat
  BY DEF AtLeast
<1> QED BY <1>2, <1>3, <1>4 DEF WaitFor

-----------------------------------------------------------------------------
(* The rest of the invariant: types, histories and the room that is left.   *)
Reading == {"list", "items", "membership", "relations", "links"}
Kept == TypeOK' /\ HistoryInv' /\ RoomInv'

(* A page answered leaves GitHub, the plan and the histories as they are.   *)
LEMMA AnsweringKeeps ==
    ASSUME IInv, Answered, pc \in Reading, pc' \in Reading \cup {"failed"},
           page' \in Nat \ {0}, doubled' \subseteq ManagedNumbers', LinksInv'
    PROVE  Kept
<1> USE DEF IInv
<1>0. /\ UNCHANGED <<github, round, todo, waited, always, ever, shifted, events>>
      /\ attempt' = 0 /\ ran' = FALSE /\ StillToCome' \in Nat /\ StillToCome \in Nat
      /\ StillToCome' <= StillToCome /\ github.next \in Nat
  <2>1. /\ UNCHANGED <<github, round, todo, waited, always, ever, shifted, events, history>>
        /\ attempt' = 0 /\ ran' = FALSE /\ github.next \in Nat
    BY Fields DEF Answered, history, writing, TypeOK
  <2>2. /\ StillToCome = (MaxEvents - events) + Cardinality(Id)
        /\ StillToCome' = (MaxEvents - events) + (IF pc' = "failed" THEN 0 ELSE Cardinality(Id))
    BY <2>1 DEF StillToCome, Reading, Terminal
  <2>3. MaxEvents - events \in Nat /\ Cardinality(Id) \in Nat
    BY ToCome DEF TypeOK
  <2> QED BY <2>1, <2>2, <2>3
<1>1. HistoryInv'
  BY <1>0, Histories DEF history
<1>2. RoomInv'
  BY <1>0, RoomStep
<1>3. TypeOK'
  <2>1. WellFormed(github)' /\ more' \subseteq DOMAIN links'
    BY <1>0 DEF TypeOK, LinksInv
  <2>2. attempt' \in 0..(MaxAttempts - 1) /\ WithinBudget'
    BY <1>0, WaitBounds DEF TypeOK, WithinBudget
  <2>3. pc' \in {"list", "items", "membership", "relations", "links", "review", "create"}
                \cup Terminal
    BY DEF Reading, Terminal
  <2> QED BY <1>0, <2>1, <2>2, <2>3 DEF TypeOK, ManagedNumbers
<1> QED BY <1>1, <1>2, <1>3 DEF Kept

(* The five requests of a read.                                             *)
LEMMA RequestsKeep ==
    ASSUME IInv, ListIssues \/ ProjectItems \/ MembershipFromIssues \/ Relationships
                 \/ RemainingBlockedBy
    PROVE  IInv'
<1> DEFINE Parts == TruthInv' /\ AskedInv' /\ PagesInv' /\ LinksInv' /\ PlanInv'
<1>1. Parts
  BY ListingKeeps, ItemsKeep, MembershipKeeps, RelationshipsKeep, RemainingKeep
<1>2. page \in Nat \ {0} /\ doubled \subseteq ManagedNumbers
  BY DEF IInv, TypeOK, ManagedNumbers
<1>3. CASE ListIssues
  <2>1. /\ page' \in {page, page + 1} /\ pc = "list" /\ pc' \in {"list", "items"} /\ Answered
        /\ doubled' \subseteq doubled \cup ManagedNumbers /\ found \subseteq found'
    BY <1>3 DEF ListIssues
  <2>2. page' \in Nat \ {0} /\ doubled' \subseteq ManagedNumbers'
    BY <1>2, <2>1 DEF ManagedNumbers
  <2> HIDE DEF Parts
  <2>3. LinksInv'
    BY <1>1 DEF Parts
  <2>4. Kept
    BY <2>1, <2>2, <2>3, AnsweringKeeps DEF Reading
  <2> QED BY <1>1, <2>4 DEF IInv, Kept, Parts
<1>4. CASE ProjectItems \/ MembershipFromIssues \/ Relationships \/ RemainingBlockedBy
  <2>1. /\ UNCHANGED <<page, doubled, found>> /\ pc \in Reading /\ Answered
        /\ pc' \in Reading \cup {"failed"}
    BY <1>4 DEF ProjectItems, MembershipFromIssues, Relationships, RemainingBlockedBy, Reading
  <2>2. page' \in Nat \ {0} /\ doubled' \subseteq ManagedNumbers'
    BY <1>2, <2>1 DEF ManagedNumbers
  <2>3. LinksInv'
    BY <1>1
  <2> HIDE DEF Parts
  <2>4. Kept
    BY <2>1, <2>2, <2>3, AnsweringKeeps
  <2> QED BY <1>1, <2>4 DEF IInv, Kept, Parts
<1> QED BY <1>3, <1>4

(* Creating, failing and everybody else.                                    *)
LEMMA ElsewhereIsKept ==
    ASSUME IInv, Elsewhere, StillToCome' \in Nat,
           github'.next + StillToCome' <= github.next + StillToCome,
           waited' \in Nat, WithinBudget', attempt' \in 0..(MaxAttempts - 1),
           ran' \in BOOLEAN, events' \in 0..MaxEvents
    PROVE  IInv'
<1> USE DEF IInv
<1>1. TruthInv' /\ AskedInv' /\ PagesInv' /\ LinksInv' /\ PlanInv' /\ HistoryInv'
  BY ElsewhereKeeps DEF Elsewhere
<1>2. /\ UNCHANGED <<page, found, doubled, links, more, round>>
      /\ pc' \in {pc, "failed"} /\ todo' \subseteq todo /\ WellFormed(github)'
      /\ github.next <= github'.next
  BY DEF Elsewhere, reading
<1>3. /\ todo \subseteq Id /\ events \in 0..MaxEvents /\ page \in Nat \ {0} /\ round \in {1, 2}
      /\ doubled \subseteq {f.number : f \in found} /\ more \subseteq DOMAIN links
      /\ pc \in {"list", "items", "membership", "relations", "links", "review", "create"}
                \cup Terminal
      /\ WellFormed(github)
  BY DEF TypeOK
<1>4. TypeOK'
  <2>1. pc' \in {"list", "items", "membership", "relations", "links", "review", "create"}
                \cup Terminal
    BY <1>2, <1>3 DEF Terminal
  <2> QED BY <1>2, <1>3, <2>1 DEF TypeOK
<1>5. RoomInv'
  <2>1. github.next \in Nat /\ github'.next \in Nat
    <3>1. WellFormed(github')
      BY <1>2 DEF WellFormed
    <3> QED BY <1>3, <3>1, Fields
  <2>2. StillToCome \in Nat
    BY <1>3, ToCome
  <2> QED BY <1>2, <2>1, <2>2, RoomStep
<1> QED BY <1>1, <1>4, <1>5

(* The primed count, for the steps that only move one of its parts.         *)
LEMMA ToComeNext ==
    ASSUME todo' \subseteq Id, events' \in 0..MaxEvents
    PROVE  /\ StillToCome' \in Nat
           /\ StillToCome' = (MaxEvents - events')
                             + (IF pc' \in Terminal THEN 0
                                ELSE IF pc' = "create" THEN Cardinality(todo') ELSE Cardinality(Id))
<1>1. /\ IsFiniteSet(Id) /\ Cardinality(Id) \in Nat /\ Cardinality(todo') \in Nat
  BY NumbersSuffice, FS_Subset, FS_CardinalityType
<1>2. MaxEvents - events' \in Nat
  <2>1. \A e \in 0..MaxEvents : MaxEvents - e \in Nat
    BY MaxEventsType
  <2> QED BY <2>1
<1>3. StillToCome' = (MaxEvents - events')
                     + (IF pc' \in Terminal THEN 0
                        ELSE IF pc' = "create" THEN Cardinality(todo') ELSE Cardinality(Id))
  BY DEF StillToCome
<1> QED BY <1>1, <1>2, <1>3

(* An item created is one less to come.                                     *)
LEMMA CreatingKeeps ==
    ASSUME IInv, CreateIssue PROVE IInv'
<1>0. /\ pc = "create" /\ todo # {} /\ todo' = todo \ {Created} /\ Created \in todo
      /\ UNCHANGED <<pc, waited, events>> /\ attempt' = 0 /\ ran' = FALSE
      /\ Becomes(WithIssue(github, Created))
  BY DEF CreateIssue, Created
<1>1. /\ todo \subseteq Id /\ events \in 0..MaxEvents /\ waited \in Nat /\ WithinBudget
      /\ github.next \in Nat
  BY Fields DEF IInv, TypeOK
<1>2. Elsewhere /\ github'.next = github.next + 1
  BY <1>0, CreatingIsElsewhere, CreatedSomehow
<1>3. StillToCome' \in Nat /\ StillToCome' = (MaxEvents - events) + Cardinality(todo')
  BY <1>0, <1>1, ToComeNext DEF Terminal
<1>4. StillToCome = (MaxEvents - events) + Cardinality(todo)
  BY <1>0 DEF StillToCome, Terminal
<1>5. /\ Cardinality(todo') = Cardinality(todo) - 1 /\ Cardinality(todo) \in Nat
      /\ MaxEvents - events \in Nat
  BY <1>0, <1>1, ToCome
<1>6. github'.next + StillToCome' <= github.next + StillToCome
  BY <1>1, <1>2, <1>3, <1>4, <1>5
<1>7. WithinBudget' /\ attempt' \in 0..(MaxAttempts - 1)
  BY <1>0, <1>1, WaitBounds DEF WithinBudget
<1> QED BY <1>0, <1>1, <1>2, <1>3, <1>6, <1>7, ElsewhereIsKept

(* A failed request: what it may have created was still to come.            *)
LEMMA FailingKeeps ==
    ASSUME IInv, NEW x \in Response, Resend(x) \/ FallBack(x) \/ GiveUp(x) PROVE IInv'
<1>0. /\ UNCHANGED <<events, todo>> /\ Fails(x) /\ Outcome(x)
      /\ pc' \in {pc, "failed"}
  BY DEF Resend, FallBack, GiveUp, writing
<1>1. /\ todo \subseteq Id /\ events \in 0..MaxEvents /\ waited \in Nat /\ WithinBudget
      /\ github.next \in Nat /\ attempt \in 0..(MaxAttempts - 1) /\ ran \in BOOLEAN
      /\ MaxAttempts \in Nat \ {0}
  BY Fields, WaitBounds DEF IInv, TypeOK
<1>2. Elsewhere
  BY FailingIsElsewhere
<1>3. pc \notin Terminal
  BY <1>0 DEF Fails, Requesting, Terminal
<1>4. /\ StillToCome' \in Nat
      /\ StillToCome = (MaxEvents - events)
                       + (IF pc = "create" THEN Cardinality(todo) ELSE Cardinality(Id))
      /\ StillToCome' = (MaxEvents - events)
                        + (IF pc' = "failed" THEN 0
                           ELSE IF pc' = "create" THEN Cardinality(todo) ELSE Cardinality(Id))
      /\ Cardinality(todo) \in Nat /\ Cardinality(Id) \in Nat /\ MaxEvents - events \in Nat
      /\ todo # {} => Cardinality(todo) > 0
  <2>1. StillToCome = (MaxEvents - events)
                      + (IF pc = "create" THEN Cardinality(todo) ELSE Cardinality(Id))
    BY <1>3 DEF StillToCome
  <2>2. pc' \in Terminal <=> pc' = "failed"
    BY <1>0, <1>3 DEF Terminal
  <2>3. /\ StillToCome' \in Nat
        /\ StillToCome' = (MaxEvents - events)
                          + (IF pc' = "failed" THEN 0
                             ELSE IF pc' = "create" THEN Cardinality(todo) ELSE Cardinality(Id))
    BY <1>0, <1>1, <2>2, ToComeNext
  <2> QED BY <1>1, <2>1, <2>3, ToCome
<1>5. CASE GiveUp(x)
  <2>1. pc' = "failed" /\ UNCHANGED <<waited, attempt, ran>>
    BY <1>5 DEF GiveUp, budget
  <2>2. github'.next <= github.next + StillToCome
    <3>1. CASE pc = "create" /\ x.ran
      <4>1. todo # {} /\ Becomes(WithIssue(github, Created))
        BY <1>0, <3>1 DEF Fails, Requesting, Outcome
      <4>2. github'.next = github.next + 1
        BY <3>1, <4>1, CreatedSomehow
      <4> QED BY <1>1, <1>4, <3>1, <4>1, <4>2
    <3>2. CASE ~(pc = "create" /\ x.ran)
      <4>1. github' = github
        BY <1>0, <3>2 DEF Outcome
      <4>2. StillToCome \in Nat
        BY <1>1, ToCome
      <4> QED BY <1>1, <4>1, <4>2
    <3> QED BY <3>1, <3>2
  <2>3. StillToCome' <= MaxEvents - events /\ StillToCome' = MaxEvents - events
    BY <1>4, <2>1
  <2>4. github'.next + StillToCome' <= github.next + StillToCome
    <3>1. CASE pc = "create" /\ x.ran
      <4>1. todo # {} /\ Becomes(WithIssue(github, Created))
        BY <1>0, <3>1 DEF Fails, Requesting, Outcome
      <4>2. github'.next = github.next + 1
        BY <3>1, <4>1, CreatedSomehow
      <4> QED BY <1>1, <1>4, <2>3, <3>1, <4>1, <4>2
    <3>2. CASE ~(pc = "create" /\ x.ran)
      <4>1. github' = github
        BY <1>0, <3>2 DEF Outcome
      <4> QED BY <1>1, <1>4, <2>3, <4>1
    <3> QED BY <3>1, <3>2
  <2>5. WithinBudget'
    BY <1>1, <2>1 DEF WithinBudget
  <2> QED BY <1>0, <1>1, <1>2, <1>4, <2>1, <2>4, <2>5, ElsewhereIsKept
<1>6. CASE Resend(x) \/ FallBack(x)
  <2>1. ~x.ran /\ UNCHANGED pc
    BY <1>6, RateLimitedMeansRefused, UnprocessableMeansRefused DEF Resend, SentAgain, FallBack
  <2>2. github' = github
    BY <1>0, <2>1 DEF Outcome
  <2>3. StillToCome' = StillToCome
    BY <1>3, <1>4, <2>1 DEF Terminal
  <2>4. github'.next + StillToCome' <= github.next + StillToCome
    BY <1>1, <1>4, <2>2, <2>3
  <2>5. /\ waited' \in Nat /\ WithinBudget' /\ attempt' \in 0..(MaxAttempts - 1)
        /\ ran' \in BOOLEAN
    <3>1. CASE Resend(x)
      <4>1. /\ waited' = waited + WaitFor(x, attempt) /\ attempt' = attempt + 1
            /\ ran' = (ran \/ x.ran) /\ attempt + 1 < MaxAttempts
            /\ waited + WaitFor(x, attempt) <= MaxTotalWait
        BY <3>1 DEF Resend, SentAgain
      <4>2. WaitFor(x, attempt) \in Nat
        BY <1>1, WaitIsNat
      <4> QED BY <1>1, <4>1, <4>2 DEF WithinBudget
    <3>2. CASE FallBack(x)
      <4>1. waited' = waited /\ attempt' = 0 /\ ran' = (ran \/ x.ran)
        BY <3>2 DEF FallBack
      <4> QED BY <1>1, <4>1 DEF WithinBudget
    <3> QED BY <1>6, <3>1, <3>2
  <2> QED BY <1>0, <1>1, <1>2, <1>4, <2>4, <2>5, ElsewhereIsKept
<1> QED BY <1>5, <1>6

(* A change by others is one less to come.                                  *)
LEMMA OthersKeep ==
    ASSUME IInv, Others PROVE IInv'
<1>0. /\ UNCHANGED <<pc, todo, waited, attempt, ran>> /\ pc \notin Terminal
      /\ events' = events \/ (events < MaxEvents /\ events' = events + 1)
  BY DEF Others, Open, Vanish, Mark, Join, Relink, CatchUp, Change, writing, budget
<1>1. /\ todo \subseteq Id /\ events \in 0..MaxEvents /\ waited \in Nat /\ WithinBudget
      /\ github.next \in Nat /\ attempt \in 0..(MaxAttempts - 1) /\ ran \in BOOLEAN
      /\ WellFormed(github) /\ MaxEvents \in Nat
  BY Fields, MaxEventsType DEF IInv, TypeOK
<1>2. Elsewhere
  BY OthersAreElsewhere
<1>3. github'.next = github.next + (events' - events) \/ github'.next = github.next
  <2>1. CASE Open
    <3>1. PICK id \in Id \cup {None} : Change(WithIssue(github, id), Shifts("new"))
      BY <2>1 DEF Open
    <3>2. github' = WithIssue(github, id) /\ events' = events + 1
      BY <3>1 DEF Change, Becomes
    <3>3. github.next \in Number
      BY <1>0, <3>1, NextIsFree DEF Change, IInv
    <3>4. github'.next = github.next + 1
      BY <1>1, <3>2, <3>3, NewIssue
    <3> QED BY <1>1, <3>2, <3>4
  <2>2. CASE Vanish
    <3>1. PICK n \in github.issues :
            github' = [github EXCEPT !.issues = @ \ {n}, !.member = @ \ {n}, !.listed = @ \ {n}]
      BY <2>2 DEF Vanish, Change, Becomes
    <3> QED BY <1>1, <3>1, OtherChanges
  <2>3. CASE Mark
    <3>1. PICK n \in github.issues, id \in Id : github' = [github EXCEPT !.marker[n] = id]
      BY <2>3 DEF Mark, Change, Becomes
    <3> QED BY <1>1, <3>1, OtherChanges
  <2>4. CASE Join
    <3>1. PICK n \in github.issues : github' = [github EXCEPT !.member = @ \cup {n}]
      BY <2>4 DEF Join, Change, Becomes
    <3> QED BY <1>1, <3>1, OtherChanges
  <2>5. CASE Relink
    <3>1. PICK n \in github.issues, d \in github.issues :
            github' = [github EXCEPT !.deps[n] = IF d \in @ THEN @ \ {d} ELSE @ \cup {d}]
      BY <2>5 DEF Relink, Marked, Change, Becomes
    <3> QED BY <1>1, <3>1, OtherChanges
  <2>6. CASE CatchUp
    <3>1. PICK n \in github.member : github' = [github EXCEPT !.listed = @ \cup {n}]
      BY <2>6 DEF CatchUp
    <3> QED BY <1>1, <3>1, OtherChanges
  <2> QED BY <2>1, <2>2, <2>3, <2>4, <2>5, <2>6 DEF Others
<1>4. events' \in 0..MaxEvents /\ (events' - events) \in Nat
  BY <1>0, <1>1
<1>5. StillToCome' \in Nat /\ StillToCome' = StillToCome - (events' - events)
  <2>1. StillToCome' = (MaxEvents - events')
                       + (IF pc \in Terminal THEN 0
                          ELSE IF pc = "create" THEN Cardinality(todo) ELSE Cardinality(Id))
        /\ StillToCome' \in Nat
    BY <1>0, <1>1, <1>4, ToComeNext
  <2>2. Cardinality(todo) \in Nat /\ Cardinality(Id) \in Nat
    BY <1>1, ToCome
  <2> QED BY <1>1, <1>4, <2>1, <2>2 DEF StillToCome
<1>6. github'.next + StillToCome' <= github.next + StillToCome
  <2>1. StillToCome \in Nat
    BY <1>1, ToCome
  <2>2. ASSUME NEW a \in Nat, NEW b, NEW s \in Nat, NEW t, NEW k \in Nat,
               b = a + k \/ b = a, t = s - k
        PROVE  b + t <= a + s
    BY <2>2
  <2> HIDE DEF StillToCome
  <2> QED BY <1>1, <1>3, <1>4, <1>5, <2>1, <2>2
<1> QED BY <1>0, <1>1, <1>2, <1>4, <1>5, <1>6, ElsewhereIsKept DEF WithinBudget

(* A read finished, the apply begun or ended: nothing new is opened.        *)
LEMMA TurnsKeep ==
    ASSUME IInv, FinishRead \/ Refresh \/ Complete PROVE IInv'
<1> USE DEF IInv
<1>0. TruthInv' /\ AskedInv' /\ PagesInv' /\ LinksInv' /\ PlanInv'
  BY FinishKeeps, TurningKeeps
<1>1. /\ todo \subseteq Id /\ events \in 0..MaxEvents /\ WellFormed(github) /\ github.next \in Nat
      /\ page \in Nat \ {0} /\ round \in {1, 2} /\ waited \in Nat /\ WithinBudget
      /\ attempt \in 0..(MaxAttempts - 1) /\ ran \in BOOLEAN
      /\ doubled \subseteq {f.number : f \in found} /\ more \subseteq DOMAIN links
  BY Fields DEF TypeOK
<1>2. /\ UNCHANGED <<github, events, attempt, ran>> /\ todo' \subseteq Id
      /\ pc' \in {"list", "create", "review"} \cup Terminal
  BY <1>1 DEF FinishRead, Refresh, ReadFromTheStart, Complete, writing, budget, Terminal
<1>3. /\ StillToCome \in Nat /\ StillToCome' \in Nat /\ StillToCome' <= StillToCome
  <2>1. /\ Cardinality(todo) \in Nat /\ Cardinality(Id) \in Nat /\ MaxEvents - events \in Nat
        /\ StillToCome \in Nat /\ Cardinality(todo') \in Nat
        /\ Cardinality(todo') <= Cardinality(Id)
    BY <1>1, <1>2, ToCome, NumbersSuffice, FS_Subset, FS_CardinalityType
  <2>2. /\ StillToCome' \in Nat
        /\ StillToCome' = (MaxEvents - events)
                          + (IF pc' \in Terminal THEN 0
                             ELSE IF pc' = "create" THEN Cardinality(todo') ELSE Cardinality(Id))
    BY <1>1, <1>2, ToComeNext
  <2>3. CASE FinishRead \/ Refresh
    <3>1. pc \in {"relations", "review"}
      BY <2>3 DEF FinishRead, WholeReadDone, Refresh
    <3>2. StillToCome = (MaxEvents - events) + Cardinality(Id)
      BY <3>1 DEF StillToCome, Terminal
    <3> QED BY <2>1, <2>2, <3>2
  <2>4. CASE Complete
    <3>1. pc' \in Terminal
      BY <2>4 DEF Complete, Terminal
    <3>2. StillToCome' = MaxEvents - events
      BY <2>1, <2>2, <3>1
    <3>3. StillToCome >= MaxEvents - events
      BY <2>1 DEF StillToCome
    <3> QED BY <2>1, <2>2, <3>2, <3>3
  <2> QED BY <2>3, <2>4
<1>4. RoomInv'
  BY <1>1, <1>2, <1>3, RoomStep
<1>5. CASE FinishRead \/ Complete
  <2>1. /\ UNCHANGED <<page, found, doubled, links, more, waited, always, ever, shifted, round>>
    BY <1>5 DEF FinishRead, Complete, reading, budget, history
  <2>2. HistoryInv'
    BY <1>2, <2>1, Histories DEF history
  <2>3. TypeOK'
    BY <1>1, <1>2, <2>1 DEF TypeOK, WithinBudget, WellFormed
  <2> QED BY <1>0, <1>4, <2>2, <2>3
<1>6. CASE Refresh
  <2>1. /\ waited' = 0 /\ round' = 2 /\ page' = 1 /\ doubled' = {} /\ more' = {}
        /\ always' = [always EXCEPT ![2] = Facts(github)] /\ ever' = Facts(github)
    BY <1>6 DEF Refresh, ReadFromTheStart
  <2>2. HistoryInv'
    <3>1. Facts(github)' = Facts(github)
      BY <1>2
    <3> QED BY <2>1, <3>1 DEF HistoryInv
  <2>3. TypeOK'
    BY <1>1, <1>2, <2>1, WaitBounds DEF TypeOK, WithinBudget, WellFormed
  <2> QED BY <1>0, <1>4, <2>2, <2>3
<1> QED BY <1>5, <1>6

(* Standing still.                                                          *)
LEMMA StutteringKeeps ==
    ASSUME IInv, UNCHANGED vars PROVE IInv'
<1> USE DEF IInv
<1>1. Elsewhere
  <2>1. /\ UNCHANGED <<round, reading, planned, github, history, shifted>> /\ pc' = pc
        /\ todo' = todo
    BY DEF vars, writing, history
  <2>2. WellFormed(github)' /\ github.next \in Nat
    BY <2>1, Fields DEF TypeOK, WellFormed
  <2>3. HistoryInv' /\ ever \subseteq ever' /\ \A r \in {1, 2} : always'[r] \subseteq always[r]
    BY <2>1, Histories
  <2> QED BY <2>1, <2>2, <2>3 DEF Elsewhere
<1>2. /\ UNCHANGED <<github, events, waited, attempt, ran, pc, todo>>
  BY DEF vars, writing, budget
<1>3. /\ StillToCome' = StillToCome /\ StillToCome \in Nat /\ github.next \in Nat
  <2>1. StillToCome \in Nat /\ github.next \in Nat
    BY ToCome, Fields DEF TypeOK
  <2> QED BY <1>2, <2>1 DEF StillToCome
<1>4. /\ waited' \in Nat /\ WithinBudget' /\ attempt' \in 0..(MaxAttempts - 1)
      /\ ran' \in BOOLEAN /\ events' \in 0..MaxEvents
  BY <1>2 DEF TypeOK, WithinBudget
<1>5. github'.next + StillToCome' <= github.next + StillToCome
  BY <1>2, <1>3
<1> QED BY <1>1, <1>3, <1>4, <1>5, ElsewhereIsKept

(* It holds at the start ...                                                *)
LEMMA InitIInv ==
    ASSUME Init PROVE IInv
<1>1. WellFormed(github) /\ github.next \in Nat
  BY InitGitHubType, Fields DEF Init
<1>2. TypeOK
  <2>1. /\ pc = "list" /\ round = 1 /\ page = 1 /\ doubled = {} /\ more = {} /\ todo = {}
        /\ waited = 0 /\ attempt = 0 /\ ran = FALSE /\ events = 0
    BY DEF Init
  <2>2. 0 \in 0..(MaxAttempts - 1) /\ 0 \in 0..MaxEvents /\ 0 <= MaxTotalWait
    BY WaitBounds, MaxEventsType
  <2>3. /\ round \in {1, 2} /\ page \in Nat \ {0} /\ waited \in Nat /\ WithinBudget
        /\ attempt \in 0..(MaxAttempts - 1) /\ events \in 0..MaxEvents
    BY <2>1, <2>2 DEF WithinBudget
  <2>4. ran \in BOOLEAN
    BY <2>1
  <2>5. /\ doubled \subseteq {f.number : f \in found} /\ more \subseteq DOMAIN links
        /\ todo \subseteq Id
    BY <2>1
  <2> QED BY <1>1, <2>1, <2>3, <2>4, <2>5 DEF TypeOK
<1>3. HistoryInv
  BY DEF Init, HistoryInv
<1>4. RoomInv
  <2>1. Cardinality(Id) \in Nat
    BY NumbersSuffice, FS_CardinalityType
  <2>2. StillToCome = MaxEvents + Cardinality(Id)
    <3>1. pc \notin Terminal /\ pc # "create" /\ events = 0
      BY DEF Init, Terminal
    <3> QED BY <2>1, <3>1, MaxEventsType DEF StillToCome
  <2>3. github.next .. (github.next + MaxEvents + Cardinality(Id) - 1) \subseteq Number
    BY NumbersSuffice DEF Init
  <2>4. github.next + (MaxEvents + Cardinality(Id)) - 1
          = github.next + MaxEvents + Cardinality(Id) - 1
    BY <1>1, <2>1, MaxEventsType
  <2> QED BY <2>2, <2>3, <2>4 DEF RoomInv
<1>5. TruthInv /\ AskedInv /\ LinksInv
  BY DEF Init, TruthInv, AskedInv, LinksInv, ManagedNumbers
<1>6. PagesInv
  <2>1. \A n : PageOf(github, n) \in Nat
    BY <1>1, Pages
  <2>2. pc = "list" /\ page = 1 /\ found = {} /\ doubled = {}
    BY DEF Init
  <2> QED BY <2>1, <2>2 DEF PagesInv, ManagedNumbers
<1>7. PlanInv
  BY DEF Init, PlanInv
<1> QED BY <1>2, <1>3, <1>4, <1>5, <1>6, <1>7 DEF IInv

(* ... and is kept.                                                         *)
LEMMA IInvAlways == Spec => []IInv
<1>1. Init => IInv
  BY InitIInv
<1>2. IInv /\ [Next]_vars => IInv'
  <2> SUFFICES ASSUME IInv, [Next]_vars PROVE IInv'
    OBVIOUS
  <2>1. CASE Requests
    BY <2>1, RequestsKeep, CreatingKeeps DEF Requests
  <2>2. CASE Failures
    BY <2>2, FailingKeeps DEF Failures
  <2>3. CASE FinishRead \/ Refresh \/ Complete
    BY <2>3, TurnsKeep
  <2>4. CASE Others
    BY <2>4, OthersKeep
  <2>5. CASE UNCHANGED vars
    BY <2>5, StutteringKeeps
  <2> QED BY <2>1, <2>2, <2>3, <2>4, <2>5 DEF Next, Proceed
<1> QED BY <1>1, <1>2, PTL DEF Spec

(* The types, and that numbers never run out of their bound: GitHub, as     *)
(* every reader meets it, stays as the snapshot readers take it to be.      *)
THEOREM TypeCorrect == Spec => []TypeOK
<1>1. IInv => TypeOK
  BY DEF IInv
<1> QED BY <1>1, IInvAlways, PTL

(* Every single thing a snapshot says was true at some moment of its read   *)
(* (GitHubSnapshotReader.read, snapshot.py), however GitHub changed between *)
(* the requests and however far the list of Project items lagged.           *)
THEOREM PartsAreTrue == Spec => []EveryPartWasTrue
<1>1. IInv => EveryPartWasTrue
  BY PartsWereTrue
<1> QED BY <1>1, IInvAlways, PTL

(* A read leaves out an issue that was marked throughout only if one        *)
(* vanished while the list was paged by offset, no dependency of a listed   *)
(* issue, and lists an issue twice only if one was opened meanwhile.        *)
THEOREM OmissionsMeanShifts == Spec => []TornOnlyWhereItShifts
<1>1. IInv => TornOnlyWhereItShifts
  BY OmissionsAreTorn
<1> QED BY <1>1, IInvAlways, PTL

(* An id some issue has carried since a read began is created again only if *)
(* that very read was torn: the rebuilt plan must equal the reviewed one,   *)
(* so the apply knows what either read found (sync.py, build_sync_plan).    *)
THEOREM OldIssuesAreKnown == Spec => NoUntornDuplicate
<1>1. ASSUME IInv, [Next]_vars, NEW r \in {1, 2}, NEW n \in Number, todo' # todo, todo # {},
             <<"marked", n, Created>> \in always[r]
      PROVE  <<r, "gone">> \in shifted
  <2>1. pc = "create"
    <3>1. CASE Requests
      BY <1>1, <3>1 DEF Requests, ListIssues, ProjectItems, MembershipFromIssues, Relationships,
                 RemainingBlockedBy, CreateIssue, Answered, writing
    <3>2. CASE Failures
      BY <1>1, <3>2 DEF Failures, Resend, FallBack, GiveUp, writing
    <3>3. CASE FinishRead
      BY <1>1, <3>3 DEF FinishRead, WholeReadDone, IInv, PlanInv
    <3>4. CASE Complete \/ Refresh
      BY <1>1, <3>4 DEF Complete, Refresh, writing
    <3>5. CASE Others
      BY <1>1, <3>5 DEF Others, Open, Vanish, Mark, Join, Relink, CatchUp, Change, writing
    <3>6. CASE UNCHANGED vars
      BY <1>1, <3>6 DEF vars, writing
    <3> QED BY <1>1, <3>1, <3>2, <3>3, <3>4, <3>5, <3>6 DEF Next, Proceed
  <2>2. Created \in todo
    BY <1>1 DEF Created
  <2> QED BY <1>1, <2>1, <2>2 DEF IInv, PlanInv
<1>2. IInv /\ [Next]_vars =>
        \A r \in {1, 2}, n \in Number :
          /\ todo' # todo /\ todo # {}
          /\ <<"marked", n, Created>> \in always[r]
          => <<r, "gone">> \in shifted
  BY <1>1
<1> QED BY <1>2, IInvAlways, PTL DEF Spec, NoUntornDuplicate
=============================================================================
