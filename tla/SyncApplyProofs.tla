--------------------------- MODULE SyncApplyProofs ---------------------------
(* sync-plan and sync-apply: what the protocol of ReviewedApply guarantees   *)
(* once its planner and its mutations are those of SyncPlanner, for any      *)
(* backlog, any options, any number of processes and any faults.             *)
EXTENDS SyncApply, ReviewedApplyProofs, WellFoundedInduction, FiniteSetTheorems, SequenceTheorems

(* The ids of S that come before i. *)
Below(S, i) == {j \in S : j < i}

(* In a finite set of ids every rank below the size is some id's. *)
LEMMA RanksAreTaken ==
    ASSUME NEW S, IsFiniteSet(S), S \subseteq Int, NEW k \in 1..Cardinality(S)
    PROVE  \E i \in S : Cardinality(Below(S, i)) = k - 1
<1> DEFINE n == Cardinality(S)
           rank == [i \in S |-> Cardinality(Below(S, i))]
<1>1. n \in Nat
  BY FS_CardinalityType
<1>2. ASSUME NEW i \in S
      PROVE  IsFiniteSet(Below(S, i)) /\ rank[i] \in 0..(n - 1)
  <2>1. IsFiniteSet(Below(S, i)) /\ Cardinality(Below(S, i)) <= n
        /\ (Cardinality(Below(S, i)) = n => S = Below(S, i))
    BY FS_Subset DEF Below
  <2>2. Cardinality(Below(S, i)) \in Nat /\ Below(S, i) # S
    BY <2>1, FS_CardinalityType DEF Below
  <2> HIDE DEF n
  <2> QED BY <1>1, <2>1, <2>2
<1>3. ASSUME NEW i \in S, NEW j \in S, i < j
      PROVE  rank[i] < rank[j]
  <2>a. \A x \in S : x < i => x < j
    <3>1. i \in Int /\ j \in Int /\ \A x \in S : x \in Int
      OBVIOUS
    <3> HIDE DEF rank, n
    <3> QED BY <1>3, <3>1
  <2>b. ~(i < i)
    OBVIOUS
  <2>1. Below(S, i) \in SUBSET Below(S, j) /\ i \in Below(S, j) /\ i \notin Below(S, i)
    BY <1>3, <2>a, <2>b DEF Below
  <2>2. Cardinality(Below(S, i)) <= Cardinality(Below(S, j))
        /\ Cardinality(Below(S, i)) # Cardinality(Below(S, j))
    BY <1>2, <2>1, FS_Subset
  <2> QED BY <1>1, <1>2, <2>2
<1>4. \A i, j \in S : i # j => rank[i] # rank[j]
  <2> SUFFICES ASSUME NEW i \in S, NEW j \in S, i # j PROVE rank[i] # rank[j]
    OBVIOUS
  <2> HIDE DEF rank
  <2>1. i < j \/ j < i
    OBVIOUS
  <2> QED BY <1>1, <1>2, <1>3, <2>1
<1> HIDE DEF rank
<1>5. \E i \in S : rank[i] = k - 1
  <2> SUFFICES ASSUME \A i \in S : rank[i] # k - 1 PROVE FALSE
    OBVIOUS
  <2> DEFINE T == (0..(n - 1)) \ {k - 1}
  <2>1. IsFiniteSet(0..(n - 1)) /\ Cardinality(0..(n - 1)) = n /\ k - 1 \in 0..(n - 1)
    <3> HIDE DEF n
    <3>1. k \in 1..n
      BY DEF n
    <3> QED BY <1>1, <3>1, FS_Interval
  <2>2. IsFiniteSet(T) /\ Cardinality(T) = n - 1
    <3> DEFINE I == 0..(n - 1)
               x == k - 1
    <3>1. IsFiniteSet(I) /\ Cardinality(I) = n /\ x \in I
      BY <2>1
    <3> HIDE DEF n, I, x
    <3>2. IsFiniteSet(I \ {x}) /\ Cardinality(I \ {x}) = n - 1
      BY <3>1, FS_RemoveElement
    <3> QED BY <3>2 DEF I, x
  <2>3. rank \in [S -> T]
    <3>1. \A i \in S : rank[i] \in T
      BY <1>2
    <3>2. DOMAIN rank = S /\ rank = [i \in S |-> rank[i]]
      BY DEF rank
    <3> QED BY <3>1, <3>2
  <2>4. n - 1 < n
    <3> HIDE DEF n
    <3> QED BY <1>1
  <2>5. \E x, y \in S : x # y /\ rank[x] = rank[y]
    <3> HIDE DEF T
    <3> QED BY <2>2, <2>3, <2>4, FS_PigeonHole
  <2> QED BY <1>4, <2>5
<1> QED BY <1>5 DEF rank

(* The ids of a set, in order, each of them once. *)
LEMMA InOrderLists ==
    ASSUME NEW S, IsFiniteSet(S), S \subseteq Int
    PROVE  /\ Cardinality(S) \in Nat
           /\ InOrder(S) \in [1..Cardinality(S) -> S]
           /\ \A j, k \in 1..Cardinality(S) : InOrder(S)[j] = InOrder(S)[k] => j = k
           /\ \A i \in S : \E k \in 1..Cardinality(S) : InOrder(S)[k] = i
<1>1. Cardinality(S) \in Nat
  BY FS_CardinalityType
<1>2. ASSUME NEW k \in 1..Cardinality(S)
      PROVE  InOrder(S)[k] \in S /\ Cardinality(Below(S, InOrder(S)[k])) = k - 1
  <2>1. \E i \in S : Cardinality({j \in S : j < i}) = k - 1
    BY RanksAreTaken DEF Below
  <2>2. InOrder(S)[k] = CHOOSE i \in S : Cardinality({j \in S : j < i}) = k - 1
    BY DEF InOrder
  <2> QED BY <2>1, <2>2 DEF Below
<1>3. InOrder(S) \in [1..Cardinality(S) -> S]
  BY <1>2 DEF InOrder
<1>4. ASSUME NEW j \in 1..Cardinality(S), NEW k \in 1..Cardinality(S),
             InOrder(S)[j] = InOrder(S)[k]
      PROVE  j = k
  <2>1. j - 1 = k - 1
    BY <1>2, <1>4
  <2> QED BY <1>1, <2>1
<1>5. ASSUME NEW i \in S PROVE \E k \in 1..Cardinality(S) : InOrder(S)[k] = i
  <2> SUFFICES ASSUME \A k \in 1..Cardinality(S) : InOrder(S)[k] # i PROVE FALSE
    OBVIOUS
  <2> DEFINE n == Cardinality(S)
             T == S \ {i}
  <2>1. IsFiniteSet(1..n) /\ Cardinality(1..n) = n
    <3> HIDE DEF n
    <3> QED BY <1>1, FS_Interval DEF n
  <2>2. IsFiniteSet(T) /\ Cardinality(T) = n - 1 /\ n - 1 < n
    BY <1>1, FS_RemoveElement
  <2>3. InOrder(S) \in [1..n -> T]
    <3>1. \A k \in 1..n : InOrder(S)[k] \in T
      BY <1>2
    <3> QED BY <1>3, <3>1
  <2>4. \E j, k \in 1..n : j # k /\ InOrder(S)[j] = InOrder(S)[k]
    <3> DEFINE I == 1..n
    <3> HIDE DEF T, I
    <3>1. IsFiniteSet(I) /\ Cardinality(I) = n
      BY <2>1 DEF I
    <3>2. InOrder(S) \in [I -> T]
      BY <2>3 DEF I
    <3>3. \E j, k \in I : j # k /\ InOrder(S)[j] = InOrder(S)[k]
      <4> HIDE DEF n
      <4> QED BY <2>2, <3>1, <3>2, FS_PigeonHole
    <3> QED BY <3>3 DEF I
  <2> QED BY <1>4, <2>4
<1> QED BY <1>1, <1>3, <1>4, <1>5

(* A nonempty set of numbers has a least one. *)
LEMMA LeastNumber ==
    ASSUME NEW S \in SUBSET Nat, S # {}
    PROVE  \E n \in S : \A k \in S : n <= k
<1>1. PICK n \in S : \A k \in S : ~ (<<k, n>> \in OpToRel(<, Nat))
  BY NatLessThanWellFounded, WFMin
<1>2. \A k \in S : ~ (k < n)
  BY <1>1 DEF OpToRel
<1> QED BY <1>2

(* Flattening, as far as the first n sequences. *)
Flat(ss, n) == CHOOSE g : g = [k \in 1..n |-> IF k = 1 THEN ss[k] ELSE g[k - 1] \o ss[k]]

(* A nonempty list of lists is flattened by Flat, to the end. *)
LEMMA FlattenIsFlat ==
    ASSUME NEW ss, Len(ss) # 0
    PROVE  FlattenSeq(ss) = Flat(ss, Len(ss))[Len(ss)]
BY DEF FlattenSeq, Flat

(* Flat's recursive definition has a solution: as otherwise it would have   *)
(* none up to some least number, and one up to the number before.           *)
LEMMA FlatExists ==
    ASSUME NEW ss, NEW n \in Nat
    PROVE  Flat(ss, n) = [k \in 1..n |-> IF k = 1 THEN ss[k] ELSE Flat(ss, n)[k - 1] \o ss[k]]
<1> DEFINE Is(g, j) == g = [k \in 1..j |-> IF k = 1 THEN ss[k] ELSE g[k - 1] \o ss[k]]
           Bad == {j \in Nat : ~\E g : Is(g, j)}
<1>1. Bad = {}
  <2> SUFFICES ASSUME Bad # {} PROVE FALSE
    OBVIOUS
  <2>1. PICK j \in Bad : \A k \in Bad : j <= k
    BY LeastNumber
  <2>2. CASE j = 0
    <3>1. Is(<<>>, 0)
      OBVIOUS
    <3> QED BY <2>1, <2>2, <3>1
  <2>3. CASE j # 0
    <3>1. j \in Nat /\ j - 1 \in Nat
      BY <2>3
    <3>a. j - 1 \notin Bad
      <4> HIDE DEF Bad
      <4> QED BY <2>1, <3>1
    <3>2. PICK h : Is(h, j - 1)
      BY <3>1, <3>a
    <3> DEFINE last == IF j = 1 THEN ss[j] ELSE h[j - 1] \o ss[j]
               g == [k \in 1..j |-> IF k = j THEN last ELSE h[k]]
    <3>3. \A k \in 1..(j - 1) : h[k] = IF k = 1 THEN ss[k] ELSE h[k - 1] \o ss[k]
      BY <3>2
    <3>4. \A k \in 1..j : g[k] = IF k = 1 THEN ss[k] ELSE g[k - 1] \o ss[k]
      <4> SUFFICES ASSUME NEW k \in 1..j
                   PROVE  g[k] = IF k = 1 THEN ss[k] ELSE g[k - 1] \o ss[k]
        OBVIOUS
      <4>1. CASE k = j
        <5>1. k # 1 => k - 1 \in 1..j /\ k - 1 # j
          BY <3>1, <4>1
        <5> QED BY <4>1, <2>3, <5>1
      <4>2. CASE k # j
        <5>1. k \in 1..(j - 1) /\ (k # 1 => k - 1 \in 1..j /\ k - 1 # j)
          BY <3>1, <4>2
        <5> HIDE DEF last
        <5> QED BY <4>2, <3>3, <5>1
      <4> QED BY <4>1, <4>2
    <3>5. Is(g, j)
      <4> DEFINE e == [k \in 1..j |-> IF k = 1 THEN ss[k] ELSE g[k - 1] \o ss[k]]
      <4>1. \A k \in 1..j : g[k] = e[k]
        BY <3>4
      <4> QED BY <4>1
    <3> QED BY <2>1, <3>5
  <2> QED BY <2>2, <2>3
<1> QED BY <1>1 DEF Flat

(* What holds of a number whenever it holds of the one before holds of all. *)
LEMMA OneByOne ==
    ASSUME NEW n \in Nat, NEW P, \A k \in 1..n : k = 1 \/ k - 1 \in P => k \in P
    PROVE  1..n \subseteq P
<1> DEFINE Bad == (1..n) \ P
<1>1. ASSUME Bad # {} PROVE FALSE
  <2>1. Bad \in SUBSET Nat
    OBVIOUS
  <2>2. PICK k \in Bad : \A j \in Bad : k <= j
    <3> HIDE DEF Bad
    <3> QED BY <1>1, <2>1, LeastNumber
  <2>3. k \in 1..n /\ k \notin P
    BY <2>2
  <2>4. k # 1 => k - 1 \in 1..n /\ ~(k <= k - 1)
    BY <2>3
  <2> QED BY <2>2, <2>3, <2>4
<1> QED BY <1>1

(* A list of the elements of X, each of them once.                          *)
Lists(s, X) ==
    /\ s \in Seq(X)
    /\ \A x \in X : \E k \in 1..Len(s) : s[k] = x
    /\ \A j, k \in 1..Len(s) : s[j] = s[k] => j = k

(* An action taken when a test holds. *)
LEMMA WhenLists ==
    ASSUME NEW act, NEW test
    PROVE  Lists(When(test, act), IF test THEN {act} ELSE {})
<1>1. Lists(<<act>>, {act}) /\ Lists(<<>>, {})
  BY DEF Lists
<1> QED BY <1>1 DEF When

(* The list of one action. *)
LEMMA OneLists ==
    ASSUME NEW act
    PROVE  Lists(<<act>>, {act})
BY DEF Lists

(* The places of st, when it is s followed by t. *)
Places(s, X, t, Y, st) ==
    /\ st \in Seq(X \cup Y) /\ Len(st) = Len(s) + Len(t)
    /\ Len(s) \in Nat /\ Len(t) \in Nat
    /\ \A k \in 1..Len(s) : k \in 1..Len(st) /\ st[k] = s[k] /\ s[k] \in X
    /\ \A k \in 1..Len(t) : /\ Len(s) + k \in 1..Len(st)
                            /\ st[Len(s) + k] = t[k] /\ t[k] \in Y
    /\ \A k \in 1..Len(st) :
          k \in 1..Len(s) \/ \E j \in 1..Len(t) : k = Len(s) + j

(* Concatenation keeps the places of both lists, in order. *)
LEMMA Joined ==
    ASSUME NEW X, NEW Y, NEW s \in Seq(X), NEW t \in Seq(Y)
    PROVE  Places(s, X, t, Y, s \o t)
<1>1. s \in Seq(X \cup Y) /\ t \in Seq(X \cup Y)
  OBVIOUS
<1>2. s \o t \in Seq(X \cup Y) /\ Len(s \o t) = Len(s) + Len(t)
      /\ \A k \in 1..(Len(s) + Len(t)) :
            (s \o t)[k] = IF k <= Len(s) THEN s[k] ELSE t[k - Len(s)]
  BY <1>1
<1>3. Len(s) \in Nat /\ Len(t) \in Nat
  OBVIOUS
<1>4. ASSUME NEW k \in 1..Len(s)
      PROVE  k \in 1..Len(s \o t) /\ (s \o t)[k] = s[k] /\ s[k] \in X
  BY <1>2, <1>3
<1>5. ASSUME NEW k \in 1..Len(t)
      PROVE  /\ Len(s) + k \in 1..Len(s \o t)
             /\ (s \o t)[Len(s) + k] = t[k] /\ t[k] \in Y
  <2>1. Len(s) + k \in 1..(Len(s) + Len(t)) /\ ~(Len(s) + k <= Len(s)) /\ (Len(s) + k) - Len(s) = k
    BY <1>3
  <2> QED BY <1>2, <2>1
<1>6. ASSUME NEW k \in 1..Len(s \o t), k \notin 1..Len(s)
      PROVE  \E j \in 1..Len(t) : k = Len(s) + j
  <2>1. k - Len(s) \in 1..Len(t) /\ k = Len(s) + (k - Len(s))
    BY <1>2, <1>3, <1>6
  <2> QED BY <2>1
<1> QED BY <1>2, <1>3, <1>4, <1>5, <1>6 DEF Places

(* Lists of different elements may be joined. *)
LEMMA ListsJoined ==
    ASSUME NEW s, NEW t, NEW X, NEW Y, Lists(s, X), Lists(t, Y), X \cap Y = {}
    PROVE  Lists(s \o t, X \cup Y)
<1> DEFINE st == s \o t
<1>1. s \in Seq(X) /\ t \in Seq(Y)
  BY DEF Lists
<1>2. Places(s, X, t, Y, st)
  BY <1>1, Joined
<1> HIDE DEF st
<1> USE <1>2 DEF Places
<1>3. ASSUME NEW x \in X \cup Y PROVE \E k \in 1..Len(st) : st[k] = x
  <2>1. CASE x \in X
    <3>1. PICK k \in 1..Len(s) : s[k] = x
      BY <2>1 DEF Lists
    <3> QED BY <1>2, <3>1
  <2>2. CASE x \in Y
    <3>1. PICK k \in 1..Len(t) : t[k] = x
      BY <2>2 DEF Lists
    <3> QED BY <1>2, <3>1
  <2> QED BY <2>1, <2>2
<1>4. ASSUME NEW j \in 1..Len(st), NEW k \in 1..Len(st), st[j] = st[k] PROVE j = k
  <2>1. CASE j \in 1..Len(s) /\ k \in 1..Len(s)
    <3>1. s[j] = s[k]
      BY <1>2, <1>4, <2>1
    <3> QED BY <2>1, <3>1 DEF Lists
  <2>2. ASSUME NEW p \in 1..Len(t), NEW q \in 1..Len(t), j = Len(s) + p, k = Len(s) + q
        PROVE  j = k
    <3>1. t[p] = t[q]
      BY <1>2, <1>4, <2>2
    <3> QED BY <2>2, <3>1 DEF Lists
  <2>3. ASSUME NEW p \in 1..Len(t), j = Len(s) + p, k \in 1..Len(s) PROVE FALSE
    BY <1>2, <1>4, <2>3
  <2>4. ASSUME NEW p \in 1..Len(t), k = Len(s) + p, j \in 1..Len(s) PROVE FALSE
    BY <1>2, <1>4, <2>4
  <2> QED BY <1>2, <2>1, <2>2, <2>3, <2>4
<1> QED BY <1>2, <1>3, <1>4 DEF Lists, st

(* So may any number of them, by flattening. *)
LEMMA ListsFlattened ==
    ASSUME NEW n \in Nat, NEW ss, DOMAIN ss = 1..n, ss = [k \in 1..n |-> ss[k]],
           NEW X, \A k \in 1..n : Lists(ss[k], X[k]),
           \A j, k \in 1..n : j # k => X[j] \cap X[k] = {}
    PROVE  Lists(FlattenSeq(ss), UNION {X[k] : k \in 1..n})
<1> DEFINE up(k) == UNION {X[j] : j \in 1..k}
<1>1. Len(ss) = n
  BY SMT
<1>2. CASE n = 0
  <2>1. FlattenSeq(ss) = ss
    BY <1>1, <1>2 DEF FlattenSeq
  <2>2. ss = <<>>
    BY <1>2
  <2>3. up(n) = {}
    BY <1>2
  <2> QED BY <2>1, <2>2, <2>3 DEF Lists
<1>3. CASE n # 0
  <2> DEFINE f == Flat(ss, n)
             P == {k \in 1..n : Lists(f[k], up(k))}
  <2>0. n \in Nat
    OBVIOUS
  <2>1. f = [k \in 1..n |-> IF k = 1 THEN ss[k] ELSE f[k - 1] \o ss[k]]
    BY ONLY <2>0, FlatExists
  <2> HIDE DEF f
  <2>2. ASSUME NEW k \in 1..n, k = 1 \/ k - 1 \in P PROVE k \in P
    <3>1. CASE k = 1
      <4>1. f[k] = ss[k]
        BY <2>1, <3>1
      <4>2. up(k) = X[k]
        BY <3>1
      <4> QED BY <4>1, <4>2
    <3>2. CASE k # 1
      <4>1. k - 1 \in P /\ k - 1 \in 1..n
        BY <2>2, <3>2
      <4>2. f[k] = f[k - 1] \o ss[k]
        BY <2>1, <3>2
      <4>3. up(k) = up(k - 1) \cup X[k]
        <5>1. 1..k = 1..(k - 1) \cup {k}
          BY <4>1
        <5> QED BY <5>1
      <4>4. up(k - 1) \cap X[k] = {}
        <5>1. \A j \in 1..(k - 1) : j \in 1..n /\ j # k
          BY <4>1
        <5> QED BY <5>1
      <4> HIDE DEF up
      <4>5. Lists(f[k - 1], up(k - 1)) /\ Lists(ss[k], X[k])
        BY <4>1
      <4>6. Lists(f[k - 1] \o ss[k], up(k - 1) \cup X[k])
        BY <4>4, <4>5, ListsJoined
      <4> QED BY <4>2, <4>3, <4>6
    <3> QED BY <3>1, <3>2
  <2>3. 1..n \subseteq P
    <3> HIDE DEF P
    <3> QED BY <2>2, OneByOne
  <2>4. FlattenSeq(ss) = f[n]
    BY <1>1, <1>3, FlattenIsFlat DEF f
  <2>5. n \in 1..n
    BY <1>3
  <2> HIDE DEF up
  <2>6. Lists(f[n], up(n))
    BY <2>3, <2>5
  <2> QED BY <2>4, <2>6 DEF up
<1> QED BY <1>2, <1>3

(* The lists f gives for each id of S, in id order, as one.                 *)
InOne(S, f) == FlattenSeq([k \in 1..Cardinality(S) |-> f[InOrder(S)[k]]])
All(S, X) == UNION {X[i] : i \in S}

(* A list for each id, of different elements, in id order: together they    *)
(* list all of them.                                                        *)
LEMMA ForEachLists ==
    ASSUME NEW S, IsFiniteSet(S), S \subseteq Int, NEW f, NEW X,
           \A i \in S : Lists(f[i], X[i]),
           \A i, j \in S : i # j => X[i] \cap X[j] = {}
    PROVE  Lists(InOne(S, f), All(S, X))
<1> DEFINE n == Cardinality(S)
           ss == [k \in 1..n |-> f[InOrder(S)[k]]]
           Y == [k \in 1..n |-> X[InOrder(S)[k]]]
<1>1. /\ n \in Nat /\ InOrder(S) \in [1..n -> S]
      /\ \A j, k \in 1..n : InOrder(S)[j] = InOrder(S)[k] => j = k
      /\ \A i \in S : \E k \in 1..n : InOrder(S)[k] = i
  BY InOrderLists
<1> HIDE DEF n
<1>2. \A k \in 1..n : Lists(ss[k], Y[k])
  BY <1>1
<1>3. \A j, k \in 1..n : j # k => Y[j] \cap Y[k] = {}
  BY <1>1
<1>4. UNION {Y[k] : k \in 1..n} = UNION {X[i] : i \in S}
  <2>1. \A k \in 1..n : Y[k] = X[InOrder(S)[k]] /\ InOrder(S)[k] \in S
    BY <1>1
  <2>2. {Y[k] : k \in 1..n} = {X[i] : i \in S}
    <3> HIDE DEF Y
    <3>1. \A i \in S : \E k \in 1..n : Y[k] = X[i]
      BY <1>1, <2>1
    <3> DEFINE I == 1..n
    <3>2. \A k \in I : Y[k] = X[InOrder(S)[k]] /\ InOrder(S)[k] \in S
      BY <2>1
    <3>3. \A i \in S : \E k \in I : Y[k] = X[i]
      BY <3>1
    <3> HIDE DEF I
    <3>4. {Y[k] : k \in I} = {X[i] : i \in S}
      BY ONLY <3>2, <3>3
    <3> QED BY <3>4 DEF I
  <2> QED BY <2>2
<1>5. DOMAIN ss = 1..n /\ ss = [k \in 1..n |-> ss[k]]
  OBVIOUS
<1> HIDE DEF ss, Y
<1>6. Lists(FlattenSeq(ss), UNION {Y[k] : k \in 1..n})
  BY <1>1, <1>2, <1>3, <1>5, ListsFlattened
<1> QED BY <1>4, <1>6 DEF ss, n, InOne, All

(* The items a plan creates, and how; the dependencies it drops of an item. *)
Lacking(m, g) == {i \in DOMAIN m : Missing(g, i)}
CreateOf(m, i) == Act("issue.create", i, [text |-> FreshIssue(m[i].text)])
Unwanted(m, g, i) == IF Missing(g, i) THEN {} ELSE (g[i].deps \ m[i].deps) \cap DOMAIN m
DropOf(i, d) == Act("issue.remove_dependency", i, [to |-> d])

(* The other actions on an item, as they are planned for it.                *)
TextOfUpdate(m, g, o, i) == TextPatch(m[i].text, g[i].text, o.manage, i \in o.overwrite)
UpdateOf(m, g, o, i) == Act("issue.update", i, [text |-> TextOfUpdate(m, g, o, i)])
Changed(m, g, o, i) ==
    Differing([Impact |-> m[i].impact, Priority |-> Priorities(m, g, o)[i]], Fields(g[i]))
SetOf(m, g, o, i) == Act("project.set_fields", i, [fields |-> Changed(m, g, o, i)])
AddOf(m, g, o, i) ==
    Act("project.add_item", i,
        [fields |-> [Impact |-> m[i].impact, Priority |-> Priorities(m, g, o)[i],
                     Status |-> m[i].status]])
MoveOf(o, i) == Act("project.transition", i, [fields |-> [Status |-> o.transitions[i]]])
DetachOf(g, i) == Act("issue.remove_parent", i, [to |-> g[i].parent])
AttachOf(m, i) == Act("issue.set_parent", i, [to |-> m[i].parent])
NeedOf(i, d) == Act("issue.add_dependency", i, [to |-> d])
CloseOf(g, i) ==
    Act("issue.close_parent", i,
        [fields |-> IF g[i].member /\ g[i].status # Done THEN [Status |-> Done] ELSE <<>>])

ParentIn(g, i) == IF Missing(g, i) THEN NoItem ELSE g[i].parent
DepsIn(g, i) == IF Missing(g, i) THEN {} ELSE g[i].deps

(* Which of them a plan asks of one item, part by part.                     *)
Asked(m, g, o, n, i) ==
    CASE n = 1 -> IF Missing(g, i) THEN {CreateOf(m, i)} ELSE {}
      [] n = 2 -> IF ~Missing(g, i) /\ TextChanges(m[i].text, g[i].text, o.manage, i \in o.overwrite)
                  THEN {UpdateOf(m, g, o, i)} ELSE {}
      [] n = 3 -> IF ~Member(g, i) THEN {AddOf(m, g, o, i)}
                  ELSE IF DOMAIN Changed(m, g, o, i) # {} THEN {SetOf(m, g, o, i)} ELSE {}
      [] n = 4 -> IF i \in DOMAIN o.transitions /\ g[i].status # o.transitions[i]
                  THEN {MoveOf(o, i)} ELSE {}
      [] n = 5 -> (IF ~Missing(g, i) /\ m[i].parent = NoItem /\ g[i].parent \in DOMAIN m
                   THEN {DetachOf(g, i)} ELSE {})
                  \cup {DropOf(i, d) : d \in Unwanted(m, g, i)}
      [] n = 6 -> (IF m[i].parent # NoItem /\ ParentIn(g, i) # m[i].parent
                   THEN {AttachOf(m, i)} ELSE {})
                  \cup {NeedOf(i, d) : d \in m[i].deps \ DepsIn(g, i)}
      [] n = 7 -> IF i \in CompletedParents(m, g) THEN {CloseOf(g, i)} ELSE {}

(* One part, and all parts as far as the n-th.                              *)
AskedOfAll(m, g, o, n) == UNION {Asked(m, g, o, n, i) : i \in DOMAIN m}
AskedUpTo(m, g, o, n) == UNION {AskedOfAll(m, g, o, k) : k \in 1..n}

(* The seven parts of a plan, by the kinds of their actions.                *)
Tier(a) ==
    CASE a.kind = "issue.create" -> 1
      [] a.kind = "issue.update" -> 2
      [] a.kind \in {"project.add_item", "project.set_fields"} -> 3
      [] a.kind = "project.transition" -> 4
      [] a.kind \in {"issue.remove_parent", "issue.remove_dependency"} -> 5
      [] a.kind \in {"issue.set_parent", "issue.add_dependency"} -> 6
      [] a.kind = "issue.close_parent" -> 7

(* What an action of a plan for manifest m has to do with the GitHub g it   *)
(* was planned from.                                                        *)
Suits(m, g, a) ==
    /\ a.item \in DOMAIN m
    /\ a.kind = "issue.create" => Missing(g, a.item) /\ a = CreateOf(m, a.item)
    /\ a.kind \in {"project.set_fields", "project.transition"} => Member(g, a.item)
    /\ a.kind = "issue.close_parent" =>
          ~Missing(g, a.item) /\ (a.arg.fields # <<>> => Member(g, a.item))
    /\ a.kind = "issue.remove_parent" =>
          ~Missing(g, a.item) /\ g[a.item].parent = a.arg.to /\ m[a.item].parent = NoItem
    /\ a.kind = "issue.remove_dependency" => ~Missing(g, a.item) /\ a.arg.to \in g[a.item].deps
    /\ a.kind = "issue.set_parent" => a.arg.to = m[a.item].parent /\ m[a.item].parent # NoItem
    /\ a.kind = "issue.add_dependency" => a.arg.to \in m[a.item].deps

(* One part of a plan: the list of what it asks, all of it suitable.        *)
IsPart(m, g, o, n, s) ==
    /\ Lists(s, AskedOfAll(m, g, o, n))
    /\ \A a \in AskedOfAll(m, g, o, n) : Suits(m, g, a) /\ Tier(a) = n

(* What is asked of one item.                                               *)
FitsItem(m, g, o, n, i) ==
    \A a \in Asked(m, g, o, n, i) : a.item = i /\ Suits(m, g, a) /\ Tier(a) = n

(* Lists f of what is asked of each item of S, and nothing of others.       *)
ByItem(m, g, o, n, S, f) ==
    /\ S \subseteq DOMAIN m
    /\ \A i \in S : Lists(f[i], Asked(m, g, o, n, i))
    /\ \A i \in DOMAIN m : i \notin S => Asked(m, g, o, n, i) = {}
    /\ \A i \in DOMAIN m : FitsItem(m, g, o, n, i)

(* Such lists make a part.                                                  *)
LEMMA PartByItem ==
    ASSUME NEW m, NEW g, NEW o, NEW n, NEW S, IsFiniteSet(S), S \subseteq Int, NEW f,
           ByItem(m, g, o, n, S, f)
    PROVE  IsPart(m, g, o, n, InOne(S, f))
<1> DEFINE X == [i \in S |-> Asked(m, g, o, n, i)]
<1>1. \A i, j \in S : i # j => X[i] \cap X[j] = {}
  BY DEF ByItem, FitsItem
<1>2. \A i \in S : Lists(f[i], X[i])
  BY DEF ByItem
<1>3. Lists(InOne(S, f), All(S, X))
  <2> HIDE DEF X
  <2> QED BY <1>1, <1>2, ForEachLists
<1>4. All(S, X) = AskedOfAll(m, g, o, n)
  <2>1. \A i \in S : X[i] = Asked(m, g, o, n, i)
    OBVIOUS
  <2> HIDE DEF X
  <2> QED BY <2>1 DEF All, AskedOfAll, ByItem
<1>5. \A a \in AskedOfAll(m, g, o, n) : Suits(m, g, a) /\ Tier(a) = n
  BY DEF AskedOfAll, ByItem, FitsItem
<1> HIDE DEF X
<1> QED BY <1>3, <1>4, <1>5 DEF IsPart

(* The creations: the lacking items, each once.                             *)
LEMMA CreatesPart ==
    ASSUME NEW m, NEW g, NEW o, IsFiniteSet(DOMAIN m), DOMAIN m \subseteq Int
    PROVE  IsPart(m, g, o, 1, Creates(m, g))
<1> DEFINE S == Lacking(m, g)
           f == [i \in S |-> <<CreateOf(m, i)>>]
<1>1. IsFiniteSet(S) /\ S \subseteq Int /\ S \subseteq DOMAIN m
  BY FS_Subset DEF Lacking
<1>2. ASSUME NEW i \in DOMAIN m
      PROVE  Asked(m, g, o, 1, i) = IF i \in S THEN {CreateOf(m, i)} ELSE {}
  BY DEF Asked, Lacking
<1>3. ASSUME NEW i \in S
      PROVE  LET a == CreateOf(m, i) IN a.item = i /\ Suits(m, g, a) /\ Tier(a) = 1
  BY DEF Lacking, CreateOf, Act, Suits, Tier
<1>4. Creates(m, g) = InOne(S, f)
  <2>1. InOrder(S) \in [1..Cardinality(S) -> S]
    BY <1>1, InOrderLists
  <2>2. Creates(m, g) = FlattenSeq([k \in 1..Cardinality(S) |-> <<CreateOf(m, InOrder(S)[k])>>])
    BY DEF Creates, ForEach, Lacking, CreateOf
  <2> HIDE DEF S
  <2> QED BY <2>1, <2>2 DEF InOne
<1>5. ByItem(m, g, o, 1, S, f)
  <2> HIDE DEF S
  <2>1. \A i \in S : Lists(f[i], Asked(m, g, o, 1, i))
    BY <1>1, <1>2, OneLists
  <2> QED BY <1>1, <1>2, <1>3, <2>1 DEF ByItem, FitsItem
<1> HIDE DEF S, f
<1> QED BY <1>1, <1>4, <1>5, PartByItem

(* The updates of text.                                                     *)
LEMMA UpdatesPart ==
    ASSUME NEW m, NEW g, NEW o, IsFiniteSet(DOMAIN m), DOMAIN m \subseteq Int
    PROVE  IsPart(m, g, o, 2, Updates(m, g, o))
<1> DEFINE S == {i \in DOMAIN m : ~Missing(g, i)}
           test(i) == TextChanges(m[i].text, g[i].text, o.manage, i \in o.overwrite)
           f == [i \in S |-> When(test(i), UpdateOf(m, g, o, i))]
<1>1. IsFiniteSet(S) /\ S \subseteq Int /\ S \subseteq DOMAIN m
  BY FS_Subset
<1>2. ASSUME NEW i \in DOMAIN m
      PROVE  Asked(m, g, o, 2, i) = IF i \in S /\ test(i) THEN {UpdateOf(m, g, o, i)} ELSE {}
  BY DEF Asked
<1>3. Updates(m, g, o) = InOne(S, f)
  <2>1. InOrder(S) \in [1..Cardinality(S) -> S]
    BY <1>1, InOrderLists
  <2>2. Updates(m, g, o) = FlattenSeq([k \in 1..Cardinality(S) |->
           LET i == InOrder(S)[k] IN When(test(i), UpdateOf(m, g, o, i))])
    BY DEF Updates, ForEach, UpdateOf, TextOfUpdate
  <2> HIDE DEF S, test
  <2> QED BY <2>1, <2>2 DEF InOne
<1>4. ASSUME NEW i \in DOMAIN m
      PROVE  LET a == UpdateOf(m, g, o, i) IN a.item = i /\ Suits(m, g, a) /\ Tier(a) = 2
  BY DEF UpdateOf, Act, Suits, Tier
<1>5. ByItem(m, g, o, 2, S, f)
  <2> HIDE DEF test, S
  <2>1. \A i \in S : Lists(f[i], Asked(m, g, o, 2, i))
    BY <1>1, <1>2, WhenLists
  <2> QED BY <1>1, <1>2, <1>4, <2>1 DEF ByItem, FitsItem
<1> HIDE DEF S, f
<1> QED BY <1>1, <1>3, <1>5, PartByItem

(* The Project actions: what is added was outside, what is set inside.      *)
LEMMA ProjectPart ==
    ASSUME NEW m, NEW g, NEW o, IsFiniteSet(DOMAIN m), DOMAIN m \subseteq Int
    PROVE  IsPart(m, g, o, 3, ProjectActions(m, g, o))
<1> DEFINE S == DOMAIN m
           set(i) == SetOf(m, g, o, i)
           add(i) == AddOf(m, g, o, i)
           test(i) == DOMAIN Changed(m, g, o, i) # {}
           f == [i \in S |-> IF Member(g, i) THEN When(test(i), set(i)) ELSE <<add(i)>>]
<1>1. IsFiniteSet(S) /\ S \subseteq Int
  OBVIOUS
<1>2. ASSUME NEW i \in S
      PROVE  Asked(m, g, o, 3, i) =
               IF Member(g, i) THEN IF test(i) THEN {set(i)} ELSE {} ELSE {add(i)}
  BY DEF Asked
<1>3. ProjectActions(m, g, o) = InOne(S, f)
  <2>1. InOrder(S) \in [1..Cardinality(S) -> S]
    BY <1>1, InOrderLists
  <2>2. ProjectActions(m, g, o) = FlattenSeq([k \in 1..Cardinality(S) |->
           LET i == InOrder(S)[k]
           IN  IF Member(g, i) THEN When(test(i), set(i)) ELSE <<add(i)>>])
    BY DEF ProjectActions, ForEach, SetOf, AddOf, Changed
  <2> HIDE DEF S, set, add, test
  <2> QED BY <2>1, <2>2 DEF InOne
<1>4. \A i \in S : /\ set(i).item = i /\ Tier(set(i)) = 3 /\ (Member(g, i) => Suits(m, g, set(i)))
                   /\ add(i).item = i /\ Tier(add(i)) = 3 /\ Suits(m, g, add(i))
  BY DEF SetOf, AddOf, Act, Suits, Tier
<1>5. ByItem(m, g, o, 3, S, f)
  <2> HIDE DEF test, set, add
  <2>1. \A i \in S : Lists(f[i], Asked(m, g, o, 3, i))
    BY <1>2, WhenLists, OneLists
  <2> QED BY <1>2, <1>4, <2>1 DEF ByItem, FitsItem
<1> HIDE DEF S, f
<1> QED BY <1>1, <1>3, <1>5, PartByItem

(* The transitions, of items in the Project.                                *)
LEMMA TransitionsPart ==
    ASSUME NEW m, NEW g, NEW o, IsFiniteSet(DOMAIN m), DOMAIN m \subseteq Int,
           \A i \in DOMAIN o.transitions : i \in DOMAIN m /\ Member(g, i)
    PROVE  IsPart(m, g, o, 4, Transitions(m, g, o))
<1> DEFINE S == DOMAIN o.transitions
           test(i) == g[i].status # o.transitions[i]
           f == [i \in S |-> When(test(i), MoveOf(o, i))]
<1>1. IsFiniteSet(S) /\ S \subseteq Int /\ S \subseteq DOMAIN m
  BY FS_Subset
<1>2. ASSUME NEW i \in DOMAIN m
      PROVE  Asked(m, g, o, 4, i) = IF i \in S /\ test(i) THEN {MoveOf(o, i)} ELSE {}
  BY DEF Asked
<1>3. Transitions(m, g, o) = InOne(S, f)
  <2>1. InOrder(S) \in [1..Cardinality(S) -> S]
    BY <1>1, InOrderLists
  <2>2. Transitions(m, g, o) = FlattenSeq([k \in 1..Cardinality(S) |->
           LET i == InOrder(S)[k] IN When(test(i), MoveOf(o, i))])
    BY DEF Transitions, ForEach, MoveOf
  <2> HIDE DEF S, test
  <2> QED BY <2>1, <2>2 DEF InOne
<1>4. ASSUME NEW i \in S
      PROVE  LET a == MoveOf(o, i) IN a.item = i /\ Suits(m, g, a) /\ Tier(a) = 4
  BY DEF MoveOf, Act, Suits, Tier
<1>5. ByItem(m, g, o, 4, S, f)
  <2> HIDE DEF test, S
  <2>1. \A i \in S : Lists(f[i], Asked(m, g, o, 4, i))
    BY <1>1, <1>2, WhenLists
  <2> QED BY <1>1, <1>2, <1>4, <2>1 DEF ByItem, FitsItem
<1> HIDE DEF S, f
<1> QED BY <1>1, <1>3, <1>5, PartByItem

(* The closures; only those of Project items write a Status.                *)
LEMMA ClosuresPart ==
    ASSUME NEW m, NEW g, NEW o, IsFiniteSet(DOMAIN m), DOMAIN m \subseteq Int
    PROVE  IsPart(m, g, o, 7, Closures(m, g))
<1> DEFINE S == CompletedParents(m, g)
           f == [i \in S |-> <<CloseOf(g, i)>>]
<1>1. IsFiniteSet(S) /\ S \subseteq Int /\ S \subseteq DOMAIN m
  BY FS_Subset DEF CompletedParents
<1>2. ASSUME NEW i \in DOMAIN m
      PROVE  Asked(m, g, o, 7, i) = IF i \in S THEN {CloseOf(g, i)} ELSE {}
  BY DEF Asked
<1>3. Closures(m, g) = InOne(S, f)
  <2>1. InOrder(S) \in [1..Cardinality(S) -> S]
    BY <1>1, InOrderLists
  <2>2. Closures(m, g) = FlattenSeq([k \in 1..Cardinality(S) |-> <<CloseOf(g, InOrder(S)[k])>>])
    BY DEF Closures, ForEach, CloseOf
  <2> HIDE DEF S
  <2> QED BY <2>1, <2>2 DEF InOne
<1>4. ASSUME NEW i \in S
      PROVE  LET a == CloseOf(g, i) IN a.item = i /\ Suits(m, g, a) /\ Tier(a) = 7
  <2> DEFINE fields == IF g[i].member /\ g[i].status # Done THEN [Status |-> Done] ELSE <<>>
  <2>1. i \in DOMAIN m /\ ~Missing(g, i) /\ (fields # <<>> => Member(g, i))
    BY DEF CompletedParents, Member
  <2>2. CloseOf(g, i) = Act("issue.close_parent", i, [fields |-> fields])
    BY DEF CloseOf
  <2> HIDE DEF fields, S
  <2> QED BY <2>1, <2>2 DEF Act, Suits, Tier
<1>5. ByItem(m, g, o, 7, S, f)
  <2> HIDE DEF S
  <2>1. \A i \in S : Lists(f[i], Asked(m, g, o, 7, i))
    BY <1>1, <1>2, OneLists
  <2> QED BY <1>1, <1>2, <1>4, <2>1 DEF ByItem, FitsItem
<1> HIDE DEF S, f
<1> QED BY <1>1, <1>3, <1>5, PartByItem

(* The links of one item, each once.                                        *)
LEMMA LinksOfOne ==
    ASSUME NEW kind, NEW i, NEW D, IsFiniteSet(D), D \subseteq Int
    PROVE  Lists(FlattenSeq([k \in 1..Cardinality(D) |-> <<Act(kind, i, [to |-> InOrder(D)[k]])>>]),
                 {Act(kind, i, [to |-> d]) : d \in D})
<1> DEFINE act(d) == Act(kind, i, [to |-> d])
           f == [d \in D |-> <<act(d)>>]
           X == [d \in D |-> {act(d)}]
<1>1. InOrder(D) \in [1..Cardinality(D) -> D]
  BY InOrderLists
<1>2. \A d \in D : Lists(f[d], X[d])
  <2> HIDE DEF act
  <2> QED BY OneLists
<1>3. \A d, e \in D : d # e => X[d] \cap X[e] = {}
  <2>1. \A d, e \in D : act(d) = act(e) => d = e
    BY DEF Act
  <2> HIDE DEF act
  <2> QED BY <2>1
<1>4. FlattenSeq([k \in 1..Cardinality(D) |-> <<act(InOrder(D)[k])>>]) = InOne(D, f)
  <2> HIDE DEF act
  <2> QED BY <1>1 DEF InOne
<1>5. {act(d) : d \in D} = All(D, X)
  <2> HIDE DEF act
  <2> QED BY DEF All
<1>6. Lists(InOne(D, f), All(D, X))
  <2> HIDE DEF f, X
  <2> QED BY <1>2, <1>3, ForEachLists
<1> HIDE DEF f, X
<1> QED BY <1>4, <1>5, <1>6

(* The removals: a parent the item has, and every dependency unwanted.      *)
LEMMA RemovalsPart ==
    ASSUME NEW m, NEW g, NEW o, IsFiniteSet(DOMAIN m), DOMAIN m \subseteq Int
    PROVE  IsPart(m, g, o, 5, Removals(m, g))
<1> DEFINE S == {i \in DOMAIN m : ~Missing(g, i)}
           D(i) == (g[i].deps \ m[i].deps) \cap DOMAIN m
           test(i) == m[i].parent = NoItem /\ g[i].parent \in DOMAIN m
           up(i) == DetachOf(g, i)
           Up(i) == IF test(i) THEN {up(i)} ELSE {}
           Drops(i) == {DropOf(i, d) : d \in D(i)}
           drops(i) == FlattenSeq([k \in 1..Cardinality(D(i)) |-> <<DropOf(i, InOrder(D(i))[k])>>])
           f == [i \in S |-> When(test(i), up(i)) \o drops(i)]
<1>1. IsFiniteSet(S) /\ S \subseteq Int /\ S \subseteq DOMAIN m
  BY FS_Subset
<1>2. ASSUME NEW i \in S
      PROVE  /\ Lists(When(test(i), up(i)), Up(i))
             /\ Lists(drops(i), Drops(i))
  <2>1. IsFiniteSet(D(i)) /\ D(i) \subseteq Int
    BY FS_Subset
  <2>2. Lists(drops(i), Drops(i))
    <3> HIDE DEF D
    <3> QED BY <2>1, LinksOfOne DEF DropOf
  <2> HIDE DEF test, up, drops, Drops
  <2> QED BY <2>2, WhenLists
<1>3. ASSUME NEW i \in S
      PROVE  /\ \A a \in Up(i) : /\ a.kind = "issue.remove_parent"
                                 /\ a.item = i /\ Suits(m, g, a) /\ Tier(a) = 5
             /\ \A a \in Drops(i) : /\ a.kind = "issue.remove_dependency"
                                    /\ a.item = i /\ Suits(m, g, a) /\ Tier(a) = 5
  <2>1. ASSUME test(i)
        PROVE  /\ up(i).kind = "issue.remove_parent" /\ up(i).item = i
               /\ Suits(m, g, up(i)) /\ Tier(up(i)) = 5
    BY <2>1 DEF DetachOf, Act, Suits, Tier
  <2>2. ASSUME NEW d \in D(i)
        PROVE  LET a == DropOf(i, d)
               IN  /\ a.kind = "issue.remove_dependency" /\ a.item = i
                   /\ Suits(m, g, a) /\ Tier(a) = 5
    BY DEF DropOf, Act, Suits, Tier
  <2>3. \A a \in Up(i) : test(i) /\ a = up(i)
    OBVIOUS
  <2>4. \A a \in Drops(i) : \E d \in D(i) : a = DropOf(i, d)
    OBVIOUS
  <2> HIDE DEF test, up, D, Up, Drops, S
  <2> QED BY <2>1, <2>2, <2>3, <2>4
<1>4. Removals(m, g) = InOne(S, f)
  <2>1. InOrder(S) \in [1..Cardinality(S) -> S]
    BY <1>1, InOrderLists
  <2>2. Removals(m, g) = FlattenSeq([k \in 1..Cardinality(S) |->
           LET i == InOrder(S)[k] IN When(test(i), up(i)) \o drops(i)])
    BY DEF Removals, ForEach, DropOf, DetachOf
  <2> HIDE DEF S, test, up, drops
  <2> QED BY <2>1, <2>2 DEF InOne
<1>5. ASSUME NEW i \in DOMAIN m
      PROVE  Asked(m, g, o, 5, i) = IF i \in S THEN Up(i) \cup Drops(i) ELSE {}
  <2>1. CASE i \in S
    <3>1. Unwanted(m, g, i) = D(i)
      BY <2>1 DEF Unwanted
    <3>2. Asked(m, g, o, 5, i) = (IF test(i) THEN {up(i)} ELSE {}) \cup {DropOf(i, d) : d \in D(i)}
      BY <2>1, <3>1 DEF Asked
    <3> QED BY <2>1, <3>2
  <2>2. CASE i \notin S
    BY <2>2 DEF Asked, Unwanted
  <2> QED BY <2>1, <2>2
<1>6. ByItem(m, g, o, 5, S, f)
  <2> HIDE DEF test, up, drops, Up, Drops, S
  <2>1. ASSUME NEW i \in S PROVE Lists(f[i], Asked(m, g, o, 5, i))
    <3>1. Up(i) \cap Drops(i) = {}
      BY <1>3
    <3>2. Lists(When(test(i), up(i)) \o drops(i), Up(i) \cup Drops(i))
      BY <1>2, <3>1, ListsJoined
    <3> QED BY <1>1, <1>5, <3>2
  <2>2. ASSUME NEW i \in DOMAIN m PROVE FitsItem(m, g, o, 5, i)
    BY <1>3, <1>5 DEF FitsItem
  <2> QED BY <1>1, <1>5, <2>1, <2>2 DEF ByItem
<1> HIDE DEF S, f
<1> QED BY <1>1, <1>4, <1>6, PartByItem

(* The new links, all of them the manifest's.                               *)
LEMMA LinksPart ==
    ASSUME NEW m, NEW g, NEW o, IsFiniteSet(DOMAIN m), DOMAIN m \subseteq Int,
           \A i \in DOMAIN m : IsFiniteSet(m[i].deps) /\ m[i].deps \subseteq Int
    PROVE  IsPart(m, g, o, 6, Links(m, g))
<1> DEFINE S == DOMAIN m
           D(i) == m[i].deps \ DepsIn(g, i)
           test(i) == m[i].parent # NoItem /\ ParentIn(g, i) # m[i].parent
           up(i) == AttachOf(m, i)
           Up(i) == IF test(i) THEN {up(i)} ELSE {}
           News(i) == {NeedOf(i, d) : d \in D(i)}
           news(i) == FlattenSeq([k \in 1..Cardinality(D(i)) |-> <<NeedOf(i, InOrder(D(i))[k])>>])
           f == [i \in S |-> When(test(i), up(i)) \o news(i)]
<1>1. IsFiniteSet(S) /\ S \subseteq Int
  OBVIOUS
<1>2. ASSUME NEW i \in S
      PROVE  /\ Lists(When(test(i), up(i)), Up(i))
             /\ Lists(news(i), News(i))
  <2>1. IsFiniteSet(D(i)) /\ D(i) \subseteq Int
    BY FS_Subset
  <2>2. Lists(news(i), News(i))
    <3> HIDE DEF D
    <3> QED BY <2>1, LinksOfOne DEF NeedOf
  <2> HIDE DEF test, up, news, News
  <2> QED BY <2>2, WhenLists
<1>3. ASSUME NEW i \in S
      PROVE  /\ \A a \in Up(i) : /\ a.kind = "issue.set_parent"
                                 /\ a.item = i /\ Suits(m, g, a) /\ Tier(a) = 6
             /\ \A a \in News(i) : /\ a.kind = "issue.add_dependency"
                                   /\ a.item = i /\ Suits(m, g, a) /\ Tier(a) = 6
  <2>1. ASSUME test(i)
        PROVE  /\ up(i).kind = "issue.set_parent" /\ up(i).item = i
               /\ Suits(m, g, up(i)) /\ Tier(up(i)) = 6
    BY <2>1 DEF AttachOf, Act, Suits, Tier
  <2>2. ASSUME NEW d \in D(i)
        PROVE  LET a == NeedOf(i, d)
               IN  /\ a.kind = "issue.add_dependency" /\ a.item = i
                   /\ Suits(m, g, a) /\ Tier(a) = 6
    BY DEF NeedOf, Act, Suits, Tier
  <2>3. \A a \in Up(i) : test(i) /\ a = up(i)
    OBVIOUS
  <2>4. \A a \in News(i) : \E d \in D(i) : a = NeedOf(i, d)
    OBVIOUS
  <2> HIDE DEF test, up, D, Up, News, S
  <2> QED BY <2>1, <2>2, <2>3, <2>4
<1>4. Links(m, g) = InOne(S, f)
  <2>1. InOrder(S) \in [1..Cardinality(S) -> S]
    BY <1>1, InOrderLists
  <2>2. Links(m, g) = FlattenSeq([k \in 1..Cardinality(S) |->
           LET i == InOrder(S)[k] IN When(test(i), up(i)) \o news(i)])
    BY DEF Links, ForEach, ParentIn, DepsIn, AttachOf, NeedOf
  <2> HIDE DEF S, test, up, news
  <2> QED BY <2>1, <2>2 DEF InOne
<1>5. ASSUME NEW i \in DOMAIN m
      PROVE  Asked(m, g, o, 6, i) = Up(i) \cup News(i)
  BY DEF Asked
<1>6. ByItem(m, g, o, 6, S, f)
  <2> HIDE DEF test, up, news, Up, News
  <2>1. ASSUME NEW i \in S PROVE Lists(f[i], Asked(m, g, o, 6, i))
    <3>1. Up(i) \cap News(i) = {}
      BY <1>3
    <3>2. Lists(When(test(i), up(i)) \o news(i), Up(i) \cup News(i))
      BY <1>2, <3>1, ListsJoined
    <3> QED BY <1>5, <3>2
  <2>2. ASSUME NEW i \in DOMAIN m PROVE FitsItem(m, g, o, 6, i)
    BY <1>3, <1>5 DEF FitsItem
  <2> QED BY <2>1, <2>2 DEF ByItem
<1> HIDE DEF S, f
<1> QED BY <1>1, <1>4, <1>6, PartByItem

(* The parts of a plan so far, up to the n-th, in order.                    *)
Arranged(m, g, o, n, s) ==
    /\ Lists(s, AskedUpTo(m, g, o, n))
    /\ \A a \in AskedUpTo(m, g, o, n) : Suits(m, g, a) /\ Tier(a) \in 1..n
    /\ \A j, k \in 1..Len(s) : j <= k => Tier(s[j]) <= Tier(s[k])

(* The next part keeps the order.                                           *)
LEMMA ArrangedStill ==
    ASSUME NEW m, NEW g, NEW o, NEW n \in Nat, NEW s, NEW t,
           Arranged(m, g, o, n, s), IsPart(m, g, o, n + 1, t)
    PROVE  Arranged(m, g, o, n + 1, s \o t)
<1> DEFINE st == s \o t
           X == AskedUpTo(m, g, o, n)
           W == AskedOfAll(m, g, o, n + 1)
<1>1. Lists(s, X) /\ \A a \in X : Suits(m, g, a) /\ Tier(a) \in 1..n
  BY DEF Arranged
<1>2. Lists(t, W) /\ \A a \in W : Suits(m, g, a) /\ Tier(a) = n + 1
  BY DEF IsPart
<1>a. AskedUpTo(m, g, o, n + 1) = X \cup W
  <2>1. 1..(n + 1) = 1..n \cup {n + 1}
    OBVIOUS
  <2> QED BY <2>1 DEF AskedUpTo
<1> HIDE DEF X, W
<1>3. X \cap W = {}
  <2> SUFFICES ASSUME NEW a \in X, a \in W PROVE FALSE
    OBVIOUS
  <2> QED BY <1>1, <1>2
<1>4. Lists(st, X \cup W)
  BY <1>1, <1>2, <1>3, ListsJoined
<1>5. \A a \in X \cup W : Suits(m, g, a) /\ Tier(a) \in 1..(n + 1)
  <2>1. n + 1 \in 1..(n + 1) /\ \A k \in 1..n : k \in 1..(n + 1)
    OBVIOUS
  <2> QED BY <1>1, <1>2, <2>1
<1>6. Places(s, X, t, W, st)
  <2>1. s \in Seq(X) /\ t \in Seq(W)
    BY <1>1, <1>2 DEF Lists
  <2> QED BY <2>1, Joined
<1> HIDE DEF st
<1>7. ASSUME NEW j \in 1..Len(st), NEW k \in 1..Len(st), j <= k
      PROVE  Tier(st[j]) <= Tier(st[k])
  <2>1. CASE k \in 1..Len(s)
    <3>1. j \in 1..Len(s) /\ st[j] = s[j] /\ st[k] = s[k]
      BY <1>6, <1>7, <2>1 DEF Places
    <3> QED BY <1>7, <2>1, <3>1 DEF Arranged
  <2>2. CASE k \notin 1..Len(s)
    <3>1. Tier(st[k]) = n + 1
      <4>1. PICK p \in 1..Len(t) : k = Len(s) + p
        BY <1>6, <2>2 DEF Places
      <4>2. st[k] \in W
        BY <1>6, <4>1 DEF Places
      <4> QED BY <1>2, <4>2
    <3>2. Tier(st[j]) \in 1..(n + 1)
      <4>1. st[j] \in X \cup W
        BY <1>6 DEF Places
      <4> QED BY <1>5, <4>1
    <3> QED BY <3>1, <3>2
  <2> QED BY <2>1, <2>2
<1>8. Arranged(m, g, o, n + 1, st)
  BY <1>a, <1>4, <1>5, <1>7 DEF Arranged
<1> QED BY <1>8 DEF st

(* A plan lists exactly what is asked, part by part.                        *)
LEMMA PlanIsArranged ==
    ASSUME NEW m, NEW g, NEW o, IsFiniteSet(DOMAIN m), DOMAIN m \subseteq Int,
           \A i \in DOMAIN m : IsFiniteSet(m[i].deps) /\ m[i].deps \subseteq Int,
           \A i \in DOMAIN o.transitions : i \in DOMAIN m /\ Member(g, i)
    PROVE  Arranged(m, g, o, 7, SyncPlanOf(m, g, o))
<1> DEFINE s1 == Creates(m, g)
           s2 == s1 \o Updates(m, g, o)
           s3 == s2 \o ProjectActions(m, g, o)
           s4 == s3 \o Transitions(m, g, o)
           s5 == s4 \o Removals(m, g)
           s6 == s5 \o Links(m, g)
           s7 == s6 \o Closures(m, g)
<1>1. /\ IsPart(m, g, o, 1, s1) /\ IsPart(m, g, o, 2, Updates(m, g, o))
      /\ IsPart(m, g, o, 3, ProjectActions(m, g, o))
      /\ IsPart(m, g, o, 4, Transitions(m, g, o))
      /\ IsPart(m, g, o, 5, Removals(m, g))
      /\ IsPart(m, g, o, 6, Links(m, g)) /\ IsPart(m, g, o, 7, Closures(m, g))
  BY CreatesPart, UpdatesPart, ProjectPart, TransitionsPart, RemovalsPart, LinksPart, ClosuresPart
<1>2. Arranged(m, g, o, 1, s1)
  <2> HIDE DEF s1
  <2>1. AskedUpTo(m, g, o, 1) = AskedOfAll(m, g, o, 1)
    <3>1. 1..1 = {1}
      OBVIOUS
    <3> QED BY <3>1 DEF AskedUpTo
  <2>2. \A k \in 1..Len(s1) : Tier(s1[k]) = 1
    <3>1. IsPart(m, g, o, 1, s1)
      BY <1>1
    <3> QED BY <3>1 DEF IsPart, Lists
  <2> QED BY <1>1, <2>1, <2>2 DEF Arranged, IsPart
<1>3. ASSUME NEW n \in 1..6, NEW s, NEW t,
             Arranged(m, g, o, n, s), IsPart(m, g, o, n + 1, t)
      PROVE  Arranged(m, g, o, n + 1, s \o t)
  BY <1>3, ArrangedStill
<1>4. 2 = 1 + 1 /\ 3 = 2 + 1 /\ 4 = 3 + 1 /\ 5 = 4 + 1 /\ 6 = 5 + 1 /\ 7 = 6 + 1
  OBVIOUS
<1>5. Arranged(m, g, o, 2, s2)
  <2> HIDE DEF s1
  <2> QED BY <1>1, <1>2, <1>3, <1>4
<1>6. Arranged(m, g, o, 3, s3)
  <2> HIDE DEF s2
  <2> QED BY <1>1, <1>3, <1>4, <1>5
<1>7. Arranged(m, g, o, 4, s4)
  <2> HIDE DEF s3
  <2> QED BY <1>1, <1>3, <1>4, <1>6
<1>8. Arranged(m, g, o, 5, s5)
  <2> HIDE DEF s4
  <2> QED BY <1>1, <1>3, <1>4, <1>7
<1>9. Arranged(m, g, o, 6, s6)
  <2> HIDE DEF s5
  <2> QED BY <1>1, <1>3, <1>4, <1>8
<1>10. Arranged(m, g, o, 7, s7)
  <2> HIDE DEF s6
  <2> QED BY <1>1, <1>3, <1>4, <1>9
<1>11. SyncPlanOf(m, g, o) = s7
  BY DEF SyncPlanOf
<1> HIDE DEF s7
<1> QED BY <1>10, <1>11

(* What a plan for m is to a GitHub it suits: every action suits it, none   *)
(* comes twice, the parts are in order, what is lacking is created and what *)
(* is unwanted dropped.                                                     *)
WellPlanned(m, g, acts) ==
    /\ Len(acts) \in Nat
    /\ \A k \in 1..Len(acts) : Suits(m, g, acts[k]) /\ Tier(acts[k]) \in 1..7
    /\ \A j, k \in 1..Len(acts) : acts[j] = acts[k] => j = k
    /\ \A j, k \in 1..Len(acts) : j <= k => Tier(acts[j]) <= Tier(acts[k])
    /\ \A i \in Lacking(m, g) : \E k \in 1..Len(acts) : acts[k] = CreateOf(m, i)
    /\ \A i \in DOMAIN m : \A d \in Unwanted(m, g, i) :
          \E k \in 1..Len(acts) : acts[k] = DropOf(i, d)

(* Everything asked of an item is in the plan.                              *)
LEMMA AskedIsPlanned ==
    ASSUME NEW m, NEW g, NEW o, NEW s, Arranged(m, g, o, 7, s),
           NEW n \in 1..7, NEW i \in DOMAIN m, NEW a \in Asked(m, g, o, n, i)
    PROVE  \E k \in 1..Len(s) : s[k] = a
<1>1. a \in AskedUpTo(m, g, o, 7)
  BY DEF AskedUpTo, AskedOfAll
<1> QED BY <1>1 DEF Arranged, Lists

(* build_sync_plan plans well.                                              *)
LEMMA PlanIsWell ==
    ASSUME NEW m, NEW g, NEW o, NEW acts, Arranged(m, g, o, 7, acts)
    PROVE  WellPlanned(m, g, acts)
<1>1. Len(acts) \in Nat /\ \A k \in 1..Len(acts) : Suits(m, g, acts[k]) /\ Tier(acts[k]) \in 1..7
  BY DEF Arranged, Lists
<1>2. /\ \A j, k \in 1..Len(acts) : acts[j] = acts[k] => j = k
      /\ \A j, k \in 1..Len(acts) : j <= k => Tier(acts[j]) <= Tier(acts[k])
  BY DEF Arranged, Lists
<1>3. ASSUME NEW i \in Lacking(m, g)
      PROVE  \E k \in 1..Len(acts) : acts[k] = CreateOf(m, i)
  <2>1. i \in DOMAIN m /\ CreateOf(m, i) \in Asked(m, g, o, 1, i)
    BY DEF Asked, Lacking
  <2> QED BY <2>1, AskedIsPlanned
<1>4. ASSUME NEW i \in DOMAIN m, NEW d \in Unwanted(m, g, i)
      PROVE  \E k \in 1..Len(acts) : acts[k] = DropOf(i, d)
  <2>1. DropOf(i, d) \in Asked(m, g, o, 5, i)
    BY DEF Asked
  <2> QED BY <2>1, AskedIsPlanned
<1> QED BY <1>1, <1>2, <1>3, <1>4 DEF WellPlanned

(* An issue that is there. *)
Existing ==
    [copies : 1..2, text : Issue, open : BOOLEAN, member : BOOLEAN,
     status : BoardStatus \cup {Unset}, impact : Score, priority : Score,
     parent : Item \cup {NoItem}, deps : SUBSET Item]

FieldWrite(i, f, v) == Act("field", i, [name |-> f, value |-> v])

(* A mutation is the action itself, the opening mutation of one, or the     *)
(* write of one of its fields.                                              *)
Carries(a, w) ==
    \/ w = a /\ a.kind \in {"issue.create", "issue.update", "issue.set_parent",
              "issue.remove_parent", "issue.add_dependency", "issue.remove_dependency"}
    \/ w = Act("add", a.item, <<>>) /\ a.kind = "project.add_item"
    \/ w = Act("close", a.item, <<>>) /\ a.kind = "issue.close_parent"
    \/ /\ a.kind \in {"project.add_item", "project.set_fields", "project.transition",
                      "issue.close_parent"}
       /\ \E f \in DOMAIN a.arg.fields \cap {"Impact", "Priority", "Status"} :
             w = FieldWrite(a.item, f, a.arg.fields[f])

(* Something done when a test holds is a list over what it may be.          *)
LEMMA WhenIsOver ==
    ASSUME NEW T, NEW act \in T, NEW test
    PROVE  When(test, act) \in Seq(T)
BY DEF When

(* Every field write writes a field the action names, and its value. *)
LEMMA FieldWritesAre ==
    ASSUME NEW i, NEW fields
    PROVE  FieldWrites(i, fields) \in
             Seq({FieldWrite(i, f, fields[f]) :
                     f \in DOMAIN fields \cap {"Impact", "Priority", "Status"}})
<1> DEFINE F == DOMAIN fields \cap {"Impact", "Priority", "Status"}
           w(f) == FieldWrite(i, f, fields[f])
           T == {w(f) : f \in F}
           set(f) == When(f \in DOMAIN fields, w(f))
<1>1. ASSUME NEW f \in {"Impact", "Priority", "Status"} PROVE set(f) \in Seq(T)
  <2>1. CASE f \in DOMAIN fields
    <3>1. w(f) \in T
      BY <2>1
    <3> HIDE DEF T, w
    <3> QED BY <3>1, WhenIsOver
  <2>2. CASE f \notin DOMAIN fields
    BY <2>2 DEF When
  <2> QED BY <2>1, <2>2
<1>2. FieldWrites(i, fields) = set("Impact") \o set("Priority") \o set("Status")
  BY DEF FieldWrites, FieldWrite
<1> HIDE DEF T, set
<1>3. set("Impact") \in Seq(T) /\ set("Priority") \in Seq(T) /\ set("Status") \in Seq(T)
  BY <1>1
<1>4. FieldWrites(i, fields) \in Seq(T)
  BY <1>2, <1>3
<1> QED BY <1>4 DEF T

(* So does every mutation an action issues: the executor adds nothing. *)
LEMMA WritesAre ==
    ASSUME NEW a \in SyncAction, NEW k \in 1..Len(SyncWrites(a))
    PROVE  Carries(a, SyncWrites(a)[k])
<1> DEFINE T == {FieldWrite(a.item, f, a.arg.fields[f]) :
                     f \in DOMAIN a.arg.fields \cap {"Impact", "Priority", "Status"}}
           w == SyncWrites(a)[k]
           fw == FieldWrites(a.item, a.arg.fields)
<1>0. fw \in Seq(T)
  BY FieldWritesAre
<1>1. CASE a.kind = "project.add_item"
  <2> DEFINE s == Act("add", a.item, <<>>)
  <2>1. SyncWrites(a) = <<s>> \o fw
    BY <1>1 DEF SyncWrites
  <2> HIDE DEF s, fw, T
  <2>2. w = s \/ w \in T
    BY <1>0, <2>1
  <2> QED BY <1>1, <2>2 DEF Carries, s, T
<1>2. CASE a.kind = "issue.close_parent"
  <2> DEFINE s == Act("close", a.item, <<>>)
  <2>1. SyncWrites(a) = <<s>> \o fw
    BY <1>2 DEF SyncWrites
  <2> HIDE DEF s, fw, T
  <2>2. w = s \/ w \in T
    BY <1>0, <2>1
  <2> QED BY <1>2, <2>2 DEF Carries, s, T
<1>3. CASE a.kind \in {"project.set_fields", "project.transition"}
  <2>1. SyncWrites(a) = fw
    BY <1>3 DEF SyncWrites
  <2> HIDE DEF fw, T
  <2>2. w \in T
    BY <1>0, <2>1
  <2> QED BY <1>3, <2>2 DEF Carries, T
<1>4. CASE a.kind \in {"issue.create", "issue.update", "issue.set_parent",
              "issue.remove_parent", "issue.add_dependency", "issue.remove_dependency"}
  <2>1. SyncWrites(a) = <<a>>
    BY <1>4 DEF SyncWrites
  <2>2. w = a
    BY <2>1
  <2> QED BY <1>4, <2>2 DEF Carries
<1>5. a.kind \in {"issue.create", "issue.update", "issue.set_parent",
              "issue.remove_parent", "issue.add_dependency", "issue.remove_dependency",
              "project.set_fields", "project.transition", "issue.close_parent", "project.add_item"}
  BY DEF SyncAction
<1> QED BY <1>1, <1>2, <1>3, <1>4, <1>5

(* The actions, by what they carry. *)
LEMMA ActionParts ==
    ASSUME NEW a \in SyncAction
    PROVE  /\ a.item \in Item
           /\ a.kind = "issue.create" => a.arg.text \in Issue
           /\ a.kind = "issue.update" => a.arg.text \in TextPatches
           /\ a.kind \in {"issue.set_parent", "issue.remove_parent",
                          "issue.add_dependency", "issue.remove_dependency"} => a.arg.to \in Item
           /\ a.kind \in {"project.add_item", "project.set_fields", "project.transition",
                          "issue.close_parent"} => a.arg.fields \in FieldSets
<1> HIDE DEF FieldSets, Issue, TextPatches
<1> QED BY DEF SyncAction

(* The values of Project fields, by name. *)
LEMMA FieldValues ==
    ASSUME NEW fields \in FieldSets, NEW f \in DOMAIN fields
    PROVE  IF f = "Status" THEN fields[f] \in BoardStatus
           ELSE f \in {"Impact", "Priority"} /\ fields[f] \in Score
BY DEF FieldSets

(* What a mutation GitHub accepts does to the issue it is about. *)
LEMMA EffectIsLocal ==
    ASSUME NEW a \in SyncAction, NEW w, Carries(a, w),
           NEW r \in [Item -> GitHubIssue], GitHubAccepts(w, r),
           NEW s, s = GitHubEffect(w, r), NEW i, i = a.item
    PROVE  /\ s \in [Item -> GitHubIssue]
           /\ \A j \in Item \ {i} : s[j] = r[j]
           /\ s[i].copies = IF a.kind # "issue.create" THEN r[i].copies
                            ELSE IF Missing(r, i) THEN 1 ELSE 2
<1>0. i \in Item /\ r[i] \in GitHubIssue /\ GitHubIssue = {NoIssue} \cup Existing
  BY ActionParts DEF GitHubIssue, Existing
<1>a. ~Missing(r, i) => r[i] \in Existing
  BY <1>0 DEF Missing, NoIssue
<1>b. ASSUME NEW x \in GitHubIssue, s = [r EXCEPT ![i] = x]
      PROVE  s \in [Item -> GitHubIssue] /\ s[i] = x /\ \A j \in Item \ {i} : s[j] = r[j]
  BY ONLY <1>0, <1>b, r \in [Item -> GitHubIssue]
<1>c. ASSUME NEW x \in Existing, s = [r EXCEPT ![i] = x], x.copies = r[i].copies,
             a.kind # "issue.create"
      PROVE  /\ s \in [Item -> GitHubIssue]
             /\ \A j \in Item \ {i} : s[j] = r[j]
             /\ s[i].copies = r[i].copies
  BY ONLY <1>0, <1>c, r \in [Item -> GitHubIssue]
<1>1. CASE w = a /\ a.kind = "issue.create"
  <2>1. s = [r EXCEPT ![i] = IF Missing(r, i) THEN NewIssue(a.arg.text)
                             ELSE [r[i] EXCEPT !.copies = 2]]
    BY <1>1 DEF GitHubEffect
  <2>2. CASE Missing(r, i)
    <3>1. NewIssue(a.arg.text) \in GitHubIssue /\ NewIssue(a.arg.text).copies = 1
      BY <1>0, <1>1, ActionParts, ScoreType DEF NewIssue, GitHubIssue
    <3> QED BY <1>1, <1>b, <2>1, <2>2, <3>1
  <2>3. CASE ~Missing(r, i)
    <3>1. [r[i] EXCEPT !.copies = 2] \in Existing /\ [r[i] EXCEPT !.copies = 2].copies = 2
      BY <1>a, <2>3 DEF Existing
    <3>2. [r[i] EXCEPT !.copies = 2] \in GitHubIssue
      BY <1>0, <3>1
    <3> QED BY <1>1, <1>b, <2>1, <2>3, <3>1, <3>2
  <2> QED BY <2>2, <2>3
<1>2. CASE w = a /\ a.kind = "issue.update"
  <2> DEFINE t == [f \in DOMAIN r[i].text |->
                      IF f \in DOMAIN a.arg.text THEN a.arg.text[f] ELSE r[i].text[f]]
             x == [r[i] EXCEPT !.text = t]
  <2>1. ~Missing(r, i)
    BY <1>2 DEF GitHubAccepts
  <2>2. r[i] \in Existing /\ a.arg.text \in TextPatches
    BY <1>2, <1>a, <2>1, ActionParts
  <2>3. t \in Issue
    <3>1. r[i].text \in Issue
      BY <2>2 DEF Existing
    <3>2. DOMAIN r[i].text = {"title", "body", "td", "bd"}
      BY <3>1 DEF Issue
    <3>3. t.title \in Title /\ t.body \in Body /\ t.td \in Title \cup {NoDigest}
          /\ t.bd \in Body \cup {NoDigest}
      BY <2>2, <3>1, <3>2 DEF Issue, TextPatches
    <3> QED BY <3>2, <3>3 DEF Issue
  <2> HIDE DEF t
  <2>4. x \in Existing /\ x.copies = r[i].copies
    BY <2>2, <2>3 DEF Existing
  <2>5. s = [r EXCEPT ![i] = x]
    BY <1>2 DEF GitHubEffect, t
  <2> HIDE DEF x
  <2> QED BY <1>2, <1>c, <2>4, <2>5
<1>3. CASE w = Act("add", a.item, <<>>) /\ a.kind = "project.add_item"
  <2> DEFINE x == [r[i] EXCEPT !.member = TRUE]
  <2>1. ~Missing(r, i) /\ s = [r EXCEPT ![i] = x]
    BY <1>3 DEF GitHubAccepts, GitHubEffect, Act
  <2>2. x \in Existing /\ x.copies = r[i].copies
    BY <1>a, <2>1 DEF Existing
  <2> HIDE DEF x
  <2> QED BY <1>3, <1>c, <2>1, <2>2
<1>4. CASE w = Act("close", a.item, <<>>) /\ a.kind = "issue.close_parent"
  <2> DEFINE x == [r[i] EXCEPT !.open = FALSE]
  <2>1. ~Missing(r, i) /\ s = [r EXCEPT ![i] = x]
    BY <1>4 DEF GitHubAccepts, GitHubEffect, Act
  <2>2. x \in Existing /\ x.copies = r[i].copies
    BY <1>a, <2>1 DEF Existing
  <2> HIDE DEF x
  <2> QED BY <1>4, <1>c, <2>1, <2>2
<1>5. CASE w = a /\ a.kind = "issue.remove_parent"
  <2> DEFINE x == [r[i] EXCEPT !.parent = NoItem]
  <2>1. ~Missing(r, i) /\ s = [r EXCEPT ![i] = x]
    BY <1>5 DEF GitHubAccepts, GitHubEffect
  <2>2. x \in Existing /\ x.copies = r[i].copies
    BY <1>a, <2>1 DEF Existing
  <2> HIDE DEF x
  <2> QED BY <1>5, <1>c, <2>1, <2>2
<1>6. CASE w = a /\ a.kind = "issue.set_parent"
  <2> DEFINE x == [r[i] EXCEPT !.parent = a.arg.to]
  <2>1. ~Missing(r, i) /\ s = [r EXCEPT ![i] = x] /\ a.arg.to \in Item
    BY <1>6, ActionParts DEF GitHubAccepts, GitHubEffect
  <2>2. x \in Existing /\ x.copies = r[i].copies
    BY <1>a, <2>1 DEF Existing
  <2> HIDE DEF x
  <2> QED BY <1>6, <1>c, <2>1, <2>2
<1>7. CASE w = a /\ a.kind = "issue.remove_dependency"
  <2> DEFINE x == [r[i] EXCEPT !.deps = r[i].deps \ {a.arg.to}]
  <2>1. ~Missing(r, i) /\ s = [r EXCEPT ![i] = x]
    BY <1>7 DEF GitHubAccepts, GitHubEffect
  <2>2. x \in Existing /\ x.copies = r[i].copies
    BY <1>a, <2>1 DEF Existing
  <2> HIDE DEF x
  <2> QED BY <1>7, <1>c, <2>1, <2>2
<1>8. CASE w = a /\ a.kind = "issue.add_dependency"
  <2> DEFINE x == [r[i] EXCEPT !.deps = r[i].deps \cup {a.arg.to}]
  <2>1. ~Missing(r, i) /\ s = [r EXCEPT ![i] = x] /\ a.arg.to \in Item
    BY <1>8, ActionParts DEF GitHubAccepts, GitHubEffect
  <2>2. x \in Existing /\ x.copies = r[i].copies
    BY <1>a, <2>1 DEF Existing
  <2> HIDE DEF x
  <2> QED BY <1>8, <1>c, <2>1, <2>2
<1>9. ASSUME a.kind \in {"project.add_item", "project.set_fields", "project.transition",
                         "issue.close_parent"},
             NEW f \in DOMAIN a.arg.fields \cap {"Impact", "Priority", "Status"},
             w = FieldWrite(a.item, f, a.arg.fields[f])
      PROVE  /\ s \in [Item -> GitHubIssue]
             /\ \A j \in Item \ {i} : s[j] = r[j]
             /\ s[i].copies = r[i].copies
  <2> DEFINE v == a.arg.fields[f]
             x == CASE f = "Impact" -> [r[i] EXCEPT !.impact = v]
                    [] f = "Priority" -> [r[i] EXCEPT !.priority = v]
                    [] f = "Status" -> [r[i] EXCEPT !.status = v]
  <2>1. IF f = "Status" THEN v \in BoardStatus ELSE v \in Score
    BY <1>9, ActionParts, FieldValues
  <2> HIDE DEF v
  <2>2. w = FieldWrite(i, f, v)
    BY <1>9 DEF v
  <2>a. w = [kind |-> "field", item |-> i, arg |-> [name |-> f, value |-> v]]
    BY <2>2 DEF FieldWrite, Act
  <2>b. w.kind = "field" /\ w.item = i /\ w.arg.name = f /\ w.arg.value = v
    BY <2>a
  <2>c. ~Missing(r, i)
    BY <2>b DEF GitHubAccepts, Member
  <2>d. s = [r EXCEPT ![i] = x]
    <3>1. CASE f = "Impact"
      BY <2>b, <3>1 DEF GitHubEffect
    <3>2. CASE f = "Priority"
      BY <2>b, <3>2 DEF GitHubEffect
    <3>3. CASE f = "Status"
      BY <2>b, <3>3 DEF GitHubEffect
    <3> QED BY <3>1, <3>2, <3>3
  <2>3. ~Missing(r, i) /\ s = [r EXCEPT ![i] = x]
    BY <2>c, <2>d
  <2>4. x \in Existing /\ x.copies = r[i].copies
    BY <1>9, <1>a, <2>1, <2>3 DEF Existing
  <2> HIDE DEF x
  <2> QED BY <1>9, <1>c, <2>3, <2>4
<1>10. CASE /\ a.kind \in {"project.add_item", "project.set_fields", "project.transition",
                      "issue.close_parent"}
            /\ \E f \in DOMAIN a.arg.fields \cap {"Impact", "Priority", "Status"} :
                  w = FieldWrite(a.item, f, a.arg.fields[f])
  BY <1>9, <1>10
<1> QED BY <1>1, <1>2, <1>3, <1>4, <1>5, <1>6, <1>7, <1>8, <1>10 DEF Carries

(* What a mutation of a does to the Project membership and the links of the *)
(* issue it is about; an issue is only ever made by a creation.             *)
Relinked(a, w, x, y) ==
    IF x.copies = 0 THEN a.kind = "issue.create" /\ y.deps = {}
    ELSE /\ x.member \/ w.kind = "add" => y.member
         /\ a.kind \notin {"issue.set_parent", "issue.remove_parent"} => y.parent = x.parent
         /\ y.deps = IF a.kind = "issue.remove_dependency" THEN x.deps \ {a.arg.to}
                     ELSE IF a.kind = "issue.add_dependency" THEN x.deps \cup {a.arg.to}
                     ELSE x.deps

(* Only the action for a link touches that link.                            *)
LEMMA EffectRelinks ==
    ASSUME NEW a \in SyncAction, NEW w, Carries(a, w),
           NEW r \in [Item -> GitHubIssue], GitHubAccepts(w, r),
           NEW s, s = GitHubEffect(w, r), NEW i, i = a.item
    PROVE  Relinked(a, w, r[i], s[i])
<1>0. i \in Item /\ r[i] \in GitHubIssue /\ GitHubIssue = {NoIssue} \cup Existing
  BY ActionParts DEF GitHubIssue, Existing
<1>a. ~Missing(r, i) => r[i] \in Existing /\ r[i].copies # 0
  BY <1>0 DEF Missing, NoIssue
<1>b. ASSUME NEW x, s = [r EXCEPT ![i] = x] PROVE s[i] = x
  BY ONLY <1>0, <1>b, r \in [Item -> GitHubIssue]
<1>1. CASE w = a /\ a.kind = "issue.create"
  <2>1. s = [r EXCEPT ![i] = IF Missing(r, i) THEN NewIssue(a.arg.text)
                             ELSE [r[i] EXCEPT !.copies = 2]]
    BY <1>1 DEF GitHubEffect
  <2>2. CASE Missing(r, i)
    <3>1. s[i] = NewIssue(a.arg.text) /\ r[i].copies = 0
      BY <1>b, <2>1, <2>2 DEF Missing
    <3> QED BY <1>1, <3>1 DEF Relinked, NewIssue
  <2>3. CASE ~Missing(r, i)
    <3>1. s[i] = [r[i] EXCEPT !.copies = 2]
      BY <1>b, <2>1, <2>3
    <3> QED BY <1>1, <1>a, <2>3, <3>1 DEF Relinked, Existing
  <2> QED BY <2>2, <2>3
<1>2. CASE w = a /\ a.kind = "issue.update"
  <2> DEFINE t == [f \in DOMAIN r[i].text |->
                      IF f \in DOMAIN a.arg.text THEN a.arg.text[f] ELSE r[i].text[f]]
  <2>1. ~Missing(r, i)
    BY <1>2 DEF GitHubAccepts
  <2>2. s = [r EXCEPT ![i] = [r[i] EXCEPT !.text = t]]
    BY <1>2 DEF GitHubEffect
  <2> HIDE DEF t
  <2>3. s[i] = [r[i] EXCEPT !.text = t]
    BY <1>b, <2>2
  <2> QED BY <1>2, <1>a, <2>1, <2>3 DEF Relinked, Existing
<1>3. CASE w = Act("add", a.item, <<>>) /\ a.kind = "project.add_item"
  <2>1. ~Missing(r, i) /\ s = [r EXCEPT ![i] = [r[i] EXCEPT !.member = TRUE]]
    BY <1>3 DEF GitHubAccepts, GitHubEffect, Act
  <2>2. s[i] = [r[i] EXCEPT !.member = TRUE]
    BY <1>b, <2>1
  <2> QED BY <1>3, <1>a, <2>1, <2>2 DEF Relinked, Existing
<1>4. CASE w = Act("close", a.item, <<>>) /\ a.kind = "issue.close_parent"
  <2>1. ~Missing(r, i) /\ s = [r EXCEPT ![i] = [r[i] EXCEPT !.open = FALSE]]
    BY <1>4 DEF GitHubAccepts, GitHubEffect, Act
  <2>2. s[i] = [r[i] EXCEPT !.open = FALSE]
    BY <1>b, <2>1
  <2> QED BY <1>4, <1>a, <2>1, <2>2 DEF Relinked, Existing, Act
<1>5. CASE w = a /\ a.kind = "issue.remove_parent"
  <2>1. ~Missing(r, i) /\ s = [r EXCEPT ![i] = [r[i] EXCEPT !.parent = NoItem]]
    BY <1>5 DEF GitHubAccepts, GitHubEffect
  <2>2. s[i] = [r[i] EXCEPT !.parent = NoItem]
    BY <1>b, <2>1
  <2> QED BY <1>5, <1>a, <2>1, <2>2 DEF Relinked, Existing
<1>6. CASE w = a /\ a.kind = "issue.set_parent"
  <2>1. ~Missing(r, i) /\ s = [r EXCEPT ![i] = [r[i] EXCEPT !.parent = a.arg.to]]
    BY <1>6 DEF GitHubAccepts, GitHubEffect
  <2>2. s[i] = [r[i] EXCEPT !.parent = a.arg.to]
    BY <1>b, <2>1
  <2> QED BY <1>6, <1>a, <2>1, <2>2 DEF Relinked, Existing
<1>7. CASE w = a /\ a.kind = "issue.remove_dependency"
  <2>1. ~Missing(r, i) /\ s = [r EXCEPT ![i] = [r[i] EXCEPT !.deps = r[i].deps \ {a.arg.to}]]
    BY <1>7 DEF GitHubAccepts, GitHubEffect
  <2>2. s[i] = [r[i] EXCEPT !.deps = r[i].deps \ {a.arg.to}]
    BY <1>b, <2>1
  <2> QED BY <1>7, <1>a, <2>1, <2>2 DEF Relinked, Existing
<1>8. CASE w = a /\ a.kind = "issue.add_dependency"
  <2>1. ~Missing(r, i) /\ s = [r EXCEPT ![i] = [r[i] EXCEPT !.deps = r[i].deps \cup {a.arg.to}]]
    BY <1>8 DEF GitHubAccepts, GitHubEffect
  <2>2. s[i] = [r[i] EXCEPT !.deps = r[i].deps \cup {a.arg.to}]
    BY <1>b, <2>1
  <2> QED BY <1>8, <1>a, <2>1, <2>2 DEF Relinked, Existing
<1>9. ASSUME a.kind \in {"project.add_item", "project.set_fields", "project.transition",
                         "issue.close_parent"},
             NEW f \in DOMAIN a.arg.fields \cap {"Impact", "Priority", "Status"},
             w = FieldWrite(a.item, f, a.arg.fields[f])
      PROVE  Relinked(a, w, r[i], s[i])
  <2> DEFINE v == a.arg.fields[f]
             x == CASE f = "Impact" -> [r[i] EXCEPT !.impact = v]
                    [] f = "Priority" -> [r[i] EXCEPT !.priority = v]
                    [] f = "Status" -> [r[i] EXCEPT !.status = v]
  <2> HIDE DEF v
  <2>1. w.kind = "field" /\ w.item = i /\ w.arg.name = f /\ w.arg.value = v
    BY <1>9 DEF v, FieldWrite, Act
  <2>2. ~Missing(r, i)
    BY <2>1 DEF GitHubAccepts, Member
  <2>3. s = [r EXCEPT ![i] = x]
    <3>1. CASE f = "Impact"
      BY <2>1, <3>1 DEF GitHubEffect
    <3>2. CASE f = "Priority"
      BY <2>1, <3>2 DEF GitHubEffect
    <3>3. CASE f = "Status"
      BY <2>1, <3>3 DEF GitHubEffect
    <3> QED BY <3>1, <3>2, <3>3
  <2>4. x.member = r[i].member /\ x.parent = r[i].parent /\ x.deps = r[i].deps
    BY <1>9, <1>a, <2>2 DEF Existing
  <2>5. s[i] = x
    <3> HIDE DEF x
    <3> QED BY <1>b, <2>3
  <2> HIDE DEF x
  <2> QED BY <1>9, <1>a, <2>1, <2>2, <2>4, <2>5 DEF Relinked
<1>10. CASE /\ a.kind \in {"project.add_item", "project.set_fields", "project.transition",
                      "issue.close_parent"}
            /\ \E f \in DOMAIN a.arg.fields \cap {"Impact", "Priority", "Status"} :
                  w = FieldWrite(a.item, f, a.arg.fields[f])
  BY <1>9, <1>10
<1> QED BY <1>1, <1>2, <1>3, <1>4, <1>5, <1>6, <1>7, <1>8, <1>10 DEF Carries

(* The actions yet to begin, of a process that stands at mutation d + 1 of   *)
(* action n.                                                                *)
Left(acts, n, d) == {k \in n..Len(acts) : k = n => d = 0}

(* What an action needs of GitHub until it is over, and until it begins.    *)
Lasting(g, a) ==
    /\ a.kind \in {"project.set_fields", "project.transition"} => Member(g, a.item)
    /\ a.kind = "issue.close_parent" =>
          ~Missing(g, a.item) /\ (a.arg.fields # <<>> => Member(g, a.item))
Removable(g, a) ==
    /\ a.kind = "issue.remove_parent" => ~Missing(g, a.item) /\ g[a.item].parent = a.arg.to
    /\ a.kind = "issue.remove_dependency" => ~Missing(g, a.item) /\ a.arg.to \in g[a.item].deps

(* GitHub is ready for the rest of a plan: what is lacking will be created, *)
(* what is unwanted dropped, and the rest finds what it needs.              *)
Ready(m, g, acts, n, d) ==
    /\ \A i \in Lacking(m, g) : \E k \in Left(acts, n, d) : acts[k] = CreateOf(m, i)
    /\ \A i \in DOMAIN m : \A e \in Unwanted(m, g, i) :
          \E k \in Left(acts, n, d) : acts[k] = DropOf(i, e)
    /\ \A k \in n..Len(acts) : Lasting(g, acts[k])
    /\ \A k \in Left(acts, n, d) : Removable(g, acts[k])
    /\ n \in 1..Len(acts) /\ d # 0 /\ acts[n].kind = "project.add_item" => Member(g, acts[n].item)

(* The GitHub a plan was made from is.                                      *)
LEMMA ReadyAtStart ==
    ASSUME NEW m, NEW g, NEW acts, WellPlanned(m, g, acts)
    PROVE  Ready(m, g, acts, 1, 0)
<1>1. Left(acts, 1, 0) = 1..Len(acts)
  BY DEF Left
<1>2. \A k \in 1..Len(acts) : Lasting(g, acts[k]) /\ Removable(g, acts[k])
  BY DEF WellPlanned, Suits, Lasting, Removable
<1> QED BY <1>1, <1>2 DEF WellPlanned, Ready

(* Creations and the removal of links are one mutation each.                *)
LEMMA OneMutation ==
    ASSUME NEW a, a.kind \in {"issue.create", "issue.remove_parent", "issue.remove_dependency"}
    PROVE  Len(SyncWrites(a)) = 1
<1>1. SyncWrites(a) = <<a>>
  BY DEF SyncWrites
<1> QED BY <1>1

(* An item is added before its fields are set.                              *)
LEMMA AddsFirst ==
    ASSUME NEW a, a.kind = "project.add_item"
    PROVE  SyncWrites(a)[1] = Act("add", a.item, <<>>)
<1> DEFINE fw == FieldWrites(a.item, a.arg.fields)
           T == {FieldWrite(a.item, f, a.arg.fields[f]) :
                    f \in DOMAIN a.arg.fields \cap {"Impact", "Priority", "Status"}}
<1>1. fw \in Seq(T)
  BY FieldWritesAre
<1>2. SyncWrites(a) = <<Act("add", a.item, <<>>)>> \o fw
  BY DEF SyncWrites
<1> HIDE DEF fw, T
<1> QED BY <1>1, <1>2

(* When an action is over GitHub is ready for those after it.               *)
LEMMA ReadyAfterAction ==
    ASSUME NEW m, NEW g, NEW acts, Len(acts) \in Nat, NEW n \in 1..Len(acts), NEW d,
           d = Len(SyncWrites(acts[n])), Ready(m, g, acts, n, d)
    PROVE  Ready(m, g, acts, n + 1, 0)
<1>1. ASSUME NEW k \in n..Len(acts), k # n PROVE k \in Left(acts, n + 1, 0)
  BY <1>1 DEF Left
<1>2. ASSUME NEW k \in Left(acts, n, d),
             acts[k].kind \in {"issue.create", "issue.remove_parent", "issue.remove_dependency"}
      PROVE  k \in Left(acts, n + 1, 0)
  <2>1. k \in n..Len(acts) /\ (k = n => d = 0)
    BY DEF Left
  <2>2. k = n => d = 1
    BY <1>2, OneMutation
  <2>3. 0 # 1
    OBVIOUS
  <2>4. k # n
    BY ONLY <2>1, <2>2, <2>3
  <2> QED BY <1>1, <2>1, <2>4
<1>3. ASSUME NEW i \in Lacking(m, g)
      PROVE  \E k \in Left(acts, n + 1, 0) : acts[k] = CreateOf(m, i)
  <2>1. PICK k \in Left(acts, n, d) : acts[k] = CreateOf(m, i)
    BY DEF Ready
  <2>2. acts[k].kind = "issue.create"
    BY <2>1 DEF CreateOf, Act
  <2> QED BY <1>2, <2>1, <2>2
<1>4. ASSUME NEW i \in DOMAIN m, NEW e \in Unwanted(m, g, i)
      PROVE  \E k \in Left(acts, n + 1, 0) : acts[k] = DropOf(i, e)
  <2>1. PICK k \in Left(acts, n, d) : acts[k] = DropOf(i, e)
    BY DEF Ready
  <2>2. acts[k].kind = "issue.remove_dependency"
    BY <2>1 DEF DropOf, Act
  <2> QED BY <1>2, <2>1, <2>2
<1>5. \A k \in Left(acts, n + 1, 0) : k \in Left(acts, n, d) /\ k \in n..Len(acts)
  BY DEF Left
<1>6. \A k \in (n + 1)..Len(acts) : k \in n..Len(acts)
  OBVIOUS
<1> QED BY <1>3, <1>4, <1>5, <1>6 DEF Ready

(* When a mutation of an action lands GitHub is ready for the rest.         *)
LEMMA ReadyAfterMutation ==
    ASSUME NEW m, DOMAIN m \subseteq Item, NEW old, NEW acts, acts \in Seq(SyncAction),
           WellPlanned(m, old, acts),
           NEW n \in 1..Len(acts), NEW a, a = acts[n],
           NEW d \in Nat, d + 1 \in 1..Len(SyncWrites(a)),
           NEW w, w = SyncWrites(a)[d + 1],
           NEW g \in [Item -> GitHubIssue], Ready(m, g, acts, n, d), GitHubAccepts(w, g),
           NEW s, s = GitHubEffect(w, g)
    PROVE  Ready(m, s, acts, n, d + 1)
<1> DEFINE l == a.item
<1>1. a \in SyncAction /\ Carries(a, w) /\ Len(acts) \in Nat
  BY WritesAre
<1>2. l \in Item /\ l \in DOMAIN m /\ Suits(m, old, a)
  BY <1>1, ActionParts DEF WellPlanned, Suits
<1>3. /\ \A j \in Item \ {l} : s[j] = g[j]
      /\ s[l].copies = IF a.kind # "issue.create" THEN g[l].copies
                       ELSE IF Missing(g, l) THEN 1 ELSE 2
  BY <1>1, EffectIsLocal
<1>4. Relinked(a, w, g[l], s[l])
  BY <1>1, EffectRelinks
<1> HIDE DEF l
<1>5. ASSUME NEW k \in Left(acts, n, d), acts[k] # a PROVE k \in Left(acts, n, d + 1)
  BY <1>5 DEF Left
<1>6. ASSUME NEW k \in Left(acts, n, d + 1)
      PROVE  k \in Left(acts, n, d) /\ k \in 1..Len(acts) /\ acts[k] # a
  <2>1. k \in n..Len(acts) /\ k # n
    BY DEF Left
  <2>2. k \in 1..Len(acts)
    BY <1>1, <2>1
  <2> QED BY <2>1, <2>2 DEF Left, WellPlanned
<1>7. ASSUME NEW j \in Item, ~Missing(g, j)
      PROVE  /\ ~Missing(s, j) /\ (g[j].member => s[j].member)
             /\ s[j].parent = g[j].parent \/
                   (j = l /\ a.kind \in {"issue.set_parent", "issue.remove_parent"})
             /\ \A e \in g[j].deps : e \in s[j].deps \/
                   (j = l /\ a.kind = "issue.remove_dependency" /\ e = a.arg.to)
  <2>1. CASE j # l
    BY <1>3, <1>7, <2>1 DEF Missing
  <2>2. CASE j = l
    <3>1. ~Missing(s, j)
      BY <1>3, <1>7, <2>2 DEF Missing
    <3> QED BY <1>4, <1>7, <2>2, <3>1 DEF Relinked, Missing
  <2> QED BY <2>1, <2>2
<1>8. ASSUME NEW i \in Lacking(m, s)
      PROVE  \E k \in Left(acts, n, d + 1) : acts[k] = CreateOf(m, i)
  <2>1. i \in Item /\ Missing(s, i)
    BY DEF Lacking
  <2>2. Missing(g, i)
    BY <1>7, <2>1
  <2>3. PICK k \in Left(acts, n, d) : acts[k] = CreateOf(m, i)
    BY <2>2 DEF Ready, Lacking
  <2>4. acts[k] # a
    <3>1. CreateOf(m, i).kind = "issue.create" /\ CreateOf(m, i).item = i
      BY DEF CreateOf, Act
    <3>2. ~(a.kind = "issue.create" /\ l = i)
      BY <1>3, <2>1 DEF Missing
    <3> QED BY <2>3, <3>1, <3>2 DEF l
  <2> QED BY <1>5, <2>3, <2>4
<1>9. ASSUME NEW i \in DOMAIN m, NEW e \in Unwanted(m, s, i)
      PROVE  \E k \in Left(acts, n, d + 1) : acts[k] = DropOf(i, e)
  <2>1. ~Missing(s, i) /\ e \in s[i].deps /\ e \notin m[i].deps /\ e \in DOMAIN m /\ i \in Item
    BY DEF Unwanted
  <2>2. /\ ~Missing(g, i) /\ e \in g[i].deps
        /\ ~(i = l /\ a.kind = "issue.remove_dependency" /\ e = a.arg.to)
    <3>1. CASE i # l
      BY <1>3, <2>1, <3>1 DEF Missing
    <3>2. CASE i = l
      <4>1. ~Missing(g, i)
        BY <1>4, <2>1, <3>2 DEF Relinked, Missing
      <4>2. a.kind = "issue.add_dependency" => a.arg.to \in m[l].deps
        BY <1>2 DEF Suits, l
      <4> QED BY <1>4, <2>1, <3>2, <4>1, <4>2 DEF Relinked, Missing
    <3> QED BY <3>1, <3>2
  <2>3. PICK k \in Left(acts, n, d) : acts[k] = DropOf(i, e)
    BY <2>1, <2>2 DEF Ready, Unwanted
  <2>4. acts[k] # a
    <3>1. /\ DropOf(i, e).kind = "issue.remove_dependency" /\ DropOf(i, e).item = i
          /\ DropOf(i, e).arg.to = e
      BY DEF DropOf, Act
    <3> QED BY <2>2, <2>3, <3>1 DEF l
  <2> QED BY <1>5, <2>3, <2>4
<1>10. ASSUME NEW k \in n..Len(acts) PROVE Lasting(s, acts[k])
  <2>1. Lasting(g, acts[k])
    BY DEF Ready
  <2>2. acts[k].item \in Item
    <3>1. k \in 1..Len(acts)
      BY <1>1
    <3> QED BY <3>1 DEF WellPlanned, Suits
  <2> QED BY <1>7, <2>1, <2>2 DEF Lasting, Member
<1>11. ASSUME NEW k \in Left(acts, n, d + 1) PROVE Removable(s, acts[k])
  <2> DEFINE b == acts[k]
  <2>1. k \in Left(acts, n, d) /\ k \in 1..Len(acts) /\ b # a
    BY <1>6
  <2>2. Removable(g, b) /\ Suits(m, old, b) /\ b.item \in Item /\ b \in SyncAction
    BY <2>1 DEF Ready, WellPlanned, Suits
  <2> HIDE DEF b
  <2>3. ASSUME b.kind = "issue.remove_parent"
        PROVE  ~Missing(s, b.item) /\ s[b.item].parent = b.arg.to
    <3>1. ~Missing(g, b.item) /\ g[b.item].parent = b.arg.to /\ m[b.item].parent = NoItem
      BY <2>2, <2>3 DEF Removable, Suits
    <3>2. CASE b.item = l /\ a.kind = "issue.set_parent"
      BY <1>2, <3>1, <3>2 DEF Suits, l
    <3>3. CASE b.item = l /\ a.kind = "issue.remove_parent"
      <4>1. w = a
        BY <1>1, <3>3 DEF Carries
      <4>2. g[l].parent = a.arg.to
        BY <3>3, <4>1 DEF GitHubAccepts, l
      <4>3. a = b
        <5>1. a.arg.to = b.arg.to /\ a.item = b.item /\ a.kind = b.kind
          BY <2>3, <3>1, <3>3, <4>2 DEF l
        <5>2. \A x \in {a, b} : x = Act(x.kind, x.item, [to |-> x.arg.to])
          BY <1>1, <2>2, <2>3, <3>3 DEF SyncAction, Act
        <5> QED BY <5>1, <5>2
      <4> QED BY <2>1, <4>3
    <3>4. CASE ~(b.item = l /\ a.kind \in {"issue.set_parent", "issue.remove_parent"})
      BY <1>7, <2>2, <3>1, <3>4
    <3> QED BY <3>2, <3>3, <3>4
  <2>4. ASSUME b.kind = "issue.remove_dependency"
        PROVE  ~Missing(s, b.item) /\ b.arg.to \in s[b.item].deps
    <3>1. ~Missing(g, b.item) /\ b.arg.to \in g[b.item].deps
      BY <2>2, <2>4 DEF Removable
    <3>2. ~(b.item = l /\ a.kind = "issue.remove_dependency" /\ b.arg.to = a.arg.to)
      <4> SUFFICES ASSUME b.item = l, a.kind = "issue.remove_dependency", b.arg.to = a.arg.to
                   PROVE  FALSE
        OBVIOUS
      <4>1. \A x \in {a, b} : x = Act(x.kind, x.item, [to |-> x.arg.to])
        BY <1>1, <2>2, <2>4 DEF SyncAction, Act
      <4>2. a = b
        BY <2>4, <4>1 DEF l
      <4> QED BY <2>1, <4>2
    <3> QED BY <1>7, <2>2, <3>1, <3>2
  <2>5. Removable(s, b)
    BY <2>3, <2>4 DEF Removable
  <2> QED BY <2>5 DEF b
<1>12. ASSUME a.kind = "project.add_item" PROVE Member(s, l)
  <2>1. ~Missing(g, l)
    BY <1>4, <1>12 DEF Relinked, Missing
  <2>2. CASE d = 0
    <3>1. w = Act("add", a.item, <<>>)
      BY <1>12, <2>2, AddsFirst
    <3>2. s[l].member
      BY <1>4, <1>12, <2>1, <3>1 DEF Relinked, Missing, Act
    <3> QED BY <1>2, <1>7, <2>1, <3>2 DEF Member
  <2>3. CASE d # 0
    <3>1. Member(g, l)
      BY <1>12, <2>3 DEF Ready, l
    <3> QED BY <1>2, <1>7, <3>1 DEF Member
  <2> QED BY <2>2, <2>3
<1> QED BY <1>8, <1>9, <1>10, <1>11, <1>12 DEF Ready, l

(* The issues reached in so many hops over dependencies. *)
Walk(g, from, n) ==
    CHOOSE reach : reach =
        [k \in 0..n |-> IF k = 0 THEN {from}
                        ELSE reach[k-1] \cup UNION {g[i].deps : i \in {j \in reach[k-1] : ~Missing(g, j)}}]
Hop(g, S) == S \cup UNION {g[i].deps : i \in {j \in S : ~Missing(g, j)}}

(* Reaches is what the walk ends with. *)
LEMMA ReachesIsWalk ==
    ASSUME NEW g, NEW from, NEW to
    PROVE  Reaches(g, from, to) <=> to \in Walk(g, from, Cardinality(Item))[Cardinality(Item)]
  BY DEF Reaches, Walk

(* The walk's recursive definition has a solution, of any length.           *)
LEMMA WalkExists ==
    ASSUME NEW g, NEW from, NEW n \in Nat
    PROVE  Walk(g, from, n) = [k \in 0..n |-> IF k = 0 THEN {from}
                                              ELSE Hop(g, Walk(g, from, n)[k - 1])]
<1> DEFINE Is(h, j) == h = [k \in 0..j |-> IF k = 0 THEN {from} ELSE Hop(g, h[k - 1])]
           Bad == {j \in Nat : ~\E h : Is(h, j)}
<1>1. Bad = {}
  <2> SUFFICES ASSUME Bad # {} PROVE FALSE
    OBVIOUS
  <2>1. PICK j \in Bad : \A k \in Bad : j <= k
    BY LeastNumber
  <2>2. CASE j = 0
    <3> DEFINE h == [k \in 0..0 |-> {from}]
    <3>1. Is(h, 0)
      OBVIOUS
    <3> QED BY <2>1, <2>2, <3>1
  <2>3. CASE j # 0
    <3>1. j \in Nat /\ j - 1 \in Nat
      BY <2>3
    <3>a. j - 1 \notin Bad
      <4> HIDE DEF Bad
      <4> QED BY <2>1, <3>1
    <3>2. PICK f : Is(f, j - 1)
      BY <3>1, <3>a
    <3> DEFINE h == [k \in 0..j |-> IF k = j THEN Hop(g, f[j - 1]) ELSE f[k]]
    <3>3. \A k \in 0..(j - 1) : f[k] = IF k = 0 THEN {from} ELSE Hop(g, f[k - 1])
      BY <3>2
    <3>4. \A k \in 0..j : h[k] = IF k = 0 THEN {from} ELSE Hop(g, h[k - 1])
      <4> SUFFICES ASSUME NEW k \in 0..j
                   PROVE  h[k] = IF k = 0 THEN {from} ELSE Hop(g, h[k - 1])
        OBVIOUS
      <4>1. CASE k = j
        <5>1. j - 1 \in 0..j /\ j - 1 # j
          BY <3>1
        <5> QED BY <4>1, <2>3, <5>1
      <4>2. CASE k # j
        <5>1. k \in 0..(j - 1) /\ (k # 0 => k - 1 \in 0..j /\ k - 1 # j)
          BY <3>1, <4>2
        <5> QED BY <4>2, <3>3, <5>1
      <4> QED BY <4>1, <4>2
    <3>5. Is(h, j)
      <4> DEFINE e == [k \in 0..j |-> IF k = 0 THEN {from} ELSE Hop(g, h[k - 1])]
      <4>1. \A k \in 0..j : h[k] = e[k]
        BY <3>4
      <4> QED BY <4>1
    <3> QED BY <2>1, <3>5
  <2> QED BY <2>2, <2>3
<1>2. \E h : Is(h, n)
  BY <1>1
<1> QED BY <1>2 DEF Walk, Hop

(* A walk never leaves a set no dependency leads out of.                    *)
LEMMA StaysWithin ==
    ASSUME NEW g, NEW Good, NEW from \in Good, NEW to, to \notin Good,
           \A i \in Good : Missing(g, i) \/ g[i].deps \subseteq Good
    PROVE  ~Reaches(g, from, to)
<1> DEFINE n == Cardinality(Item)
           walk == Walk(g, from, n)
           Out == {k \in 0..n : ~(walk[k] \subseteq Good)}
<1>1. n \in Nat
  BY ItemType, FS_CardinalityType
<1>2. \A k \in 0..n : walk[k] = IF k = 0 THEN {from} ELSE Hop(g, walk[k - 1])
  <2> HIDE DEF n
  <2>1. walk = [k \in 0..n |-> IF k = 0 THEN {from} ELSE Hop(g, walk[k - 1])]
    BY <1>1, WalkExists
  <2> HIDE DEF walk
  <2> QED BY <2>1
<1> HIDE DEF walk, n
<1>3. ASSUME NEW S \in SUBSET Good PROVE Hop(g, S) \subseteq Good
  BY DEF Hop
<1>4. Out = {}
  <2> SUFFICES ASSUME Out # {} PROVE FALSE
    OBVIOUS
  <2>1. Out \in SUBSET Nat
    BY <1>1
  <2>2. PICK k \in Out : \A j \in Out : k <= j
    <3> HIDE DEF Out
    <3> QED BY <2>1, LeastNumber
  <2>3. k \in 0..n /\ ~(walk[k] \subseteq Good)
    BY <2>2
  <2>4. k # 0
    BY <1>2, <2>3
  <2>5. k - 1 \in 0..n /\ ~(k <= k - 1)
    BY <1>1, <2>3, <2>4
  <2>6. walk[k - 1] \subseteq Good
    BY <2>2, <2>5
  <2> QED BY <1>2, <1>3, <2>3, <2>4, <2>6
<1>5. walk[n] \subseteq Good
  BY <1>1, <1>4
<1> QED BY <1>5, ReachesIsWalk DEF walk, n

(* With nothing unwanted left on GitHub, a dependency of the manifest       *)
(* closes no cycle there: what it leads to lies in a set of items that is   *)
(* closed under the manifest's dependencies and leaves the waiting item out.*)
LEMMA NoCycleCloses ==
    ASSUME NEW m, ValidManifest(m), NEW g \in [Item -> GitHubIssue],
           \A i \in DOMAIN m : Unwanted(m, g, i) = {},
           \A i \in Item \ DOMAIN m : Missing(g, i) \/ g[i].deps = {},
           NEW x \in DOMAIN m, NEW e \in m[x].deps
    PROVE  ~Reaches(g, e, x)
<1> DEFINE Shut(Z) == x \notin Z /\ \A i \in Z : m[i].deps \subseteq Z
           W == UNION {Z \in SUBSET DOMAIN m : Shut(Z)}
           S == (DOMAIN m) \ W
           Good == W \cup (Item \ DOMAIN m)
<1>1. Shut(W) /\ W \subseteq DOMAIN m
  OBVIOUS
<1>2. \A Z \in SUBSET DOMAIN m : Shut(Z) => Z \subseteq W
  OBVIOUS
<1> HIDE DEF W
<1>3. PICK i \in S : m[i].deps \cap S = {}
  BY <1>1 DEF ValidManifest
<1>4. m[i].deps \subseteq W
  BY <1>3 DEF ValidManifest
<1>5. i = x
  <2> SUFFICES ASSUME i # x PROVE FALSE
    OBVIOUS
  <2>1. Shut(W \cup {i})
    BY <1>1, <1>4
  <2>2. i \in W
    <3> DEFINE V == W \cup {i}
    <3>1. V \in SUBSET DOMAIN m /\ i \in V
      BY <1>1, <1>3
    <3>2. Shut(V)
      BY <2>1
    <3> HIDE DEF V, Shut
    <3> QED BY <1>2, <3>1, <3>2
  <2> QED BY <1>3, <2>2
<1>6. e \in Good /\ x \notin Good
  BY <1>1, <1>4, <1>5
<1>7. ASSUME NEW j \in Good PROVE Missing(g, j) \/ g[j].deps \subseteq Good
  <2> SUFFICES ASSUME ~Missing(g, j) PROVE g[j].deps \subseteq Good
    OBVIOUS
  <2>1. j \in Item
    BY <1>1 DEF ValidManifest
  <2>2. g[j].deps \subseteq Item
    BY <2>1 DEF GitHubIssue, Missing, NoIssue
  <2>3. CASE j \in DOMAIN m
    <3>1. j \in W
      BY <2>3
    <3>2. m[j].deps \subseteq W
      BY <1>1, <3>1
    <3>3. (g[j].deps \ m[j].deps) \cap DOMAIN m = {}
      BY <2>3 DEF Unwanted
    <3> QED BY <2>2, <3>2, <3>3
  <2>4. CASE j \notin DOMAIN m
    BY <2>1, <2>4
  <2> QED BY <2>3, <2>4
<1> HIDE DEF Good
<1> QED BY <1>6, <1>7, StaysWithin

(* GitHub accepts the next mutation of a plan it is ready for.              *)
LEMMA ReadyIsAccepted ==
    ASSUME NEW m, ValidManifest(m), NEW old, NEW acts, acts \in Seq(SyncAction),
           WellPlanned(m, old, acts),
           NEW n \in 1..Len(acts), NEW a, a = acts[n],
           NEW d \in Nat, d + 1 \in 1..Len(SyncWrites(a)),
           NEW w, w = SyncWrites(a)[d + 1],
           NEW g \in [Item -> GitHubIssue], Ready(m, g, acts, n, d),
           \A i \in Item \ DOMAIN m : Missing(g, i) \/ g[i].deps = {}
    PROVE  GitHubAccepts(w, g)
<1> DEFINE l == a.item
<1>1. a \in SyncAction /\ Carries(a, w) /\ Len(acts) \in Nat
  BY WritesAre
<1>2. l \in Item /\ l \in DOMAIN m /\ Suits(m, old, a) /\ Lasting(g, a)
  <2>1. n \in n..Len(acts)
    BY <1>1
  <2> QED BY <1>1, <2>1, ActionParts DEF WellPlanned, Suits, Ready
<1>3. ASSUME a.kind # "issue.create", NEW i \in DOMAIN m PROVE ~Missing(g, i)
  <2> SUFFICES ASSUME Missing(g, i) PROVE FALSE
    OBVIOUS
  <2>1. PICK k \in Left(acts, n, d) : acts[k] = CreateOf(m, i)
    BY DEF Ready, Lacking
  <2>2. k \in 1..Len(acts) /\ n <= k
    BY <1>1, <2>1 DEF Left
  <2>3. Tier(acts[k]) = 1
    BY <2>1 DEF CreateOf, Act, Tier
  <2>4. Tier(a) <= 1 /\ Tier(a) \in 1..7
    BY <2>2, <2>3 DEF WellPlanned
  <2>5. Tier(a) = 1
    <3> HIDE DEF l
    <3> QED BY <2>4
  <2> QED BY <1>1, <1>3, <2>5 DEF Tier, SyncAction
<1>4. a.kind \in {"issue.remove_parent", "issue.remove_dependency"} => Removable(g, a)
  <2> SUFFICES ASSUME a.kind \in {"issue.remove_parent", "issue.remove_dependency"}
               PROVE  Removable(g, a)
    OBVIOUS
  <2>1. d + 1 \in 1..1
    BY OneMutation
  <2>2. d = 0
    BY <2>1
  <2>3. n \in Left(acts, n, d)
    BY <1>1, <2>2 DEF Left
  <2> QED BY <2>3 DEF Ready
<1>5. CASE w = a /\ a.kind = "issue.create"
  BY <1>5 DEF GitHubAccepts
<1>6. CASE w = a /\ a.kind = "issue.update"
  BY <1>2, <1>3, <1>6 DEF GitHubAccepts
<1>7. CASE w = a /\ a.kind = "issue.set_parent"
  <2>1. a.arg.to \in DOMAIN m
    BY <1>2, <1>7 DEF Suits, ValidManifest
  <2> QED BY <1>2, <1>3, <1>7, <2>1 DEF GitHubAccepts
<1>8. CASE w = a /\ a.kind \in {"issue.remove_parent", "issue.remove_dependency"}
  BY <1>4, <1>8 DEF GitHubAccepts, Removable
<1>9. CASE w = a /\ a.kind = "issue.add_dependency"
  <2>1. a.arg.to \in m[l].deps /\ a.arg.to \in DOMAIN m
    BY <1>2, <1>9 DEF Suits, ValidManifest
  <2>2. ASSUME NEW i \in DOMAIN m, NEW e \in Unwanted(m, g, i) PROVE FALSE
    <3>1. PICK k \in Left(acts, n, d) : acts[k] = DropOf(i, e)
      BY DEF Ready
    <3>2. k \in 1..Len(acts) /\ n <= k
      BY <1>1, <3>1 DEF Left
    <3>3. Tier(acts[k]) = 5
      BY <3>1 DEF DropOf, Act, Tier
    <3>4. Tier(a) = 6
      BY <1>9 DEF Tier
    <3>5. Tier(acts[n]) <= Tier(acts[k])
      BY <3>2 DEF WellPlanned
    <3>6. 6 <= 5
      BY <3>3, <3>4, <3>5
    <3> QED BY <3>6
  <2>3. \A i \in DOMAIN m : Unwanted(m, g, i) = {}
    BY <2>2
  <2>4. ~Reaches(g, a.arg.to, l)
    <3> DEFINE e == a.arg.to
    <3>1. e \in m[l].deps
      BY <2>1
    <3> HIDE DEF e, l
    <3>2. ~Reaches(g, e, l)
      BY <1>2, <2>3, <3>1, NoCycleCloses
    <3> QED BY <3>2 DEF e
  <2> QED BY <1>2, <1>3, <1>9, <2>1, <2>4 DEF GitHubAccepts
<1>10. CASE w = Act("add", a.item, <<>>) /\ a.kind = "project.add_item"
  BY <1>2, <1>3, <1>10 DEF GitHubAccepts, Act
<1>11. CASE w = Act("close", a.item, <<>>) /\ a.kind = "issue.close_parent"
  BY <1>2, <1>3, <1>11 DEF GitHubAccepts, Act
<1>12. ASSUME a.kind \in {"project.add_item", "project.set_fields", "project.transition",
                          "issue.close_parent"},
              NEW f \in DOMAIN a.arg.fields \cap {"Impact", "Priority", "Status"},
              w = FieldWrite(a.item, f, a.arg.fields[f])
       PROVE  GitHubAccepts(w, g)
  <2>1. w.kind = "field" /\ w.item = l
    BY <1>12 DEF FieldWrite, Act
  <2>2. Member(g, l)
    <3>1. CASE a.kind \in {"project.set_fields", "project.transition"}
      BY <1>2, <3>1 DEF Lasting
    <3>2. CASE a.kind = "issue.close_parent"
      <4>1. a.arg.fields # <<>>
        BY <1>12
      <4> QED BY <1>2, <3>2, <4>1 DEF Lasting
    <3>3. CASE a.kind = "project.add_item"
      <4>1. d # 0
        <5> SUFFICES ASSUME d = 0 PROVE FALSE
          OBVIOUS
        <5>1. w = Act("add", a.item, <<>>)
          BY <3>3, AddsFirst
        <5> QED BY <2>1, <5>1 DEF Act
      <4> QED BY <3>3, <4>1 DEF Ready
    <3> QED BY <1>12, <3>1, <3>2, <3>3
  <2> QED BY <2>1, <2>2 DEF GitHubAccepts
<1>13. CASE /\ a.kind \in {"project.add_item", "project.set_fields", "project.transition",
                          "issue.close_parent"}
            /\ \E f \in DOMAIN a.arg.fields \cap {"Impact", "Priority", "Status"} :
                  w = FieldWrite(a.item, f, a.arg.fields[f])
  BY <1>12, <1>13
<1> QED BY <1>1, <1>5, <1>6, <1>7, <1>8, <1>9, <1>10, <1>11, <1>13 DEF Carries

(* The four edits a person may make. *)
Present(r) == {i \in Item : ~Missing(r, i)}
Retitles(r) == {[r EXCEPT ![i].text.title = t] : i \in Present(r), t \in Title}
Moves(r) == {[r EXCEPT ![i].status = s] : i \in {j \in Present(r) : r[j].member}, s \in BoardStatus}
Toggles(r) == {[r EXCEPT ![i].open = ~@] : i \in Present(r)}
Withdrawals(r) ==
    {[r EXCEPT ![i] = [@ EXCEPT !.member = FALSE, !.status = Unset,
                                !.impact = 0, !.priority = 0]] : i \in Present(r)}

(* PersonEdit is those four. *)
LEMMA EditsAre ==
    ASSUME NEW r
    PROVE  PersonEdit(r) = Retitles(r) \cup Moves(r) \cup Toggles(r) \cup Withdrawals(r)
BY DEF PersonEdit, Present, Retitles, Moves, Toggles, Withdrawals

(* A person's edit leaves well-formed issues. *)
LEMMA EditTyped ==
    ASSUME NEW r \in [Item -> GitHubIssue], NEW e \in PersonEdit(r)
    PROVE  e \in [Item -> GitHubIssue]
<1>0. \A i \in Present(r) : r[i] \in Existing
  BY DEF Present, GitHubIssue, Existing, Missing, NoIssue
<1>1. Existing \subseteq GitHubIssue
  BY DEF GitHubIssue, Existing
<1>2. ASSUME NEW i \in Present(r), NEW t \in Title, e = [r EXCEPT ![i].text.title = t]
      PROVE  e \in [Item -> GitHubIssue]
  <2>0. i \in Item
    BY DEF Present
  <2>1. [r[i].text EXCEPT !.title = t] \in Issue
    BY <1>0 DEF Existing, Issue
  <2>2. [r[i] EXCEPT !.text = [r[i].text EXCEPT !.title = t]] \in Existing
    BY <1>0, <2>1 DEF Existing
  <2> QED BY <1>1, <1>2, <2>0, <2>2
<1>3. ASSUME NEW i \in Present(r), NEW t \in BoardStatus, e = [r EXCEPT ![i].status = t]
      PROVE  e \in [Item -> GitHubIssue]
  <2>0. i \in Item
    BY DEF Present
  <2>1. [r[i] EXCEPT !.status = t] \in Existing
    BY <1>0 DEF Existing
  <2> QED BY <1>1, <1>3, <2>0, <2>1
<1>4. ASSUME NEW i \in Present(r), e = [r EXCEPT ![i].open = ~r[i].open]
      PROVE  e \in [Item -> GitHubIssue]
  <2>0. i \in Item
    BY DEF Present
  <2>1. [r[i] EXCEPT !.open = ~r[i].open] \in Existing
    BY <1>0 DEF Existing
  <2> QED BY <1>1, <1>4, <2>0, <2>1
<1>5. ASSUME NEW i \in Present(r),
             e = [r EXCEPT ![i] = [r[i] EXCEPT !.member = FALSE, !.status = Unset,
                                               !.impact = 0, !.priority = 0]]
      PROVE  e \in [Item -> GitHubIssue]
  <2>0. i \in Item
    BY DEF Present
  <2>1. [r[i] EXCEPT !.member = FALSE, !.status = Unset, !.impact = 0, !.priority = 0] \in Existing
    BY <1>0, <1>5, ScoreType DEF Existing
  <2> QED BY <1>1, <1>5, <2>0, <2>1
<1>6. CASE e \in Retitles(r)
  BY <1>2, <1>6 DEF Retitles
<1>7. CASE e \in Moves(r)
  BY <1>3, <1>7 DEF Moves
<1>8. CASE e \in Toggles(r)
  BY <1>4, <1>8 DEF Toggles
<1>9. CASE e \in Withdrawals(r)
  BY <1>5, <1>9 DEF Withdrawals
<1> QED BY <1>6, <1>7, <1>8, <1>9, EditsAre

(* What the configurations give for the constants of the protocol.         *)
Composed ==
    /\ Action = SyncAction
    /\ \A a : PriorityUpdate(a) <=> IsPriorityUpdate(a)
    /\ \A m, r, o : Plannable(m, r, o) <=> SyncPlannable(m, r, o)
    /\ \A m, r, o : PlanOf(m, r, o) = SyncPlanOf(m, r, o)
    /\ \A a : Writes(a) = SyncWrites(a)
    /\ \A w, r : Accepts(w, r) <=> GitHubAccepts(w, r)
    /\ \A w, r : Effect(w, r) = GitHubEffect(w, r)
    /\ \A r : HumanEdit(r) = PersonEdit(r)

(* GitHub's part of SyncTypeOK. *)
OnGitHub == remote \in [Item -> GitHubIssue]

(* A landing is GitHub's answer to a mutation of the action the process is at. *)
LEMMA LandingIs ==
    ASSUME Composed, TypeOK, NEW r \in Run, Landing(r)
    PROVE  LET a == Actions(r)[run[r].next]
               w == NextWrite(r)
           IN  /\ run[r].pc = "executing"
               /\ run[r].next \in 1..Len(Actions(r)) /\ Len(Actions(r)) \in Nat
               /\ a \in SyncAction /\ Carries(a, w)
               /\ run[r].done + 1 \in 1..Len(SyncWrites(a)) /\ w = SyncWrites(a)[run[r].done + 1]
               /\ GitHubAccepts(w, remote) /\ remote' = GitHubEffect(w, remote)
<1>1. Pending(r) /\ Land(r)
  BY DEF Landing, Write, WriteUnanswered
<1>2. run[r].pc = "executing" /\ run[r].next <= Len(Actions(r))
      /\ run[r].done < Len(CurrentWrites(r))
  BY <1>1 DEF Pending, Remaining
<1>3. IsProcess(run[r])
  BY DEF TypeOK
<1>4. run[r].plan.actions \in Seq(SyncAction) /\ run[r].next \in Nat \ {0} /\ run[r].done \in Nat
  BY <1>2, <1>3 DEF IsProcess, IsPlan, Composed
<1> DEFINE a == Actions(r)[run[r].next]
           w == NextWrite(r)
<1>5. run[r].next \in 1..Len(Actions(r)) /\ a \in SyncAction /\ Len(Actions(r)) \in Nat
  BY <1>2, <1>4 DEF Actions
<1>6. CurrentWrites(r) = SyncWrites(a) /\ w = SyncWrites(a)[run[r].done + 1]
  BY DEF CurrentWrites, NextWrite, Composed
<1>7. run[r].done + 1 \in 1..Len(SyncWrites(a))
  <2>1. Len(SyncWrites(a)) \in Nat
    BY <1>5, WritesType DEF Composed
  <2> HIDE DEF a
  <2> QED BY <1>2, <1>4, <1>6, <2>1
<1>8. Carries(a, w)
  <2> HIDE DEF a, w
  <2> QED BY <1>5, <1>6, <1>7, WritesAre
<1>9. GitHubAccepts(w, remote) /\ remote' = GitHubEffect(w, remote)
  <2> HIDE DEF w
  <2> QED BY <1>1 DEF Land, Composed, w
<1> HIDE DEF a, w
<1> QED BY <1>2, <1>5, <1>6, <1>7, <1>8, <1>9 DEF a, w

(* GitHub only ever holds well-formed issues. *)
LEMMA GitHubAlways == ASSUME Composed PROVE Spec => []OnGitHub
<1>1. Init => OnGitHub
  BY InitRemoteType DEF Init, OnGitHub
<1>2. ASSUME TypeOK, OnGitHub, [Next]_vars
      PROVE  OnGitHub'
  <2>1. CASE Paperwork
    BY <1>2, <2>1, PaperworkFrame DEF OnGitHub
  <2>2. CASE EditRemote
    <3>1. remote' \in PersonEdit(remote)
      BY <2>2 DEF EditRemote, Composed
    <3> QED BY <1>2, <3>1, EditTyped DEF OnGitHub
  <2>3. ASSUME NEW r \in Run, Load(r) \/ Fetch(r) PROVE OnGitHub'
    BY <1>2, <2>3 DEF Load, Fetch, OnGitHub
  <2>4. ASSUME NEW r \in Run, Quiet(r) PROVE OnGitHub'
    BY <1>2, <2>4, ProcessFrame DEF OnGitHub
  <2>5. ASSUME NEW r \in Run, Landing(r) PROVE OnGitHub'
    <3> DEFINE a == Actions(r)[run[r].next]
               w == NextWrite(r)
    <3>1. a \in SyncAction /\ Carries(a, w) /\ GitHubAccepts(w, remote)
          /\ remote' = GitHubEffect(w, remote)
      BY <1>2, <2>5, LandingIs
    <3> HIDE DEF a, w
    <3>2. GitHubEffect(w, remote) \in [Item -> GitHubIssue]
      BY <1>2, <3>1, EffectIsLocal DEF OnGitHub
    <3> QED BY <3>1, <3>2 DEF OnGitHub
  <2> QED BY <1>2, <2>1, <2>2, <2>3, <2>4, <2>5, StepKinds
<1> QED BY <1>1, <1>2, TypeCorrect, PTL DEF Spec

(* The state of a sync apply is well formed: whatever mutations land, in     *)
(* whatever order, GitHub holds issues, links and fields of the right kinds. *)
THEOREM SyncTypeCorrect == ASSUME Composed PROVE Spec => []SyncTypeOK
<1>1. TypeOK /\ OnGitHub => SyncTypeOK
  BY DEF SyncTypeOK, OnGitHub
<1> QED BY <1>1, TypeCorrect, GitHubAlways, PTL

(* A Priority update is one write, of Priority. *)
LEMMA PriorityUpdateIsOneWrite ==
    ASSUME NEW a, IsPriorityUpdate(a), NEW k \in 1..Len(SyncWrites(a))
    PROVE  SyncWrites(a)[k] = Act("field", a.item, [name |-> "Priority", value |-> a.arg.fields["Priority"]])
<1> DEFINE w == Act("field", a.item, [name |-> "Priority", value |-> a.arg.fields["Priority"]])
<1>1. SyncWrites(a) = FieldWrites(a.item, a.arg.fields)
  BY DEF SyncWrites, IsPriorityUpdate
<1>2. FieldWrites(a.item, a.arg.fields) = <<>> \o <<w>> \o <<>>
  BY DEF FieldWrites, When, IsPriorityUpdate
<1> HIDE DEF w
<1>3. <<>> \o <<w>> \o <<>> = <<w>>
  OBVIOUS
<1>4. k = 1
  BY <1>1, <1>2, <1>3
<1> QED BY <1>1, <1>2, <1>3, <1>4 DEF w

(* Writing Priority changes nothing else.                                  *)
LEMMA PriorityWriteIsLocal ==
    ASSUME NEW r, r = [j \in Item |-> r[j]], NEW i, NEW v, NEW s,
           s = GitHubEffect(Act("field", i, [name |-> "Priority", value |-> v]), r),
           NEW j \in Item
    PROVE  s[j] = r[j] \/ s[j] = [r[j] EXCEPT !.priority = s[j].priority]
<1>1. s = [r EXCEPT ![i].priority = v]
  BY DEF GitHubEffect, Act
<1>2. CASE j # i
  BY <1>1, <1>2
<1>3. CASE j = i
  <2>1. s[j] = [r[j] EXCEPT !.priority = v]
    BY <1>1, <1>3
  <2>2. CASE "priority" \in DOMAIN r[j]
    <3>1. s[j].priority = v
      BY <2>1, <2>2
    <3> QED BY <2>1, <3>1
  <2>3. CASE "priority" \notin DOMAIN r[j]
    BY <2>1, <2>3
  <2> QED BY <2>2, <2>3
<1> QED BY <1>2, <1>3

(* Only a landing of its own adds to what a process landed. *)
LEMMA OnlyOwnLandings ==
    ASSUME TypeOK, [Next]_vars, NEW r \in Run, landed'[r] # landed[r]
    PROVE  Landing(r)
<1>1. CASE Paperwork \/ EditRemote
  BY <1>1, PaperworkFrame
<1>2. ASSUME NEW q \in Run, Load(q) \/ Fetch(q) PROVE FALSE
  BY <1>2 DEF Load, Fetch
<1>3. ASSUME NEW q \in Run, Quiet(q) PROVE FALSE
  BY <1>3, ProcessFrame
<1>4. ASSUME NEW q \in Run, Landing(q) PROVE q = r
  BY <1>4, ProcessFrame
<1> QED BY <1>1, <1>2, <1>3, <1>4, StepKinds

(* Without a confirmed digest, a plan that is not Priority updates alone was *)
(* never authorized, so what lands writes Priority and nothing else.         *)
THEOREM UnconfirmedIsPriorityOnly ==
    ASSUME Composed PROVE Spec => UnconfirmedTouchesPriorityOnly
<1> DEFINE Local(r) ==
        landed'[r] # landed[r] /\ run[r].confirm = None =>
          \A i \in Item : \/ remote'[i] = remote[i]
                          \/ remote'[i] = [remote[i] EXCEPT !.priority = remote'[i].priority]
<1>1. ASSUME TypeOK, AuthInv, OnGitHub, [Next]_vars, NEW r \in Run,
             landed'[r] # landed[r], run[r].confirm = None
      PROVE  \A i \in Item : \/ remote'[i] = remote[i]
                             \/ remote'[i] = [remote[i] EXCEPT !.priority = remote'[i].priority]
  <2>1. Landing(r)
    BY <1>1, OnlyOwnLandings
  <2> DEFINE a == Actions(r)[run[r].next]
             w == NextWrite(r)
             k == run[r].done + 1
  <2>2. /\ run[r].pc = "executing" /\ run[r].next \in 1..Len(Actions(r))
        /\ k \in 1..Len(SyncWrites(a)) /\ w = SyncWrites(a)[k]
        /\ remote' = GitHubEffect(w, remote)
    BY <1>1, <2>1, LandingIs
  <2>3. IsPriorityUpdate(a)
    <3>1. ConfirmationHolds(run[r])
      BY <1>1, <2>2 DEF AuthInv, Begun, Authorized
    <3>2. IsPriorityOnly(run[r].plan.actions)
      BY <1>1, <3>1 DEF ConfirmationHolds
    <3> QED BY <2>2, <3>2 DEF IsPriorityOnly, Actions, Composed
  <2> HIDE DEF a, k, w
  <2>4. w = Act("field", a.item, [name |-> "Priority", value |-> a.arg.fields["Priority"]])
    BY <2>2, <2>3, PriorityUpdateIsOneWrite
  <2>5. remote = [j \in Item |-> remote[j]]
    BY <1>1 DEF OnGitHub
  <2> QED BY <2>2, <2>4, <2>5, PriorityWriteIsLocal
<1>2. TypeOK /\ AuthInv /\ OnGitHub /\ [Next]_vars => \A r \in Run : Local(r)
  BY <1>1
<1>3. TypeOK /\ AuthInv /\ OnGitHub /\ [Next]_vars => [\A r \in Run : Local(r)]_vars
  BY <1>2
<1> QED BY <1>3, TypeCorrect, AuthAlways, GitHubAlways, PTL DEF Spec, UnconfirmedTouchesPriorityOnly

(* A process that has started works from a manifest the owner saved. *)
Loaded == \A r \in Run : run[r].pc # "idle" => run[r].manifest \in Manifest

(* It reads the manifest once, when it loads its plan. *)
LEMMA LoadedAlways == Spec => []Loaded
<1>1. Init => Loaded
  BY DEF Init, Loaded, IdleProcess
<1>2. ASSUME TypeOK, Loaded, [Next]_vars
      PROVE  Loaded'
  <2>1. CASE Paperwork \/ EditRemote
    BY <1>2, <2>1, PaperworkFrame DEF Loaded
  <2>2. ASSUME NEW r \in Run, Load(r) PROVE Loaded'
    <3>1. PICK c \in {confirmed, None} :
            run' = [run EXCEPT ![r] = [IdleProcess EXCEPT !.pc = "loaded",
                        !.plan = planFile, !.confirm = c, !.manifest = manifest]]
      BY <2>2 DEF Load
    <3>2. \A q \in Run \ {r} : run'[q] = run[q]
      BY <1>2, <3>1 DEF TypeOK
    <3>3. run'[r].manifest = manifest /\ manifest \in Manifest
      BY <1>2, <3>1 DEF TypeOK, IdleProcess
    <3> QED BY <1>2, <3>2, <3>3 DEF Loaded
  <2>3. ASSUME NEW r \in Run, Fetch(r) PROVE Loaded'
    <3>1. /\ \A q \in Run \ {r} : run'[q] = run[q]
          /\ run'[r].manifest = run[r].manifest
      BY <1>2, <2>3, FetchEffect DEF TypeOK, IsProcess
    <3>2. run[r].pc # "idle"
      BY <2>3 DEF Fetch
    <3> QED BY <1>2, <3>1, <3>2 DEF Loaded
  <2>4. ASSUME NEW r \in Run, Quiet(r) \/ Landing(r) PROVE Loaded'
    <3>1. /\ \A q \in Run \ {r} : run'[q] = run[q]
          /\ run'[r].manifest = run[r].manifest
      BY <1>2, <2>4, ProcessFrame
    <3>2. run[r].pc # "idle"
      BY <1>2, <2>4, TheDyingHadBegun DEF Quiet, Landing, Refuse, Start, WriteRejected,
         WriteFails, ActionDone, JournalFailure, Complete, RecordVerification, Write,
         WriteUnanswered, Pending, Remaining, Begun
    <3> QED BY <1>2, <3>1, <3>2 DEF Loaded
  <2> QED BY <1>2, <2>1, <2>2, <2>3, <2>4, StepKinds
<1> QED BY <1>1, <1>2, TypeCorrect, PTL DEF Spec

(* What plans create was missing, and is created once.                      *)
CreatesOnce(acts, g) ==
    \A k \in 1..Len(acts) : acts[k].kind = "issue.create" =>
        /\ Missing(g, acts[k].item)
        /\ \A j \in 1..Len(acts) :
              acts[j].kind = "issue.create" /\ acts[j].item = acts[k].item => j = k

(* That follows from their being well planned. *)
LEMMA WellPlannedCreatesOnce ==
    ASSUME NEW m, NEW g, NEW acts, WellPlanned(m, g, acts)
    PROVE  CreatesOnce(acts, g)
BY DEF WellPlanned, Suits, CreatesOnce

(* A valid manifest is what the planner's lemmas ask for. *)
LEMMA ValidIsFinite ==
    ASSUME NEW m, ValidManifest(m)
    PROVE  /\ IsFiniteSet(DOMAIN m) /\ DOMAIN m \subseteq Int
           /\ \A i \in DOMAIN m : IsFiniteSet(m[i].deps) /\ m[i].deps \subseteq Int
BY ItemType, FS_Subset DEF ValidManifest

(* An authorized plan is the planner's, for the manifest and the GitHub its *)
(* process read, and was built from a GitHub without duplicates.            *)
LEMMA AuthorizedPlan ==
    ASSUME Composed, NEW r \in Run, run[r].manifest \in Manifest, Authorized(run[r])
    PROVE  /\ ValidManifest(run[r].manifest)
           /\ Arranged(run[r].manifest, run[r].snapshot, run[r].plan.opts, 7, Actions(r))
           /\ WellPlanned(run[r].manifest, run[r].snapshot, Actions(r))
           /\ SyncPlannable(run[r].manifest, run[r].snapshot, run[r].plan.opts)
           /\ \A i \in Item : run[r].snapshot[i].copies <= 1
<1> DEFINE m == run[r].manifest
           g == run[r].snapshot
           o == run[r].plan.opts
           built == PlanOf(m, g, o)
<1>1. SyncPlannable(m, g, o)
  BY DEF Authorized, RebuildMatches, Composed
<1>2. Actions(r) = SyncPlanOf(m, g, o)
  <2>1. run[r].plan = [actions |-> built, manifest |-> m, remote |-> g, opts |-> o]
    BY Zenon DEF Authorized, RebuildMatches
  <2>2. built = SyncPlanOf(m, g, o)
    BY DEF Composed
  <2> HIDE DEF built, m, g, o
  <2> QED BY <2>1, <2>2 DEF Actions
<1>3. ValidManifest(m)
  BY ManifestType
<1> HIDE DEF m, g, o
<1>4. \A i \in DOMAIN o.transitions : i \in DOMAIN m /\ Member(g, i)
  BY <1>1 DEF SyncPlannable, TransitionsFit
<1>a. Arranged(m, g, o, 7, SyncPlanOf(m, g, o))
  BY <1>3, <1>4, ValidIsFinite, PlanIsArranged
<1>5. WellPlanned(m, g, SyncPlanOf(m, g, o))
  BY <1>a, PlanIsWell
<1>6. \A i \in Item : g[i].copies <= 1
  BY <1>1 DEF SyncPlannable
<1> QED BY <1>1, <1>2, <1>3, <1>a, <1>5, <1>6 DEF m, g, o

(* Undisturbed, what a process has yet to create is missing, and GitHub is  *)
(* ready for the rest of its plan.                                          *)
Ahead(r, k) == k \in run[r].next..Len(Actions(r)) /\ (k = run[r].next => run[r].done = 0)
FreshAt(r) ==
    run[r].pc = "executing" /\ clean[r] =>
        /\ \A i \in Item : remote[i].copies <= 1
        /\ \A k \in 1..Len(Actions(r)) :
              Ahead(r, k) /\ Actions(r)[k].kind = "issue.create"
              => Missing(remote, Actions(r)[k].item)
        /\ Ready(run[r].manifest, remote, Actions(r), run[r].next, run[r].done)
FreshInv == \A r \in Run : FreshAt(r)

(* That depends on the process itself, and on GitHub. *)
LEMMA FreshElsewhere ==
    ASSUME NEW r \in Run, FreshAt(r), run'[r] = run[r],
           clean'[r] => clean[r] /\ remote' = remote
    PROVE  FreshAt(r)'
BY DEF FreshAt, Ahead, Actions

(* An undisturbed process only creates what is missing.                     *)
LEMMA CreatesMissing ==
    ASSUME Composed, TypeOK, NEW r \in Run, FreshAt(r), Landing(r), clean[r],
           NEW a, a = Actions(r)[run[r].next], a.kind = "issue.create"
    PROVE  Missing(remote, a.item)
<1> DEFINE d == run[r].done
<1>1. /\ run[r].pc = "executing"
      /\ run[r].next \in 1..Len(Actions(r)) /\ Len(Actions(r)) \in Nat
      /\ d + 1 \in 1..Len(SyncWrites(a))
  BY LandingIs
<1>2. d \in Nat /\ run[r].next \in Nat
  BY DEF TypeOK, IsProcess
<1>3. Len(SyncWrites(a)) = 1
  BY DEF SyncWrites
<1>4. d + 1 \in 1..1
  BY ONLY <1>1, <1>3
<1> HIDE DEF d
<1>5. d = 0
  BY ONLY <1>2, <1>4
<1>6. Ahead(r, run[r].next)
  BY <1>1, <1>2, <1>5 DEF Ahead, d
<1> QED BY <1>1, <1>6 DEF FreshAt

(* A landing of an undisturbed process. *)
LEMMA FreshLanding ==
    ASSUME Composed, TypeOK, OnGitHub, AuthInv, Loaded, NEW r \in Run, FreshAt(r), Landing(r),
           clean[r]
    PROVE  /\ \A i \in Item : remote'[i].copies <= 1
           /\ \A k \in 1..Len(Actions(r)) :
                Ahead(r, k) /\ k # run[r].next /\ Actions(r)[k].kind = "issue.create"
                => Missing(remote', Actions(r)[k].item)
           /\ Ready(run[r].manifest, remote', Actions(r), run[r].next, run[r].done + 1)
<1> DEFINE a == Actions(r)[run[r].next]
           w == NextWrite(r)
           d == run[r].done
<1>1. /\ run[r].pc = "executing"
      /\ run[r].next \in 1..Len(Actions(r)) /\ Len(Actions(r)) \in Nat
      /\ a \in SyncAction /\ Carries(a, w)
      /\ d + 1 \in 1..Len(SyncWrites(a))
      /\ GitHubAccepts(w, remote) /\ remote' = GitHubEffect(w, remote)
  BY LandingIs
<1>a. /\ ValidManifest(run[r].manifest)
      /\ WellPlanned(run[r].manifest, run[r].snapshot, Actions(r))
  <2>1. run[r].manifest \in Manifest /\ Authorized(run[r])
    BY <1>1 DEF Loaded, AuthInv, Begun
  <2> QED BY <2>1, AuthorizedPlan
<1>2. CreatesOnce(Actions(r), run[r].snapshot)
  BY <1>a, WellPlannedCreatesOnce
<1>3. d \in Nat /\ run[r].next \in Nat
  BY DEF TypeOK, IsProcess
<1>5. a.kind = "issue.create" => Missing(remote, a.item)
  BY CreatesMissing
<1>6. \A i \in Item : remote[i].copies <= 1
  BY <1>1 DEF FreshAt
<1> HIDE DEF a, w, d
<1>7. a.item \in Item
  BY <1>1, ActionParts
<1>8. /\ \A j \in Item \ {a.item} : remote'[j] = remote[j]
      /\ remote'[a.item].copies = IF a.kind # "issue.create" THEN remote[a.item].copies
                                  ELSE IF Missing(remote, a.item) THEN 1 ELSE 2
  BY <1>1, EffectIsLocal DEF OnGitHub
<1>9. ASSUME NEW i \in Item PROVE remote'[i].copies <= 1
  BY <1>5, <1>6, <1>7, <1>8
<1>10. ASSUME NEW k \in 1..Len(Actions(r)), Ahead(r, k), k # run[r].next,
              Actions(r)[k].kind = "issue.create"
       PROVE  Missing(remote', Actions(r)[k].item)
  <2> DEFINE i == Actions(r)[k].item
  <2>1. Missing(remote, i)
    BY <1>1, <1>10 DEF FreshAt
  <2>2. i \in Item
    <3>1. Actions(r)[k] \in SyncAction
      <4>1. IsProcess(run[r])
        BY DEF TypeOK
      <4>2. run[r].plan.actions \in Seq(SyncAction)
        BY <1>1, <4>1 DEF IsProcess, IsPlan, Composed
      <4> QED BY <4>2 DEF Actions
    <3> QED BY <3>1, ActionParts
  <2>3. CASE i # a.item
    BY <1>8, <2>1, <2>2, <2>3 DEF Missing
  <2>4. CASE i = a.item
    <3>1. a.kind # "issue.create"
      <4>1. ASSUME a.kind = "issue.create" PROVE FALSE
        BY <1>1, <1>2, <1>10, <2>4, <4>1 DEF CreatesOnce, a
      <4> QED BY <4>1
    <3> QED BY <1>8, <2>1, <2>4, <3>1 DEF Missing
  <2> QED BY <2>3, <2>4
<1>11. Ready(run[r].manifest, remote', Actions(r), run[r].next, run[r].done + 1)
  <2> DEFINE m == run[r].manifest
             acts == Actions(r)
             n == run[r].next
  <2>1. DOMAIN m \subseteq Item /\ WellPlanned(m, run[r].snapshot, acts)
    BY <1>a DEF ValidManifest
  <2>2. acts \in Seq(SyncAction)
    <3>1. IsProcess(run[r])
      BY DEF TypeOK
    <3> QED BY <1>1, <3>1 DEF IsProcess, IsPlan, Composed, Actions
  <2>3. Ready(m, remote, acts, n, d)
    BY <1>1 DEF FreshAt, d
  <2>4. w = SyncWrites(a)[d + 1] /\ a = acts[n] /\ n \in 1..Len(acts)
    BY <1>1, LandingIs DEF a, w, d
  <2>5. remote \in [Item -> GitHubIssue]
    BY DEF OnGitHub
  <2> HIDE DEF m, acts, n
  <2>6. Ready(m, remote', acts, n, d + 1)
    BY <1>1, <1>3, <2>1, <2>2, <2>3, <2>4, <2>5, ReadyAfterMutation
  <2> QED BY <2>6 DEF m, acts, n, d
<1> QED BY <1>9, <1>10, <1>11

(* What a process has yet to create is missing, at every step. *)
LEMMA FreshAlways == ASSUME Composed PROVE Spec => []FreshInv
<1>1. Init => FreshInv
  BY DEF Init, FreshInv, FreshAt, IdleProcess
<1>2. ASSUME TypeOK, OnGitHub, AuthInv, CleanInv, OrderInv, Loaded, FreshInv, [Next]_vars
      PROVE  FreshInv'
  <2>1. CASE Paperwork
    <3>1. run' = run /\ remote' = remote /\ clean' = clean
      BY <2>1, PaperworkFrame
    <3> QED BY <1>2, <3>1, FreshElsewhere DEF FreshInv
  <2>2. CASE EditRemote
    <3>1. \A r \in Run : clean'[r] = FALSE
      BY <2>2 DEF EditRemote
    <3> QED BY <3>1 DEF FreshInv, FreshAt
  <2>3. ASSUME NEW r \in Run, Load(r) PROVE FreshInv'
    <3>1. /\ \A q \in Run \ {r} : run'[q] = run[q]
          /\ run'[r].pc = "loaded" /\ remote' = remote /\ clean' = clean
      BY <1>2, <2>3, LoadEffect DEF Load
    <3>2. FreshAt(r)'
      BY <3>1 DEF FreshAt
    <3>3. \A q \in Run \ {r} : FreshAt(q)'
      BY <1>2, <3>1, FreshElsewhere DEF FreshInv
    <3> QED BY <3>2, <3>3 DEF FreshInv
  <2>4. ASSUME NEW r \in Run, Fetch(r) PROVE FreshInv'
    <3>1. /\ \A q \in Run \ {r} : run'[q] = run[q]
          /\ run'[r].pc = "fetched" /\ remote' = remote
      BY <1>2, <2>4, FetchEffect DEF Fetch
    <3>2. \A q \in Run \ {r} : clean'[q] = clean[q]
      BY <1>2, <2>4 DEF Fetch, TypeOK
    <3>3. FreshAt(r)'
      BY <3>1 DEF FreshAt
    <3>4. \A q \in Run \ {r} : FreshAt(q)'
      BY <1>2, <3>1, <3>2, FreshElsewhere DEF FreshInv
    <3> QED BY <3>3, <3>4 DEF FreshInv
  <2>5. ASSUME NEW r \in Run, Quiet(r) PROVE FreshInv'
    <3>1. /\ \A q \in Run \ {r} : run'[q] = run[q]
          /\ run'[r].plan = run[r].plan /\ run'[r].snapshot = run[r].snapshot
          /\ run'[r].manifest = run[r].manifest
          /\ remote' = remote /\ clean' = clean
      BY <1>2, <2>5, ProcessFrame
    <3>2. \A q \in Run \ {r} : FreshAt(q)'
      BY <1>2, <3>1, FreshElsewhere DEF FreshInv
    <3>3. FreshAt(r)'
      <4>1. CASE Start(r)
        <5>1. run[r].pc = "fetched" /\ Authorized(run[r]) /\ run[r].manifest \in Manifest
          BY <1>2, <4>1 DEF Start, Loaded
        <5>2. clean[r] => remote = run[r].snapshot
          BY <1>2, <5>1 DEF CleanInv
        <5>3. /\ WellPlanned(run[r].manifest, run[r].snapshot, Actions(r))
              /\ \A i \in Item : run[r].snapshot[i].copies <= 1
          BY <5>1, AuthorizedPlan
        <5>4. Actions(r)' = Actions(r) /\ run'[r].next = 1 /\ run'[r].done = 0
          <6>1. run[r].next = 1 /\ run[r].done = 0
            BY <1>2, <5>1 DEF OrderInv, OrderAt, Begun
          <6>2. run'[r].next = run[r].next /\ run'[r].done = run[r].done
            BY <1>2, <4>1 DEF Start, Goto, TypeOK, IsProcess
          <6> QED BY <3>1, <6>1, <6>2 DEF Actions
        <5>5. CreatesOnce(Actions(r), run[r].snapshot)
          BY <5>3, WellPlannedCreatesOnce
        <5>6. Ready(run[r].manifest, run[r].snapshot, Actions(r), 1, 0)
          BY <5>3, ReadyAtStart
        <5> QED BY <3>1, <5>2, <5>3, <5>4, <5>5, <5>6 DEF FreshAt, CreatesOnce
      <4>2. CASE ActionDone(r)
        <5>1. /\ run[r].pc = "executing" /\ run'[r].next = run[r].next + 1
              /\ run'[r].done = 0 /\ run[r].next <= Len(Actions(r))
              /\ run[r].next \in Nat \ {0} /\ Actions(r)' = Actions(r)
          BY <1>2, <3>1, <4>2 DEF ActionDone, Remaining, TypeOK, IsProcess, Actions
        <5>2. Len(Actions(r)) \in Nat
          <6>1. IsProcess(run[r])
            BY <1>2 DEF TypeOK
          <6> QED BY <5>1, <6>1 DEF IsProcess, IsPlan, Actions
        <5>3. \A k \in 1..Len(Actions(r)) : Ahead(r, k)' => Ahead(r, k)
          BY <5>1, <5>2 DEF Ahead
        <5>4. FreshAt(r)
          BY <1>2 DEF FreshInv
        <5>5. clean[r] => Ready(run[r].manifest, remote, Actions(r), run[r].next + 1, 0)
          <6> SUFFICES ASSUME clean[r]
                       PROVE  Ready(run[r].manifest, remote, Actions(r), run[r].next + 1, 0)
            OBVIOUS
          <6>1. Ready(run[r].manifest, remote, Actions(r), run[r].next, run[r].done)
            BY <5>1, <5>4 DEF FreshAt
          <6>2. run[r].done = Len(SyncWrites(Actions(r)[run[r].next]))
            BY <1>2, <4>2 DEF ActionDone, CurrentWrites, Composed
          <6>3. run[r].next \in 1..Len(Actions(r))
            BY <5>1, <5>2
          <6> QED BY <5>2, <6>1, <6>2, <6>3, ReadyAfterAction
        <5> QED BY <3>1, <5>1, <5>3, <5>4, <5>5 DEF FreshAt
      <4>3. CASE ~Start(r) /\ ~ActionDone(r)
        <5>1. ASSUME NEW pc, Goto(r, pc) PROVE run'[r].pc = pc
          BY <1>2, <5>1 DEF Goto, TypeOK, IsProcess
        <5>2. run'[r].pc \in {"refused", "failing", "failed", "completed", "verified",
                          "crashed"}
          BY <2>5, <4>3, <5>1 DEF Quiet, Refuse, WriteRejected, WriteFails,
             JournalFailure, Complete, RecordVerification, ReceiptLost, Crash
        <5> QED BY <5>2 DEF FreshAt
      <4> QED BY <4>1, <4>2, <4>3
    <3> QED BY <3>2, <3>3 DEF FreshInv
  <2>6. ASSUME NEW r \in Run, Landing(r) PROVE FreshInv'
    <3>1. /\ \A q \in Run \ {r} : run'[q] = run[q]
          /\ run'[r].plan = run[r].plan /\ run'[r].manifest = run[r].manifest
      BY <1>2, <2>6, ProcessFrame
    <3>2. \A q \in Run : clean'[q] => clean[q] /\ (q # r => remote' = remote)
      BY <2>6 DEF Landing, Write, WriteUnanswered, Land
    <3>3. \A q \in Run \ {r} : FreshAt(q)'
      BY <1>2, <3>1, <3>2, FreshElsewhere DEF FreshInv
    <3>4. FreshAt(r)'
      <4>1. CASE Write(r)
        <5>1. /\ run'[r].next = run[r].next /\ run'[r].done = run[r].done + 1
              /\ run[r].done \in Nat /\ Actions(r)' = Actions(r)
              /\ run'[r].manifest = run[r].manifest
          BY <1>2, <3>1, <4>1 DEF Write, TypeOK, IsProcess, Actions
        <5>2. \A k : Ahead(r, k)' => Ahead(r, k) /\ k # run[r].next
          BY <5>1 DEF Ahead
        <5>3. clean[r] =>
              /\ \A i \in Item : remote'[i].copies <= 1
              /\ \A k \in 1..Len(Actions(r)) :
                   Ahead(r, k) /\ k # run[r].next /\ Actions(r)[k].kind = "issue.create"
                   => Missing(remote', Actions(r)[k].item)
              /\ Ready(run[r].manifest, remote', Actions(r), run[r].next, run[r].done + 1)
          BY <1>2, <2>6, FreshLanding DEF FreshInv
        <5> QED BY <3>2, <5>1, <5>2, <5>3 DEF FreshAt
      <4>2. CASE WriteUnanswered(r)
        <5>1. run'[r].pc = "failing"
          BY <1>2, <4>2 DEF WriteUnanswered, Goto, TypeOK, IsProcess
        <5> QED BY <5>1 DEF FreshAt
      <4> QED BY <2>6, <4>1, <4>2 DEF Landing
    <3> QED BY <3>3, <3>4 DEF FreshInv
  <2> QED BY <1>2, <2>1, <2>2, <2>3, <2>4, <2>5, <2>6, StepKinds
<1> QED BY <1>1, <1>2, TypeCorrect, GitHubAlways, AuthAlways, CleanAlways, OrderAlways,
           LoadedAlways, PTL DEF Spec

(* However often applies are refused, lose answers, die and are retried, a   *)
(* process whose snapshot nobody has overtaken never gives an item a second  *)
(* issue.                                                                     *)
THEOREM DuplicatesNeedARival ==
    ASSUME Composed PROVE Spec => DuplicateOnlyWhenOvertaken
<1> DEFINE Single(r) ==
        landed'[r] # landed[r] /\ clean[r] => \A i \in Item : remote'[i].copies <= 1
           Known == TypeOK /\ OnGitHub /\ AuthInv /\ Loaded /\ FreshInv
<1>1. ASSUME Known, [Next]_vars, NEW r \in Run PROVE Single(r)
  <2> SUFFICES ASSUME landed'[r] # landed[r], clean[r]
               PROVE  \A i \in Item : remote'[i].copies <= 1
    OBVIOUS
  <2>1. Landing(r)
    BY <1>1, OnlyOwnLandings
  <2> QED BY <1>1, <2>1, FreshLanding DEF FreshInv
<1>2. Known /\ [Next]_vars => [\A r \in Run : Single(r)]_vars
  BY <1>1
<1> QED BY <1>2, TypeCorrect, AuthAlways, GitHubAlways, LoadedAlways, FreshAlways,
           PTL DEF Spec, DuplicateOnlyWhenOvertaken

(* Left alone since its own read, a process is never refused a mutation by  *)
(* the state its earlier ones left: what an action needs is there when its  *)
(* turn comes, and no order of removals and additions closes a cycle.       *)
THEOREM CleanRunsAreNeverRejected ==
    ASSUME Composed PROVE Spec => []CleanRunNeverRejected
<1> DEFINE Known == TypeOK /\ OnGitHub /\ AuthInv /\ Loaded /\ FreshInv
<1>1. ASSUME Known, NEW r \in Run, clean[r], Pending(r), Enclosed(run[r].manifest)
      PROVE  GitHubAccepts(NextWrite(r), remote)
  <2> DEFINE m == run[r].manifest
             acts == Actions(r)
             n == run[r].next
             d == run[r].done
             a == acts[n]
             w == NextWrite(r)
  <2>1. /\ run[r].pc = "executing" /\ n \in Nat \ {0} /\ d \in Nat
        /\ acts \in Seq(SyncAction) /\ n \in 1..Len(acts)
    <3>1. run[r].pc = "executing" /\ IsProcess(run[r]) /\ n <= Len(acts)
      BY <1>1 DEF Pending, Remaining, TypeOK
    <3>2. acts \in Seq(SyncAction) /\ n \in Nat \ {0} /\ d \in Nat
      BY <3>1 DEF IsProcess, IsPlan, Composed, Actions
    <3> HIDE DEF acts, n, d
    <3> QED BY <3>1, <3>2
  <2>2. ValidManifest(m) /\ WellPlanned(m, run[r].snapshot, acts)
    <3>1. run[r].manifest \in Manifest /\ Authorized(run[r])
      BY <1>1, <2>1 DEF Loaded, AuthInv, Begun
    <3> QED BY <3>1, AuthorizedPlan
  <2>3. Ready(m, remote, acts, n, d)
    BY <1>1, <2>1 DEF FreshInv, FreshAt
  <2>4. w = SyncWrites(a)[d + 1] /\ d + 1 \in 1..Len(SyncWrites(a))
    <3>1. CurrentWrites(r) = SyncWrites(a) /\ w = SyncWrites(a)[d + 1]
      BY DEF CurrentWrites, NextWrite, Composed
    <3>2. d < Len(SyncWrites(a))
      BY <1>1, <3>1 DEF Pending
    <3>3. Len(SyncWrites(a)) \in Nat
      <4>1. a \in Action
        BY <2>1 DEF Composed
      <4> QED BY <4>1, WritesType DEF Composed
    <3> HIDE DEF a, d, w
    <3> QED BY <2>1, <3>1, <3>2, <3>3
  <2>5. \A i \in Item \ DOMAIN m : Missing(remote, i) \/ remote[i].deps = {}
    BY <1>1 DEF Enclosed
  <2>6. remote \in [Item -> GitHubIssue]
    BY <1>1 DEF OnGitHub
  <2>7. a = acts[n]
    OBVIOUS
  <2> HIDE DEF m, acts, n, d, a, w
  <2>8. GitHubAccepts(w, remote)
    BY <2>1, <2>2, <2>3, <2>4, <2>5, <2>6, <2>7, ReadyIsAccepted
  <2> QED BY <2>8 DEF w
<1>2. Known => CleanRunNeverRejected
  BY <1>1 DEF CleanRunNeverRejected
<1> QED BY <1>2, TypeCorrect, AuthAlways, GitHubAlways, LoadedAlways, FreshAlways, PTL

(* So the invariant of the runs holds for every backlog: the state is well  *)
(* formed, and the mutations are well ordered.                              *)
THEOREM SyncIsSafe == ASSUME Composed PROVE Spec => []Inv
<1>1. SyncTypeOK /\ CleanRunNeverRejected => Inv
  BY DEF Inv
<1> QED BY <1>1, SyncTypeCorrect, CleanRunsAreNeverRejected, PTL

-----------------------------------------------------------------------------
(* Convergence.  An apply moves each item from the issue it had to the issue *)
(* its plan aims at, one part at a time.                                     *)

(* The issue a plan finds or makes.                                         *)
Had(m, g, i) == IF Missing(g, i) THEN NewIssue(FreshIssue(m[i].text)) ELSE g[i]

(* The issue it aims at.                                                    *)
GoalStatus(m, g, o, i) ==
    IF ~Member(g, i) THEN m[i].status
    ELSE IF i \in CompletedParents(m, g) THEN Done
    ELSE IF i \in DOMAIN o.transitions THEN o.transitions[i]
    ELSE g[i].status
Goal(m, g, o, i) ==
    [text |-> IF Missing(g, i) THEN FreshIssue(m[i].text)
              ELSE PlannedIssue(m[i].text, g[i].text, o.manage, i \in o.overwrite),
     open |-> i \notin CompletedParents(m, g) /\ Had(m, g, i).open,
     member |-> TRUE,
     status |-> GoalStatus(m, g, o, i),
     impact |-> m[i].impact,
     priority |-> Priorities(m, g, o)[i],
     parent |-> IF m[i].parent = NoItem /\ Had(m, g, i).parent \in DOMAIN m THEN NoItem
                ELSE IF m[i].parent = NoItem THEN Had(m, g, i).parent ELSE m[i].parent,
     deps |-> (Had(m, g, i).deps \ (DOMAIN m \ m[i].deps)) \cup m[i].deps]

(* The part of an issue a mutation is about; a link is one of its own.      *)
Slot == {"text", "open", "member", "status", "impact", "priority", "parent"}
FieldSlot(f) == IF f = "Impact" THEN "impact" ELSE IF f = "Priority" THEN "priority" ELSE "status"
SlotOf(w) ==
    CASE w.kind = "issue.update" -> "text"
      [] w.kind = "close" -> "open"
      [] w.kind = "add" -> "member"
      [] w.kind = "field" -> FieldSlot(w.arg.name)
      [] w.kind \in {"issue.set_parent", "issue.remove_parent"} -> "parent"
      [] OTHER -> "none"
IsLink(w) == w.kind \in {"issue.add_dependency", "issue.remove_dependency"}

(* An issue x on its way from h to e.                                       *)
Between(h, e, x) ==
    /\ x.copies = 1
    /\ \A s \in Slot : x[s] = h[s] \/ x[s] = e[s]
    /\ x.deps \subseteq h.deps \cup e.deps
    /\ h.deps \cap e.deps \subseteq x.deps

(* It has arrived in the part w is about.                                   *)
Has(e, w, x) ==
    /\ x.copies # 0
    /\ \A s \in Slot : SlotOf(w) = s => x[s] = e[s]
    /\ IsLink(w) => (w.arg.to \in x.deps <=> w.arg.to \in e.deps)

(* A mutation that takes it there, in that part and in no other.            *)
Advances(e, w, x, y) ==
    /\ x.copies # 0 /\ y.copies = x.copies
    /\ \A s \in Slot : y[s] = IF SlotOf(w) = s THEN e[s] ELSE x[s]
    /\ \A d : d \in y.deps <=> IF IsLink(w) /\ w.arg.to = d THEN d \in e.deps ELSE d \in x.deps

(* What has arrived stays, and what moves arrives.                          *)
LEMMA AdvancesArrive ==
    ASSUME NEW h, NEW e, NEW w, NEW x, NEW y, Advances(e, w, x, y)
    PROVE  /\ Between(h, e, x) => Between(h, e, y)
           /\ Has(e, w, y)
           /\ \A v : Has(e, v, x) => Has(e, v, y)
<1>1. ASSUME Between(h, e, x) PROVE Between(h, e, y)
  <2>1. ASSUME NEW s \in Slot PROVE y[s] = h[s] \/ y[s] = e[s]
    BY <1>1 DEF Advances, Between
  <2>2. y.deps \subseteq h.deps \cup e.deps /\ h.deps \cap e.deps \subseteq y.deps
    BY <1>1 DEF Advances, Between
  <2> QED BY <1>1, <2>1, <2>2 DEF Advances, Between
<1>2. Has(e, w, y)
  BY DEF Advances, Has
<1>3. ASSUME NEW v, Has(e, v, x) PROVE Has(e, v, y)
  BY <1>3 DEF Advances, Has
<1> QED BY <1>1, <1>2, <1>3

(* The action asks for what the goal e has.                                 *)
Aims(m, g, o, e, a) ==
    /\ a.kind = "issue.create" => Missing(g, a.item) /\ a = CreateOf(m, a.item)
    /\ a.kind = "issue.update" =>
          /\ ~Missing(g, a.item)
          /\ a.arg.text = TextOfUpdate(m, g, o, a.item)
    /\ a.kind \in {"project.add_item", "project.set_fields", "project.transition",
                   "issue.close_parent"} =>
          \A f \in DOMAIN a.arg.fields \cap {"Impact", "Priority", "Status"} :
              a.arg.fields[f] = e[FieldSlot(f)]
    /\ a.kind = "issue.close_parent" => e.open = FALSE
    /\ a.kind = "issue.set_parent" => e.parent = a.arg.to
    /\ a.kind = "issue.remove_parent" => e.parent = NoItem
    /\ a.kind = "issue.add_dependency" => a.arg.to \in e.deps
    /\ a.kind = "issue.remove_dependency" => a.arg.to \notin e.deps

(* No parent the plan closes has another Status to get.                     *)
ClosesForGood(m, g, o) ==
    \A i \in CompletedParents(m, g) : Member(g, i) /\ i \notin DOMAIN o.transitions

(* Whatever is asked of an item aims at its goal.                           *)
LEMMA AskedAims ==
    ASSUME NEW m, NEW g, NEW o, SyncPlannable(m, g, o), ClosesForGood(m, g, o),
           NEW n \in 1..7, NEW i \in DOMAIN m, i \in Item, NEW a \in Asked(m, g, o, n, i)
    PROVE  a.item = i /\ Aims(m, g, o, Goal(m, g, o, i), a)
<1> DEFINE e == Goal(m, g, o, i)
<1>e. /\ e.impact = m[i].impact /\ e.priority = Priorities(m, g, o)[i]
      /\ e.status = GoalStatus(m, g, o, i)
      /\ e.open = (i \notin CompletedParents(m, g) /\ Had(m, g, i).open)
      /\ e.parent = IF m[i].parent = NoItem /\ Had(m, g, i).parent \in DOMAIN m THEN NoItem
                    ELSE IF m[i].parent = NoItem THEN Had(m, g, i).parent ELSE m[i].parent
      /\ e.deps = (Had(m, g, i).deps \ (DOMAIN m \ m[i].deps)) \cup m[i].deps
  BY DEF Goal
<1>s. SUFFICES a.item = i /\ Aims(m, g, o, e, a)
  OBVIOUS
<1> HIDE DEF e
<1>f. FieldSlot("Impact") = "impact" /\ FieldSlot("Priority") = "priority" /\ FieldSlot("Status") = "status"
  BY DEF FieldSlot
<1>1. CASE n = 1
  BY <1>1 DEF Asked, CreateOf, Act, Aims
<1>2. CASE n = 2
  BY <1>2 DEF Asked, UpdateOf, Act, Aims
<1>3. CASE n = 3
  <2>1. CASE ~Member(g, i)
    <3>1. a = AddOf(m, g, o, i)
      BY <1>3, <2>1 DEF Asked
    <3>2. e.status = m[i].status
      BY <1>e, <2>1 DEF GoalStatus
    <3> HIDE DEF Priorities
    <3> QED BY <1>e, <1>f, <3>1, <3>2 DEF AddOf, Act, Aims
  <2>2. CASE Member(g, i)
    <3>1. a = SetOf(m, g, o, i)
      BY <1>3, <2>2 DEF Asked
    <3>2. /\ DOMAIN Changed(m, g, o, i) \subseteq {"Impact", "Priority"}
          /\ \A f \in DOMAIN Changed(m, g, o, i) : Changed(m, g, o, i)[f] = e[FieldSlot(f)]
      BY <1>e, <1>f DEF Changed, Differing
    <3>3. a.kind = "project.set_fields" /\ a.item = i /\ a.arg.fields = Changed(m, g, o, i)
      BY <3>1 DEF SetOf, Act
    <3> QED BY <3>2, <3>3 DEF Aims
  <2> QED BY <2>1, <2>2
<1>4. CASE n = 4
  <2>1. a = MoveOf(o, i) /\ i \in DOMAIN o.transitions
    BY <1>4 DEF Asked
  <2>2. e.status = o.transitions[i]
    BY <1>e, <2>1 DEF GoalStatus, SyncPlannable, TransitionsFit, ClosesForGood
  <2> QED BY <1>f, <2>1, <2>2 DEF MoveOf, Act, Aims
<1>5. CASE n = 5
  <2>1. CASE a = DetachOf(g, i) /\ ~Missing(g, i) /\ m[i].parent = NoItem /\ g[i].parent \in DOMAIN m
    BY <1>e, <2>1 DEF DetachOf, Act, Aims, Had
  <2>2. ASSUME NEW d \in Unwanted(m, g, i), a = DropOf(i, d)
        PROVE  a.item = i /\ Aims(m, g, o, e, a)
    <3>1. d \notin e.deps
      BY <1>e, <2>2 DEF Had, Unwanted
    <3> QED BY <2>2, <3>1 DEF DropOf, Act, Aims
  <2> QED BY <1>5, <2>1, <2>2 DEF Asked
<1>6. CASE n = 6
  <2>1. CASE a = AttachOf(m, i) /\ m[i].parent # NoItem
    BY <1>e, <2>1 DEF AttachOf, Act, Aims
  <2>2. ASSUME NEW d \in m[i].deps, a = NeedOf(i, d)
        PROVE  a.item = i /\ Aims(m, g, o, e, a)
    BY <1>e, <2>2 DEF NeedOf, Act, Aims
  <2> QED BY <1>6, <2>1, <2>2 DEF Asked
<1>7. CASE n = 7
  <2>1. a = CloseOf(g, i) /\ i \in CompletedParents(m, g)
    BY <1>7 DEF Asked
  <2>2. e.status = Done /\ e.open = FALSE
    BY <1>e, <2>1 DEF GoalStatus, ClosesForGood
  <2>3. /\ a.kind = "issue.close_parent" /\ a.item = i
        /\ \A f \in DOMAIN a.arg.fields \cap {"Impact", "Priority", "Status"} :
              f = "Status" /\ a.arg.fields[f] = Done
    BY <2>1 DEF CloseOf, Act
  <2> QED BY <1>f, <2>2, <2>3 DEF Aims
<1>8. n \in {1, 2, 3, 4, 5, 6, 7}
  OBVIOUS
<1> QED BY <1>1, <1>2, <1>3, <1>4, <1>5, <1>6, <1>7, <1>8

(* Patching the text a plan found, or the text it plans, gives the text it  *)
(* plans.                                                                   *)
LEMMA PatchLeads ==
    ASSUME NEW d, NEW t \in Issue, NEW manage, NEW overwrite,
           NEW p, p = PlannedIssue(d, t, manage, overwrite), NEW x, x = t \/ x = p,
           NEW patch, patch = TextPatch(d, t, manage, overwrite)
    PROVE  [f \in DOMAIN x |-> IF f \in DOMAIN patch THEN patch[f] ELSE x[f]] = p
<1> DEFINE y == [f \in DOMAIN x |-> IF f \in DOMAIN patch THEN patch[f] ELSE x[f]]
<1>1. DOMAIN t = {"title", "body", "td", "bd"}
  BY DEF Issue
<1>2. DOMAIN p = {"title", "body", "td", "bd"} /\ p = [f \in DOMAIN p |-> p[f]]
  BY DEF PlannedIssue
<1>3. DOMAIN x = DOMAIN p
  BY <1>1, <1>2
<1>4. patch = IF p.title = t.title THEN [body |-> p.body, td |-> p.td, bd |-> p.bd] ELSE p
  BY DEF TextPatch
<1>5. ASSUME NEW f \in DOMAIN p PROVE y[f] = p[f]
  <2>1. y[f] = IF f \in DOMAIN patch THEN patch[f] ELSE x[f]
    BY <1>3
  <2>2. CASE p.title = t.title
    <3>1. patch = [body |-> p.body, td |-> p.td, bd |-> p.bd]
      BY <1>4, <2>2
    <3>2. CASE f = "title"
      BY <2>1, <2>2, <3>1, <3>2
    <3>3. CASE f \in {"body", "td", "bd"}
      BY <2>1, <3>1, <3>3
    <3> QED BY <1>2, <3>2, <3>3
  <2>3. CASE p.title # t.title
    BY <1>4, <2>1, <2>3
  <2> QED BY <2>2, <2>3
<1>6. DOMAIN y = DOMAIN p /\ y = [f \in DOMAIN y |-> y[f]]
  BY <1>3
<1> HIDE DEF y
<1>7. y = p
  BY <1>2, <1>5, <1>6
<1> QED BY <1>7 DEF y

(* A mutation GitHub accepts moves its issue towards the goal of the plan.  *)
LEMMA MutationMoves ==
    ASSUME NEW m, NEW g \in [Item -> GitHubIssue], NEW o,
           NEW a \in SyncAction, NEW w, Carries(a, w), a.kind # "issue.create",
           NEW r \in [Item -> GitHubIssue], GitHubAccepts(w, r),
           NEW s, s = GitHubEffect(w, r), NEW i, i = a.item,
           NEW e, e = Goal(m, g, o, i), Aims(m, g, o, e, a),
           Missing(r, i) \/ Between(Had(m, g, i), e, r[i])
    PROVE  Advances(e, w, r[i], s[i])
<1>0. i \in Item /\ r[i] \in GitHubIssue /\ GitHubIssue = {NoIssue} \cup Existing
  BY ActionParts DEF GitHubIssue, Existing
<1>a. ~Missing(r, i) => r[i] \in Existing /\ r[i].copies # 0
  BY <1>0 DEF Missing, NoIssue
<1>b. ASSUME NEW x, s = [r EXCEPT ![i] = x] PROVE s[i] = x
  BY ONLY <1>0, <1>b, r \in [Item -> GitHubIssue]
<1>c. r[i] \in Existing =>
        DOMAIN r[i] = {"copies", "text", "open", "member", "status", "impact", "priority",
                       "parent", "deps"}
  BY DEF Existing
<1>d. ASSUME NEW f \in Slot, s[i] = [r[i] EXCEPT ![f] = e[f]], ~Missing(r, i),
             SlotOf(w) = f, ~IsLink(w)
      PROVE  Advances(e, w, r[i], s[i])
  BY <1>a, <1>c, <1>d DEF Advances, Slot
<1>m. e.member = TRUE
  BY DEF Goal
<1>2. CASE w = a /\ a.kind = "issue.update"
  <2> DEFINE p == PlannedIssue(m[i].text, g[i].text, o.manage, i \in o.overwrite)
             t == [f \in DOMAIN r[i].text |->
                      IF f \in DOMAIN a.arg.text THEN a.arg.text[f] ELSE r[i].text[f]]
  <2>1. ~Missing(r, i) /\ ~Missing(g, i)
    BY <1>2 DEF GitHubAccepts, Aims
  <2>2. s = [r EXCEPT ![i] = [r[i] EXCEPT !.text = t]]
    BY <1>2 DEF GitHubEffect
  <2>3. t = p
    <3>1. g[i].text \in Issue
      BY <1>0, <2>1 DEF Missing, GitHubIssue, NoIssue
    <3>2. e.text = p /\ Had(m, g, i) = g[i]
      BY <2>1 DEF Goal, Had
    <3>3. r[i].text = g[i].text \/ r[i].text = p
      <4>1. Between(g[i], e, r[i])
        BY <2>1, <3>2
      <4> QED BY <3>2, <4>1 DEF Between, Slot
    <3>4. a.arg.text = TextPatch(m[i].text, g[i].text, o.manage, i \in o.overwrite)
      BY <1>2 DEF Aims, TextOfUpdate
    <3> DEFINE x == r[i].text
               patch == a.arg.text
    <3>5. t = [f \in DOMAIN x |-> IF f \in DOMAIN patch THEN patch[f] ELSE x[f]]
      OBVIOUS
    <3>6. p = PlannedIssue(m[i].text, g[i].text, o.manage, i \in o.overwrite)
      OBVIOUS
    <3>7. x = g[i].text \/ x = p
      BY <3>3
    <3>8. patch = TextPatch(m[i].text, g[i].text, o.manage, i \in o.overwrite)
      BY <3>4
    <3> HIDE DEF t, p, x, patch
    <3> QED BY <3>1, <3>5, <3>6, <3>7, <3>8, PatchLeads
  <2>4. e.text = p
    BY <2>1 DEF Goal
  <2> HIDE DEF t, p
  <2>5. s[i] = [r[i] EXCEPT !.text = e.text]
    BY <1>b, <2>2, <2>3, <2>4
  <2> QED BY <1>2, <1>d, <2>1, <2>5 DEF Slot, SlotOf, IsLink
<1>3. CASE w = Act("add", a.item, <<>>) /\ a.kind = "project.add_item"
  <2>1. ~Missing(r, i) /\ s = [r EXCEPT ![i] = [r[i] EXCEPT !.member = TRUE]]
    BY <1>3 DEF GitHubAccepts, GitHubEffect, Act
  <2>2. s[i] = [r[i] EXCEPT !.member = e.member]
    BY <1>b, <1>m, <2>1
  <2> QED BY <1>3, <1>d, <2>1, <2>2 DEF Slot, SlotOf, IsLink, Act
<1>4. CASE w = Act("close", a.item, <<>>) /\ a.kind = "issue.close_parent"
  <2>1. ~Missing(r, i) /\ s = [r EXCEPT ![i] = [r[i] EXCEPT !.open = FALSE]]
    BY <1>4 DEF GitHubAccepts, GitHubEffect, Act
  <2>2. e.open = FALSE
    BY <1>4 DEF Aims
  <2>3. s[i] = [r[i] EXCEPT !.open = e.open]
    BY <1>b, <2>1, <2>2
  <2> QED BY <1>4, <1>d, <2>1, <2>3 DEF Slot, SlotOf, IsLink, Act
<1>5. CASE w = a /\ a.kind = "issue.remove_parent"
  <2>1. ~Missing(r, i) /\ s = [r EXCEPT ![i] = [r[i] EXCEPT !.parent = NoItem]]
    BY <1>5 DEF GitHubAccepts, GitHubEffect
  <2>2. s[i] = [r[i] EXCEPT !.parent = e.parent]
    BY <1>5, <1>b, <2>1 DEF Aims
  <2> QED BY <1>5, <1>d, <2>1, <2>2 DEF Slot, SlotOf, IsLink
<1>6. CASE w = a /\ a.kind = "issue.set_parent"
  <2>1. ~Missing(r, i) /\ s = [r EXCEPT ![i] = [r[i] EXCEPT !.parent = a.arg.to]]
    BY <1>6 DEF GitHubAccepts, GitHubEffect
  <2>2. s[i] = [r[i] EXCEPT !.parent = e.parent]
    BY <1>6, <1>b, <2>1 DEF Aims
  <2> QED BY <1>6, <1>d, <2>1, <2>2 DEF Slot, SlotOf, IsLink
<1>7. CASE w = a /\ a.kind = "issue.remove_dependency"
  <2>1. ~Missing(r, i) /\ s = [r EXCEPT ![i] = [r[i] EXCEPT !.deps = r[i].deps \ {a.arg.to}]]
    BY <1>7 DEF GitHubAccepts, GitHubEffect
  <2>2. s[i] = [r[i] EXCEPT !.deps = r[i].deps \ {a.arg.to}] /\ a.arg.to \notin e.deps
    BY <1>7, <1>b, <2>1 DEF Aims
  <2> QED BY <1>7, <1>a, <1>c, <2>1, <2>2 DEF Advances, Slot, SlotOf, IsLink
<1>8. CASE w = a /\ a.kind = "issue.add_dependency"
  <2>1. ~Missing(r, i) /\ s = [r EXCEPT ![i] = [r[i] EXCEPT !.deps = r[i].deps \cup {a.arg.to}]]
    BY <1>8 DEF GitHubAccepts, GitHubEffect
  <2>2. s[i] = [r[i] EXCEPT !.deps = r[i].deps \cup {a.arg.to}] /\ a.arg.to \in e.deps
    BY <1>8, <1>b, <2>1 DEF Aims
  <2> QED BY <1>8, <1>a, <1>c, <2>1, <2>2 DEF Advances, Slot, SlotOf, IsLink
<1>9. ASSUME a.kind \in {"project.add_item", "project.set_fields", "project.transition",
                         "issue.close_parent"},
             NEW f \in DOMAIN a.arg.fields \cap {"Impact", "Priority", "Status"},
             w = FieldWrite(a.item, f, a.arg.fields[f])
      PROVE  Advances(e, w, r[i], s[i])
  <2> DEFINE v == a.arg.fields[f]
  <2>1. v = e[FieldSlot(f)]
    BY <1>9 DEF Aims
  <2> HIDE DEF v
  <2>2. w = [kind |-> "field", item |-> i, arg |-> [name |-> f, value |-> v]]
    BY <1>9 DEF v, FieldWrite, Act
  <2>3. w.kind = "field" /\ w.item = i /\ w.arg.name = f /\ w.arg.value = v
    BY <2>2
  <2>4. ~Missing(r, i)
    BY <2>3 DEF GitHubAccepts, Member
  <2>5. SlotOf(w) = FieldSlot(f) /\ ~IsLink(w) /\ FieldSlot(f) \in Slot
    BY <2>3 DEF SlotOf, IsLink, FieldSlot, Slot
  <2>6. s[i] = [r[i] EXCEPT ![FieldSlot(f)] = v]
    <3>1. CASE f = "Impact"
      <4>1. s = [r EXCEPT ![i] = [r[i] EXCEPT !.impact = v]]
        BY <2>3, <3>1 DEF GitHubEffect
      <4> QED BY <1>b, <3>1, <4>1 DEF FieldSlot
    <3>2. CASE f = "Priority"
      <4>1. s = [r EXCEPT ![i] = [r[i] EXCEPT !.priority = v]]
        BY <2>3, <3>2 DEF GitHubEffect
      <4> QED BY <1>b, <3>2, <4>1 DEF FieldSlot
    <3>3. CASE f = "Status"
      <4>1. s = [r EXCEPT ![i] = [r[i] EXCEPT !.status = v]]
        BY <2>3, <3>3 DEF GitHubEffect
      <4> QED BY <1>b, <3>3, <4>1 DEF FieldSlot
    <3> QED BY <1>9, <3>1, <3>2, <3>3
  <2> QED BY <1>d, <2>1, <2>4, <2>5, <2>6
<1>10. CASE /\ a.kind \in {"project.add_item", "project.set_fields", "project.transition",
                      "issue.close_parent"}
            /\ \E f \in DOMAIN a.arg.fields \cap {"Impact", "Priority", "Status"} :
                  w = FieldWrite(a.item, f, a.arg.fields[f])
  BY <1>9, <1>10
<1> QED BY <1>2, <1>3, <1>4, <1>5, <1>6, <1>7, <1>8, <1>10 DEF Carries

(* A creation makes the issue a plan counts on.                             *)
LEMMA CreateMakes ==
    ASSUME NEW m, NEW g, NEW r \in [Item -> GitHubIssue], NEW w, NEW i \in Item,
           w = CreateOf(m, i), Missing(g, i), Missing(r, i),
           NEW s, s = GitHubEffect(w, r)
    PROVE  s[i] = Had(m, g, i)
<1>1. w.kind = "issue.create" /\ w.item = i /\ w.arg.text = FreshIssue(m[i].text)
  BY DEF CreateOf, Act
<1>2. s = [r EXCEPT ![i] = NewIssue(FreshIssue(m[i].text))]
  BY <1>1 DEF GitHubEffect
<1>3. s[i] = NewIssue(FreshIssue(m[i].text))
  BY ONLY <1>2, r \in [Item -> GitHubIssue], i \in Item
<1> QED BY <1>3 DEF Had

(* Each issue x[i] of the manifest is still to be made, or on its way, and  *)
(* has arrived in what the mutations before the d-th of action n are about. *)
Underway(m, g, o, x) ==
    \A i \in DOMAIN m :
        (Missing(g, i) /\ Missing(x, i)) \/ Between(Had(m, g, i), Goal(m, g, o, i), x[i])
Lands(m, g, o, acts, k, j, x) ==
    Has(Goal(m, g, o, acts[k].item), SyncWrites(acts[k])[j], x[acts[k].item])
Passed(n, d, k, j) == k < n \/ (k = n /\ j <= d)
OnTheWay(m, g, o, acts, n, d, x) ==
    /\ Underway(m, g, o, x)
    /\ \A k \in 1..Len(acts) : \A j \in 1..Len(SyncWrites(acts[k])) :
          Passed(n, d, k, j) => Lands(m, g, o, acts, k, j, x)

(* A plan starts from the issues it found.                                  *)
LEMMA WayAtStart ==
    ASSUME NEW m, DOMAIN m \subseteq Item, NEW g \in [Item -> GitHubIssue],
           \A i \in Item : g[i].copies <= 1, NEW o, NEW acts, Len(acts) \in Nat
    PROVE  OnTheWay(m, g, o, acts, 1, 0, g)
<1>1. ASSUME NEW i \in DOMAIN m, ~Missing(g, i)
      PROVE  Between(Had(m, g, i), Goal(m, g, o, i), g[i])
  <2>1. Had(m, g, i) = g[i]
    BY <1>1 DEF Had
  <2>2. g[i].copies = 1
    <3>1. g[i] \in GitHubIssue /\ g[i].copies # 0 /\ g[i].copies <= 1
      BY <1>1 DEF Missing
    <3>2. g[i].copies \in 1..2
      BY <3>1 DEF GitHubIssue, NoIssue
    <3> QED BY <3>1, <3>2
  <2> HIDE DEF Goal
  <2> QED BY <2>1, <2>2 DEF Between
<1>2. Underway(m, g, o, g)
  BY <1>1 DEF Underway
<1>3. ASSUME NEW k \in 1..Len(acts), NEW j \in 1..Len(SyncWrites(acts[k])) PROVE ~Passed(1, 0, k, j)
  BY DEF Passed
<1> QED BY <1>2, <1>3 DEF OnTheWay

(* A mutation of action n takes its issue a part further.                   *)
LEMMA WayAfterMutation ==
    ASSUME NEW m, DOMAIN m \subseteq Item, NEW g \in [Item -> GitHubIssue], NEW o,
           NEW acts \in Seq(SyncAction), NEW n \in 1..Len(acts), NEW d \in Nat,
           NEW a, a = acts[n], d + 1 \in 1..Len(SyncWrites(a)),
           NEW w, w = SyncWrites(a)[d + 1],
           a.item \in DOMAIN m, Aims(m, g, o, Goal(m, g, o, a.item), a),
           NEW x \in [Item -> GitHubIssue], GitHubAccepts(w, x),
           a.kind = "issue.create" => Missing(x, a.item),
           NEW y, y = GitHubEffect(w, x), OnTheWay(m, g, o, acts, n, d, x)
    PROVE  OnTheWay(m, g, o, acts, n, d + 1, y)
<1> DEFINE i == a.item
           h == Had(m, g, i)
           e == Goal(m, g, o, i)
<1>1. a \in SyncAction /\ Carries(a, w)
  <2>1. a \in SyncAction
    OBVIOUS
  <2> QED BY <2>1, WritesAre
<1>2. i \in Item /\ \A j \in Item \ {i} : y[j] = x[j]
  BY <1>1, EffectIsLocal
<1>3. (Missing(g, i) /\ Missing(x, i)) \/ Between(h, e, x[i])
  BY DEF OnTheWay, Underway
<1>4. ASSUME a.kind = "issue.create"
      PROVE  Between(h, e, y[i]) /\ Has(e, w, y[i]) /\ \A v : Has(e, v, x[i]) => Has(e, v, y[i])
  <2>1. Missing(g, i) /\ a = CreateOf(m, i) /\ Missing(x, i)
    BY <1>4 DEF Aims
  <2>2. w = a
    BY <1>1, <1>4 DEF Carries
  <2>3. y[i] = h
    BY <1>2, <2>1, <2>2, CreateMakes
  <2>4. Between(h, e, y[i]) /\ y[i].copies # 0
    BY <2>1, <2>3 DEF Between, Had, NewIssue
  <2>5. Has(e, w, y[i])
    BY <1>4, <2>2, <2>4 DEF Has, SlotOf, IsLink, Slot
  <2>6. \A v : ~Has(e, v, x[i])
    BY <2>1 DEF Has, Missing
  <2> QED BY <2>4, <2>5, <2>6
<1>5. ASSUME a.kind # "issue.create"
      PROVE  Between(h, e, y[i]) /\ Has(e, w, y[i]) /\ \A v : Has(e, v, x[i]) => Has(e, v, y[i])
  <2> HIDE DEF h, e
  <2>1. Advances(e, w, x[i], y[i])
    BY <1>1, <1>3, <1>5, MutationMoves DEF h, e
  <2>2. x[i].copies # 0
    BY <2>1 DEF Advances
  <2>3. Between(h, e, x[i])
    BY <1>3, <2>2 DEF Missing
  <2> DEFINE from == x[i]
             to == y[i]
  <2>4. Advances(e, w, from, to) /\ Between(h, e, from)
    BY <2>1, <2>3
  <2>5. /\ Between(h, e, to) /\ Has(e, w, to)
        /\ \A v : Has(e, v, from) => Has(e, v, to)
    <3> HIDE DEF from, to, i
    <3> QED BY ONLY <2>4, AdvancesArrive
  <2> QED BY <2>5
<1>6. Between(h, e, y[i]) /\ Has(e, w, y[i]) /\ \A v : Has(e, v, x[i]) => Has(e, v, y[i])
  BY <1>4, <1>5
<1>7. ASSUME NEW b \in DOMAIN m
      PROVE  (Missing(g, b) /\ Missing(y, b)) \/ Between(Had(m, g, b), Goal(m, g, o, b), y[b])
  <2>1. CASE b = i
    BY <1>6, <2>1
  <2>2. CASE b # i
    <3>1. y[b] = x[b]
      BY <1>2, <2>2
    <3> QED BY <3>1 DEF OnTheWay, Underway, Missing
  <2> QED BY <2>1, <2>2
<1>8. ASSUME NEW k \in 1..Len(acts), NEW j \in 1..Len(SyncWrites(acts[k])), Passed(n, d + 1, k, j)
      PROVE  Lands(m, g, o, acts, k, j, y)
  <2> DEFINE v == SyncWrites(acts[k])[j]
             b == acts[k].item
  <2>1. Passed(n, d, k, j) => Has(Goal(m, g, o, b), v, x[b])
    BY DEF OnTheWay, Lands
  <2>2. b \in Item
    <3>1. acts[k] \in SyncAction
      OBVIOUS
    <3> QED BY <3>1, ActionParts
  <2>3. ~Passed(n, d, k, j) => k = n /\ j = d + 1
    <3>1. k \in Int /\ n \in Int /\ j \in Int
      OBVIOUS
    <3> QED BY ONLY <1>8, <3>1, d \in Nat DEF Passed
  <2>4. CASE Passed(n, d, k, j)
    <3>1. Has(Goal(m, g, o, b), v, x[b])
      BY <2>1, <2>4
    <3>2. CASE b = i
      BY <1>6, <3>1, <3>2 DEF Lands
    <3>3. CASE b # i
      <4>1. y[b] = x[b]
        BY <1>2, <2>2, <3>3
      <4> QED BY <3>1, <4>1 DEF Lands
    <3> QED BY <3>2, <3>3
  <2>5. CASE ~Passed(n, d, k, j)
    <3>1. v = w /\ b = i
      BY <2>3, <2>5
    <3> HIDE DEF v, h, e
    <3>2. Has(e, v, y[b])
      BY <1>6, <3>1
    <3>3. Goal(m, g, o, b) = e
      BY <3>1 DEF e
    <3> QED BY <3>2, <3>3 DEF Lands, v
  <2> QED BY <2>4, <2>5
<1> HIDE DEF i, h, e
<1> QED BY <1>7, <1>8 DEF OnTheWay, Underway

(* So does its end, at which all its mutations have been made.              *)
LEMMA WayAfterAction ==
    ASSUME NEW m, NEW g, NEW o, NEW acts, Len(acts) \in Nat, NEW n \in 1..Len(acts), NEW d,
           d = Len(SyncWrites(acts[n])),
           NEW x, OnTheWay(m, g, o, acts, n, d, x)
    PROVE  OnTheWay(m, g, o, acts, n + 1, 0, x)
<1>1. ASSUME NEW k \in 1..Len(acts), NEW j \in 1..Len(SyncWrites(acts[k])), Passed(n + 1, 0, k, j)
      PROVE  Passed(n, d, k, j)
  <2>1. k \in Int /\ n \in Int /\ j \in Int /\ 1 <= j
    OBVIOUS
  <2>2. k <= n
    BY ONLY <1>1, <2>1 DEF Passed
  <2>3. k = n => j <= d
    OBVIOUS
  <2> QED BY ONLY <2>1, <2>2, <2>3 DEF Passed
<1> QED BY <1>1 DEF OnTheWay

(* Where an undisturbed process has taken GitHub.                           *)
ConvergingAt(r) ==
    run[r].pc \in {"executing", "completed"} /\ clean[r] /\ Settles(r) =>
        /\ run[r].snapshot \in [Item -> GitHubIssue]
        /\ OnTheWay(run[r].manifest, run[r].snapshot, run[r].plan.opts, Actions(r),
                    run[r].next, run[r].done, remote)
        /\ run[r].pc = "completed" => run[r].next > Len(Actions(r))
Converging == \A r \in Run : ConvergingAt(r)

(* That depends on the process itself, and on GitHub.                       *)
LEMMA ConvergingElsewhere ==
    ASSUME NEW r \in Run, ConvergingAt(r), run'[r] = run[r],
           clean'[r] => clean[r] /\ remote' = remote
    PROVE  ConvergingAt(r)'
BY DEF ConvergingAt, Settles, Actions

(* What is known of a process that has begun.                               *)
LEMMA BegunKnows ==
    ASSUME Composed, TypeOK, AuthInv, Loaded, NEW r \in Run, run[r].pc \in Begun,
           NEW m, m = run[r].manifest, NEW g, g = run[r].snapshot,
           NEW o, o = run[r].plan.opts, NEW acts, acts = Actions(r)
    PROVE  /\ ValidManifest(m) /\ m \in Manifest
           /\ SyncPlannable(m, g, o) /\ Arranged(m, g, o, 7, acts) /\ acts \in Seq(SyncAction)
           /\ run[r].next \in Nat \ {0} /\ run[r].done \in Nat
           /\ Settles(r) => ClosesForGood(m, g, o)
<1>1. run[r].manifest \in Manifest /\ Authorized(run[r])
  BY DEF Loaded, AuthInv, Begun
<1>2. /\ ValidManifest(run[r].manifest)
      /\ Arranged(run[r].manifest, run[r].snapshot, run[r].plan.opts, 7, Actions(r))
      /\ SyncPlannable(run[r].manifest, run[r].snapshot, run[r].plan.opts)
  BY <1>1, AuthorizedPlan
<1>3. IsProcess(run[r]) /\ run[r].pc # "idle"
  BY DEF TypeOK, Begun
<1>4. /\ Actions(r) \in Seq(SyncAction)
      /\ run[r].next \in Nat \ {0} /\ run[r].done \in Nat
  BY <1>3 DEF IsProcess, IsPlan, Composed, Actions
<1>5. Settles(r) => ClosesForGood(run[r].manifest, run[r].snapshot, run[r].plan.opts)
  BY DEF Settles, ClosesForGood
<1> QED BY <1>1, <1>2, <1>4, <1>5

(* What a plan lists aims at the goals of its items.                        *)
LEMMA PlannedAims ==
    ASSUME NEW m, NEW g, NEW o, NEW acts, ValidManifest(m), SyncPlannable(m, g, o),
           ClosesForGood(m, g, o), Arranged(m, g, o, 7, acts), NEW k \in 1..Len(acts)
    PROVE  /\ acts[k].item \in DOMAIN m
           /\ Aims(m, g, o, Goal(m, g, o, acts[k].item), acts[k])
<1>1. acts[k] \in AskedUpTo(m, g, o, 7)
  BY DEF Arranged, Lists
<1>2. PICK n \in 1..7 : \E i \in DOMAIN m : acts[k] \in Asked(m, g, o, n, i)
  BY <1>1 DEF AskedUpTo, AskedOfAll
<1>3. PICK i \in DOMAIN m : acts[k] \in Asked(m, g, o, n, i)
  BY <1>2
<1>4. i \in Item
  BY DEF ValidManifest
<1>5. acts[k].item = i /\ Aims(m, g, o, Goal(m, g, o, i), acts[k])
  BY <1>3, <1>4, AskedAims
<1> QED BY <1>5

(* A mutation of an undisturbed process takes GitHub further.               *)
LEMMA ConvergingLanding ==
    ASSUME Composed, TypeOK, OnGitHub, AuthInv, Loaded, NEW r \in Run, FreshAt(r),
           ConvergingAt(r), Landing(r), clean[r], Settles(r)
    PROVE  OnTheWay(run[r].manifest, run[r].snapshot, run[r].plan.opts, Actions(r),
                    run[r].next, run[r].done + 1, remote')
<1> DEFINE m == run[r].manifest
           g == run[r].snapshot
           o == run[r].plan.opts
           acts == Actions(r)
           n == run[r].next
           d == run[r].done
           a == acts[n]
           w == NextWrite(r)
<1>1. /\ run[r].pc = "executing"
      /\ n \in 1..Len(acts)
      /\ d + 1 \in 1..Len(SyncWrites(a)) /\ w = SyncWrites(a)[d + 1]
      /\ GitHubAccepts(w, remote) /\ remote' = GitHubEffect(w, remote)
  BY LandingIs
<1>2. /\ ValidManifest(m) /\ SyncPlannable(m, g, o) /\ Arranged(m, g, o, 7, acts)
      /\ acts \in Seq(SyncAction) /\ d \in Nat /\ ClosesForGood(m, g, o)
  BY <1>1, BegunKnows DEF Begun
<1>3. g \in [Item -> GitHubIssue] /\ OnTheWay(m, g, o, acts, n, d, remote)
  BY <1>1 DEF ConvergingAt
<1>4. a.kind = "issue.create" => Missing(remote, a.item)
  BY CreatesMissing
<1>5. remote \in [Item -> GitHubIssue]
  BY DEF OnGitHub
<1>6. a = acts[n]
  OBVIOUS
<1>7. OnTheWay(m, g, o, acts, n, d + 1, remote')
  <2> HIDE DEF m, g, o, acts, n, d, a, w
  <2>1. a.item \in DOMAIN m /\ Aims(m, g, o, Goal(m, g, o, a.item), a)
    BY <1>1, <1>2, <1>6, PlannedAims
  <2>2. DOMAIN m \subseteq Item
    BY <1>2 DEF ValidManifest
  <2> DEFINE y == remote'
  <2>3. y = GitHubEffect(w, remote)
    BY <1>1
  <2> HIDE DEF y
  <2>4. OnTheWay(m, g, o, acts, n, d + 1, y)
    BY <1>1, <1>2, <1>3, <1>4, <1>5, <1>6, <2>1, <2>2, <2>3, WayAfterMutation
  <2> QED BY <2>4 DEF y
<1> QED BY <1>7

(* An undisturbed process always converges.                                 *)
LEMMA ConvergesAlways == ASSUME Composed PROVE Spec => []Converging
<1>1. Init => Converging
  BY DEF Init, Converging, ConvergingAt, IdleProcess
<1>2. ASSUME TypeOK, OnGitHub, AuthInv, CleanInv, OrderInv, Loaded, FreshInv, Converging,
             [Next]_vars
      PROVE  Converging'
  <2>1. CASE Paperwork
    <3>1. run' = run /\ remote' = remote /\ clean' = clean
      BY <2>1, PaperworkFrame
    <3> QED BY <1>2, <3>1, ConvergingElsewhere DEF Converging
  <2>2. CASE EditRemote
    <3>1. \A r \in Run : clean'[r] = FALSE
      BY <2>2 DEF EditRemote
    <3> QED BY <3>1 DEF Converging, ConvergingAt
  <2>3. ASSUME NEW r \in Run, Load(r) \/ Fetch(r) PROVE Converging'
    <3>1. /\ \A q \in Run \ {r} : run'[q] = run[q]
          /\ run'[r].pc \in {"loaded", "fetched"} /\ remote' = remote
      BY <1>2, <2>3, LoadEffect, FetchEffect DEF Load, Fetch
    <3>2. \A q \in Run \ {r} : clean'[q] = clean[q]
      BY <1>2, <2>3 DEF Load, Fetch, TypeOK
    <3>3. ConvergingAt(r)'
      BY <3>1 DEF ConvergingAt
    <3>4. \A q \in Run \ {r} : ConvergingAt(q)'
      BY <1>2, <3>1, <3>2, ConvergingElsewhere DEF Converging
    <3> QED BY <3>3, <3>4 DEF Converging
  <2>4. ASSUME NEW r \in Run, Quiet(r) PROVE Converging'
    <3>1. /\ \A q \in Run \ {r} : run'[q] = run[q]
          /\ run'[r].plan = run[r].plan /\ run'[r].snapshot = run[r].snapshot
          /\ run'[r].manifest = run[r].manifest
          /\ remote' = remote /\ clean' = clean
      BY <1>2, <2>4, ProcessFrame
    <3>2. \A q \in Run \ {r} : ConvergingAt(q)'
      BY <1>2, <3>1, ConvergingElsewhere DEF Converging
    <3>3. Actions(r)' = Actions(r) /\ Settles(r)' = Settles(r)
      BY <3>1 DEF Actions, Settles
    <3>4. ConvergingAt(r)'
      <4>1. CASE Start(r)
        <5>1. run[r].pc = "fetched" /\ Authorized(run[r]) /\ run[r].manifest \in Manifest
          BY <1>2, <4>1 DEF Start, Loaded
        <5>2. clean[r] => remote = run[r].snapshot
          BY <1>2, <5>1 DEF CleanInv
        <5>3. /\ DOMAIN run[r].manifest \subseteq Item
              /\ \A i \in Item : run[r].snapshot[i].copies <= 1
              /\ Len(Actions(r)) \in Nat
          BY <5>1, AuthorizedPlan DEF ValidManifest, WellPlanned
        <5>4. /\ run'[r].next = 1 /\ run'[r].done = 0 /\ run'[r].pc = "executing"
          <6>1. run[r].next = 1 /\ run[r].done = 0
            BY <1>2, <5>1 DEF OrderInv, OrderAt, Begun
          <6>2. /\ run'[r].next = run[r].next /\ run'[r].done = run[r].done
                /\ run'[r].pc = "executing"
            BY <1>2, <4>1 DEF Start, Goto, TypeOK, IsProcess
          <6> QED BY <6>1, <6>2
        <5>5. SUFFICES ASSUME clean[r]
                       PROVE  ConvergingAt(r)'
          BY <3>1 DEF ConvergingAt
        <5>6. run[r].snapshot \in [Item -> GitHubIssue] /\ remote = run[r].snapshot
          BY <1>2, <5>2, <5>5 DEF OnGitHub
        <5>7. OnTheWay(run[r].manifest, run[r].snapshot, run[r].plan.opts, Actions(r),
                       1, 0, run[r].snapshot)
          BY <5>3, <5>6, WayAtStart
        <5> QED BY <3>1, <3>3, <5>4, <5>6, <5>7 DEF ConvergingAt
      <4>2. CASE ActionDone(r)
        <5>1. /\ run[r].pc = "executing" /\ run'[r].pc = "executing"
              /\ run'[r].next = run[r].next + 1 /\ run'[r].done = 0
              /\ run[r].next <= Len(Actions(r)) /\ run[r].next \in Nat \ {0}
          BY <1>2, <4>2 DEF ActionDone, Remaining, TypeOK, IsProcess
        <5>2. SUFFICES ASSUME clean[r], Settles(r)
                       PROVE  ConvergingAt(r)'
          BY <3>1, <3>3 DEF ConvergingAt
        <5>3. /\ run[r].snapshot \in [Item -> GitHubIssue]
              /\ OnTheWay(run[r].manifest, run[r].snapshot, run[r].plan.opts, Actions(r),
                          run[r].next, run[r].done, remote)
          BY <1>2, <5>1, <5>2 DEF Converging, ConvergingAt
        <5>4. Len(Actions(r)) \in Nat
          <6>1. IsProcess(run[r])
            BY <1>2 DEF TypeOK
          <6> QED BY <5>1, <6>1 DEF IsProcess, IsPlan, Actions
        <5>5. run[r].done = Len(SyncWrites(Actions(r)[run[r].next]))
          BY <1>2, <4>2 DEF ActionDone, CurrentWrites, Composed
        <5>6. run[r].next \in 1..Len(Actions(r))
          BY <5>1, <5>4
        <5>7. OnTheWay(run[r].manifest, run[r].snapshot, run[r].plan.opts, Actions(r),
                       run[r].next + 1, 0, remote)
          BY <5>3, <5>4, <5>5, <5>6, WayAfterAction
        <5> QED BY <3>1, <3>3, <5>1, <5>3, <5>7 DEF ConvergingAt
      <4>3. CASE Complete(r)
        <5>1. /\ run[r].pc = "executing" /\ run'[r].pc = "completed"
              /\ run'[r].next = run[r].next /\ run'[r].done = run[r].done
              /\ run[r].next > Len(Actions(r))
          BY <1>2, <4>3 DEF Complete, Goto, TypeOK, IsProcess
        <5> QED BY <1>2, <3>1, <3>3, <5>1 DEF Converging, ConvergingAt
      <4>4. CASE ~Start(r) /\ ~ActionDone(r) /\ ~Complete(r)
        <5>1. ASSUME NEW pc, Goto(r, pc) PROVE run'[r].pc = pc
          BY <1>2, <5>1 DEF Goto, TypeOK, IsProcess
        <5>2. run'[r].pc \in {"refused", "failing", "failed", "verified", "crashed"}
          BY <2>4, <4>4, <5>1 DEF Quiet, Refuse, WriteRejected, WriteFails,
             JournalFailure, RecordVerification, ReceiptLost, Crash
        <5> QED BY <5>2 DEF ConvergingAt
      <4> QED BY <4>1, <4>2, <4>3, <4>4
    <3> QED BY <3>2, <3>4 DEF Converging
  <2>5. ASSUME NEW r \in Run, Landing(r) PROVE Converging'
    <3>1. /\ \A q \in Run \ {r} : run'[q] = run[q]
          /\ run'[r].plan = run[r].plan /\ run'[r].manifest = run[r].manifest
          /\ run'[r].snapshot = run[r].snapshot
      BY <1>2, <2>5, ProcessFrame
    <3>2. \A q \in Run : clean'[q] => clean[q] /\ (q # r => remote' = remote)
      BY <2>5 DEF Landing, Write, WriteUnanswered, Land
    <3>3. \A q \in Run \ {r} : ConvergingAt(q)'
      BY <1>2, <3>1, <3>2, ConvergingElsewhere DEF Converging
    <3>4. ConvergingAt(r)'
      <4>1. CASE Write(r)
        <5>1. /\ run'[r].next = run[r].next /\ run'[r].done = run[r].done + 1
              /\ run'[r].pc = "executing" /\ run[r].pc = "executing"
          BY <1>2, <4>1 DEF Write, Pending, Remaining, TypeOK, IsProcess
        <5>2. Actions(r)' = Actions(r) /\ Settles(r)' = Settles(r)
          BY <3>1 DEF Actions, Settles
        <5>3. SUFFICES ASSUME clean[r], Settles(r)
                       PROVE  ConvergingAt(r)'
          BY <3>2, <5>2 DEF ConvergingAt
        <5>4. run[r].snapshot \in [Item -> GitHubIssue]
          BY <1>2, <5>1, <5>3 DEF Converging, ConvergingAt
        <5>5. OnTheWay(run[r].manifest, run[r].snapshot, run[r].plan.opts, Actions(r),
                       run[r].next, run[r].done + 1, remote')
          BY <1>2, <2>5, <5>3, ConvergingLanding DEF FreshInv, Converging
        <5> QED BY <3>1, <5>1, <5>2, <5>4, <5>5 DEF ConvergingAt
      <4>2. CASE WriteUnanswered(r)
        <5>1. run'[r].pc = "failing"
          BY <1>2, <4>2 DEF WriteUnanswered, Goto, TypeOK, IsProcess
        <5> QED BY <5>1 DEF ConvergingAt
      <4> QED BY <2>5, <4>1, <4>2 DEF Landing
    <3> QED BY <3>3, <3>4 DEF Converging
  <2> QED BY <1>2, <2>1, <2>2, <2>3, <2>4, <2>5, StepKinds
<1> QED BY <1>1, <1>2, TypeCorrect, GitHubAlways, AuthAlways, CleanAlways, OrderAlways,
           LoadedAlways, FreshAlways, PTL DEF Spec

(* x is somewhere in the list.                                              *)
Holds(s, x) == \E j \in 1..Len(s) : s[j] = x

(* What is done when a test holds is there.                                 *)
LEMMA WhenHolds ==
    ASSUME NEW test, NEW x, NEW T, x \in T
    PROVE  When(test, x) \in Seq(T) /\ (test => Holds(When(test, x), x))
<1>1. CASE test
  <2>1. When(test, x) = <<x>>
    BY <1>1 DEF When
  <2>2. <<x>> \in Seq(T) /\ Len(<<x>>) = 1 /\ <<x>>[1] = x /\ 1 \in 1..1
    OBVIOUS
  <2> QED BY <2>1, <2>2 DEF Holds
<1>2. CASE ~test
  <2>1. When(test, x) = <<>>
    BY <1>2 DEF When
  <2> QED BY <1>2, <2>1
<1> QED BY <1>1, <1>2

(* It is there still when more is done before or after it.                 *)
LEMMA HoldsAmong ==
    ASSUME NEW T, NEW s \in Seq(T), NEW t \in Seq(T), NEW x
    PROVE  Holds(s, x) \/ Holds(t, x) => Holds(s \o t, x)
<1>1. ASSUME NEW j \in 1..Len(s), s[j] = x PROVE Holds(s \o t, x)
  <2>1. j \in 1..Len(s \o t) /\ (s \o t)[j] = x
    BY <1>1
  <2> QED BY <2>1 DEF Holds
<1>2. ASSUME NEW j \in 1..Len(t), t[j] = x PROVE Holds(s \o t, x)
  <2>1. Len(s) + j \in 1..Len(s \o t) /\ (s \o t)[Len(s) + j] = x
    BY <1>2
  <2> QED BY <2>1 DEF Holds
<1> QED BY <1>1, <1>2 DEF Holds

(* Each field an action names is written.                                   *)
LEMMA FieldIsWritten ==
    ASSUME NEW i, NEW fields, NEW f \in DOMAIN fields \cap {"Impact", "Priority", "Status"}
    PROVE  Holds(FieldWrites(i, fields), FieldWrite(i, f, fields[f]))
<1> DEFINE w(h) == FieldWrite(i, h, fields[h])
           T == {w("Impact"), w("Priority"), w("Status")}
           set(h) == When(h \in DOMAIN fields, w(h))
           s1 == set("Impact")
           s2 == set("Priority")
           s3 == set("Status")
<1>1. FieldWrites(i, fields) = (s1 \o s2) \o s3
  BY DEF FieldWrites, FieldWrite
<1>2. ASSUME NEW h \in {"Impact", "Priority", "Status"}
      PROVE  set(h) \in Seq(T) /\ (h \in DOMAIN fields => Holds(set(h), w(h)))
  <2>1. w(h) \in T
    OBVIOUS
  <2> DEFINE x == w(h)
  <2>2. x \in T /\ set(h) = When(h \in DOMAIN fields, x)
    BY <2>1
  <2> HIDE DEF T, x
  <2>3. When(h \in DOMAIN fields, x) \in Seq(T)
        /\ (h \in DOMAIN fields => Holds(When(h \in DOMAIN fields, x), x))
    BY <2>2, WhenHolds
  <2> QED BY <2>2, <2>3 DEF x
<1>3. /\ s1 \in Seq(T) /\ s2 \in Seq(T) /\ s3 \in Seq(T)
      /\ f = "Impact" => Holds(s1, w(f))
      /\ f = "Priority" => Holds(s2, w(f))
      /\ f = "Status" => Holds(s3, w(f))
  <2> HIDE DEF T, set, w
  <2> QED BY <1>2
<1> DEFINE x == w(f)
<1>4. x = FieldWrite(i, f, fields[f])
  OBVIOUS
<1> HIDE DEF T, set, w, s1, s2, s3, x
<1>5. s1 \o s2 \in Seq(T)
  BY <1>3
<1>6. Holds(s1, x) \/ Holds(s2, x) \/ Holds(s3, x)
  BY <1>3 DEF x
<1>7. Holds(s1 \o s2, x) \/ Holds(s3, x)
  BY <1>3, <1>6, HoldsAmong
<1>8. Holds((s1 \o s2) \o s3, x)
  BY <1>3, <1>5, <1>7, HoldsAmong
<1> QED BY <1>1, <1>4, <1>8

(* What an action issues: itself, or its opening mutation, and its fields.  *)
Issues(a, w) == Holds(SyncWrites(a), w)

(* Every action issues them all.                                            *)
LEMMA IssuesAll ==
    ASSUME NEW a \in SyncAction
    PROVE  /\ a.kind \in {"issue.create", "issue.update", "issue.set_parent",
              "issue.remove_parent", "issue.add_dependency", "issue.remove_dependency"}
              => Issues(a, a)
           /\ a.kind = "project.add_item" => Issues(a, Act("add", a.item, <<>>))
           /\ a.kind = "issue.close_parent" => Issues(a, Act("close", a.item, <<>>))
           /\ a.kind \in {"project.add_item", "project.set_fields", "project.transition",
                          "issue.close_parent"} =>
                 \A f \in DOMAIN a.arg.fields \cap {"Impact", "Priority", "Status"} :
                    Issues(a, FieldWrite(a.item, f, a.arg.fields[f]))
<1> DEFINE fw == FieldWrites(a.item, a.arg.fields)
           T == {FieldWrite(a.item, f, a.arg.fields[f]) :
                    f \in DOMAIN a.arg.fields \cap {"Impact", "Priority", "Status"}}
<1>0. fw \in Seq(T)
  BY FieldWritesAre
<1>1. \A f \in DOMAIN a.arg.fields \cap {"Impact", "Priority", "Status"} :
         Holds(fw, FieldWrite(a.item, f, a.arg.fields[f]))
  BY FieldIsWritten
<1> HIDE DEF fw, T
<1>a. ASSUME NEW s, SyncWrites(a) = <<s>> \o fw
      PROVE  Issues(a, s) /\ \A w : Holds(fw, w) => Issues(a, w)
  <2> DEFINE V == T \cup {s}
  <2>1. <<s>> \in Seq(V) /\ fw \in Seq(V)
    BY <1>0
  <2>2. Holds(<<s>>, s)
    <3>1. Len(<<s>>) = 1 /\ <<s>>[1] = s /\ 1 \in 1..1
      OBVIOUS
    <3> QED BY <3>1 DEF Holds
  <2> HIDE DEF V
  <2> QED BY <1>a, <2>1, <2>2, HoldsAmong DEF Issues
<1>2. CASE a.kind = "project.add_item"
  <2>1. SyncWrites(a) = <<Act("add", a.item, <<>>)>> \o fw
    BY <1>2 DEF SyncWrites, fw
  <2> QED BY <1>1, <1>2, <1>a, <2>1
<1>3. CASE a.kind = "issue.close_parent"
  <2>1. SyncWrites(a) = <<Act("close", a.item, <<>>)>> \o fw
    BY <1>3 DEF SyncWrites, fw
  <2> QED BY <1>1, <1>3, <1>a, <2>1
<1>4. CASE a.kind \in {"project.set_fields", "project.transition"}
  <2>1. SyncWrites(a) = fw
    BY <1>4 DEF SyncWrites, fw
  <2> QED BY <1>1, <1>4, <2>1 DEF Issues
<1>5. CASE a.kind \in {"issue.create", "issue.update", "issue.set_parent",
              "issue.remove_parent", "issue.add_dependency", "issue.remove_dependency"}
  <2>1. SyncWrites(a) = <<a>>
    BY <1>5 DEF SyncWrites
  <2>2. Len(<<a>>) = 1 /\ <<a>>[1] = a /\ 1 \in 1..1
    OBVIOUS
  <2> QED BY <1>5, <2>1, <2>2 DEF Issues, Holds
<1>6. a.kind \in {"issue.create", "issue.update", "issue.set_parent",
              "issue.remove_parent", "issue.add_dependency", "issue.remove_dependency",
              "project.set_fields", "project.transition", "issue.close_parent", "project.add_item"}
  BY DEF SyncAction
<1> QED BY <1>2, <1>3, <1>4, <1>5, <1>6

(* Every mutation of every action has had its effect on its issue.          *)
Landed(m, g, o, acts, x) ==
    \A k \in 1..Len(acts) : \A j \in 1..Len(SyncWrites(acts[k])) : Lands(m, g, o, acts, k, j, x)

(* Then an issue has arrived in whatever its plan asks of it.               *)
LEMMA AskedHasLanded ==
    ASSUME NEW m, ValidManifest(m), NEW g, NEW o, SyncPlannable(m, g, o), ClosesForGood(m, g, o),
           NEW acts \in Seq(SyncAction), Arranged(m, g, o, 7, acts),
           NEW x, Landed(m, g, o, acts, x),
           NEW n \in 1..7, NEW i \in DOMAIN m, NEW a \in Asked(m, g, o, n, i),
           NEW e, e = Goal(m, g, o, i)
    PROVE  a \in SyncAction /\ a.item = i /\ \A w : Issues(a, w) => Has(e, w, x[i])
<1>1. PICK k \in 1..Len(acts) : acts[k] = a
  BY AskedIsPlanned
<1>2. a \in SyncAction
  BY <1>1
<1>3. i \in Item
  BY DEF ValidManifest
<1>4. a.item = i
  BY <1>3, AskedAims
<1>5. ASSUME NEW w, Issues(a, w) PROVE Has(e, w, x[i])
  <2>1. PICK j \in 1..Len(SyncWrites(acts[k])) : SyncWrites(acts[k])[j] = w
    BY <1>1, <1>5 DEF Issues, Holds
  <2>2. Lands(m, g, o, acts, k, j, x)
    BY <2>1 DEF Landed
  <2> QED BY <1>1, <1>4, <2>1, <2>2 DEF Lands
<1> QED BY <1>2, <1>4, <1>5

(* An issue is at its goal.                                                 *)
AtGoal(m, g, o, x, i) ==
    /\ x[i].copies = 1
    /\ \A s \in Slot : x[i][s] = Goal(m, g, o, i)[s]
    /\ x[i].deps = Goal(m, g, o, i).deps

(* A plan that has landed whole has taken every issue to its goal.          *)
LEMMA LandedIsAtGoal ==
    ASSUME NEW m, ValidManifest(m), NEW g \in [Item -> GitHubIssue], NEW o,
           SyncPlannable(m, g, o), ClosesForGood(m, g, o),
           NEW acts \in Seq(SyncAction), Arranged(m, g, o, 7, acts),
           NEW x, Underway(m, g, o, x), Landed(m, g, o, acts, x), NEW i \in DOMAIN m
    PROVE  AtGoal(m, g, o, x, i)
<1> DEFINE h == Had(m, g, i)
           e == Goal(m, g, o, i)
           y == x[i]
<1>1. ASSUME NEW n \in 1..7, NEW a \in Asked(m, g, o, n, i)
      PROVE  a \in SyncAction /\ a.item = i /\ \A w : Issues(a, w) => Has(e, w, y)
  BY AskedHasLanded
<1>i. i \in Item /\ g[i] \in GitHubIssue
  BY DEF ValidManifest
<1>e. /\ e.text = IF Missing(g, i) THEN FreshIssue(m[i].text)
                  ELSE PlannedIssue(m[i].text, g[i].text, o.manage, i \in o.overwrite)
      /\ e.member = TRUE
      /\ e.impact = m[i].impact /\ e.priority = Priorities(m, g, o)[i]
      /\ e.status = GoalStatus(m, g, o, i)
      /\ e.open = (i \notin CompletedParents(m, g) /\ h.open)
      /\ e.parent = IF m[i].parent = NoItem /\ h.parent \in DOMAIN m THEN NoItem
                    ELSE IF m[i].parent = NoItem THEN h.parent ELSE m[i].parent
      /\ e.deps = (h.deps \ (DOMAIN m \ m[i].deps)) \cup m[i].deps
  BY DEF Goal
<1>h. /\ Missing(g, i) => h = NewIssue(FreshIssue(m[i].text))
      /\ ~Missing(g, i) => h = g[i] /\ h \in Existing
  <2>1. ~Missing(g, i) => g[i] \in Existing
    BY <1>i DEF Missing, GitHubIssue, NoIssue, Existing
  <2> QED BY <2>1 DEF Had
<1>n. NewIssue(FreshIssue(m[i].text)) =
        [copies |-> 1, text |-> FreshIssue(m[i].text), open |-> TRUE, member |-> FALSE,
         status |-> Unset, impact |-> 0, priority |-> 0, parent |-> NoItem, deps |-> {}]
  BY DEF NewIssue
<1> HIDE DEF h, e, y
<1>b. h.open \in BOOLEAN /\ h.member \in BOOLEAN
  <2>1. CASE Missing(g, i)
    <3>1. h.open = TRUE /\ h.member = FALSE
      BY <1>h, <1>n, <2>1
    <3> QED BY <3>1
  <2>2. CASE ~Missing(g, i)
    <3>1. h \in Existing
      BY <1>h, <2>2
    <3> QED BY <3>1 DEF Existing
  <2> QED BY <2>1, <2>2
<1>2. Between(h, e, y)
  <2>1. ASSUME Missing(g, i) PROVE y.copies # 0
    <3>1. CreateOf(m, i) \in Asked(m, g, o, 1, i) /\ CreateOf(m, i).kind = "issue.create"
      BY <2>1 DEF Asked, CreateOf, Act
    <3>2. Has(e, CreateOf(m, i), y)
      BY <1>1, <3>1, IssuesAll
    <3> QED BY <3>2 DEF Has
  <2> QED BY <2>1 DEF Underway, Missing, h, e, y
<1>3. ASSUME NEW s \in Slot, h[s] = e[s] PROVE y[s] = e[s]
  BY <1>2, <1>3 DEF Between
<1>4. ASSUME NEW n \in 1..7, NEW a \in Asked(m, g, o, n, i), NEW s \in Slot, NEW w,
             Issues(a, w), SlotOf(w) = s
      PROVE  y[s] = e[s]
  BY <1>1, <1>4 DEF Has
<1>5. ASSUME NEW n \in 1..7, NEW a \in Asked(m, g, o, n, i), NEW f \in {"Impact", "Priority", "Status"},
             a.kind \in {"project.add_item", "project.set_fields", "project.transition",
                          "issue.close_parent"}, f \in DOMAIN a.arg.fields
      PROVE  y[FieldSlot(f)] = e[FieldSlot(f)]
  <2> DEFINE w == FieldWrite(a.item, f, a.arg.fields[f])
  <2>1. Issues(a, w)
    BY <1>1, <1>5, IssuesAll
  <2>2. SlotOf(w) = FieldSlot(f) /\ FieldSlot(f) \in Slot
    BY <1>5 DEF FieldWrite, Act, SlotOf, FieldSlot, Slot
  <2> HIDE DEF w
  <2> QED BY <1>4, <2>1, <2>2
<1>f. FieldSlot("Impact") = "impact" /\ FieldSlot("Priority") = "priority" /\ FieldSlot("Status") = "status"
  BY DEF FieldSlot
<1>6. y.text = e.text
  <2>1. CASE Missing(g, i)
    BY <1>3, <1>e, <1>h, <1>n, <2>1 DEF Slot
  <2>2. CASE ~Missing(g, i) /\ TextChanges(m[i].text, g[i].text, o.manage, i \in o.overwrite)
    <3> DEFINE a == UpdateOf(m, g, o, i)
    <3>1. a \in Asked(m, g, o, 2, i) /\ a.kind = "issue.update"
      BY <2>2 DEF Asked, UpdateOf, Act
    <3>2. SlotOf(a) = "text"
      BY <3>1 DEF SlotOf
    <3> HIDE DEF a
    <3>3. Issues(a, a)
      BY <1>1, <3>1, IssuesAll
    <3> QED BY <1>4, <3>1, <3>2, <3>3 DEF Slot
  <2>3. CASE ~Missing(g, i) /\ ~TextChanges(m[i].text, g[i].text, o.manage, i \in o.overwrite)
    BY <1>3, <1>e, <1>h, <2>3 DEF Slot, TextChanges
  <2> QED BY <2>1, <2>2, <2>3
<1>7. y.open = e.open
  <2>1. CASE i \in CompletedParents(m, g)
    <3> DEFINE a == CloseOf(g, i)
               w == Act("close", i, <<>>)
    <3>1. a \in Asked(m, g, o, 7, i) /\ a.kind = "issue.close_parent" /\ a.item = i
      BY <2>1 DEF Asked, CloseOf, Act
    <3>2. SlotOf(w) = "open"
      BY DEF SlotOf, Act
    <3> HIDE DEF a
    <3>3. Issues(a, w)
      BY <1>1, <3>1, IssuesAll
    <3> HIDE DEF w
    <3> QED BY <1>4, <3>1, <3>2, <3>3 DEF Slot
  <2>2. CASE i \notin CompletedParents(m, g)
    <3>2. e.open = h.open
      BY <1>b, <1>e, <2>2
    <3> QED BY <1>3, <3>2 DEF Slot
  <2> QED BY <2>1, <2>2
<1>8. ASSUME ~Member(g, i)
      PROVE  /\ y.member = e.member /\ y.impact = e.impact
             /\ y.priority = e.priority /\ y.status = e.status
  <2> DEFINE a == AddOf(m, g, o, i)
             w == Act("add", i, <<>>)
  <2>1. /\ a \in Asked(m, g, o, 3, i) /\ a.kind = "project.add_item" /\ a.item = i
        /\ DOMAIN a.arg.fields = {"Impact", "Priority", "Status"}
    BY <1>8 DEF Asked, AddOf, Act
  <2>2. SlotOf(w) = "member"
    BY DEF SlotOf, Act
  <2> HIDE DEF a
  <2>3. Issues(a, w)
    BY <1>1, <2>1, IssuesAll
  <2> HIDE DEF w
  <2>4. y.member = e.member
    BY <1>4, <2>1, <2>2, <2>3 DEF Slot
  <2>5. y.impact = e.impact /\ y.priority = e.priority /\ y.status = e.status
    BY <1>5, <1>f, <2>1
  <2> QED BY <2>4, <2>5
<1>9. ASSUME Member(g, i)
      PROVE  /\ y.member = e.member /\ y.impact = e.impact
             /\ y.priority = e.priority /\ y.status = e.status
  <2>1. h = g[i] /\ ~Missing(g, i) /\ h.member = TRUE
    BY <1>9, <1>b, <1>h DEF Member
  <2>2. y.member = e.member
    BY <1>3, <1>e, <2>1 DEF Slot
  <2> DEFINE a == SetOf(m, g, o, i)
             want == [Impact |-> m[i].impact, Priority |-> Priorities(m, g, o)[i]]
  <2>3. /\ a.kind = "project.set_fields"
        /\ "Impact" \in DOMAIN a.arg.fields <=> h.impact # e.impact
        /\ "Priority" \in DOMAIN a.arg.fields <=> h.priority # e.priority
    <3>1. a.kind = "project.set_fields" /\ a.arg.fields = Changed(m, g, o, i)
      BY DEF SetOf, Act
    <3>2. Changed(m, g, o, i) = Differing(want, Fields(h))
      BY <2>1 DEF Changed
    <3>3. /\ DOMAIN want = {"Impact", "Priority"}
          /\ want["Impact"] = e.impact /\ want["Priority"] = e.priority
      BY <1>e
    <3>4. Fields(h)["Impact"] = h.impact /\ Fields(h)["Priority"] = h.priority
      BY DEF Fields
    <3> HIDE DEF want
    <3>5. \A f : f \in DOMAIN Differing(want, Fields(h)) <=> f \in DOMAIN want /\ want[f] # Fields(h)[f]
      BY DEF Differing
    <3> HIDE DEF a
    <3> QED BY <3>1, <3>2, <3>3, <3>4, <3>5
  <2>4. DOMAIN a.arg.fields # {} => a \in Asked(m, g, o, 3, i)
    BY <1>9 DEF Asked, SetOf, Act
  <2> HIDE DEF a
  <2>5. y.impact = e.impact
    <3>1. CASE h.impact = e.impact
      BY <1>3, <3>1 DEF Slot
    <3>2. CASE h.impact # e.impact
      BY <1>5, <1>f, <2>3, <2>4, <3>2
    <3> QED BY <3>1, <3>2
  <2>6. y.priority = e.priority
    <3>1. CASE h.priority = e.priority
      BY <1>3, <3>1 DEF Slot
    <3>2. CASE h.priority # e.priority
      BY <1>5, <1>f, <2>3, <2>4, <3>2
    <3> QED BY <3>1, <3>2
  <2>7. y.status = e.status
    <3>1. CASE h.status = e.status
      BY <1>3, <3>1 DEF Slot
    <3>2. CASE h.status # e.status /\ i \in CompletedParents(m, g)
      <4> DEFINE b == CloseOf(g, i)
      <4>1. e.status = Done
        BY <1>9, <1>e, <3>2 DEF GoalStatus
      <4>2. b.kind = "issue.close_parent" /\ b.arg.fields = [Status |-> Done]
        BY <1>9, <2>1, <3>2, <4>1 DEF CloseOf, Act, Member
      <4>3. b \in Asked(m, g, o, 7, i)
        BY <3>2 DEF Asked
      <4> HIDE DEF b
      <4>4. "Status" \in DOMAIN b.arg.fields
        BY <4>2
      <4> QED BY <1>5, <1>f, <4>2, <4>3, <4>4
    <3>3. CASE h.status # e.status /\ i \notin CompletedParents(m, g)
      <4> DEFINE b == MoveOf(o, i)
      <4>1. i \in DOMAIN o.transitions /\ e.status = o.transitions[i]
        BY <1>9, <1>e, <2>1, <3>3 DEF GoalStatus
      <4>2. b.kind = "project.transition" /\ b.arg.fields = [Status |-> o.transitions[i]]
        BY DEF MoveOf, Act
      <4>3. b \in Asked(m, g, o, 4, i)
        BY <2>1, <3>3, <4>1 DEF Asked
      <4> HIDE DEF b
      <4>4. "Status" \in DOMAIN b.arg.fields
        BY <4>2
      <4> QED BY <1>5, <1>f, <4>2, <4>3, <4>4
    <3> QED BY <3>1, <3>2, <3>3
  <2> QED BY <2>2, <2>5, <2>6, <2>7
<1>10. y.parent = e.parent
  <2>0. DOMAIN m \subseteq Item /\ NoItem \notin Item
    BY ItemType DEF ValidManifest
  <2>1. CASE h.parent = e.parent
    BY <1>3, <2>1 DEF Slot
  <2>2. CASE h.parent # e.parent /\ m[i].parent = NoItem
    <3>1. h.parent \in DOMAIN m
      BY <1>e, <2>2
    <3>2. ~Missing(g, i) /\ h = g[i]
      BY <1>h, <1>n, <2>0, <3>1
    <3> DEFINE a == DetachOf(g, i)
    <3>3. a \in Asked(m, g, o, 5, i) /\ a.kind = "issue.remove_parent"
      BY <2>2, <3>1, <3>2 DEF Asked, DetachOf, Act
    <3>4. SlotOf(a) = "parent"
      BY <3>3 DEF SlotOf
    <3> HIDE DEF a
    <3>5. Issues(a, a)
      BY <1>1, <3>3, IssuesAll
    <3> QED BY <1>4, <3>3, <3>4, <3>5 DEF Slot
  <2>3. CASE h.parent # e.parent /\ m[i].parent # NoItem
    <3>1. ParentIn(g, i) = h.parent
      BY <1>h, <1>n DEF ParentIn
    <3> DEFINE a == AttachOf(m, i)
    <3>2. a \in Asked(m, g, o, 6, i) /\ a.kind = "issue.set_parent"
      BY <1>e, <2>3, <3>1 DEF Asked, AttachOf, Act
    <3>3. SlotOf(a) = "parent"
      BY <3>2 DEF SlotOf
    <3> HIDE DEF a
    <3>4. Issues(a, a)
      BY <1>1, <3>2, IssuesAll
    <3> QED BY <1>4, <3>2, <3>3, <3>4 DEF Slot
  <2> QED BY <2>1, <2>2, <2>3
<1>11. ASSUME NEW n \in 1..7, NEW a \in Asked(m, g, o, n, i), IsLink(a)
       PROVE  a.arg.to \in y.deps <=> a.arg.to \in e.deps
  <2>1. Issues(a, a)
    BY <1>1, <1>11, IssuesAll DEF IsLink
  <2> QED BY <1>1, <2>1, <1>11 DEF Has
<1>12. y.deps = e.deps
  <2>1. ASSUME NEW d, d \in h.deps, d \notin e.deps PROVE d \notin y.deps
    <3>1. d \in DOMAIN m \ m[i].deps
      BY <1>e, <2>1
    <3>2. ~Missing(g, i) /\ h = g[i]
      BY <1>h, <1>n, <2>1
    <3> DEFINE a == DropOf(i, d)
    <3>3. a \in Asked(m, g, o, 5, i)
      BY <2>1, <3>1, <3>2 DEF Asked, Unwanted
    <3>4. IsLink(a) /\ a.arg.to = d
      BY DEF DropOf, Act, IsLink
    <3> HIDE DEF a
    <3> QED BY <1>11, <2>1, <3>3, <3>4
  <2>2. ASSUME NEW d, d \notin h.deps, d \in e.deps PROVE d \in y.deps
    <3>1. d \in m[i].deps
      BY <1>e, <2>2
    <3>2. d \notin DepsIn(g, i)
      BY <1>h, <2>2 DEF DepsIn
    <3> DEFINE a == NeedOf(i, d)
    <3>3. a \in Asked(m, g, o, 6, i)
      BY <3>1, <3>2 DEF Asked
    <3>4. IsLink(a) /\ a.arg.to = d
      BY DEF NeedOf, Act, IsLink
    <3> HIDE DEF a
    <3> QED BY <1>11, <2>2, <3>3, <3>4
  <2>3. y.deps \subseteq h.deps \cup e.deps /\ h.deps \cap e.deps \subseteq y.deps
    BY <1>2 DEF Between
  <2> QED BY <2>1, <2>2, <2>3
<1>13. y.copies = 1
  BY <1>2 DEF Between
<1>14. \A s \in Slot : y[s] = e[s]
  BY <1>6, <1>7, <1>8, <1>9, <1>10 DEF Slot
<1> QED BY <1>12, <1>13, <1>14 DEF AtGoal, e, y

-----------------------------------------------------------------------------
(* At its goal an issue has nothing left to plan.                           *)

(* Planning is idempotent on the text, here without a type for the mode.    *)
LEMMA TextIsSettled ==
    ASSUME NEW d \in Desired, NEW t \in Issue, NEW manage, NEW overwrite
    PROVE  /\ ~TextChanges(d, FreshIssue(d), manage, FALSE)
           /\ ~TextChanges(d, PlannedIssue(d, t, manage, overwrite), manage, FALSE)
<1>0. d.title # NoDigest /\ d.body # NoDigest /\ t.body # NoDigest
      /\ WithMarker(t.body, d) # NoDigest /\ WithMarker(d.body, d) = d.body
  BY NoDigestIsNoText DEF Desired, Body, Issue, WithMarker
<1>1. ~TextChanges(d, FreshIssue(d), manage, FALSE)
  <2>1. CASE manage
    BY <1>0, <2>1 DEF TextChanges, PlannedIssue, FreshIssue, HeldFields, TitleHeld, BodyHeld
  <2>2. CASE ~manage
    BY <1>0, <2>2 DEF TextChanges, PlannedIssue, FreshIssue, HeldFields, TitleHeld, BodyHeld
  <2> QED BY <2>1, <2>2
<1>2. ~TextChanges(d, PlannedIssue(d, t, manage, overwrite), manage, FALSE)
  <2>1. WithMarker(WithMarker(t.body, d), d) = WithMarker(t.body, d)
    BY DEF WithMarker, Desired, Issue, Body
  <2>2. CASE manage
    BY <1>0, <2>1, <2>2 DEF TextChanges, PlannedIssue, HeldFields, TitleHeld, BodyHeld
  <2>3. CASE ~manage
    BY <1>0, <2>1, <2>3 DEF TextChanges, PlannedIssue, HeldFields, TitleHeld, BodyHeld
  <2> QED BY <2>2, <2>3
<1> QED BY <1>1, <1>2

(* The options of the plan that would follow.                               *)
Following(o) == [manage |-> o.manage, transitions |-> o.transitions, overwrite |-> {}]

(* An issue at its goal is in the Project, with the Status of its goal.     *)
LEMMA AtGoalIsMember ==
    ASSUME NEW m, NEW g, NEW o, NEW x, NEW i, AtGoal(m, g, o, x, i)
    PROVE  Member(x, i) /\ x[i].status = GoalStatus(m, g, o, i)
<1> DEFINE e == Goal(m, g, o, i)
<1>1. e.member = TRUE /\ e.status = GoalStatus(m, g, o, i)
  BY DEF Goal
<1> HIDE DEF e
<1>2. x[i].copies = 1 /\ x[i].member = e.member /\ x[i].status = e.status
  BY DEF AtGoal, Slot, e
<1> QED BY <1>1, <1>2 DEF Member, Missing

(* The statuses intended for the next plan are those of the last.           *)
LEMMA SameIntended ==
    ASSUME NEW m, NEW g, NEW o, SyncPlannable(m, g, o), ClosesForGood(m, g, o),
           NEW x, NEW i \in DOMAIN m, AtGoal(m, g, o, x, i), CompletedParents(m, x) = {}
    PROVE  IntendedStatus(m, x, Following(o), i) = IntendedStatus(m, g, o, i)
<1>1. Member(x, i) /\ x[i].status = GoalStatus(m, g, o, i)
  BY AtGoalIsMember
<1>2. IntendedStatus(m, x, Following(o), i) =
        IF i \in DOMAIN o.transitions THEN o.transitions[i]
        ELSE IF GoalStatus(m, g, o, i) \in Status THEN GoalStatus(m, g, o, i) ELSE m[i].status
  BY <1>1 DEF IntendedStatus, ObservedStatus, Following
<1>3. i \in CompletedParents(m, g) => Member(g, i) /\ i \notin DOMAIN o.transitions
  BY DEF ClosesForGood
<1>4. CASE i \in DOMAIN o.transitions
  BY <1>2, <1>3, <1>4 DEF IntendedStatus
<1>5. CASE i \notin DOMAIN o.transitions /\ i \in CompletedParents(m, g)
  BY <1>2, <1>3, <1>5, DoneType DEF IntendedStatus, GoalStatus
<1>6. CASE i \notin DOMAIN o.transitions /\ i \notin CompletedParents(m, g)
  <2>1. IntendedStatus(m, g, o, i) = ObservedStatus(m, g, i)
    BY <1>6 DEF IntendedStatus
  <2>2. CASE ~Member(g, i)
    BY <1>2, <1>6, <2>1, <2>2 DEF GoalStatus, ObservedStatus
  <2>3. CASE Member(g, i)
    BY <1>2, <1>6, <2>1, <2>3 DEF GoalStatus, ObservedStatus
  <2> QED BY <2>2, <2>3
<1> QED BY <1>4, <1>5, <1>6

(* So are the Priorities.                                                   *)
LEMMA SamePriorities ==
    ASSUME NEW m, NEW g, NEW o, SyncPlannable(m, g, o), ClosesForGood(m, g, o),
           NEW x, \A i \in DOMAIN m : AtGoal(m, g, o, x, i), CompletedParents(m, x) = {}
    PROVE  Priorities(m, x, Following(o)) = Priorities(m, g, o)
<1>1. [i \in DOMAIN m |-> IntendedStatus(m, x, Following(o), i)]
         = [i \in DOMAIN m |-> IntendedStatus(m, g, o, i)]
  BY SameIntended
<1> QED BY <1>1 DEF Priorities

(* Nothing is asked of an issue at its goal.                                *)
LEMMA NothingIsAsked ==
    ASSUME NEW m, ValidManifest(m), NEW g \in [Item -> GitHubIssue], NEW o,
           SyncPlannable(m, g, o), ClosesForGood(m, g, o),
           NEW x, \A j \in DOMAIN m : AtGoal(m, g, o, x, j), CompletedParents(m, x) = {},
           NEW i \in DOMAIN m, m[i].text \in Desired, NEW n \in 1..7
    PROVE  Asked(m, x, Following(o), n, i) = {}
<1> DEFINE q == Following(o)
           h == Had(m, g, i)
           e == Goal(m, g, o, i)
           y == x[i]
<1>0. q.transitions = o.transitions /\ q.manage = o.manage /\ i \notin q.overwrite
  BY DEF Following
<1>p. Priorities(m, x, q) = Priorities(m, g, o)
  BY SamePriorities
<1>i. i \in Item /\ g[i] \in GitHubIssue /\ DOMAIN m \subseteq Item /\ NoItem \notin Item
  BY ItemType DEF ValidManifest
<1>e. /\ e.text = IF Missing(g, i) THEN FreshIssue(m[i].text)
                  ELSE PlannedIssue(m[i].text, g[i].text, o.manage, i \in o.overwrite)
      /\ e.member = TRUE
      /\ e.impact = m[i].impact /\ e.priority = Priorities(m, g, o)[i]
      /\ e.status = GoalStatus(m, g, o, i)
      /\ e.parent = IF m[i].parent = NoItem /\ h.parent \in DOMAIN m THEN NoItem
                    ELSE IF m[i].parent = NoItem THEN h.parent ELSE m[i].parent
      /\ e.deps = (h.deps \ (DOMAIN m \ m[i].deps)) \cup m[i].deps
  BY DEF Goal
<1>1. /\ y.copies = 1 /\ y.text = e.text /\ y.member = TRUE /\ y.impact = e.impact
      /\ y.priority = e.priority /\ y.status = e.status /\ y.parent = e.parent /\ y.deps = e.deps
  <2> HIDE DEF e
  <2> QED BY <1>e DEF AtGoal, Slot, e
<1>2. ~Missing(x, i) /\ Member(x, i)
  BY <1>1 DEF Missing, Member
<1>s. SUFFICES Asked(m, x, q, n, i) = {}
  OBVIOUS
<1> HIDE DEF q, h, e
<1>11. CASE n = 1
  BY <1>2, <1>11 DEF Asked
<1>12. CASE n = 2
  <2>1. ~TextChanges(m[i].text, y.text, o.manage, FALSE)
    <3>1. CASE Missing(g, i)
      <4>1. y.text = FreshIssue(m[i].text)
        BY <1>1, <1>e, <3>1
      <4>2. PICK t \in Issue : TRUE
        <5>1. FreshIssue(m[i].text) \in Issue
          BY DEF FreshIssue, Desired, Issue
        <5> QED BY <5>1
      <4> QED BY <4>1, TextIsSettled
    <3>2. CASE ~Missing(g, i)
      <4>1. g[i].text \in Issue
        BY <1>i, <3>2 DEF Missing, GitHubIssue, NoIssue
      <4>2. y.text = PlannedIssue(m[i].text, g[i].text, o.manage, i \in o.overwrite)
        BY <1>1, <1>e, <3>2
      <4> QED BY <4>1, <4>2, TextIsSettled
    <3> QED BY <3>1, <3>2
  <2>2. ~TextChanges(m[i].text, x[i].text, q.manage, i \in q.overwrite)
    <3>1. (i \in q.overwrite) = FALSE
      BY <1>0
    <3> QED BY <1>0, <2>1, <3>1
  <2> QED BY <1>12, <2>2 DEF Asked
<1>13. CASE n = 3
  <2> DEFINE want == [Impact |-> m[i].impact, Priority |-> Priorities(m, x, q)[i]]
  <2>1. /\ DOMAIN want = {"Impact", "Priority"}
        /\ want["Impact"] = y.impact /\ want["Priority"] = y.priority
    BY <1>1, <1>e, <1>p
  <2>2. Fields(y)["Impact"] = y.impact /\ Fields(y)["Priority"] = y.priority
    BY DEF Fields
  <2>3. Changed(m, x, q, i) = Differing(want, Fields(y))
    BY DEF Changed
  <2> HIDE DEF want
  <2>4. DOMAIN Differing(want, Fields(y)) = {}
    BY <2>1, <2>2 DEF Differing
  <2> QED BY <1>2, <1>13, <2>3, <2>4 DEF Asked
<1>14. CASE n = 4
  <2>1. i \in DOMAIN o.transitions => x[i].status = o.transitions[i]
    BY <1>1, <1>e DEF GoalStatus, SyncPlannable, TransitionsFit, ClosesForGood
  <2> QED BY <1>0, <1>14, <2>1 DEF Asked
<1>15. CASE n = 5
  <2>1. m[i].parent = NoItem => x[i].parent \notin DOMAIN m
    BY <1>1, <1>e, <1>i
  <2>2. Unwanted(m, x, i) = {}
    BY <1>1, <1>2, <1>e DEF Unwanted
  <2> QED BY <1>15, <2>1, <2>2 DEF Asked
<1>16. CASE n = 6
  <2>1. m[i].parent # NoItem => ParentIn(x, i) = m[i].parent
    BY <1>1, <1>2, <1>e DEF ParentIn
  <2>2. m[i].deps \ DepsIn(x, i) = {}
    BY <1>1, <1>2, <1>e DEF DepsIn
  <2> QED BY <1>16, <2>1, <2>2 DEF Asked
<1>17. CASE n = 7
  BY <1>17 DEF Asked
<1>18. n \in {1, 2, 3, 4, 5, 6, 7}
  OBVIOUS
<1> QED BY <1>11, <1>12, <1>13, <1>14, <1>15, <1>16, <1>17, <1>18

(* So nothing is planned where every issue is at its goal.                  *)
LEMMA NothingIsPlanned ==
    ASSUME NEW m \in Manifest, NEW g \in [Item -> GitHubIssue], NEW o,
           SyncPlannable(m, g, o), ClosesForGood(m, g, o),
           NEW x, \A i \in DOMAIN m : AtGoal(m, g, o, x, i), CompletedParents(m, x) = {}
    PROVE  SyncPlanOf(m, x, Following(o)) = <<>>
<1> DEFINE q == Following(o)
<1>1. ValidManifest(m) /\ \A i \in DOMAIN m : m[i].text \in Desired
  BY ManifestType
<1>2. \A i \in DOMAIN q.transitions : i \in DOMAIN m /\ Member(x, i)
  <2>1. \A i \in DOMAIN m : Member(x, i)
    BY AtGoalIsMember
  <2> QED BY <2>1 DEF SyncPlannable, TransitionsFit, Following
<1>3. \A n \in 1..7 : \A i \in DOMAIN m : Asked(m, x, q, n, i) = {}
  BY <1>1, NothingIsAsked
<1> HIDE DEF q
<1>4. AskedUpTo(m, x, q, 7) = {}
  BY <1>3 DEF AskedUpTo, AskedOfAll
<1>5. Arranged(m, x, q, 7, SyncPlanOf(m, x, q))
  BY <1>1, <1>2, ValidIsFinite, PlanIsArranged
<1> DEFINE s == SyncPlanOf(m, x, q)
<1>6. Lists(s, {})
  BY <1>4, <1>5 DEF Arranged
<1> HIDE DEF s
<1>7. s = <<>>
  BY <1>6 DEF Lists
<1> QED BY <1>7 DEF s, q

(* A completed apply that nobody disturbed leaves nothing to plan, whatever *)
(* the manifest, the edits it met and the links it had to turn round: texts *)
(* written or held, fields, Statuses, parents and dependencies are then all *)
(* what the planner asks for of them.                                       *)
THEOREM CleanAppliesConverge == ASSUME Composed PROVE Spec => []Converges
<1>1. ASSUME TypeOK, AuthInv, Loaded, Converging, NEW r \in Run,
             run[r].pc = "completed", clean[r], Settles(r),
             CompletedParents(run[r].manifest, remote) = {}
      PROVE  Residual(r) = <<>>
  <2> DEFINE m == run[r].manifest
             g == run[r].snapshot
             o == run[r].plan.opts
             acts == Actions(r)
  <2>1. /\ ValidManifest(m) /\ m \in Manifest /\ SyncPlannable(m, g, o)
        /\ Arranged(m, g, o, 7, acts) /\ acts \in Seq(SyncAction)
        /\ ClosesForGood(m, g, o) /\ run[r].next \in Nat
    BY <1>1, BegunKnows DEF Begun
  <2>2. /\ g \in [Item -> GitHubIssue]
        /\ OnTheWay(m, g, o, acts, run[r].next, run[r].done, remote)
        /\ run[r].next > Len(acts)
    BY <1>1 DEF Converging, ConvergingAt
  <2>3. CompletedParents(m, remote) = {}
    BY <1>1
  <2> HIDE DEF m, g, o, acts
  <2>4. Landed(m, g, o, acts, remote)
    <3>1. \A k \in 1..Len(acts) : k < run[r].next
      BY <2>1, <2>2
    <3> QED BY <2>2, <3>1 DEF Landed, OnTheWay, Passed
  <2>5. \A i \in DOMAIN m : AtGoal(m, g, o, remote, i)
    BY <2>1, <2>2, <2>4, LandedIsAtGoal DEF OnTheWay
  <2>6. SyncPlanOf(m, remote, Following(o)) = <<>>
    BY <2>1, <2>2, <2>3, <2>5, NothingIsPlanned
  <2> QED BY <2>6 DEF Residual, Following, m, o
<1>2. TypeOK /\ AuthInv /\ Loaded /\ Converging => Converges
  BY <1>1 DEF Converges
<1> QED BY <1>2, TypeCorrect, AuthAlways, LoadedAlways, ConvergesAlways, PTL
=============================================================================
