------------------------- MODULE ArchiveToolsProofs -------------------------
(***************************************************************************)
(* Proofs about ArchiveTools: its types, and what compact,                  *)
(* rename_duplicates and extract leave, of any archive.  A sort is by ranks,*)
(* so the first part shows that ranks put a finite set in order.  The       *)
(* invariants then say what has been made of the rows that are done.        *)
(***************************************************************************)
EXTENDS ArchiveTools, TLAPS, FiniteSetTheorems, SequenceTheorems

-----------------------------------------------------------------------------
(* The order of paths *)

LEMMA PathIsSequence ==
  ASSUME NEW p \in Path
  PROVE  /\ Len(p) \in Nat \ {0} /\ Len(p) <= PathSize /\ p \in Seq(Names)
         /\ DOMAIN p = 1..Len(p)
         /\ \A i \in 1..Len(p) : p[i] \in Nat \ {0}
<1>1. p \in Seq(Names) /\ Len(p) \in 1..PathSize /\ PathSize \in Nat
  BY PathAssumption DEF Path
<1>2. \A i \in 1..Len(p) : p[i] \in Names
  BY <1>1, ElementOfSeq
<1>3. Len(p) \in Nat /\ DOMAIN p = 1..Len(p)
  BY <1>1, LenProperties
<1>4. \A i \in 1..Len(p) : p[i] \in Nat \ {0}
  BY <1>2, PathAssumption
<1> QED BY <1>1, <1>3, <1>4

LEMMA PathLessIrreflexive ==
  ASSUME NEW p \in Path
  PROVE  ~PathLess(p, p)
BY PathIsSequence DEF PathLess

LEMMA PathLessTransitive ==
  ASSUME NEW p \in Path, NEW q \in Path, NEW r \in Path,
         PathLess(p, q), PathLess(q, r)
  PROVE  PathLess(p, r)
<1>1. PICK i \in 1..Len(q) : /\ i <= Len(p) + 1
                             /\ \A j \in 1..(i - 1) : p[j] = q[j]
                             /\ i <= Len(p) => p[i] < q[i]
  BY DEF PathLess
<1>2. PICK k \in 1..Len(r) : /\ k <= Len(q) + 1
                             /\ \A j \in 1..(k - 1) : q[j] = r[j]
                             /\ k <= Len(q) => q[k] < r[k]
  BY DEF PathLess
<1>3. /\ Len(p) \in Nat /\ Len(q) \in Nat /\ Len(r) \in Nat
      /\ \A j \in 1..Len(p) : p[j] \in Nat
      /\ \A j \in 1..Len(q) : q[j] \in Nat
      /\ \A j \in 1..Len(r) : r[j] \in Nat
  BY PathIsSequence
<1>4. CASE i < k
  <2>1. /\ i \in 1..Len(r) /\ i <= Len(p) + 1
        /\ \A j \in 1..(i - 1) : p[j] = r[j]
        /\ i <= Len(p) => p[i] < r[i]
    BY <1>1, <1>2, <1>3, <1>4
  <2> QED BY <2>1 DEF PathLess
<1>5. CASE i = k
  <2>1. /\ i \in 1..Len(r) /\ i <= Len(p) + 1
        /\ \A j \in 1..(i - 1) : p[j] = r[j]
        /\ i <= Len(p) => p[i] < r[i]
    BY <1>1, <1>2, <1>3, <1>5
  <2> QED BY <2>1 DEF PathLess
<1>6. CASE k < i
  <2>1. k \in 1..(i - 1) /\ k <= Len(q) /\ k <= Len(p)
    BY <1>1, <1>2, <1>3, <1>6
  <2>2. p[k] = q[k] /\ q[k] < r[k]
    BY <1>1, <1>2, <2>1
  <2>3. ASSUME NEW j \in 1..(k - 1) PROVE p[j] = r[j]
    <3>1. j \in 1..(i - 1)
      BY <2>1
    <3> QED BY <1>1, <1>2, <3>1
  <2>4. k <= Len(p) + 1 /\ p[k] < r[k]
    BY <1>2, <1>3, <2>1, <2>2
  <2> QED BY <1>2, <2>3, <2>4 DEF PathLess
<1> QED BY <1>3, <1>4, <1>5, <1>6

\* A set of numbers that is not empty has a least one.
LEMMA LeastMember ==
  ASSUME NEW S \in SUBSET Nat, S # {}
  PROVE  \E m \in S : \A k \in S : m <= k
<1> DEFINE below == { 0..k : k \in S }
<1>1. below \subseteq FiniteSubsetsOf(Nat) /\ below # {}
  <2>1. \A k \in S : IsFiniteSet(0..k) /\ 0..k \subseteq Nat
    BY FS_Interval
  <2> QED BY <2>1 DEF FiniteSubsetsOf
<1>2. PICK x \in below : \A y \in below : ~(<<y, x>> \in StrictSubsetOrdering(Nat))
  <2> HIDE DEF below
  <2>1. IsWellFoundedOn(StrictSubsetOrdering(Nat), FiniteSubsetsOf(Nat))
    BY FS_StrictSubsetOrderingWellFounded
  <2> QED BY <1>1, <2>1, WFMin
<1>3. PICK m \in S : x = 0..m
  OBVIOUS
<1>4. ASSUME NEW k \in S, k < m PROVE FALSE
  <2>1. 0..k \in below /\ 0..k \subseteq 0..m /\ m \in 0..m /\ m \notin 0..k
    BY <1>4
  <2>2. <<0..k, 0..m>> \in StrictSubsetOrdering(Nat)
    BY <2>1 DEF StrictSubsetOrdering
  <2> QED BY <1>2, <1>3, <2>1, <2>2
<1> QED BY <1>4

\* So a set of numbers with a bound has a greatest one.
LEMMA GreatestMember ==
  ASSUME NEW n \in Nat, NEW S \in SUBSET (1..n), S # {}
  PROVE  \E m \in S : \A k \in S : k <= m
<1> DEFINE T == { n - k : k \in S }
<1>1. T \in SUBSET Nat /\ T # {}
  <2>1. \A k \in S : k \in Nat /\ k <= n /\ n - k \in Nat
    OBVIOUS
  <2> QED BY <2>1
<1>2. PICK t \in T : \A u \in T : t <= u
  BY <1>1, LeastMember
<1>3. PICK m \in S : t = n - m
  BY <1>2
<1>4. ASSUME NEW k \in S PROVE k <= m
  <2>1. n - k \in T
    OBVIOUS
  <2>2. n - m <= n - k
    BY <1>2, <1>3, <2>1
  <2> QED BY <2>2
<1> QED BY <1>3, <1>4

LEMMA PathLessTotal ==
  ASSUME NEW p \in Path, NEW q \in Path, p # q
  PROVE  PathLess(p, q) \/ PathLess(q, p)
<1>1. /\ Len(p) \in Nat /\ Len(q) \in Nat /\ p \in Seq(Names) /\ q \in Seq(Names)
      /\ \A j \in 1..Len(p) : p[j] \in Nat
      /\ \A j \in 1..Len(q) : q[j] \in Nat
  BY PathIsSequence
<1> DEFINE differ == { i \in Nat \ {0} :
                         (i <= Len(p) /\ i <= Len(q)) => p[i] # q[i] }
<1>2. differ \in SUBSET Nat /\ differ # {}
  <2>1. Len(p) + 1 \in differ
    BY <1>1
  <2> QED BY <2>1
<1>3. PICK i \in differ : \A k \in differ : i <= k
  BY <1>2, LeastMember
<1>4. \A j \in 1..(i - 1) : j <= Len(p) /\ j <= Len(q) /\ p[j] = q[j]
  BY <1>3
<1>5. i <= Len(p) + 1 /\ i <= Len(q) + 1
  BY <1>1, <1>3, <1>4
<1>6. CASE i <= Len(p) /\ i <= Len(q)
  <2>1. p[i] # q[i] /\ p[i] \in Nat /\ q[i] \in Nat /\ i \in 1..Len(p) /\ i \in 1..Len(q)
    BY <1>1, <1>3, <1>6
  <2>2. p[i] < q[i] \/ q[i] < p[i]
    BY <2>1
  <2> QED BY <1>4, <1>5, <2>1, <2>2 DEF PathLess
<1>7. CASE i > Len(p) /\ i <= Len(q)
  BY <1>1, <1>3, <1>4, <1>5, <1>7 DEF PathLess
<1>8. CASE i <= Len(p) /\ i > Len(q)
  BY <1>1, <1>3, <1>4, <1>5, <1>8 DEF PathLess
<1>9. CASE i > Len(p) /\ i > Len(q)
  <2>1. Len(p) = Len(q)
    BY <1>1, <1>3, <1>5, <1>9
  <2>2. \A j \in 1..Len(p) : p[j] = q[j]
    BY <1>1, <1>3, <1>4, <1>9
  <2> QED BY <1>1, <2>1, <2>2, SeqEqual
<1> QED BY <1>1, <1>3, <1>6, <1>7, <1>8, <1>9

-----------------------------------------------------------------------------
(* Ranks put a finite set in order *)

Before(S, R, x) == { y \in S : <<y, x>> \in R }

\* R, a set of pairs, is a strict total order of S.
Orders(R, S) ==
    /\ \A x \in S : <<x, x>> \notin R
    /\ \A x, y, z \in S : (<<x, y>> \in R /\ <<y, z>> \in R) => <<x, z>> \in R
    /\ \A x, y \in S : x = y \/ <<x, y>> \in R \/ <<y, x>> \in R

\* Every rank from 0 to one less than the number of members is one member's.
LEMMA RanksAreUsed ==
  ASSUME NEW S, NEW R, IsFiniteSet(S), Orders(R, S)
  PROVE  /\ Cardinality(S) \in Nat
         /\ \A x \in S : Cardinality(Before(S, R, x)) \in 0..(Cardinality(S) - 1)
         /\ \A x, y \in S : <<x, y>> \in R =>
                Cardinality(Before(S, R, x)) < Cardinality(Before(S, R, y))
         /\ \A k \in 0..(Cardinality(S) - 1) :
                \E x \in S : Cardinality(Before(S, R, x)) = k
<1> DEFINE n == Cardinality(S)
           rank == [x \in S |-> Cardinality(Before(S, R, x))]
<1>1. n \in Nat
  BY FS_CardinalityType
<1>2. ASSUME NEW x \in S
      PROVE  IsFiniteSet(Before(S, R, x)) /\ Cardinality(Before(S, R, x)) \in 0..(n - 1)
  <2>1. Before(S, R, x) \in SUBSET S /\ x \notin Before(S, R, x)
    BY DEF Before, Orders
  <2>2. IsFiniteSet(Before(S, R, x)) /\ Cardinality(Before(S, R, x)) <= n
    BY <2>1, FS_Subset
  <2>3. Cardinality(Before(S, R, x)) # n
    BY <2>1, FS_Subset
  <2>4. Cardinality(Before(S, R, x)) \in Nat
    BY <2>2, FS_CardinalityType
  <2> QED BY <1>1, <2>2, <2>3, <2>4
<1>3. ASSUME NEW x \in S, NEW y \in S, <<x, y>> \in R
      PROVE  Cardinality(Before(S, R, x)) < Cardinality(Before(S, R, y))
  <2>1. /\ Before(S, R, x) \in SUBSET Before(S, R, y)
        /\ x \in Before(S, R, y) /\ x \notin Before(S, R, x)
    BY <1>3 DEF Before, Orders
  <2>2. Cardinality(Before(S, R, x)) <= Cardinality(Before(S, R, y))
    BY <1>2, <2>1, FS_Subset
  <2>3. Cardinality(Before(S, R, x)) # Cardinality(Before(S, R, y))
    BY <1>2, <2>1, FS_Subset
  <2>4. Cardinality(Before(S, R, x)) \in Nat /\ Cardinality(Before(S, R, y)) \in Nat
    BY <1>2
  <2> QED BY <2>2, <2>3, <2>4
<1>4. rank \in [S -> 0..(n - 1)]
  BY <1>2
<1>5. ASSUME NEW x \in S, NEW y \in S, rank[x] = rank[y] PROVE x = y
  <2>1. rank[x] = Cardinality(Before(S, R, x)) /\ rank[y] = Cardinality(Before(S, R, y))
    OBVIOUS
  <2>2. rank[x] \in Nat
    BY <1>2, <2>1
  <2>3. <<x, y>> \notin R
    BY <1>3, <1>5, <2>1, <2>2
  <2>4. <<y, x>> \notin R
    BY <1>3, <1>5, <2>1, <2>2
  <2> QED BY <2>3, <2>4, Zenon DEF Orders
<1>6. rank \in Injection(S, 0..(n - 1))
  BY <1>4, <1>5, Zenon DEF Injection, IsInjective
<1>7. IsFiniteSet(0..(n - 1)) /\ Cardinality(0..(n - 1)) = n
  BY <1>1, FS_Interval
<1>8. rank \in Surjection(S, 0..(n - 1))
  BY <1>6, <1>7, FS_Injection
<1>9. \A k \in 0..(n - 1) : \E x \in S : rank[x] = k
  BY <1>8, Zenon DEF Surjection
<1> QED BY <1>1, <1>2, <1>3, <1>9

\* The members of S in the order R.
InOrder(S, R) ==
    [k \in 1..Cardinality(S) |->
        CHOOSE x \in S : Cardinality(Before(S, R, x)) = k - 1]

LEMMA InOrderSorts ==
  ASSUME NEW S, NEW R, IsFiniteSet(S), Orders(R, S)
  PROVE  /\ Cardinality(S) \in Nat
         /\ InOrder(S, R) \in [1..Cardinality(S) -> S]
         /\ \A x \in S : \E k \in 1..Cardinality(S) : InOrder(S, R)[k] = x
         /\ \A i, j \in 1..Cardinality(S) :
                i < j <=> <<InOrder(S, R)[i], InOrder(S, R)[j]>> \in R
<1> DEFINE n == Cardinality(S)
           rank(x) == Cardinality(Before(S, R, x))
           f == InOrder(S, R)
<1>1. n \in Nat /\ \A x \in S : rank(x) \in 0..(n - 1)
  BY RanksAreUsed
<1>2. \A x, y \in S : <<x, y>> \in R => rank(x) < rank(y)
  BY RanksAreUsed
<1>3. ASSUME NEW k \in 1..n PROVE f[k] \in S /\ rank(f[k]) = k - 1
  <2>1. k - 1 \in 0..(n - 1)
    BY <1>1
  <2>2. \E x \in S : rank(x) = k - 1
    BY <2>1, RanksAreUsed
  <2>3. f[k] = CHOOSE x \in S : rank(x) = k - 1
    BY DEF InOrder
  <2> QED BY <2>2, <2>3, Zenon
<1>4. f \in [1..n -> S]
  BY <1>3 DEF InOrder
<1> HIDE DEF f, rank, n
<1>5. ASSUME NEW x \in S PROVE \E k \in 1..n : f[k] = x
  <2>1. rank(x) + 1 \in 1..n /\ (rank(x) + 1) - 1 = rank(x)
    BY <1>1
  <2>2. f[rank(x) + 1] \in S /\ rank(f[rank(x) + 1]) = rank(x)
    BY <1>3, <2>1
  <2>3. f[rank(x) + 1] = x
    <3>1. f[rank(x) + 1] = x \/ <<f[rank(x) + 1], x>> \in R \/ <<x, f[rank(x) + 1]>> \in R
      BY <2>2, Zenon DEF Orders
    <3>2. rank(x) \in Nat
      BY <1>1
    <3> QED BY <1>2, <2>2, <3>1, <3>2
  <2> QED BY <2>1, <2>3
<1>6. ASSUME NEW i \in 1..n, NEW j \in 1..n PROVE i < j <=> <<f[i], f[j]>> \in R
  <2>1. f[i] \in S /\ f[j] \in S /\ rank(f[i]) = i - 1 /\ rank(f[j]) = j - 1
    BY <1>3
  <2>2. ASSUME <<f[i], f[j]>> \in R PROVE i < j
    <3>1. rank(f[i]) < rank(f[j])
      BY <1>2, <2>1, <2>2
    <3> QED BY <1>1, <2>1, <3>1
  <2>3. ASSUME i < j PROVE <<f[i], f[j]>> \in R
    <3>1. f[i] # f[j]
      BY <1>1, <2>1, <2>3
    <3>2. ~(<<f[j], f[i]>> \in R)
      <4>1. ASSUME <<f[j], f[i]>> \in R PROVE FALSE
        <5>1. rank(f[j]) < rank(f[i])
          BY <1>2, <2>1, <4>1
        <5> QED BY <1>1, <2>1, <2>3, <5>1
      <4> QED BY <4>1
    <3> QED BY <2>1, <3>1, <3>2 DEF Orders
  <2> QED BY <2>2, <2>3
<1> QED BY <1>1, <1>4, <1>5, <1>6 DEF f, n

\* Two members have not the same rank.
LEMMA RankIsOnes ==
  ASSUME NEW S, NEW R, IsFiniteSet(S), Orders(R, S), NEW x \in S, NEW y \in S,
         Cardinality(Before(S, R, x)) = Cardinality(Before(S, R, y))
  PROVE  x = y
<1>1. Cardinality(Before(S, R, x)) \in Int /\ Cardinality(Before(S, R, y)) \in Int
  BY RanksAreUsed
<1>2. <<x, y>> \notin R /\ <<y, x>> \notin R
  BY <1>1, RanksAreUsed
<1> QED BY <1>2, Zenon DEF Orders

-----------------------------------------------------------------------------
(* What the sorts and the listing return *)

Row == [path : Path, id : Id \cup {0}]

StableOrder(s) ==
    { e \in (DOMAIN s) \X (DOMAIN s) :
        \/ PathLess(s[e[1]].path, s[e[2]].path)
        \/ s[e[1]].path = s[e[2]].path /\ e[1] < e[2] }

LEMMA StableOrderOrders ==
  ASSUME NEW s \in Seq(Row)
  PROVE  /\ DOMAIN s = 1..Len(s) /\ Len(s) \in Nat
         /\ \A i \in DOMAIN s : s[i] \in Row /\ s[i].path \in Path
         /\ \A i, j \in DOMAIN s : <<i, j>> \in StableOrder(s) <=>
                \/ PathLess(s[i].path, s[j].path)
                \/ s[i].path = s[j].path /\ i < j
         /\ IsFiniteSet(DOMAIN s) /\ Cardinality(DOMAIN s) = Len(s)
         /\ Orders(StableOrder(s), DOMAIN s)
<1>1. DOMAIN s = 1..Len(s) /\ Len(s) \in Nat
  BY LenProperties
<1>2. \A i \in DOMAIN s : s[i] \in Row /\ s[i].path \in Path
  <2>1. \A i \in DOMAIN s : s[i] \in Row
    BY <1>1, ElementOfSeq
  <2> QED BY <2>1 DEF Row
<1>3. IsFiniteSet(DOMAIN s) /\ Cardinality(DOMAIN s) = Len(s)
  BY <1>1, FS_Interval
<1>4. ASSUME NEW i \in DOMAIN s, NEW j \in DOMAIN s
      PROVE  <<i, j>> \in StableOrder(s) <=>
                \/ PathLess(s[i].path, s[j].path)
                \/ s[i].path = s[j].path /\ i < j
  BY DEF StableOrder
<1>5. \A i \in DOMAIN s : <<i, i>> \notin StableOrder(s)
  BY <1>1, <1>2, <1>4, PathLessIrreflexive
<1>6. ASSUME NEW i \in DOMAIN s, NEW j \in DOMAIN s, NEW k \in DOMAIN s,
             <<i, j>> \in StableOrder(s), <<j, k>> \in StableOrder(s)
      PROVE  <<i, k>> \in StableOrder(s)
  <2>1. (PathLess(s[i].path, s[j].path) /\ PathLess(s[j].path, s[k].path))
            => PathLess(s[i].path, s[k].path)
    BY <1>2, PathLessTransitive
  <2> QED BY <1>1, <1>4, <1>6, <2>1
<1>7. ASSUME NEW i \in DOMAIN s, NEW j \in DOMAIN s
      PROVE  i = j \/ <<i, j>> \in StableOrder(s) \/ <<j, i>> \in StableOrder(s)
  <2>1. \/ s[i].path = s[j].path
        \/ PathLess(s[i].path, s[j].path) \/ PathLess(s[j].path, s[i].path)
    BY <1>2, PathLessTotal
  <2>2. i = j \/ i < j \/ j < i
    BY <1>1
  <2> QED BY <1>4, <2>1, <2>2
<1>8. Orders(StableOrder(s), DOMAIN s)
  BY <1>5, <1>6, <1>7, Zenon DEF Orders
<1> QED BY <1>1, <1>2, <1>3, <1>4, <1>8

\* A sort is a permutation, which keeps the order of rows with the same path.
LEMMA StableSortSorts ==
  ASSUME NEW s \in Seq(Row)
  PROVE  \E at \in [1..Len(s) -> 1..Len(s)] :
            /\ StableSort(s) = [k \in 1..Len(s) |-> s[at[k]]]
            /\ \A i \in 1..Len(s) : \E k \in 1..Len(s) : at[k] = i
            /\ \A i, j \in 1..Len(s) :
                i < j => /\ ~PathLess(s[at[j]].path, s[at[i]].path)
                         /\ s[at[i]].path = s[at[j]].path => at[i] < at[j]
<1> DEFINE n == Len(s)
           R == StableOrder(s)
           at == InOrder(1..n, R)
           before(i, j) == \/ PathLess(s[i].path, s[j].path)
                           \/ s[i].path = s[j].path /\ i < j
           rank(j) == Cardinality({ i \in DOMAIN s : before(i, j) }) + 1
<1>1. /\ DOMAIN s = 1..n /\ n \in Nat /\ IsFiniteSet(1..n) /\ Cardinality(1..n) = n
      /\ Orders(R, 1..n)
      /\ \A i \in 1..n : s[i].path \in Path
      /\ \A i, j \in 1..n : <<i, j>> \in R <=> before(i, j)
  BY StableOrderOrders
<1>2. /\ at \in [1..n -> 1..n]
      /\ \A i \in 1..n : \E k \in 1..n : at[k] = i
      /\ \A i, j \in 1..n : i < j <=> <<at[i], at[j]>> \in R
  <2> DEFINE S == 1..n
  <2>1. IsFiniteSet(S) /\ Cardinality(S) = n /\ Orders(R, S)
    BY <1>1
  <2> HIDE DEF n, R, S
  <2>2. /\ InOrder(S, R) \in [1..Cardinality(S) -> S]
        /\ \A x \in S : \E k \in 1..Cardinality(S) : InOrder(S, R)[k] = x
        /\ \A i, j \in 1..Cardinality(S) :
               i < j <=> <<InOrder(S, R)[i], InOrder(S, R)[j]>> \in R
    BY <2>1, InOrderSorts
  <2> QED BY <2>1, <2>2 DEF S
<1>3. ASSUME NEW j \in 1..n PROVE rank(j) = Cardinality(Before(1..n, R, j)) + 1
  <2>1. { i \in DOMAIN s : before(i, j) } = Before(1..n, R, j)
    <3> HIDE DEF R, before
    <3> QED BY <1>1 DEF Before
  <2> QED BY <2>1
<1>4. StableSort(s) = [k \in DOMAIN s |-> s[CHOOSE j \in DOMAIN s : rank(j) = k]]
  BY Zenon DEF StableSort
<1> HIDE DEF rank, R
<1>5. ASSUME NEW k \in 1..n PROVE (CHOOSE j \in DOMAIN s : rank(j) = k) = at[k]
  <2>1. at[k] \in 1..n /\ Cardinality(Before(1..n, R, at[k])) = k - 1
    <3>1. at[k] = CHOOSE x \in 1..n : Cardinality(Before(1..n, R, x)) = k - 1
      BY <1>1 DEF InOrder
    <3>2. k - 1 \in 0..(n - 1)
      BY <1>1
    <3>3. \E x \in 1..n : Cardinality(Before(1..n, R, x)) = k - 1
      <4> DEFINE S == 1..n
      <4>1. IsFiniteSet(S) /\ Cardinality(S) = n /\ Orders(R, S)
        BY <1>1
      <4> HIDE DEF n, S
      <4>2. \E x \in S : Cardinality(Before(S, R, x)) = k - 1
        BY <3>2, <4>1, RanksAreUsed
      <4> QED BY <4>2 DEF S
    <3> HIDE DEF at, n
    <3> QED BY <3>1, <3>3, Zenon
  <2>2. rank(at[k]) = k
    BY <1>3, <2>1
  <2> DEFINE c == CHOOSE j \in DOMAIN s : rank(j) = k
  <2>3. c \in 1..n /\ rank(c) = k
    <3> HIDE DEF at, n
    <3> QED BY <1>1, <2>1, <2>2, Zenon
  <2> HIDE DEF c, at
  <2>4. rank(c) = Cardinality(Before(1..n, R, c)) + 1 /\ Cardinality(Before(1..n, R, c)) \in Int
    BY <1>1, <1>3, <2>3, RanksAreUsed
  <2>5. Cardinality(Before(1..n, R, c)) = Cardinality(Before(1..n, R, at[k]))
    BY <2>1, <2>3, <2>4
  <2>6. c = at[k]
    BY <1>1, <2>1, <2>3, <2>5, RankIsOnes
  <2> QED BY <2>6 DEF c
<1>6. StableSort(s) = [k \in 1..n |-> s[at[k]]]
  <2> HIDE DEF at, n
  <2> QED BY <1>1, <1>4, <1>5
<1>7. ASSUME NEW i \in 1..n, NEW j \in 1..n, i < j
      PROVE  /\ ~PathLess(s[at[j]].path, s[at[i]].path)
             /\ s[at[i]].path = s[at[j]].path => at[i] < at[j]
  <2> HIDE DEF at
  <2>1. at[i] \in 1..n /\ at[j] \in 1..n /\ <<at[i], at[j]>> \in R
    BY <1>2, <1>7
  <2>2. before(at[i], at[j])
    BY <1>1, <2>1
  <2>3. s[at[i]].path \in Path /\ s[at[j]].path \in Path
    BY <1>1, <2>1
  <2> QED BY <2>2, <2>3, PathLessIrreflexive, PathLessTransitive
<1> HIDE DEF at
<1> QED BY <1>2, <1>6, <1>7

LEMMA ByPathSorts ==
  ASSUME NEW S \in SUBSET Row, IsFiniteSet(S), \A d, e \in S : d.path = e.path => d = e
  PROVE  /\ Cardinality(S) \in Nat
         /\ ByPath(S) \in [1..Cardinality(S) -> S]
         /\ ByPath(S) \in Seq(S) /\ Len(ByPath(S)) = Cardinality(S)
         /\ \A d \in S : \E k \in 1..Cardinality(S) : ByPath(S)[k] = d
         /\ \A i, j \in 1..Cardinality(S) : ByPath(S)[i] = ByPath(S)[j] => i = j
<1> DEFINE R == { e \in S \X S : PathLess(e[1].path, e[2].path) }
           n == Cardinality(S)
           rank(d) == Cardinality({ e \in S : PathLess(e.path, d.path) })
           f == ByPath(S)
<1>1. \A d \in S : d.path \in Path
  BY DEF Row
<1>2. \A d, e \in S : <<d, e>> \in R <=> PathLess(d.path, e.path)
  OBVIOUS
<1> HIDE DEF R
<1>3. Orders(R, S)
  <2>1. \A d \in S : <<d, d>> \notin R
    BY <1>1, <1>2, PathLessIrreflexive
  <2>2. ASSUME NEW b \in S, NEW d \in S, NEW e \in S, <<b, d>> \in R, <<d, e>> \in R
        PROVE  <<b, e>> \in R
    <3>1. b.path \in Path /\ d.path \in Path /\ e.path \in Path
      BY <1>1
    <3> QED BY <1>2, <2>2, <3>1, PathLessTransitive
  <2>3. ASSUME NEW d \in S, NEW e \in S PROVE d = e \/ <<d, e>> \in R \/ <<e, d>> \in R
    <3>1. d.path \in Path /\ e.path \in Path
      BY <1>1
    <3> QED BY <1>2, <3>1, PathLessTotal
  <2> QED BY <2>1, <2>2, <2>3, Zenon DEF Orders
<1>4. \A d \in S : rank(d) = Cardinality(Before(S, R, d))
  <2>1. ASSUME NEW d \in S PROVE { e \in S : PathLess(e.path, d.path) } = Before(S, R, d)
    BY <1>2 DEF Before
  <2> QED BY <2>1
<1>5. /\ n \in Nat
      /\ \A d \in S : rank(d) \in 0..(n - 1)
      /\ \A k \in 0..(n - 1) : \E d \in S : rank(d) = k
  <2> HIDE DEF rank
  <2> QED BY <1>3, <1>4, RanksAreUsed
<1>6. ASSUME NEW k \in 1..n PROVE f[k] \in S /\ rank(f[k]) = k - 1
  <2>1. k - 1 \in 0..(n - 1)
    BY <1>5
  <2>2. \E d \in S : rank(d) = k - 1
    BY <1>5, <2>1
  <2>3. f[k] = CHOOSE d \in S : rank(d) = k - 1
    BY DEF ByPath
  <2> HIDE DEF f, rank, n
  <2> QED BY <2>2, <2>3, Zenon
<1>7. f \in [1..n -> S]
  BY <1>6 DEF ByPath
<1> HIDE DEF f, rank, n
<1>8. f \in Seq(S) /\ Len(f) = n
  BY <1>5, <1>7
<1>9. ASSUME NEW d \in S PROVE \E k \in 1..n : f[k] = d
  <2>1. rank(d) + 1 \in 1..n /\ (rank(d) + 1) - 1 = rank(d)
    BY <1>5
  <2>2. f[rank(d) + 1] \in S /\ rank(f[rank(d) + 1]) = rank(d)
    BY <1>6, <2>1
  <2>3. f[rank(d) + 1] = d
    BY <1>3, <1>4, <2>2, RankIsOnes
  <2> QED BY <2>1, <2>3
<1>10. \A i, j \in 1..n : f[i] = f[j] => i = j
  <2>1. ASSUME NEW i \in 1..n, NEW j \in 1..n, f[i] = f[j] PROVE i = j
    <3>1. i - 1 = j - 1
      BY <1>6, <2>1
    <3> QED BY <1>5, <3>1
  <2> QED BY <2>1
<1> QED BY <1>5, <1>7, <1>8, <1>9, <1>10 DEF f, n

\* What the readers list is rows of the table, and each has its entry.
LEMMA ListedRows ==
  ASSUME NEW a \in Archive
  PROVE  /\ Listed(a) \in Seq(Row) /\ Len(Listed(a)) \in Nat
         /\ DOMAIN Listed(a) = 1..Len(Listed(a))
         /\ \A k \in 1..Len(Listed(a)) :
                /\ Listed(a)[k] \in Row
                /\ Listed(a)[k].path \in Path
                /\ Listed(a)[k].id \in Id
                /\ \E r \in a.entries : r.id = Listed(a)[k].id
<1> DEFINE at == Resolving(a)
           R == { e \in at \X at : e[1] < e[2] }
           n == Cardinality(at)
           rank(i) == Cardinality({ j \in at : j < i })
           place(k) == CHOOSE i \in at : rank(i) = k - 1
<1>1. /\ Len(a.rows) \in Nat /\ DOMAIN a.rows = 1..Len(a.rows)
      /\ \A i \in DOMAIN a.rows : a.rows[i] \in [path : Path, id : Id]
  <2>1. a.rows \in Seq([path : Path, id : Id])
    BY DEF Archive
  <2> QED BY <2>1, LenProperties, ElementOfSeq
<1>2. /\ at \in SUBSET (1..Len(a.rows)) /\ IsFiniteSet(at)
      /\ \A i \in at : i \in Int
  <2>1. at \in SUBSET (1..Len(a.rows))
    BY <1>1 DEF Resolving
  <2>2. IsFiniteSet(1..Len(a.rows))
    BY <1>1, FS_Interval
  <2>3. \A i \in at : i \in Int
    BY <2>1
  <2> HIDE DEF at
  <2>4. IsFiniteSet(at)
    BY <2>1, <2>2, FS_Subset
  <2> QED BY <2>1, <2>3, <2>4
<1>3. \A i \in at : \E r \in a.entries : r.id = a.rows[i].id
  BY DEF Resolving
<1>4. Listed(a) = [k \in 1..n |-> a.rows[place(k)]]
  BY Zenon DEF Listed
<1> HIDE DEF at
<1>5. \A i, j \in at : <<i, j>> \in R <=> i < j
  OBVIOUS
<1> HIDE DEF R
<1>6. Orders(R, at)
  BY <1>2, <1>5 DEF Orders
<1>7. \A i \in at : rank(i) = Cardinality(Before(at, R, i))
  <2>1. ASSUME NEW i \in at PROVE { j \in at : j < i } = Before(at, R, i)
    BY <1>5 DEF Before
  <2> QED BY <2>1
<1>8. n \in Nat /\ \A k \in 0..(n - 1) : \E i \in at : rank(i) = k
  <2>1. n \in Nat /\ \A k \in 0..(n - 1) : \E i \in at : Cardinality(Before(at, R, i)) = k
    BY <1>2, <1>6, RanksAreUsed
  <2> HIDE DEF rank, n
  <2> QED BY <1>7, <2>1
<1>9. ASSUME NEW k \in 1..n PROVE place(k) \in at
  <2>1. k - 1 \in 0..(n - 1)
    BY <1>8
  <2>2. \E i \in at : rank(i) = k - 1
    BY <1>8, <2>1
  <2> HIDE DEF rank
  <2> QED BY <2>2, Zenon
<1> HIDE DEF n, place
<1>10. ASSUME NEW k \in 1..n
       PROVE  /\ Listed(a)[k] \in [path : Path, id : Id]
              /\ \E r \in a.entries : r.id = Listed(a)[k].id
  <2>1. Listed(a)[k] = a.rows[place(k)]
    BY <1>4
  <2>2. place(k) \in at /\ place(k) \in DOMAIN a.rows
    BY <1>1, <1>2, <1>9
  <2> QED BY <1>1, <1>3, <2>1, <2>2
<1>11. Listed(a) \in [1..n -> [path : Path, id : Id]]
  BY <1>4, <1>10
<1>12. Listed(a) \in Seq([path : Path, id : Id]) /\ Len(Listed(a)) = n
  <2> DEFINE T == [path : Path, id : Id]
             l == Listed(a)
  <2>1. l \in [1..n -> T]
    BY <1>11
  <2> HIDE DEF T, l
  <2>2. l \in Seq(T) /\ Len(l) = n
    BY <1>8, <2>1
  <2> QED BY <2>2 DEF T, l
<1>13. [path : Path, id : Id] \subseteq Row
  BY DEF Row
<1> QED BY <1>8, <1>10, <1>11, <1>12, <1>13

\* A table all of whose rows resolve is listed as it is.
LEMMA AllListed ==
  ASSUME NEW a \in Archive,
         \A i \in DOMAIN a.rows : \E r \in a.entries : r.id = a.rows[i].id
  PROVE  Listed(a) = a.rows
<1> DEFINE n == Len(a.rows)
           at == Resolving(a)
           rank(i) == Cardinality({ j \in at : j < i })
           place(k) == CHOOSE i \in at : rank(i) = k - 1
<1>1. n \in Nat /\ DOMAIN a.rows = 1..n /\ a.rows = [i \in 1..n |-> a.rows[i]]
  <2>1. a.rows \in Seq([path : Path, id : Id])
    BY DEF Archive
  <2> QED BY <2>1, LenProperties
<1>2. Cardinality(1..n) = n
  <2> HIDE DEF n
  <2> QED BY <1>1, FS_Interval
<1>3. at = 1..n
  BY <1>1 DEF Resolving
<1>4. Listed(a) = [k \in 1..Cardinality(at) |-> a.rows[place(k)]]
  BY Zenon DEF Listed
<1> HIDE DEF at, n
<1>5. ASSUME NEW i \in at PROVE rank(i) = i - 1
  <2>1. { j \in at : j < i } = 1..(i - 1)
    BY <1>1, <1>3
  <2>2. i - 1 \in Nat /\ Cardinality(1..(i - 1)) = i - 1
    BY <1>1, <1>3, FS_Interval
  <2> QED BY <2>1, <2>2
<1>6. ASSUME NEW k \in at PROVE place(k) = k
  <2>1. k \in at /\ rank(k) = k - 1
    BY <1>5
  <2>2. place(k) \in at /\ rank(place(k)) = k - 1
    <3> HIDE DEF rank
    <3> QED BY <2>1, Zenon
  <2> HIDE DEF place, rank
  <2>3. place(k) - 1 = k - 1
    BY <1>5, <2>2
  <2> QED BY <1>1, <1>3, <2>2, <2>3
<1> HIDE DEF place
<1> QED BY <1>1, <1>2, <1>3, <1>4, <1>6

\* The entry that an ID names, when there is one.
LEMMA EntryOfNamed ==
  ASSUME NEW a, NEW id, \E r \in a.entries : r.id = id
  PROVE  EntryOf(a, id) \in a.entries /\ EntryOf(a, id).id = id
BY Zenon DEF EntryOf

LEMMA LastOfPath ==
  ASSUME NEW a \in Archive, NEW k \in 1..Len(Listed(a)),
         \A j \in 1..Len(Listed(a)) : Listed(a)[j].path = Listed(a)[k].path => j <= k
  PROVE  LastAt(a, Listed(a)[k].path) = EntryOf(a, Listed(a)[k].id)
<1> DEFINE p == Listed(a)[k].path
           at == RowsAt(a, p)
           c == CHOOSE i \in at : \A j \in at : j <= i
<1>1. DOMAIN Listed(a) = 1..Len(Listed(a)) /\ Len(Listed(a)) \in Nat
  BY ListedRows
<1>2. k \in at /\ at \subseteq 1..Len(Listed(a)) /\ \A j \in at : j <= k
  BY <1>1 DEF RowsAt
<1>3. LastAt(a, p) = EntryOf(a, Listed(a)[c].id)
  BY Zenon DEF LastAt
<1> HIDE DEF p, at
<1>4. c \in at /\ \A j \in at : j <= c
  BY <1>2, Zenon
<1> HIDE DEF c
<1>5. c = k
  BY <1>1, <1>2, <1>4
<1> QED BY <1>3, <1>5 DEF p

LEMMA FirstOfPath ==
  ASSUME NEW a \in Archive, NEW k \in 1..Len(Listed(a)),
         \A j \in 1..Len(Listed(a)) : Listed(a)[j].path = Listed(a)[k].path => k <= j
  PROVE  FirstAt(a, Listed(a)[k].path) = EntryOf(a, Listed(a)[k].id)
<1> DEFINE p == Listed(a)[k].path
           at == RowsAt(a, p)
           c == CHOOSE i \in at : \A j \in at : i <= j
<1>1. DOMAIN Listed(a) = 1..Len(Listed(a)) /\ Len(Listed(a)) \in Nat
  BY ListedRows
<1>2. k \in at /\ at \subseteq 1..Len(Listed(a)) /\ \A j \in at : k <= j
  BY <1>1 DEF RowsAt
<1>3. FirstAt(a, p) = EntryOf(a, Listed(a)[c].id)
  BY Zenon DEF FirstAt
<1> HIDE DEF p, at
<1>4. c \in at /\ \A j \in at : c <= j
  BY <1>2, Zenon
<1> HIDE DEF c
<1>5. c = k
  BY <1>1, <1>2, <1>4
<1> QED BY <1>3, <1>5 DEF p

\* What a function makes of a finite set is finite.
LEMMA ImageIsFinite ==
  ASSUME NEW S, NEW T, NEW f \in [S -> T], IsFiniteSet(S)
  PROVE  IsFiniteSet({ f[x] : x \in S })
<1> DEFINE U == { f[x] : x \in S }
<1>1. f \in Surjection(S, U)
  BY Zenon DEF Surjection
<1> HIDE DEF U
<1>2. IsFiniteSet(U)
  BY <1>1, FS_Surjection
<1> QED BY <1>2 DEF U

-----------------------------------------------------------------------------
(* What compact goes through *)

\* Each path that is listed has one final entry: its last row.
LEMMA FinalEntriesAreLast ==
  ASSUME NEW a \in Archive
  PROVE  /\ FinalEntries(a) \in SUBSET Row /\ IsFiniteSet(FinalEntries(a))
         /\ \A d, e \in FinalEntries(a) : d.path = e.path => d = e
         /\ \A d \in FinalEntries(a) :
                /\ d.path \in Path /\ d.id \in Id
                /\ d.path \in ListedPaths(a)
                /\ \E r \in a.entries : r.id = d.id
                /\ LastAt(a, d.path) = EntryOf(a, d.id)
         /\ \A p \in ListedPaths(a) : \E d \in FinalEntries(a) : d.path = p
<1> DEFINE s == Listed(a)
           n == Len(s)
           last == { i \in DOMAIN s : \A j \in (i + 1)..n : s[j].path # s[i].path }
<1>1. /\ n \in Nat /\ DOMAIN s = 1..n /\ s \in Seq(Row)
      /\ \A k \in 1..n : s[k] \in Row /\ s[k].path \in Path /\ s[k].id \in Id
      /\ \A k \in 1..n : \E r \in a.entries : r.id = s[k].id
  BY ListedRows
<1>2. FinalEntries(a) = { s[i] : i \in last }
  BY DEF FinalEntries
<1>3. ListedPaths(a) = { s[i].path : i \in 1..n }
  BY <1>1 DEF ListedPaths
<1>4. \A i \in last : i \in 1..n /\ \A j \in 1..n : s[j].path = s[i].path => j <= i
  <2> HIDE DEF s, n
  <2> QED BY <1>1
<1>5. \A i \in last : LastAt(a, s[i].path) = EntryOf(a, s[i].id)
  BY <1>4, LastOfPath
<1> HIDE DEF s, n
<1>6. FinalEntries(a) \in SUBSET Row
  BY <1>1, <1>2, <1>4
<1>7. IsFiniteSet(FinalEntries(a))
  <2> DEFINE f == [i \in last |-> s[i]]
  <2>1. f \in [last -> Row]
    BY <1>1, <1>4
  <2>2. IsFiniteSet(last)
    <3>1. IsFiniteSet(1..n) /\ last \in SUBSET (1..n)
      BY <1>1, FS_Interval
    <3> HIDE DEF last
    <3> QED BY <3>1, FS_Subset
  <2>3. { f[i] : i \in last } = FinalEntries(a)
    BY <1>2
  <2> HIDE DEF f, last
  <2>4. IsFiniteSet({ f[i] : i \in last })
    BY <2>1, <2>2, ImageIsFinite
  <2> QED BY <2>3, <2>4
<1>8. ASSUME NEW d \in FinalEntries(a), NEW e \in FinalEntries(a), d.path = e.path
      PROVE  d = e
  <2>1. PICK i \in last : d = s[i]
    BY <1>2
  <2>2. PICK j \in last : e = s[j]
    BY <1>2
  <2>3. i <= j /\ j <= i /\ i \in 1..n /\ j \in 1..n
    BY <1>4, <1>8, <2>1, <2>2
  <2>4. i = j
    BY <1>1, <2>3
  <2> QED BY <2>1, <2>2, <2>4
<1>9. ASSUME NEW d \in FinalEntries(a)
      PROVE  /\ d.path \in Path /\ d.id \in Id
             /\ d.path \in ListedPaths(a)
             /\ \E r \in a.entries : r.id = d.id
             /\ LastAt(a, d.path) = EntryOf(a, d.id)
  <2>1. PICK i \in last : d = s[i]
    BY <1>2
  <2> HIDE DEF last
  <2> QED BY <1>1, <1>3, <1>4, <1>5, <2>1
<1>10. ASSUME NEW p \in ListedPaths(a) PROVE \E d \in FinalEntries(a) : d.path = p
  <2> DEFINE at == { i \in 1..n : s[i].path = p }
  <2>1. at \in SUBSET (1..n) /\ at # {}
    BY <1>3
  <2>2. PICK m \in at : \A k \in at : k <= m
    BY <1>1, <2>1, GreatestMember
  <2>3. m \in last /\ s[m].path = p
    BY <1>1, <2>2
  <2> QED BY <1>2, <2>3
<1> QED BY <1>6, <1>7, <1>8, <1>9, <1>10

LEMMA ParentsArePaths ==
  ASSUME NEW p \in Path
  PROVE  Parents(p) \subseteq Path /\ IsFiniteSet(Parents(p))
<1> DEFINE f == [n \in 1..(Len(p) - 1) |-> SubSeq(p, 1, n)]
<1>1. \A n \in 1..(Len(p) - 1) : SubSeq(p, 1, n) \in Path
  <2>1. ASSUME NEW n \in 1..(Len(p) - 1) PROVE SubSeq(p, 1, n) \in Path
    <3>1. /\ p \in Seq(Names) /\ Len(p) \in Nat /\ n \in 1..Len(p) /\ Len(p) <= PathSize
          /\ PathSize \in Nat
      BY PathIsSequence, PathAssumption
    <3>2. \A i \in 1..n : p[i] \in Names
      BY <3>1, ElementOfSeq
    <3>3. SubSeq(p, 1, n) \in Seq(Names) /\ Len(SubSeq(p, 1, n)) = n
      BY <3>1, <3>2, SubSeqProperties
    <3> QED BY <3>1, <3>3 DEF Path
  <2> QED BY <2>1
<1>2. IsFiniteSet(1..(Len(p) - 1)) /\ f \in [1..(Len(p) - 1) -> Path]
  BY <1>1, PathIsSequence, FS_Interval
<1>3. { f[n] : n \in 1..(Len(p) - 1) } = Parents(p)
  BY DEF Parents
<1> HIDE DEF f
<1>4. IsFiniteSet({ f[n] : n \in 1..(Len(p) - 1) })
  BY <1>2, ImageIsFinite
<1> QED BY <1>1, <1>3, <1>4 DEF Parents

MissingRows(a) == { [path |-> p, id |-> 0] : p \in MissingDirs(a) }

\* A directory is added for a path above one that is listed, which has no
\* directory of its own.
LEMMA MissingRowsAreDirs ==
  ASSUME NEW a \in Archive
  PROVE  /\ MissingRows(a) \in SUBSET Row /\ IsFiniteSet(MissingRows(a))
         /\ \A d, e \in MissingRows(a) : d.path = e.path => d = e
         /\ \A d \in MissingRows(a) :
                /\ d.id = 0
                /\ \E q \in ListedPaths(a) : d.path \in Parents(q)
                /\ d.path \in ListedPaths(a) => LastAt(a, d.path).kind # "dir"
<1> DEFINE F == FinalEntries(a)
           above == { Parents(d.path) : d \in F }
           explicit == { d.path : d \in { d \in F : EntryOf(a, d.id).kind = "dir" } }
<1>1. MissingDirs(a) = (UNION above) \ explicit
  BY DEF MissingDirs
<1>2. \A p \in Path : Parents(p) \subseteq Path /\ IsFiniteSet(Parents(p))
  BY ParentsArePaths
<1>3. /\ IsFiniteSet(F)
      /\ \A d \in F : d.path \in Path /\ d.path \in ListedPaths(a)
      /\ \A d \in F : LastAt(a, d.path) = EntryOf(a, d.id)
      /\ \A p \in ListedPaths(a) : \E d \in F : d.path = p
  BY FinalEntriesAreLast
<1>4. IsFiniteSet(UNION above) /\ UNION above \subseteq Path
  <2> DEFINE f == [d \in F |-> Parents(d.path)]
  <2>1. f \in [F -> SUBSET Path]
    BY <1>2, <1>3
  <2>2. { f[d] : d \in F } = above
    OBVIOUS
  <2>3. \A T \in above : IsFiniteSet(T) /\ T \subseteq Path
    BY <1>2, <1>3
  <2>6. IsFiniteSet(F)
    BY <1>3
  <2> HIDE DEF F, f, above
  <2>4. IsFiniteSet({ f[d] : d \in F })
    BY <2>1, <2>6, ImageIsFinite, Zenon
  <2>5. IsFiniteSet(above)
    BY <2>2, <2>4
  <2> QED BY <2>3, <2>5, FS_UNION
<1>5. IsFiniteSet(MissingDirs(a)) /\ MissingDirs(a) \subseteq Path
  <2> HIDE DEF above, explicit
  <2>1. MissingDirs(a) \in SUBSET (UNION above)
    BY <1>1
  <2> QED BY <1>4, <2>1, FS_Subset
<1>6. IsFiniteSet(MissingRows(a)) /\ MissingRows(a) \subseteq Row
  <2> DEFINE f == [p \in MissingDirs(a) |-> [path |-> p, id |-> 0]]
  <2>1. f \in [MissingDirs(a) -> Row]
    BY <1>5 DEF Row
  <2>2. { f[p] : p \in MissingDirs(a) } = MissingRows(a)
    BY DEF MissingRows
  <2>3. MissingRows(a) \subseteq Row
    BY <1>5 DEF MissingRows, Row
  <2> HIDE DEF f
  <2>4. IsFiniteSet({ f[p] : p \in MissingDirs(a) })
    BY <1>5, <2>1, ImageIsFinite
  <2> QED BY <2>2, <2>3, <2>4
<1>7. \A d, e \in MissingRows(a) : d.path = e.path => d = e
  BY DEF MissingRows
<1>8. ASSUME NEW d \in MissingRows(a)
      PROVE  /\ d.id = 0
             /\ \E q \in ListedPaths(a) : d.path \in Parents(q)
             /\ d.path \in ListedPaths(a) => LastAt(a, d.path).kind # "dir"
  <2>1. d.id = 0 /\ d.path \in MissingDirs(a)
    BY DEF MissingRows
  <2>2. PICK e \in F : d.path \in Parents(e.path)
    BY <1>1, <2>1
  <2>3. ASSUME d.path \in ListedPaths(a) PROVE LastAt(a, d.path).kind # "dir"
    <3>1. PICK e2 \in F : e2.path = d.path
      BY <1>3, <2>3
    <3>2. d.path \notin explicit
      BY <1>1, <2>1
    <3>3. EntryOf(a, e2.id).kind # "dir"
      BY <3>1, <3>2
    <3> QED BY <1>3, <3>1, <3>3
  <2> QED BY <1>3, <2>1, <2>2, <2>3
<1> QED BY <1>6, <1>7, <1>8

CompactRows(a) == ByPath(MissingRows(a)) \o ByPath(FinalEntries(a))

\* Of rows that share a path, only the last is not for a directory that is missing.
Clear(rows) ==
    \A i, j \in 1..Len(rows) :
        (i < j /\ rows[i].path = rows[j].path) => rows[i].id = 0

OnePathEach(rows) ==
    \A i, j \in 1..Len(rows) : rows[i].path = rows[j].path => i = j

LEMMA CompactRowsAreClear ==
  ASSUME NEW a \in Archive
  PROVE  LET W == CompactRows(a)
         IN  /\ W \in Seq(Row) /\ Len(W) \in Nat
             /\ \A i \in 1..Len(W) :
                    IF W[i].id = 0 THEN W[i] \in MissingRows(a)
                    ELSE W[i] \in FinalEntries(a)
             /\ \A d \in FinalEntries(a) : \E i \in 1..Len(W) : W[i] = d
             /\ Clear(W)
             /\ FileAbove(a) \/ OnePathEach(W)
<1> DEFINE M == MissingRows(a)
           F == FinalEntries(a)
           first == ByPath(M)
           second == ByPath(F)
           m == Cardinality(M)
           f == Cardinality(F)
           W == CompactRows(a)
<1>1. /\ M \in SUBSET Row /\ IsFiniteSet(M) /\ \A d, e \in M : d.path = e.path => d = e
      /\ \A d \in M : /\ d.id = 0
                      /\ \E q \in ListedPaths(a) : d.path \in Parents(q)
                      /\ d.path \in ListedPaths(a) => LastAt(a, d.path).kind # "dir"
  BY MissingRowsAreDirs
<1>2. /\ F \in SUBSET Row /\ IsFiniteSet(F) /\ \A d, e \in F : d.path = e.path => d = e
      /\ \A d \in F : d.id # 0 /\ d.path \in ListedPaths(a)
  BY FinalEntriesAreLast DEF Id
<1> HIDE DEF M, F
<1>3. /\ m \in Nat /\ first \in Seq(M) /\ Len(first) = m /\ first \in [1..m -> M]
      /\ \A i, j \in 1..m : first[i] = first[j] => i = j
  BY <1>1, ByPathSorts
<1>4. /\ f \in Nat /\ second \in Seq(F) /\ Len(second) = f /\ second \in [1..f -> F]
      /\ \A d \in F : \E k \in 1..f : second[k] = d
      /\ \A i, j \in 1..f : second[i] = second[j] => i = j
  BY <1>2, ByPathSorts
<1>5. W = first \o second
  BY DEF CompactRows, M, F
<1> HIDE DEF m, f, first, second, W
<1>6. first \in Seq(Row) /\ second \in Seq(Row)
  BY <1>1, <1>2, <1>3, <1>4, SeqMonotonic
<1>7. /\ W \in Seq(Row) /\ Len(W) = m + f
      /\ \A i \in 1..(m + f) : W[i] = IF i <= m THEN first[i] ELSE second[i - m]
  <2>1. /\ first \o second \in Seq(Row) /\ Len(first \o second) = Len(first) + Len(second)
        /\ \A i \in 1..(Len(first) + Len(second)) :
              (first \o second)[i] = IF i <= Len(first) THEN first[i] ELSE second[i - Len(first)]
    BY <1>6, ConcatProperties
  <2> QED BY <1>3, <1>4, <1>5, <2>1
<1>8. ASSUME NEW i \in 1..(m + f)
      PROVE  /\ i <= m => i \in 1..m /\ W[i] = first[i] /\ W[i] \in M
             /\ ~(i <= m) => i - m \in 1..f /\ W[i] = second[i - m] /\ W[i] \in F
  <2>1. i <= m => i \in 1..m
    BY <1>3
  <2>2. ~(i <= m) => i - m \in 1..f
    BY <1>3, <1>4
  <2> QED BY <1>3, <1>4, <1>7, <2>1, <2>2
<1>9. \A i \in 1..(m + f) : IF W[i].id = 0 THEN W[i] \in M ELSE W[i] \in F
  BY <1>1, <1>2, <1>8
<1>10. ASSUME NEW d \in F PROVE \E i \in 1..(m + f) : W[i] = d
  <2>1. PICK k \in 1..f : second[k] = d
    BY <1>4
  <2>2. k + m \in 1..(m + f) /\ ~(k + m <= m) /\ (k + m) - m = k
    BY <1>3, <1>4
  <2>3. W[k + m] = d
    BY <1>8, <2>1, <2>2
  <2> QED BY <2>2, <2>3
<1>11. ASSUME NEW i \in 1..(m + f), NEW j \in 1..(m + f), W[i].path = W[j].path,
              (i <= m) <=> (j <= m)
       PROVE  i = j
  <2>1. CASE i <= m
    <3>1. first[i] = first[j] /\ i \in 1..m /\ j \in 1..m
      BY <1>1, <1>8, <1>11, <2>1
    <3> QED BY <1>3, <3>1
  <2>2. CASE ~(i <= m)
    <3>1. second[i - m] = second[j - m] /\ i - m \in 1..f /\ j - m \in 1..f
      BY <1>2, <1>8, <1>11, <2>2
    <3>2. i - m = j - m
      BY <1>4, <3>1
    <3> QED BY <1>3, <3>2
  <2> QED BY <2>1, <2>2
<1>12. Clear(W)
  <2> SUFFICES ASSUME NEW i \in 1..(m + f), NEW j \in 1..(m + f), i < j,
                      W[i].path = W[j].path
               PROVE  W[i].id = 0
    BY <1>7 DEF Clear
  <2>1. i <= m
    <3>1. i # j /\ (j <= m => i <= m)
      BY <1>3, <1>4
    <3> QED BY <1>11, <3>1
  <2> QED BY <1>1, <1>8, <2>1
<1>13. ASSUME NEW i \in 1..(m + f), NEW j \in 1..(m + f), W[i].path = W[j].path,
              i <= m, ~(j <= m)
       PROVE  FileAbove(a)
  <2>1. W[i] \in M /\ W[j] \in F
    BY <1>8, <1>13
  <2>2. PICK q \in ListedPaths(a) : W[i].path \in Parents(q)
    BY <1>1, <2>1
  <2>3. W[i].path \in ListedPaths(a)
    BY <1>2, <1>13, <2>1
  <2> QED BY <1>1, <2>1, <2>2, <2>3 DEF FileAbove
<1>14. FileAbove(a) \/ OnePathEach(W)
  BY <1>7, <1>11, <1>13 DEF OnePathEach
<1>15. Len(W) \in Nat
  BY <1>3, <1>4, <1>7
<1> QED BY <1>7, <1>9, <1>10, <1>12, <1>14, <1>15 DEF W, M, F

-----------------------------------------------------------------------------
(* What rename_duplicates goes through *)

RenameRows(a) == StableSort(RenamedRows(Listed(a)))

LEMMA RenameRowsArePermuted ==
  ASSUME NEW a \in Archive, \A i \in DOMAIN Listed(a) : Storable(Renamed(Listed(a), i))
  PROVE  LET W == RenameRows(a)
             s == Listed(a)
         IN  /\ W \in Seq(Row) /\ Len(W) = Len(s)
             /\ \E at \in [1..Len(s) -> 1..Len(s)] :
                    /\ \A k \in 1..Len(s) : W[k].path = Renamed(s, at[k])
                                            /\ W[k].id = s[at[k]].id
                    /\ \A i \in 1..Len(s) : \E k \in 1..Len(s) : at[k] = i
             /\ Collides(a) \/ OnePathEach(W)
<1> DEFINE s == Listed(a)
           n == Len(s)
           t == RenamedRows(s)
           W == RenameRows(a)
<1>1. /\ n \in Nat /\ DOMAIN s = 1..n
      /\ \A k \in 1..n : s[k].id \in Id
  BY ListedRows
<1>2. /\ t = [i \in 1..n |-> [path |-> Renamed(s, i), id |-> s[i].id]]
      /\ \A i \in 1..n : Renamed(s, i) \in Path
  BY <1>1 DEF RenamedRows, Storable
<1> HIDE DEF s, n, t
<1>3. t \in Seq(Row) /\ Len(t) = n
  <2>1. \A i \in 1..n : [path |-> Renamed(s, i), id |-> s[i].id] \in Row
    BY <1>1, <1>2 DEF Row
  <2> HIDE DEF Row
  <2>2. t \in [1..n -> Row]
    BY <1>2, <2>1
  <2> QED BY <1>1, <2>2
<1>4. PICK at \in [1..n -> 1..n] :
        /\ StableSort(t) = [k \in 1..n |-> t[at[k]]]
        /\ \A i \in 1..n : \E k \in 1..n : at[k] = i
        /\ \A i, j \in 1..n : i < j => (t[at[i]].path = t[at[j]].path => at[i] < at[j])
  <2>1. PICK at \in [1..Len(t) -> 1..Len(t)] :
        /\ StableSort(t) = [k \in 1..Len(t) |-> t[at[k]]]
        /\ \A i \in 1..Len(t) : \E k \in 1..Len(t) : at[k] = i
        /\ \A i, j \in 1..Len(t) :
              i < j => /\ ~PathLess(t[at[j]].path, t[at[i]].path)
                       /\ t[at[i]].path = t[at[j]].path => at[i] < at[j]
    BY <1>3, StableSortSorts
  <2> QED BY <1>3, <2>1
<1>5. W = [k \in 1..n |-> t[at[k]]]
  BY <1>4 DEF RenameRows, s, t
<1> HIDE DEF W
<1>6. W \in Seq(Row) /\ Len(W) = n
  <2>1. \A k \in 1..n : t[at[k]] \in Row
    BY <1>3, <1>4, ElementOfSeq
  <2> HIDE DEF Row
  <2>2. W \in [1..n -> Row]
    BY <1>5, <2>1
  <2> QED BY <1>1, <2>2
<1>7. \A k \in 1..n : W[k].path = Renamed(s, at[k]) /\ W[k].id = s[at[k]].id
  <2>1. ASSUME NEW k \in 1..n
        PROVE  W[k].path = Renamed(s, at[k]) /\ W[k].id = s[at[k]].id
    <3>1. W[k] = t[at[k]] /\ at[k] \in 1..n
      BY <1>4, <1>5
    <3>2. t[at[k]] = [path |-> Renamed(s, at[k]), id |-> s[at[k]].id]
      BY <1>2, <3>1
    <3> QED BY <3>1, <3>2
  <2> QED BY <2>1
<1>8. ASSUME ~Collides(a) PROVE OnePathEach(W)
  <2> SUFFICES ASSUME NEW i \in 1..n, NEW j \in 1..n, W[i].path = W[j].path
               PROVE  i = j
    BY <1>6 DEF OnePathEach
  <2>1. /\ at[i] \in 1..n /\ at[j] \in 1..n
        /\ Renamed(s, at[i]) = Renamed(s, at[j])
        /\ t[at[i]].path = t[at[j]].path
    <3>1. at[i] \in 1..n /\ at[j] \in 1..n
      BY <1>4
    <3>2. W[i] = t[at[i]] /\ W[j] = t[at[j]]
      BY <1>5
    <3>3. W[i].path = Renamed(s, at[i]) /\ W[j].path = Renamed(s, at[j])
      BY <1>7
    <3> QED BY <3>1, <3>2, <3>3
  <2>2. at[i] = at[j]
    BY <1>1, <1>8, <2>1 DEF Collides, s
  <2>3. ~(at[i] < at[j]) /\ ~(at[j] < at[i])
    BY <1>1, <2>1, <2>2
  <2>4. ~(i < j) /\ ~(j < i)
    BY <1>4, <2>1, <2>3
  <2> QED BY <1>1, <2>4
<1> QED BY <1>4, <1>6, <1>7, <1>8, Zenon DEF W, s, n

-----------------------------------------------------------------------------
(* The invariant *)

\* What a tool goes through, and how much of it is done.
Rows ==
    CASE tool = "compact" -> CompactRows(archive)
      [] tool = "rename" -> RenameRows(archive)
      [] OTHER -> Listed(archive)

Done == Len(Rows) - Len(todo)

\* What is left to do is the rest of the rows, and each names an entry.
TodoInv ==
    tool # "none" =>
        /\ Rows \in Seq(Row)
        /\ \A i \in 1..Len(Rows) : Rows[i].id # 0 => \E r \in archive.entries : r.id = Rows[i].id
        /\ Len(todo) <= Len(Rows)
        /\ \A i \in 1..Len(todo) : todo[i] = Rows[Done + i]
        /\ tool = "rename" =>
            \A i \in DOMAIN Listed(archive) : Storable(Renamed(Listed(archive), i))

\* The IDs of the new archive are those from 1 on, one for each entry.
NumberedFromOne(entries) ==
    /\ IsFiniteSet(entries)
    /\ \A r \in entries : r.id \in 1..Cardinality(entries)
    /\ \A r, s \in entries : r.id = s.id => r = s

\* The entry that a new row names is a directory that was missing, or a copy.
RowsCopied ==
    \A i \in 1..Done :
        /\ out.rows[i].path = Rows[i].path
        /\ \E r \in out.entries :
            /\ r.id = out.rows[i].id
            /\ Rows[i].id = 0 => r.kind = "dir"
            /\ (Rows[i].id # 0 /\ Clear(Rows)) => Same(r, EntryOf(archive, Rows[i].id))

\* written has the path of a row that is done for each ID of such rows.
WrittenInv ==
    /\ \A i \in 1..Done : Rows[i].id # 0 => Rows[i].id \in DOMAIN written
    /\ \A id \in DOMAIN written :
        \E i \in 1..Done : Rows[i].id = id /\ Rows[i].path = written[id]

\* New rows name one entry if and only if the old ones did.
LinksCopied ==
    Clear(Rows) =>
        \A i, j \in 1..Done :
            (Rows[i].id # 0 /\ Rows[j].id # 0) =>
                (out.rows[i].id = out.rows[j].id <=> Rows[i].id = Rows[j].id)

CopyInv ==
    tool \in Copiers =>
        /\ Len(out.rows) = Done
        /\ NumberedFromOne(out.entries)
        /\ RowsCopied /\ WrittenInv /\ LinksCopied

Files == { n \in disk : n.kind = "file" }

\* A file has the data of the last of the rows that are done with its path, or,
\* of the entries that were asked for, of the first.
FilesExtracted ==
    \A n \in Files :
        \E i \in 1..Done :
            /\ Rows[i].path = n.path
            /\ n.data = EntryOf(archive, Rows[i].id).data
            /\ tool = "extractAll" => \A j \in 1..Done : Rows[j].path = n.path => j <= i
            /\ tool = "extractSome" => \A j \in 1..Done : Rows[j].path = n.path => i <= j

ExtractInv ==
    tool \in Extractors =>
        /\ { n.path : n \in disk \ Files } = UNION { Parents(n.path) : n \in Files }
        /\ FilesExtracted
        /\ tool = "extractAll" => \A i \in 1..Done : \E n \in Files : n.path = Rows[i].path
        /\ tool = "extractSome" => \A i \in 1..Done : Rows[i].path \notin wanted

ToolsInv == TypeOK /\ TodoInv /\ CopyInv /\ ExtractInv

\* A row that is done is the next one's predecessor: what Head and Tail of todo are.
LEMMA NextRow ==
  ASSUME TypeOK, TodoInv, tool # "none", todo # <<>>
  PROVE  /\ Len(todo) \in Nat \ {0} /\ Len(Rows) \in Nat
         /\ Done \in Nat /\ Done + 1 \in 1..Len(Rows)
         /\ Head(todo) = Rows[Done + 1]
         /\ Rows[Done + 1] \in Row
         /\ Rows[Done + 1].id # 0 => \E r \in archive.entries : r.id = Rows[Done + 1].id
         /\ Tail(todo) \in Seq(Row) /\ Len(Tail(todo)) = Len(todo) - 1
         /\ \A i \in 1..Len(Tail(todo)) : Tail(todo)[i] = Rows[Done + 1 + i]
<1> DEFINE n == Len(Rows)
           m == Len(todo)
<1>1. todo \in Seq(Row) /\ m \in Nat \ {0}
  BY EmptySeq DEF TypeOK, Row
<1>2. /\ Rows \in Seq(Row) /\ n \in Nat /\ m <= n
      /\ \A i \in 1..n : Rows[i].id # 0 => \E r \in archive.entries : r.id = Rows[i].id
      /\ \A i \in 1..m : todo[i] = Rows[Done + i]
  BY LenProperties DEF TodoInv
<1>3. Done = n - m
  BY DEF Done
<1> HIDE DEF n, m
<1>4. Done \in Nat /\ Done + 1 \in 1..n /\ 1 \in 1..m
  BY <1>1, <1>2, <1>3
<1>5. Head(todo) = todo[1]
  OBVIOUS
<1>6. Head(todo) = Rows[Done + 1]
  BY <1>2, <1>4, <1>5
<1>7. Rows[Done + 1] \in Row
  BY <1>2, <1>4, ElementOfSeq DEF n
<1>8. /\ Tail(todo) \in Seq(Row) /\ Len(Tail(todo)) = m - 1
      /\ \A i \in 1..(m - 1) : Tail(todo)[i] = todo[i + 1]
  BY <1>1, HeadTailProperties DEF m
<1>9. ASSUME NEW i \in 1..(m - 1) PROVE Tail(todo)[i] = Rows[Done + 1 + i]
  <2>1. i + 1 \in 1..m /\ Done + (i + 1) = Done + 1 + i
    BY <1>1, <1>4
  <2>2. todo[i + 1] = Rows[Done + (i + 1)]
    BY <1>2, <2>1
  <2> QED BY <1>8, <2>1, <2>2
<1> QED BY <1>1, <1>2, <1>4, <1>6, <1>7, <1>8, <1>9 DEF n, m

\* A step that takes the next row.
LEMMA TodoStep ==
  ASSUME TypeOK, TodoInv, tool # "none", todo # <<>>,
         todo' = Tail(todo), UNCHANGED <<archive, tool>>
  PROVE  TodoInv' /\ Rows' = Rows /\ Done' = Done + 1
<1>1. Rows' = Rows
  BY DEF Rows
<1>2. Done' = Done + 1
  <2>1. Len(todo) \in Nat /\ Len(Rows) \in Nat /\ Len(todo') = Len(todo) - 1
    BY NextRow
  <2> QED BY <1>1, <2>1 DEF Done
<1>3. /\ Len(todo') <= Len(Rows)
      /\ \A i \in 1..Len(todo') : todo'[i] = Rows[Done + 1 + i]
  <2>1. Len(todo') = Len(todo) - 1 /\ Len(todo) \in Nat /\ Len(Rows) \in Nat
        /\ Len(todo) <= Len(Rows)
    BY NextRow DEF TodoInv
  <2> QED BY <2>1, NextRow
<1>4. TodoInv'
  BY <1>1, <1>2, <1>3 DEF TodoInv
<1> QED BY <1>1, <1>2, <1>4

LEMMA StopStep ==
  ASSUME TypeOK, Stops, archive' \in Archive, UNCHANGED disk
  PROVE  ToolsInv'
<1>1. Nothing \in Archive
  BY EmptySeq DEF Nothing, Archive
<1>2. <<>> \in Seq(Row) /\ DOMAIN NoPaths = {}
  BY EmptySeq DEF NoPaths
<1>3. TypeOK'
  BY <1>1, <1>2 DEF TypeOK, Stops, Row
<1>4. TodoInv' /\ CopyInv' /\ ExtractInv'
  BY DEF Stops, TodoInv, CopyInv, ExtractInv, Copiers, Extractors
<1> QED BY <1>3, <1>4 DEF ToolsInv

\* A tool starts with nothing done.
LEMMA StartStep ==
  ASSUME TypeOK, NEW t \in Copiers \cup Extractors, StartsWith(t, Rows'),
         Rows' \in Seq(Row),
         \A i \in 1..Len(Rows') :
            Rows'[i].id # 0 => \E r \in archive.entries : r.id = Rows'[i].id,
         t = "rename" =>
            \A i \in DOMAIN Listed(archive) : Storable(Renamed(Listed(archive), i)),
         wanted' \subseteq Path, disk' = disk \/ disk' = EmptyDisk
  PROVE  TypeOK' /\ TodoInv' /\ CopyInv' /\ Done' = 0
<1>1. /\ tool' = t /\ todo' = Rows' /\ out' = Nothing /\ written' = NoPaths
      /\ archive' = archive
  BY DEF StartsWith
<1>2. Nothing \in Archive
  BY EmptySeq DEF Nothing, Archive
<1>3. DOMAIN NoPaths = {}
  BY EmptySeq DEF NoPaths
<1>4. TypeOK'
  BY <1>1, <1>2, <1>3 DEF TypeOK, Row, EmptyDisk
<1>5. Len(Rows') \in Nat
  BY LenProperties
<1>6. Done' = 0
  BY <1>1, <1>5 DEF Done
<1>7. TodoInv'
  <2>1. \A i \in 1..Len(todo') : todo'[i] = Rows'[Done' + i]
    BY <1>1, <1>5, <1>6
  <2> QED BY <1>1, <1>5, <2>1 DEF TodoInv
<1>8. CopyInv'
  <2>1. Len(out'.rows) = 0 /\ out'.entries = {}
    BY <1>1, EmptySeq DEF Nothing
  <2>2. NumberedFromOne(out.entries)'
    BY <2>1, FS_EmptySet DEF NumberedFromOne
  <2>3. 1..Done' = {}
    BY <1>6
  <2>4. RowsCopied' /\ WrittenInv' /\ LinksCopied'
    BY <1>1, <1>3, <2>3 DEF RowsCopied, WrittenInv, LinksCopied
  <2> QED BY <1>6, <2>1, <2>2, <2>4 DEF CopyInv
<1> QED BY <1>4, <1>6, <1>7, <1>8

-----------------------------------------------------------------------------
(* Copying *)

LEMMA NewEntryIsNumbered ==
  ASSUME NEW E, NumberedFromOne(E), NEW kind, NEW data
  PROVE  LET id == Cardinality(E) + 1
             e == [id |-> id, kind |-> kind, data |-> data]
         IN  /\ id \in Id /\ \A r \in E : r.id # id
             /\ NumberedFromOne(E \cup {e})
<1> DEFINE n == Cardinality(E)
           e == [id |-> n + 1, kind |-> kind, data |-> data]
<1>1. IsFiniteSet(E) /\ n \in Nat
  BY FS_CardinalityType DEF NumberedFromOne
<1>2. (\A r \in E : r.id \in 1..n) /\ \A r, s \in E : r.id = s.id => r = s
  BY DEF NumberedFromOne
<1>3. e.id = n + 1
  OBVIOUS
<1> HIDE DEF n, e
<1>4. \A r \in E : r.id # n + 1 /\ r # e
  BY <1>1, <1>2, <1>3
<1>5. IsFiniteSet(E \cup {e}) /\ Cardinality(E \cup {e}) = n + 1
  BY <1>1, <1>4, FS_AddElement DEF n
<1>6. NumberedFromOne(E \cup {e})
  BY <1>1, <1>2, <1>3, <1>4, <1>5 DEF NumberedFromOne
<1> QED BY <1>1, <1>4, <1>6 DEF n, e, Id

\* What a row that is pushed leaves of the others.
LEMMA PushedRows ==
  ASSUME TypeOK, NEW path \in Path, NEW id \in Id, out'.rows = Pushed(out, path, id)
  PROVE  /\ out'.rows \in Seq([path : Path, id : Id])
         /\ Len(out.rows) \in Nat /\ Len(out'.rows) = Len(out.rows) + 1
         /\ \A i \in 1..Len(out.rows) : out'.rows[i] = out.rows[i]
         /\ out'.rows[Len(out.rows) + 1] = [path |-> path, id |-> id]
<1> DEFINE T == [path : Path, id : Id]
           d == [path |-> path, id |-> id]
<1>1. out.rows \in Seq(T) /\ d \in T /\ out'.rows = Append(out.rows, d)
  BY DEF TypeOK, Archive, Pushed
<1> HIDE DEF T, d
<1>2. /\ Append(out.rows, d) \in Seq(T) /\ Len(Append(out.rows, d)) = Len(out.rows) + 1
      /\ \A i \in 1..Len(out.rows) : Append(out.rows, d)[i] = out.rows[i]
      /\ Append(out.rows, d)[Len(out.rows) + 1] = d
      /\ Len(out.rows) \in Nat
  BY <1>1, AppendProperties, LenProperties
<1> QED BY <1>1, <1>2 DEF T, d

\* The next row gets an entry of its own.
LEMMA AddStep ==
  ASSUME ToolsInv, Copying, Advances,
         NEW kind \in Kind, NEW data \in Data \cup {NoData},
         out' = Added(out, Head(todo).path, kind, data),
         Head(todo).id = 0 => kind = "dir",
         Head(todo).id # 0 =>
            /\ kind = EntryOf(archive, Head(todo).id).kind
            /\ data = EntryOf(archive, Head(todo).id).data
            /\ Head(todo).id \notin DOMAIN written
            /\ written'[Head(todo).id] = Head(todo).path,
         DOMAIN written' = DOMAIN written \cup ({Head(todo).id} \ {0}),
         \A id \in DOMAIN written : written'[id] = written[id]
  PROVE  ToolsInv'
<1> DEFINE k == Done
           d == Head(todo)
           E == out.entries
           c == Cardinality(E) + 1
           e == [id |-> c, kind |-> kind, data |-> data]
<1>1. /\ TypeOK /\ TodoInv /\ CopyInv /\ tool \in Copiers /\ tool # "none" /\ todo # <<>>
      /\ tool' = tool /\ archive' = archive /\ todo' = Tail(todo)
      /\ disk' = disk /\ wanted' = wanted
  BY DEF ToolsInv, Copying, Advances, Copiers
<1>2. TodoInv' /\ Rows' = Rows /\ Done' = k + 1
  BY <1>1, TodoStep
<1>3. /\ k \in Nat /\ k + 1 \in 1..Len(Rows) /\ d = Rows[k + 1] /\ d \in Row
      /\ Tail(todo) \in Seq(Row)
  BY <1>1, NextRow
<1>4. d.path \in Path /\ d.id \in Nat
  BY <1>3 DEF Row, Id
<1>5. /\ Len(out.rows) = k /\ NumberedFromOne(E)
      /\ RowsCopied /\ WrittenInv /\ LinksCopied
  BY <1>1 DEF CopyInv
<1>6. c \in Id /\ (\A r \in E : r.id # c) /\ NumberedFromOne(E \cup {e})
  BY <1>5, NewEntryIsNumbered
<1>7. out'.rows = Pushed(out, d.path, c) /\ out'.entries = E \cup {e}
      /\ out' = [rows |-> out'.rows, entries |-> out'.entries]
  BY DEF Added
<1>8. e.id = c /\ e.kind = kind /\ e.data = data
  OBVIOUS
<1>9. /\ out'.rows \in Seq([path : Path, id : Id]) /\ Len(out'.rows) = k + 1
      /\ \A i \in 1..k : out'.rows[i] = out.rows[i]
      /\ out'.rows[k + 1] = [path |-> d.path, id |-> c]
  BY <1>1, <1>4, <1>5, <1>6, <1>7, PushedRows
<1>10. out' \in Archive
  <2>1. e \in [id : Id, kind : Kind, data : Data \cup {NoData}]
    BY <1>6
  <2>2. E \subseteq [id : Id, kind : Kind, data : Data \cup {NoData}]
    BY <1>1 DEF TypeOK, Archive
  <2> QED BY <1>7, <1>9, <2>1, <2>2 DEF Archive
<1>11. /\ DOMAIN written' \subseteq Id
       /\ \A id \in DOMAIN written' : written'[id] \in Path
  <2>1. ({d.id} \ {0}) \subseteq Id
    BY <1>4 DEF Id
  <2> QED BY <1>1, <1>4, <2>1 DEF TypeOK
<1>12. TypeOK'
  BY <1>1, <1>3, <1>10, <1>11 DEF TypeOK, Row
<1> HIDE DEF k, d, E, c, e
<1>13. \A i \in 1..(k + 1) : i \in 1..k \/ i = k + 1
  BY <1>3
<1>14. k + 1 \notin 1..k
  BY <1>3
<1>15. RowsCopied'
  <2> SUFFICES ASSUME NEW i \in 1..(k + 1)
               PROVE  /\ out'.rows[i].path = Rows[i].path
                      /\ \E r \in E \cup {e} :
                          /\ r.id = out'.rows[i].id
                          /\ Rows[i].id = 0 => r.kind = "dir"
                          /\ (Rows[i].id # 0 /\ Clear(Rows)) =>
                                Same(r, EntryOf(archive, Rows[i].id))
    BY <1>1, <1>2, <1>7 DEF RowsCopied
  <2>1. CASE i \in 1..k
    <3>1. /\ out.rows[i].path = Rows[i].path
          /\ \E r \in E :
               /\ r.id = out.rows[i].id
               /\ Rows[i].id = 0 => r.kind = "dir"
               /\ (Rows[i].id # 0 /\ Clear(Rows)) => Same(r, EntryOf(archive, Rows[i].id))
      BY <1>5, <2>1 DEF RowsCopied, k, E
    <3>2. out'.rows[i] = out.rows[i]
      BY <1>9, <2>1
    <3> QED BY <3>1, <3>2
  <2>2. CASE i = k + 1
    <3>1. out'.rows[i].path = d.path /\ out'.rows[i].id = c /\ Rows[i] = d
      BY <1>3, <1>9, <2>2
    <3>2. d.id # 0 => Same(e, EntryOf(archive, d.id))
      BY <1>8 DEF Same, d
    <3>3. d.id = 0 => e.kind = "dir"
      BY <1>8 DEF d
    <3> QED BY <1>8, <3>1, <3>2, <3>3
  <2> QED BY <1>13, <2>1, <2>2
<1>16. WrittenInv'
  <2>1. ASSUME NEW i \in 1..(k + 1), Rows[i].id # 0 PROVE Rows[i].id \in DOMAIN written'
    <3>1. i \in 1..k => Rows[i].id \in DOMAIN written
      BY <1>5, <2>1 DEF WrittenInv, k
    <3>2. i = k + 1 => Rows[i].id \in {d.id} \ {0}
      BY <1>3, <2>1
    <3> QED BY <1>13, <3>1, <3>2 DEF d
  <2>2. ASSUME NEW id \in DOMAIN written'
        PROVE  \E i \in 1..(k + 1) : Rows[i].id = id /\ Rows[i].path = written'[id]
    <3>1. CASE id \in DOMAIN written
      <4>1. PICK i \in 1..k : Rows[i].id = id /\ Rows[i].path = written[id]
        BY <1>5, <3>1 DEF WrittenInv, k
      <4>2. i \in 1..(k + 1) /\ written'[id] = written[id]
        BY <1>3, <3>1, <4>1
      <4> QED BY <4>1, <4>2
    <3>2. CASE id = d.id /\ d.id # 0
      <4>1. written'[d.id] = d.path
        BY <3>2 DEF d
      <4>2. k + 1 \in 1..(k + 1)
        BY <1>3
      <4> QED BY <1>3, <3>2, <4>1, <4>2
    <3> QED BY <3>1, <3>2 DEF d
  <2> QED BY <1>2, <2>1, <2>2 DEF WrittenInv
<1>17. LinksCopied'
  <2> SUFFICES ASSUME Clear(Rows), NEW i \in 1..(k + 1), NEW j \in 1..(k + 1),
                      Rows[i].id # 0, Rows[j].id # 0
               PROVE  out'.rows[i].id = out'.rows[j].id <=> Rows[i].id = Rows[j].id
    BY <1>2 DEF LinksCopied
  <2>1. ASSUME NEW l \in 1..k
        PROVE  /\ out'.rows[l].id = out.rows[l].id /\ out.rows[l].id # c
               /\ (d.id # 0 /\ Rows[l].id # 0) => Rows[l].id # d.id
    <3>1. \E r \in E : r.id = out.rows[l].id
      BY <1>5 DEF RowsCopied, k, E
    <3>2. Rows[l].id # 0 => Rows[l].id \in DOMAIN written
      BY <1>5 DEF WrittenInv, k
    <3> QED BY <1>6, <1>9, <3>1, <3>2 DEF d
  <2>2. out'.rows[k + 1].id = c /\ Rows[k + 1] = d
    BY <1>3, <1>9
  <2>3. CASE i \in 1..k /\ j \in 1..k
    <3>1. out.rows[i].id = out.rows[j].id <=> Rows[i].id = Rows[j].id
      BY <1>5, <2>3 DEF LinksCopied, k
    <3> QED BY <2>1, <2>3, <3>1
  <2>4. CASE i \in 1..k /\ j = k + 1
    BY <2>1, <2>2, <2>4
  <2>5. CASE i = k + 1 /\ j \in 1..k
    BY <2>1, <2>2, <2>5
  <2>6. CASE i = k + 1 /\ j = k + 1
    BY <2>6
  <2> QED BY <1>13, <2>3, <2>4, <2>5, <2>6
<1>18. CopyInv'
  BY <1>2, <1>6, <1>7, <1>9, <1>15, <1>16, <1>17 DEF CopyInv
<1>19. ExtractInv'
  BY <1>1 DEF ExtractInv, Copiers, Extractors
<1> QED BY <1>2, <1>12, <1>18, <1>19 DEF ToolsInv

\* The first new row with a path that was written.
LEMMA TargetFound ==
  ASSUME ToolsInv, tool \in Copiers, NEW id \in DOMAIN written
  PROVE  \E m \in 1..Done :
            /\ TargetOf(out, written[id]) = out.rows[m].id
            /\ out.rows[m].path = written[id]
            /\ \A j \in 1..Done : out.rows[j].path = written[id] => m <= j
<1> DEFINE at == { i \in DOMAIN out.rows : out.rows[i].path = written[id] }
           m == CHOOSE i \in at : \A j \in at : i <= j
<1>1. Len(out.rows) = Done /\ RowsCopied /\ WrittenInv
  BY DEF ToolsInv, CopyInv
<1>2. DOMAIN out.rows = 1..Done /\ Done \in Nat
  <2>1. out.rows \in Seq([path : Path, id : Id])
    BY DEF ToolsInv, TypeOK, Archive
  <2> QED BY <1>1, <2>1, LenProperties
<1>3. PICK i \in 1..Done : Rows[i].path = written[id]
  BY <1>1 DEF WrittenInv
<1>4. at \in SUBSET Nat /\ at # {}
  BY <1>1, <1>2, <1>3 DEF RowsCopied
<1>5. \E a \in at : \A j \in at : a <= j
  <2> HIDE DEF at
  <2> QED BY <1>4, LeastMember
<1>6. m \in at /\ \A j \in at : m <= j
  <2> HIDE DEF at
  <2> QED BY <1>5, Zenon
<1>7. TargetOf(out, written[id]) = out.rows[m].id
  BY Zenon DEF TargetOf
<1> HIDE DEF m
<1> QED BY <1>2, <1>6, <1>7

\* A hard link that is made goes to the copy of the row's own entry.
LEMMA LinkStep ==
  ASSUME ToolsInv, LinkEntry
  PROVE  ToolsInv'
<1> DEFINE k == Done
           d == Head(todo)
           E == out.entries
           t == TargetOf(out, written[d.id])
<1>1. /\ TypeOK /\ TodoInv /\ CopyInv /\ tool \in Copiers /\ tool # "none" /\ todo # <<>>
      /\ tool' = tool /\ archive' = archive /\ todo' = Tail(todo)
      /\ disk' = disk /\ wanted' = wanted /\ written' = written
      /\ d.id # 0 /\ d.id \in DOMAIN written /\ CanLink(out, written[d.id], d.path)
      /\ out' = Linked(out, written[d.id], d.path)
  BY DEF ToolsInv, LinkEntry, Copying, Advances, Copiers, IsWritten
<1>2. TodoInv' /\ Rows' = Rows /\ Done' = k + 1
  BY <1>1, TodoStep
<1>3. /\ k \in Nat /\ k + 1 \in 1..Len(Rows) /\ d = Rows[k + 1] /\ d \in Row
      /\ Tail(todo) \in Seq(Row)
  BY <1>1, NextRow
<1>4. d.path \in Path
  BY <1>3 DEF Row
<1>5. /\ Len(out.rows) = k /\ NumberedFromOne(E)
      /\ RowsCopied /\ WrittenInv /\ LinksCopied
  BY <1>1 DEF CopyInv
<1>6. PICK m \in 1..k : /\ t = out.rows[m].id
                        /\ out.rows[m].path = written[d.id]
                        /\ \A j \in 1..k : out.rows[j].path = written[d.id] => m <= j
  BY <1>1, TargetFound
<1>7. PICK r0 \in E : /\ r0.id = out.rows[m].id
                      /\ Rows[m].id = 0 => r0.kind = "dir"
                      /\ (Rows[m].id # 0 /\ Clear(Rows)) =>
                            Same(r0, EntryOf(archive, Rows[m].id))
  BY <1>5 DEF RowsCopied
<1>8. r0.kind # "dir"
  <2>1. EntryOf(out, t).kind # "dir"
    BY <1>1 DEF CanLink
  <2>2. EntryOf(out, t) \in E /\ EntryOf(out, t).id = t
    BY <1>6, <1>7, EntryOfNamed
  <2>3. EntryOf(out, t) = r0
    BY <1>5, <1>6, <1>7, <2>2 DEF NumberedFromOne
  <2> QED BY <2>1, <2>3
<1>9. Clear(Rows) => Rows[m].id = d.id
  <2> SUFFICES ASSUME Clear(Rows) PROVE Rows[m].id = d.id
    OBVIOUS
  <2>1. PICK i \in 1..k : Rows[i].id = d.id /\ Rows[i].path = written[d.id]
    BY <1>1, <1>5 DEF WrittenInv
  <2>2. out.rows[i].path = Rows[i].path /\ out.rows[m].path = Rows[m].path
    BY <1>5 DEF RowsCopied
  <2>3. m <= i /\ Rows[m].path = Rows[i].path
    BY <1>6, <2>1, <2>2
  <2>4. Rows[m].id # 0
    BY <1>7, <1>8
  <2>5. ~(m < i)
    <3>1. m \in 1..Len(Rows) /\ i \in 1..Len(Rows)
      BY <1>3
    <3> QED BY <2>3, <2>4, <3>1 DEF Clear
  <2>6. m = i
    BY <1>3, <2>3, <2>5
  <2> QED BY <2>1, <2>6
<1>10. t \in Id
  <2>1. E \subseteq [id : Id, kind : Kind, data : Data \cup {NoData}]
    BY <1>1 DEF TypeOK, Archive
  <2> QED BY <1>6, <1>7, <2>1
<1>11. out'.rows = Pushed(out, d.path, t) /\ out'.entries = E
       /\ out' = [rows |-> out'.rows, entries |-> out'.entries]
  BY <1>1 DEF Linked
<1>12. /\ out'.rows \in Seq([path : Path, id : Id]) /\ Len(out'.rows) = k + 1
       /\ \A i \in 1..k : out'.rows[i] = out.rows[i]
       /\ out'.rows[k + 1] = [path |-> d.path, id |-> t]
  BY <1>1, <1>4, <1>5, <1>10, <1>11, PushedRows
<1>13. TypeOK'
  <2>1. out' \in Archive
    BY <1>1, <1>11, <1>12 DEF TypeOK, Archive
  <2> QED BY <1>1, <1>3, <2>1 DEF TypeOK, Row
<1> HIDE DEF k, d, E, t
<1>14. \A i \in 1..(k + 1) : i \in 1..k \/ i = k + 1
  BY <1>3
<1>15. out'.rows[k + 1].path = d.path /\ out'.rows[k + 1].id = out.rows[m].id /\ Rows[k + 1] = d
  BY <1>3, <1>6, <1>12
<1>16. RowsCopied'
  <2> SUFFICES ASSUME NEW i \in 1..(k + 1)
               PROVE  /\ out'.rows[i].path = Rows[i].path
                      /\ \E r \in E :
                          /\ r.id = out'.rows[i].id
                          /\ Rows[i].id = 0 => r.kind = "dir"
                          /\ (Rows[i].id # 0 /\ Clear(Rows)) =>
                                Same(r, EntryOf(archive, Rows[i].id))
    BY <1>1, <1>2, <1>11 DEF RowsCopied
  <2>1. CASE i \in 1..k
    <3>1. /\ out.rows[i].path = Rows[i].path
          /\ \E r \in E :
               /\ r.id = out.rows[i].id
               /\ Rows[i].id = 0 => r.kind = "dir"
               /\ (Rows[i].id # 0 /\ Clear(Rows)) => Same(r, EntryOf(archive, Rows[i].id))
      BY <1>5, <2>1 DEF RowsCopied, k, E
    <3>2. out'.rows[i] = out.rows[i]
      BY <1>12, <2>1
    <3> QED BY <3>1, <3>2
  <2>2. CASE i = k + 1
    <3>1. Clear(Rows) => Same(r0, EntryOf(archive, d.id))
      BY <1>1, <1>7, <1>9
    <3> QED BY <1>1, <1>7, <1>15, <2>2, <3>1
  <2> QED BY <1>14, <2>1, <2>2
<1>17. WrittenInv'
  <2>1. ASSUME NEW i \in 1..(k + 1), Rows[i].id # 0 PROVE Rows[i].id \in DOMAIN written
    <3>1. i \in 1..k => Rows[i].id \in DOMAIN written
      BY <1>5, <2>1 DEF WrittenInv, k
    <3> QED BY <1>1, <1>14, <1>15, <3>1
  <2>2. ASSUME NEW id \in DOMAIN written
        PROVE  \E i \in 1..(k + 1) : Rows[i].id = id /\ Rows[i].path = written[id]
    <3>1. PICK i \in 1..k : Rows[i].id = id /\ Rows[i].path = written[id]
      BY <1>5 DEF WrittenInv, k
    <3>2. i \in 1..(k + 1)
      BY <1>3
    <3> QED BY <3>1, <3>2
  <2> QED BY <1>1, <1>2, <2>1, <2>2 DEF WrittenInv
<1>18. LinksCopied'
  <2> SUFFICES ASSUME Clear(Rows), NEW i \in 1..(k + 1), NEW j \in 1..(k + 1),
                      Rows[i].id # 0, Rows[j].id # 0
               PROVE  out'.rows[i].id = out'.rows[j].id <=> Rows[i].id = Rows[j].id
    BY <1>2 DEF LinksCopied
  <2> DEFINE old(l) == IF l = k + 1 THEN m ELSE l
  <2>1. ASSUME NEW l \in 1..(k + 1)
        PROVE  /\ old(l) \in 1..k /\ Rows[old(l)].id = Rows[l].id
               /\ out'.rows[l].id = out.rows[old(l)].id
    <3>1. CASE l = k + 1
      BY <1>9, <1>15, <3>1
    <3>2. CASE l \in 1..k
      <4>1. l # k + 1 /\ out'.rows[l] = out.rows[l]
        BY <1>3, <1>12, <3>2
      <4> QED BY <3>2, <4>1
    <3> QED BY <1>14, <3>1, <3>2
  <2> HIDE DEF old
  <2>2. \A x, y \in 1..k : (Rows[x].id # 0 /\ Rows[y].id # 0) =>
            (out.rows[x].id = out.rows[y].id <=> Rows[x].id = Rows[y].id)
    BY <1>5 DEF LinksCopied, k
  <2>3. /\ old(i) \in 1..k /\ Rows[old(i)].id = Rows[i].id
        /\ out'.rows[i].id = out.rows[old(i)].id
    BY <2>1
  <2>4. /\ old(j) \in 1..k /\ Rows[old(j)].id = Rows[j].id
        /\ out'.rows[j].id = out.rows[old(j)].id
    BY <2>1
  <2> QED BY <2>2, <2>3, <2>4
<1>19. CopyInv'
  BY <1>1, <1>2, <1>5, <1>11, <1>12, <1>16, <1>17, <1>18 DEF CopyInv, E
<1>20. ExtractInv'
  BY <1>1 DEF ExtractInv, Copiers, Extractors
<1> QED BY <1>2, <1>13, <1>19, <1>20 DEF ToolsInv

-----------------------------------------------------------------------------
(* Starting, replacing and extracting *)

LEMMA StartCompactStep ==
  ASSUME ToolsInv, StartCompact
  PROVE  ToolsInv'
<1>1. TypeOK /\ archive \in Archive
  BY DEF ToolsInv, TypeOK
<1>2. /\ tool' = "compact" /\ archive' = archive /\ wanted' = wanted /\ disk' = disk
      /\ StartsWith("compact", CompactRows(archive))
  BY DEF StartCompact, StartsWith, CompactRows, MissingRows
<1>3. Rows' = CompactRows(archive)
  BY <1>2 DEF Rows
<1>4. /\ CompactRows(archive) \in Seq(Row)
      /\ \A i \in 1..Len(CompactRows(archive)) :
            CompactRows(archive)[i].id # 0 => CompactRows(archive)[i] \in FinalEntries(archive)
  BY <1>1, CompactRowsAreClear
<1>5. \A d \in FinalEntries(archive) : \E r \in archive.entries : r.id = d.id
  BY <1>1, FinalEntriesAreLast
<1>6. wanted' \subseteq Path
  BY <1>1, <1>2 DEF TypeOK
<1>7. TypeOK' /\ TodoInv' /\ CopyInv'
  BY <1>1, <1>2, <1>3, <1>4, <1>5, <1>6, StartStep DEF Copiers
<1>8. ExtractInv'
  BY <1>2 DEF ExtractInv, Extractors
<1> QED BY <1>7, <1>8 DEF ToolsInv

LEMMA StartRenameStep ==
  ASSUME ToolsInv, StartRename
  PROVE  ToolsInv'
<1>1. TypeOK /\ archive \in Archive
  BY DEF ToolsInv, TypeOK
<1>2. /\ tool' = "rename" /\ archive' = archive /\ wanted' = wanted /\ disk' = disk
      /\ StartsWith("rename", RenameRows(archive))
      /\ \A i \in DOMAIN Listed(archive) : Storable(Renamed(Listed(archive), i))
  BY DEF StartRename, StartsWith, RenameRows
<1>3. Rows' = RenameRows(archive)
  BY <1>2 DEF Rows
<1> DEFINE s == Listed(archive)
<1>4. \A k \in 1..Len(s) : \E r \in archive.entries : r.id = s[k].id
  BY <1>1, ListedRows
<1>5. /\ RenameRows(archive) \in Seq(Row) /\ Len(RenameRows(archive)) = Len(s)
      /\ \E at \in [1..Len(s) -> 1..Len(s)] :
            \A k \in 1..Len(s) : RenameRows(archive)[k].id = s[at[k]].id
  BY <1>1, <1>2, RenameRowsArePermuted
<1>6. ASSUME NEW k \in 1..Len(RenameRows(archive))
      PROVE  \E r \in archive.entries : r.id = RenameRows(archive)[k].id
  BY <1>4, <1>5, <1>6
<1>7. wanted' \subseteq Path
  BY <1>1, <1>2 DEF TypeOK
<1>8. TypeOK' /\ TodoInv' /\ CopyInv'
  BY <1>1, <1>2, <1>3, <1>5, <1>6, <1>7, StartStep DEF Copiers
<1>9. ExtractInv'
  BY <1>2 DEF ExtractInv, Extractors
<1> QED BY <1>8, <1>9 DEF ToolsInv

LEMMA StartExtractStep ==
  ASSUME ToolsInv, NEW request \in Requests, StartExtract(request)
  PROVE  ToolsInv'
<1> DEFINE t == IF request = {} THEN "extractAll" ELSE "extractSome"
<1>1. TypeOK /\ archive \in Archive
  BY DEF ToolsInv, TypeOK
<1>2. /\ tool' = t /\ archive' = archive /\ wanted' = request /\ disk' = EmptyDisk
      /\ StartsWith(t, Listed(archive)) /\ t \in Extractors
  BY DEF StartExtract, StartsWith, Extractors
<1>3. Rows' = Listed(archive)
  BY <1>2 DEF Rows, Extractors
<1>4. /\ Listed(archive) \in Seq(Row)
      /\ \A k \in 1..Len(Listed(archive)) :
            \E r \in archive.entries : r.id = Listed(archive)[k].id
  BY <1>1, ListedRows
<1>5. wanted' \subseteq Path
  BY <1>2, ToolsAssumption
<1>6. t # "rename"
  OBVIOUS
<1> HIDE DEF t
<1>7. TypeOK' /\ TodoInv' /\ CopyInv' /\ Done' = 0
  BY <1>1, <1>2, <1>3, <1>4, <1>5, <1>6, StartStep
<1>8. ExtractInv'
  <2>1. disk' = {} /\ Files' = {} /\ 1..Done' = {}
    BY <1>2, <1>7 DEF EmptyDisk, Files
  <2>2. { n.path : n \in disk' \ Files' } = UNION { Parents(n.path) : n \in Files' }
    BY <2>1
  <2>3. FilesExtracted'
    BY <2>1 DEF FilesExtracted
  <2> QED BY <2>1, <2>2, <2>3 DEF ExtractInv
<1> QED BY <1>7, <1>8 DEF ToolsInv

\* The tables that the writer of a new archive syncs.
Sorted(o) == [rows |-> StableSort(o.rows), entries |-> o.entries]

LEMMA SortedTables ==
  ASSUME NEW o \in Archive
  PROVE  /\ Sorted(o) \in Archive /\ Len(o.rows) \in Nat
         /\ Len(Sorted(o).rows) = Len(o.rows) /\ DOMAIN Sorted(o).rows = 1..Len(o.rows)
         /\ \E at \in [1..Len(o.rows) -> 1..Len(o.rows)] :
                /\ \A k \in 1..Len(o.rows) : Sorted(o).rows[k] = o.rows[at[k]]
                /\ \A i \in 1..Len(o.rows) : \E k \in 1..Len(o.rows) : at[k] = i
                /\ \A i, j \in 1..Len(o.rows) :
                      (i < j /\ o.rows[at[i]].path = o.rows[at[j]].path) => at[i] < at[j]
<1> DEFINE s == o.rows
           n == Len(s)
           T == [path : Path, id : Id]
<1>1. s \in Seq(T) /\ n \in Nat
  BY LenProperties DEF Archive
<1>2. s \in Seq(Row)
  <2>1. T \subseteq Row
    BY DEF Row
  <2> HIDE DEF T
  <2> QED BY <1>1, <2>1, SeqMonotonic
<1> HIDE DEF s, T
<1>3. PICK at \in [1..n -> 1..n] :
        /\ StableSort(s) = [k \in 1..n |-> s[at[k]]]
        /\ \A i \in 1..n : \E k \in 1..n : at[k] = i
        /\ \A i, j \in 1..n : i < j => /\ ~PathLess(s[at[j]].path, s[at[i]].path)
                                       /\ s[at[i]].path = s[at[j]].path => at[i] < at[j]
  BY <1>2, StableSortSorts
<1> HIDE DEF n
<1>4. StableSort(s) \in Seq(T) /\ Len(StableSort(s)) = n /\ DOMAIN StableSort(s) = 1..n
  <2>1. \A k \in 1..n : s[at[k]] \in T
    BY <1>1, <1>3, ElementOfSeq DEF n
  <2>2. StableSort(s) \in [1..n -> T]
    BY <1>3, <2>1
  <2> QED BY <1>1, <2>2
<1>5. Sorted(o).rows = StableSort(s) /\ Sorted(o).entries = o.entries
  BY DEF Sorted, s
<1>6. Sorted(o) \in Archive
  BY <1>4 DEF Sorted, Archive, T, s
<1>7. \A k \in 1..n : Sorted(o).rows[k] = s[at[k]]
  BY <1>3, <1>5
<1>8. \A i, j \in 1..n : (i < j /\ s[at[i]].path = s[at[j]].path) => at[i] < at[j]
  BY <1>3
<1>9. \E f \in [1..n -> 1..n] :
         /\ \A k \in 1..n : Sorted(o).rows[k] = s[f[k]]
         /\ \A i \in 1..n : \E k \in 1..n : f[k] = i
         /\ \A i, j \in 1..n : (i < j /\ s[f[i]].path = s[f[j]].path) => f[i] < f[j]
  BY <1>3, <1>7, <1>8, Zenon
<1> QED BY <1>1, <1>4, <1>5, <1>6, <1>9 DEF n, s

LEMMA ReplaceStep ==
  ASSUME ToolsInv, Replace
  PROVE  ToolsInv'
<1>1. TypeOK /\ Stops /\ disk' = disk /\ archive' = Sorted(out) /\ out \in Archive
  BY DEF ToolsInv, TypeOK, Replace, Sorted
<1>2. archive' \in Archive
  BY <1>1, SortedTables
<1> QED BY <1>1, <1>2, StopStep

LEMMA ExtractSkipStep ==
  ASSUME ToolsInv, ExtractSkip
  PROVE  ToolsInv'
<1>1. /\ TypeOK /\ TodoInv /\ ExtractInv /\ tool = "extractSome" /\ tool # "none"
      /\ todo # <<>> /\ todo' = Tail(todo) /\ Head(todo).path \notin wanted
      /\ UNCHANGED <<archive, tool, wanted, disk, out, written>>
  BY DEF ToolsInv, ExtractSkip, Extracting, IsWanted, Advances, Extractors
<1>2. TodoInv' /\ Rows' = Rows /\ Done' = Done + 1
  BY <1>1, TodoStep
<1>3. /\ Done \in Nat /\ Head(todo) = Rows[Done + 1] /\ Tail(todo) \in Seq(Row)
  BY <1>1, NextRow
<1>4. TypeOK'
  BY <1>1, <1>3 DEF TypeOK, Row
<1>5. CopyInv'
  BY <1>1 DEF CopyInv, Copiers
<1>6. FilesExtracted'
  <2> SUFFICES ASSUME NEW n \in Files
               PROVE  \E i \in 1..(Done + 1) :
                        /\ Rows[i].path = n.path
                        /\ n.data = EntryOf(archive, Rows[i].id).data
                        /\ \A j \in 1..(Done + 1) : Rows[j].path = n.path => i <= j
    BY <1>1, <1>2 DEF FilesExtracted, Files
  <2>1. PICK i \in 1..Done : /\ Rows[i].path = n.path
                             /\ n.data = EntryOf(archive, Rows[i].id).data
                             /\ \A j \in 1..Done : Rows[j].path = n.path => i <= j
    BY <1>1 DEF ExtractInv, FilesExtracted, Extractors
  <2>2. i \in 1..(Done + 1) /\ i <= Done + 1
    BY <1>3
  <2>3. \A j \in 1..(Done + 1) : j \in 1..Done \/ j = Done + 1
    BY <1>3
  <2> QED BY <2>1, <2>2, <2>3
<1>7. \A i \in 1..(Done + 1) : Rows[i].path \notin wanted
  <2>1. \A i \in 1..Done : Rows[i].path \notin wanted
    BY <1>1 DEF ExtractInv, Extractors
  <2>2. \A i \in 1..(Done + 1) : i \in 1..Done \/ i = Done + 1
    BY <1>3
  <2> QED BY <1>1, <1>3, <2>1, <2>2
<1>8. ExtractInv'
  <2>1. { n.path : n \in disk \ Files } = UNION { Parents(n.path) : n \in Files }
    BY <1>1 DEF ExtractInv, Extractors
  <2>2. Files' = Files
    BY <1>1 DEF Files
  <2> QED BY <1>1, <1>2, <1>6, <1>7, <2>1, <2>2 DEF ExtractInv
<1> QED BY <1>2, <1>4, <1>5, <1>8 DEF ToolsInv

LEMMA ExtractEntryStep ==
  ASSUME ToolsInv, ExtractEntry
  PROVE  ToolsInv'
<1> DEFINE k == Done
           d == Head(todo)
           p == d.path
           data == EntryOf(archive, d.id).data
           new == [path |-> p, kind |-> "file", data |-> data]
<1>1. /\ TypeOK /\ TodoInv /\ ExtractInv /\ tool \in Extractors /\ tool # "none"
      /\ todo # <<>> /\ todo' = Tail(todo) /\ IsWanted /\ CanExtract(p)
      /\ disk' = DirsAbove(p) \cup Stored(p, data) /\ wanted' = wanted \ {p}
      /\ UNCHANGED <<archive, tool, out, written>>
  BY DEF ToolsInv, ExtractEntry, Extracting, Extractors, Found
<1>2. TodoInv' /\ Rows' = Rows /\ Done' = k + 1
  BY <1>1, TodoStep
<1>3. k \in Nat /\ k + 1 \in 1..Len(Rows) /\ d = Rows[k + 1] /\ Tail(todo) \in Seq(Row)
  BY <1>1, NextRow
<1>4. /\ p \in Path /\ \E r \in archive.entries : r.id = d.id
  <2>1. Rows = Listed(archive)
    BY <1>1 DEF Rows, Extractors
  <2>2. archive \in Archive
    BY <1>1 DEF TypeOK
  <2> QED BY <1>3, <2>1, <2>2, ListedRows
<1>5. data \in Data \cup {NoData}
  <2>1. EntryOf(archive, d.id) \in archive.entries
    BY <1>4, EntryOfNamed
  <2>2. archive.entries \subseteq [id : Id, kind : Kind, data : Data \cup {NoData}]
    BY <1>1 DEF TypeOK, Archive
  <2> QED BY <2>1, <2>2
<1> HIDE DEF k, d, data
<1>6. disk' \subseteq [path : Path, kind : {"file", "dir"}, data : Data \cup {NoData}]
  <2>1. DirsAbove(p) \subseteq [path : Path, kind : {"file", "dir"}, data : Data \cup {NoData}]
    BY <1>4, ParentsArePaths DEF DirsAbove
  <2>2. new \in [path : Path, kind : {"file", "dir"}, data : Data \cup {NoData}]
    BY <1>4, <1>5
  <2> QED BY <1>1, <2>1, <2>2 DEF TypeOK, Stored
<1>7. TypeOK'
  BY <1>1, <1>3, <1>6 DEF TypeOK, Row
<1>8. CopyInv'
  BY <1>1 DEF CopyInv, Copiers, Extractors
<1>9. new.path = p /\ new.kind = "file" /\ new.data = data
  OBVIOUS
<1> HIDE DEF new, p
<1>10. \A n \in DirsAbove(p) : n.kind = "dir" /\ n.path \in Parents(p)
  BY DEF DirsAbove
<1>11. ASSUME NEW q \in Parents(p) PROVE \E n \in DirsAbove(p) : n.path = q
  <2>1. [path |-> q, kind |-> "dir", data |-> NoData] \in DirsAbove(p)
    BY DEF DirsAbove
  <2> QED BY <2>1
<1>12. disk' = DirsAbove(p) \cup { n \in disk : n.path # p } \cup {new}
  BY <1>1, Zenon DEF Stored, new, p
<1>13. Files' = { n \in Files : n.path # p } \cup {new}
  <2>1. ASSUME NEW n PROVE n \in Files' <=> n \in { x \in Files : x.path # p } \cup {new}
    BY <1>9, <1>10, <1>12 DEF Files
  <2> QED BY <2>1
<1>14. disk' \ Files' = DirsAbove(p) \cup (disk \ Files)
  <2>1. \A n \in disk \ Files : n.path # p
    <3>1. ASSUME NEW n \in disk, n.kind # "file" PROVE n.path # p
      <4>1. n.kind = "dir"
        BY <1>1, <3>1 DEF TypeOK
      <4> QED BY <1>1, <4>1 DEF CanExtract, At, p
    <3> QED BY <3>1 DEF Files
  <2>2. ASSUME NEW n PROVE n \in disk' \ Files' <=> n \in DirsAbove(p) \cup (disk \ Files)
    BY <1>9, <1>10, <1>12, <1>13, <2>1 DEF Files
  <2> QED BY <2>2
<1>15. { n.path : n \in disk' \ Files' } = UNION { Parents(n.path) : n \in Files' }
  <2>1. { n.path : n \in disk \ Files } = UNION { Parents(n.path) : n \in Files }
    BY <1>1 DEF ExtractInv
  <2>2. ASSUME NEW q
        PROVE  (\E n \in disk' \ Files' : q = n.path)
                    <=> (\E n \in Files' : q \in Parents(n.path))
    <3>1. (\E n \in disk' \ Files' : q = n.path)
            <=> q \in Parents(p) \/ \E n \in disk \ Files : q = n.path
      BY <1>10, <1>11, <1>14
    <3>2. (\E n \in disk \ Files : q = n.path) <=> \E n \in Files : q \in Parents(n.path)
      BY <2>1
    <3>3. (\E n \in Files' : q \in Parents(n.path))
            <=> q \in Parents(p) \/ \E n \in Files : n.path # p /\ q \in Parents(n.path)
      BY <1>9, <1>13
    <3> QED BY <3>1, <3>2, <3>3
  <2> QED BY <2>2
<1>16. \A i \in 1..(k + 1) : i \in 1..k \/ i = k + 1
  BY <1>3
<1>17. 1..k \subseteq 1..(k + 1) /\ k + 1 \in 1..(k + 1) /\ \A i \in 1..(k + 1) : i <= k + 1
  BY <1>3
<1>18. tool = "extractSome" => \A j \in 1..k : Rows[j].path # p
  BY <1>1 DEF ExtractInv, IsWanted, k, d, p
<1>19. FilesExtracted'
  <2> SUFFICES ASSUME NEW n \in Files'
               PROVE  \E i \in 1..(k + 1) :
                        /\ Rows[i].path = n.path
                        /\ n.data = EntryOf(archive, Rows[i].id).data
                        /\ tool = "extractAll" =>
                            \A j \in 1..(k + 1) : Rows[j].path = n.path => j <= i
                        /\ tool = "extractSome" =>
                            \A j \in 1..(k + 1) : Rows[j].path = n.path => i <= j
    BY <1>1, <1>2 DEF FilesExtracted
  <2>1. CASE n = new
    <3>1. Rows[k + 1].path = n.path /\ n.data = EntryOf(archive, Rows[k + 1].id).data
      BY <1>3, <1>9, <2>1 DEF data, p
    <3>2. tool = "extractSome" => \A j \in 1..(k + 1) : Rows[j].path = n.path => k + 1 <= j
      BY <1>9, <1>16, <1>17, <1>18, <2>1
    <3> QED BY <1>17, <3>1, <3>2
  <2>2. CASE n \in Files /\ n.path # p
    <3>1. PICK i \in 1..k :
            /\ Rows[i].path = n.path
            /\ n.data = EntryOf(archive, Rows[i].id).data
            /\ tool = "extractAll" => \A j \in 1..k : Rows[j].path = n.path => j <= i
            /\ tool = "extractSome" => \A j \in 1..k : Rows[j].path = n.path => i <= j
      BY <1>1, <2>2 DEF ExtractInv, FilesExtracted, k
    <3>2. Rows[k + 1].path # n.path
      BY <1>3, <2>2 DEF p
    <3> QED BY <1>16, <1>17, <3>1, <3>2
  <2> QED BY <1>13, <2>1, <2>2
<1>20. ASSUME tool = "extractAll", NEW i \in 1..(k + 1)
       PROVE  \E n \in Files' : n.path = Rows[i].path
  <2>1. CASE Rows[i].path = p
    BY <1>9, <1>13, <2>1
  <2>2. CASE Rows[i].path # p
    <3>1. i \in 1..k
      BY <1>3, <1>16, <2>2 DEF p
    <3>2. \E n \in Files : n.path = Rows[i].path
      BY <1>1, <1>20, <3>1 DEF ExtractInv, k
    <3> QED BY <1>13, <2>2, <3>2
  <2> QED BY <2>1, <2>2
<1>21. ASSUME tool = "extractSome", NEW i \in 1..(k + 1) PROVE Rows[i].path \notin wanted'
  <2>1. i \in 1..k => Rows[i].path \notin wanted
    BY <1>1, <1>21 DEF ExtractInv, k
  <2>2. wanted' = wanted \ {p}
    BY <1>1
  <2> QED BY <1>3, <1>16, <2>1, <2>2 DEF p
<1>22. ExtractInv'
  BY <1>1, <1>2, <1>15, <1>19, <1>20, <1>21 DEF ExtractInv
<1> QED BY <1>2, <1>7, <1>8, <1>22 DEF ToolsInv

-----------------------------------------------------------------------------
(* The theorems *)

LEMMA CopyDirStep ==
  ASSUME ToolsInv, CopyDir
  PROVE  ToolsInv'
<1>1. /\ Copying /\ Advances /\ Head(todo).id = 0 /\ written' = written
      /\ out' = Added(out, Head(todo).path, "dir", NoData)
  BY DEF CopyDir
<1>2. "dir" \in Kind /\ NoData \in Data \cup {NoData}
  BY DEF Kind
<1> QED BY <1>1, <1>2, AddStep

LEMMA CopyEntryStep ==
  ASSUME ToolsInv, CopyEntry
  PROVE  ToolsInv'
<1> DEFINE d == Head(todo)
           r == EntryOf(archive, d.id)
<1>1. /\ Copying /\ Advances /\ d.id # 0 /\ d.id \notin DOMAIN written
      /\ out' = Added(out, d.path, r.kind, r.data)
      /\ written' = [id \in DOMAIN written \cup {d.id} |->
                        IF id = d.id THEN d.path ELSE written[id]]
  BY DEF CopyEntry, IsWritten
<1>2. /\ DOMAIN written' = DOMAIN written \cup ({d.id} \ {0})
      /\ written'[d.id] = d.path
      /\ \A id \in DOMAIN written : written'[id] = written[id]
  <2> HIDE DEF d
  <2> QED BY <1>1
<1>3. r \in archive.entries
  <2>1. TypeOK /\ TodoInv /\ tool # "none" /\ todo # <<>>
    BY <1>1 DEF ToolsInv, Copying, Copiers
  <2>2. \E e \in archive.entries : e.id = d.id
    BY <1>1, <2>1, NextRow
  <2> QED BY <2>2, EntryOfNamed
<1>4. r.kind \in Kind /\ r.data \in Data \cup {NoData}
  <2>1. archive.entries \subseteq [id : Id, kind : Kind, data : Data \cup {NoData}]
    BY DEF ToolsInv, TypeOK, Archive
  <2> HIDE DEF r
  <2> QED BY <1>3, <2>1
<1> QED BY <1>1, <1>2, <1>4, AddStep

LEMMA ToolsStep ==
  ASSUME ToolsInv, [Next]_vars
  PROVE  ToolsInv'
<1>1. TypeOK /\ archive \in Archive
  BY DEF ToolsInv, TypeOK
<1>2. ASSUME Stops, UNCHANGED <<archive, disk>> PROVE ToolsInv'
  BY <1>1, <1>2, StopStep
<1>3. ASSUME NEW request \in Requests, StartExtract(request) PROVE ToolsInv'
  BY <1>3, StartExtractStep
<1>4. CASE UNCHANGED vars
  <2>1. TypeOK'
    BY <1>1, <1>4 DEF vars, TypeOK
  <2>2. Rows' = Rows /\ Done' = Done
    BY <1>4 DEF vars, Rows, Done
  <2>3. TodoInv'
    BY <1>4, <2>2 DEF ToolsInv, TodoInv, vars
  <2>4. CopyInv'
    BY <1>4, <2>2 DEF ToolsInv, CopyInv, RowsCopied, WrittenInv, LinksCopied, vars
  <2>5. ExtractInv'
    BY <1>4, <2>2 DEF ToolsInv, ExtractInv, FilesExtracted, Files, vars
  <2> QED BY <2>1, <2>3, <2>4, <2>5 DEF ToolsInv
<1>5. CASE LinkRefused \/ IoError \/ ExtractRefused \/ ExtractMissing \/ ExtractDone
  BY <1>2, <1>5 DEF LinkRefused, IoError, ExtractRefused, ExtractMissing, ExtractDone
<1>6. CASE StartCompact
  BY <1>6, StartCompactStep
<1>7. CASE StartRename
  BY <1>7, StartRenameStep
<1>8. CASE CopyDir
  BY <1>8, CopyDirStep
<1>9. CASE CopyEntry
  BY <1>9, CopyEntryStep
<1>10. CASE LinkEntry
  BY <1>10, LinkStep
<1>11. CASE Replace
  BY <1>11, ReplaceStep
<1>12. CASE ExtractSkip
  BY <1>12, ExtractSkipStep
<1>13. CASE ExtractEntry
  BY <1>13, ExtractEntryStep
<1> QED BY <1>3, <1>4, <1>5, <1>6, <1>7, <1>8, <1>9, <1>10, <1>11, <1>12, <1>13 DEF Next

(***************************************************************************)
(* What is left to do is the rest of the rows, and the new archive, or the  *)
(* disk, is what the rows that are done make of it.                         *)
(***************************************************************************)
THEOREM ToolsInvariance == Spec => []ToolsInv
<1>1. Init => ToolsInv
  <2> SUFFICES ASSUME Init PROVE ToolsInv
    OBVIOUS
  <2>1. archive \in Archive
    BY ToolsAssumption DEF Init
  <2>2. Nothing \in Archive /\ <<>> \in Seq(Row) /\ DOMAIN NoPaths = {}
    BY EmptySeq DEF Nothing, Archive, NoPaths
  <2>3. TypeOK
    BY <2>1, <2>2 DEF Init, TypeOK, Row, EmptyDisk
  <2>4. TodoInv /\ CopyInv /\ ExtractInv
    BY DEF Init, TodoInv, CopyInv, ExtractInv, Copiers, Extractors
  <2> QED BY <2>3, <2>4 DEF ToolsInv
<1>2. ToolsInv /\ [Next]_vars => ToolsInv'
  BY ToolsStep
<1> QED BY <1>1, <1>2, PTL DEF Spec

(***************************************************************************)
(* Every tool leaves a well-formed archive: paths that fit, entry IDs from  *)
(* 1 on, rows and entries with what the types say.                          *)
(***************************************************************************)
THEOREM ToolsTypes == Spec => []TypeOK
<1>1. ToolsInv => TypeOK
  BY DEF ToolsInv
<1> QED BY <1>1, ToolsInvariance, PTL

\* When extract is done, all rows are.
LEMMA ExtractedRight ==
  ASSUME ToolsInv, ExtractDone
  PROVE  LET files == { n \in disk : n.kind = "file" }
             dirs == { n.path : n \in disk \ files }
         IN  /\ dirs = UNION { Parents(n.path) : n \in files }
             /\ \A n \in files :
                 n.data = IF tool = "extractAll" THEN LastAt(archive, n.path).data
                          ELSE FirstAt(archive, n.path).data
             /\ tool = "extractAll" => { n.path : n \in files } = ListedPaths(archive)
<1> DEFINE s == Listed(archive)
           n == Len(s)
<1>1. tool \in Extractors /\ todo = <<>> /\ ExtractInv /\ archive \in Archive
  BY DEF ExtractDone, ToolsInv, TypeOK
<1>2. n \in Nat /\ DOMAIN s = 1..n
  BY <1>1, ListedRows
<1>3. Rows = s
  BY <1>1 DEF Rows, Extractors
<1>4. Done = n
  <2>1. Len(todo) = 0
    BY <1>1, EmptySeq
  <2> HIDE DEF s
  <2> QED BY <1>2, <1>3, <2>1 DEF Done
<1>5. /\ { f.path : f \in disk \ Files } = UNION { Parents(f.path) : f \in Files }
      /\ tool = "extractAll" => \A i \in 1..n : \E f \in Files : f.path = s[i].path
      /\ FilesExtracted
  BY <1>1, <1>3, <1>4 DEF ExtractInv
<1>6. ASSUME NEW f \in Files
      PROVE  /\ f.data = IF tool = "extractAll" THEN LastAt(archive, f.path).data
                         ELSE FirstAt(archive, f.path).data
             /\ f.path \in ListedPaths(archive)
  <2>1. PICK i \in 1..n :
          /\ s[i].path = f.path
          /\ f.data = EntryOf(archive, s[i].id).data
          /\ tool = "extractAll" => \A j \in 1..n : s[j].path = f.path => j <= i
          /\ tool = "extractSome" => \A j \in 1..n : s[j].path = f.path => i <= j
    <3> HIDE DEF s, n
    <3> QED BY <1>3, <1>4, <1>5 DEF FilesExtracted
  <2>2. tool = "extractAll" => LastAt(archive, s[i].path) = EntryOf(archive, s[i].id)
    BY <1>1, <2>1, LastOfPath
  <2>3. tool = "extractSome" => FirstAt(archive, s[i].path) = EntryOf(archive, s[i].id)
    BY <1>1, <2>1, FirstOfPath
  <2>4. f.path \in ListedPaths(archive)
    <3> HIDE DEF n
    <3> QED BY <1>2, <2>1 DEF ListedPaths
  <2> HIDE DEF s, n
  <2> QED BY <1>1, <2>1, <2>2, <2>3, <2>4 DEF Extractors
<1>7. tool = "extractAll" => { f.path : f \in Files } = ListedPaths(archive)
  <2>1. ListedPaths(archive) = { s[i].path : i \in 1..n }
    BY <1>2 DEF ListedPaths
  <2> HIDE DEF s, n
  <2> QED BY <1>5, <1>6, <2>1
<1> QED BY <1>5, <1>6, <1>7 DEF Files

(***************************************************************************)
(* What extract leaves when it succeeds is right: of all entries, the last  *)
(* of each path; of entries that are named, the first.                      *)
(***************************************************************************)
THEOREM ExtractIsRight == Spec => ExtractRight
<1>1. ToolsInv /\ [Next]_vars =>
        [ExtractDone =>
            LET files == { n \in disk : n.kind = "file" }
                dirs == { n.path : n \in disk \ files }
            IN  /\ dirs = UNION { Parents(n.path) : n \in files }
                /\ \A n \in files :
                    n.data = IF tool = "extractAll" THEN LastAt(archive, n.path).data
                             ELSE FirstAt(archive, n.path).data
                /\ tool = "extractAll" =>
                    { n.path : n \in files } = ListedPaths(archive)]_vars
  BY ExtractedRight
<1> QED BY <1>1, ToolsInvariance, PTL DEF Spec, ExtractRight

-----------------------------------------------------------------------------
(* What the new archive says of the old one *)

\* All rows are done, and the new table has them, sorted.
LEMMA ReplacedTable ==
  ASSUME ToolsInv, Replace
  PROVE  LET n == Len(Rows)
         IN  /\ n \in Nat /\ Done = n
             /\ archive' \in Archive /\ archive'.entries = out.entries
             /\ Listed(archive') = archive'.rows
             /\ Len(archive'.rows) = n /\ DOMAIN archive'.rows = 1..n
             /\ \E at \in [1..n -> 1..n] :
                    /\ \A k \in 1..n : archive'.rows[k] = out.rows[at[k]]
                    /\ \A i \in 1..n : \E k \in 1..n : at[k] = i
                    /\ \A i, j \in 1..n :
                          (i < j /\ out.rows[at[i]].path = out.rows[at[j]].path) => at[i] < at[j]
<1> DEFINE n == Len(Rows)
           B == Sorted(out)
<1>1. /\ tool \in Copiers /\ tool # "none" /\ todo = <<>> /\ archive' = B /\ out \in Archive
      /\ TodoInv /\ CopyInv
  BY DEF Replace, Copiers, Sorted, ToolsInv, TypeOK
<1>2. n \in Nat /\ Done = n
  <2>1. Rows \in Seq(Row) /\ Len(todo) = 0
    BY <1>1, EmptySeq DEF TodoInv
  <2> QED BY <2>1, LenProperties DEF Done
<1>3. Len(out.rows) = n /\ RowsCopied
  BY <1>1, <1>2 DEF CopyInv
<1> HIDE DEF n
<1>4. /\ B \in Archive /\ Len(B.rows) = n /\ DOMAIN B.rows = 1..n
      /\ \E at \in [1..n -> 1..n] :
            /\ \A k \in 1..n : B.rows[k] = out.rows[at[k]]
            /\ \A i \in 1..n : \E k \in 1..n : at[k] = i
            /\ \A i, j \in 1..n :
                  (i < j /\ out.rows[at[i]].path = out.rows[at[j]].path) => at[i] < at[j]
  <2>1. /\ B \in Archive /\ Len(B.rows) = Len(out.rows) /\ DOMAIN B.rows = 1..Len(out.rows)
        /\ \E at \in [1..Len(out.rows) -> 1..Len(out.rows)] :
              /\ \A k \in 1..Len(out.rows) : B.rows[k] = out.rows[at[k]]
              /\ \A i \in 1..Len(out.rows) : \E k \in 1..Len(out.rows) : at[k] = i
              /\ \A i, j \in 1..Len(out.rows) :
                    (i < j /\ out.rows[at[i]].path = out.rows[at[j]].path) => at[i] < at[j]
    BY <1>1, SortedTables
  <2>2. Len(out.rows) = n
    BY <1>3
  <2> HIDE DEF B
  <2> QED BY Zenon, <2>1, <2>2
<1>5. B.entries = out.entries
  BY DEF Sorted
<1> HIDE DEF B
<1>6. ASSUME NEW k \in DOMAIN B.rows PROVE \E r \in B.entries : r.id = B.rows[k].id
  <2>1. PICK i \in 1..n : B.rows[k] = out.rows[i]
    <3>1. PICK at \in [1..n -> 1..n] : \A l \in 1..n : B.rows[l] = out.rows[at[l]]
      BY <1>4
    <3>2. k \in 1..n
      BY <1>4
    <3> QED BY <3>1, <3>2
  <2> QED BY <1>2, <1>3, <1>5, <2>1 DEF RowsCopied
<1>7. Listed(B) = B.rows
  BY <1>4, <1>6, AllListed
<1> QED BY <1>1, <1>2, <1>4, <1>5, <1>7 DEF n

LEMMA ReplacedPaths ==
  ASSUME ToolsInv, Replace
  PROVE  /\ Resolves(archive')
         /\ ListedPaths(archive') = { Rows[i].path : i \in 1..Len(Rows) }
         /\ OnePathEach(Rows) => NoDuplicates(archive')
<1> DEFINE n == Len(Rows)
<1>1. /\ n \in Nat /\ Done = n /\ RowsCopied
      /\ Listed(archive') = archive'.rows
      /\ Len(archive'.rows) = n /\ DOMAIN archive'.rows = 1..n
  BY ReplacedTable DEF ToolsInv, CopyInv, Replace
<1>2. PICK at \in [1..n -> 1..n] :
        /\ \A k \in 1..n : archive'.rows[k] = out.rows[at[k]]
        /\ \A i \in 1..n : \E k \in 1..n : at[k] = i
        /\ \A i, j \in 1..n :
              (i < j /\ out.rows[at[i]].path = out.rows[at[j]].path) => at[i] < at[j]
  BY ReplacedTable
<1>3. \A i \in 1..n : out.rows[i].path = Rows[i].path
  BY <1>1 DEF RowsCopied
<1> HIDE DEF n
<1>4. ListedPaths(archive') = { Rows[i].path : i \in 1..n }
  <2>1. ListedPaths(archive') = { archive'.rows[k].path : k \in 1..n }
    BY <1>1 DEF ListedPaths
  <2>2. \A k \in 1..n : archive'.rows[k].path = Rows[at[k]].path
    BY <1>2, <1>3
  <2>3. ASSUME NEW i \in 1..n PROVE Rows[i].path \in ListedPaths(archive')
    <3>1. PICK k \in 1..n : at[k] = i
      BY <1>2
    <3> QED BY <2>1, <2>2, <3>1
  <2>4. ASSUME NEW k \in 1..n
        PROVE  archive'.rows[k].path \in { Rows[i].path : i \in 1..n }
    <3>1. at[k] \in 1..n
      BY <1>2
    <3> QED BY <2>2, <3>1
  <2> QED BY <2>1, <2>3, <2>4
<1>5. ASSUME OnePathEach(Rows) PROVE NoDuplicates(archive')
  <2> SUFFICES ASSUME NEW i \in 1..n, NEW j \in 1..n,
                      archive'.rows[i].path = archive'.rows[j].path
               PROVE  i = j
    BY <1>1 DEF NoDuplicates
  <2>1. at[i] \in 1..n /\ at[j] \in 1..n /\ out.rows[at[i]].path = out.rows[at[j]].path
    BY <1>2
  <2>2. Rows[at[i]].path = Rows[at[j]].path
    BY <1>3, <2>1
  <2>3. at[i] = at[j]
    BY <1>5, <2>1, <2>2 DEF OnePathEach, n
  <2>4. ~(at[i] < at[j]) /\ ~(at[j] < at[i])
    BY <1>1, <2>1, <2>3
  <2>5. ~(i < j) /\ ~(j < i)
    BY <1>2, <2>1, <2>4
  <2> QED BY <1>1, <2>5
<1>6. Resolves(archive')
  BY <1>1 DEF Resolves
<1> QED BY <1>4, <1>5, <1>6 DEF n

\* Under each path of the new table is the entry of its last row.
LEMMA ReplacedLast ==
  ASSUME ToolsInv, Replace, NEW p \in ListedPaths(archive')
  PROVE  \E m \in 1..Len(Rows) :
            /\ Rows[m].path = p
            /\ \A j \in 1..Len(Rows) : Rows[j].path = p => j <= m
            /\ LastAt(archive', p).id = out.rows[m].id
            /\ Rows[m].id = 0 => LastAt(archive', p).kind = "dir"
            /\ (Rows[m].id # 0 /\ Clear(Rows)) =>
                    Same(LastAt(archive', p), EntryOf(archive, Rows[m].id))
<1> DEFINE n == Len(Rows)
           E == out.entries
           at0 == { i \in 1..n : Rows[i].path = p }
<1>1. /\ n \in Nat /\ Done = n /\ RowsCopied /\ NumberedFromOne(E)
      /\ archive' \in Archive /\ archive'.entries = E
      /\ Listed(archive') = archive'.rows
      /\ Len(archive'.rows) = n /\ DOMAIN archive'.rows = 1..n
  BY ReplacedTable DEF ToolsInv, CopyInv, Replace
<1>2. PICK at \in [1..n -> 1..n] :
        /\ \A k \in 1..n : archive'.rows[k] = out.rows[at[k]]
        /\ \A i \in 1..n : \E k \in 1..n : at[k] = i
        /\ \A i, j \in 1..n :
              (i < j /\ out.rows[at[i]].path = out.rows[at[j]].path) => at[i] < at[j]
  BY ReplacedTable
<1>3. \A i \in 1..n : out.rows[i].path = Rows[i].path
  BY <1>1 DEF RowsCopied
<1>4. at0 \in SUBSET (1..n) /\ at0 # {}
  BY ReplacedPaths
<1> HIDE DEF n
<1>5. PICK m \in at0 : \A j \in at0 : j <= m
  BY <1>1, <1>4, GreatestMember
<1>6. m \in 1..n /\ Rows[m].path = p /\ \A j \in 1..n : Rows[j].path = p => j <= m
  BY <1>5
<1> HIDE DEF at0
<1>7. PICK k \in 1..n : at[k] = m
  BY <1>2, <1>6
<1>8. archive'.rows[k] = out.rows[m] /\ archive'.rows[k].path = p
  BY <1>2, <1>3, <1>6, <1>7
<1>9. ASSUME NEW j \in 1..n, archive'.rows[j].path = p PROVE j <= k
  <2>1. at[j] \in 1..n /\ out.rows[at[j]].path = p /\ out.rows[at[k]].path = p
    BY <1>2, <1>3, <1>6, <1>7, <1>9
  <2>2. at[j] <= m
    BY <1>3, <1>6, <2>1
  <2>3. ~(k < j)
    <3>1. ~(at[k] < at[j])
      BY <1>1, <1>6, <1>7, <2>1, <2>2
    <3> QED BY <1>2, <2>1, <3>1
  <2> QED BY <1>1, <2>3
<1>10. LastAt(archive', p) = EntryOf(archive', out.rows[m].id)
  <2>1. k \in 1..Len(Listed(archive'))
    BY <1>1
  <2>2. Listed(archive')[k].path = p /\ Listed(archive')[k].id = out.rows[m].id
    BY <1>1, <1>8
  <2>3. \A j \in 1..Len(Listed(archive')) : Listed(archive')[j].path = p => j <= k
    BY <1>1, <1>9
  <2> QED BY <1>1, <2>1, <2>2, <2>3, LastOfPath
<1>11. PICK r \in E : /\ r.id = out.rows[m].id
                      /\ Rows[m].id = 0 => r.kind = "dir"
                      /\ (Rows[m].id # 0 /\ Clear(Rows)) =>
                            Same(r, EntryOf(archive, Rows[m].id))
  BY <1>1, <1>6 DEF RowsCopied
<1>12. EntryOf(archive', out.rows[m].id) = r
  <2>1. /\ EntryOf(archive', out.rows[m].id) \in E
        /\ EntryOf(archive', out.rows[m].id).id = out.rows[m].id
    BY <1>1, <1>11, EntryOfNamed
  <2> QED BY <1>1, <1>11, <2>1 DEF NumberedFromOne
<1> QED BY <1>6, <1>10, <1>11, <1>12 DEF n

\* A row that is not for a missing directory keeps what it names.
LEMMA RowIsKept ==
  ASSUME ToolsInv, Replace, Clear(Rows), NEW i \in 1..Len(Rows), Rows[i].id # 0
  PROVE  LET p == Rows[i].path
         IN  /\ p \in ListedPaths(archive')
             /\ LastAt(archive', p).id = out.rows[i].id
             /\ Same(LastAt(archive', p), EntryOf(archive, Rows[i].id))
<1> DEFINE p == Rows[i].path
<1>1. p \in ListedPaths(archive')
  BY ReplacedPaths
<1>2. PICK m \in 1..Len(Rows) :
        /\ Rows[m].path = p
        /\ \A j \in 1..Len(Rows) : Rows[j].path = p => j <= m
        /\ LastAt(archive', p).id = out.rows[m].id
        /\ (Rows[m].id # 0 /\ Clear(Rows)) =>
                Same(LastAt(archive', p), EntryOf(archive, Rows[m].id))
  BY <1>1, ReplacedLast
<1>3. Len(Rows) \in Nat
  BY ReplacedTable
<1>4. i <= m /\ ~(i < m)
  BY <1>2 DEF Clear
<1>5. i = m
  BY <1>3, <1>4
<1> QED BY <1>1, <1>2, <1>5

LEMMA CompactedKept ==
  ASSUME ToolsInv, Replace, tool = "compact"
  PROVE  /\ Resolves(archive')
         /\ \A p \in ListedPaths(archive) :
             /\ p \in ListedPaths(archive')
             /\ Same(LastAt(archive', p), LastAt(archive, p))
         /\ \A p, q \in ListedPaths(archive) :
             LastAt(archive', p).id = LastAt(archive', q).id
                 <=> LastAt(archive, p).id = LastAt(archive, q).id
         /\ \A p \in ListedPaths(archive') \ ListedPaths(archive) :
             /\ LastAt(archive', p).kind = "dir"
             /\ \E q \in ListedPaths(archive) : p \in Parents(q)
         /\ FileAbove(archive) \/ NoDuplicates(archive')
<1> DEFINE n == Len(Rows)
<1>1. archive \in Archive /\ Rows = CompactRows(archive)
  BY DEF ToolsInv, TypeOK, Rows
<1>2. /\ \A i \in 1..n : IF Rows[i].id = 0 THEN Rows[i] \in MissingRows(archive)
                         ELSE Rows[i] \in FinalEntries(archive)
      /\ \A d \in FinalEntries(archive) : \E i \in 1..n : Rows[i] = d
      /\ Clear(Rows)
      /\ FileAbove(archive) \/ OnePathEach(Rows)
  BY <1>1, CompactRowsAreClear
<1>3. /\ \A d \in FinalEntries(archive) :
            /\ d.id # 0 /\ d.path \in ListedPaths(archive)
            /\ \E r \in archive.entries : r.id = d.id
            /\ LastAt(archive, d.path) = EntryOf(archive, d.id)
      /\ \A p \in ListedPaths(archive) : \E d \in FinalEntries(archive) : d.path = p
  BY <1>1, FinalEntriesAreLast DEF Id
<1>4. ASSUME NEW p \in ListedPaths(archive)
      PROVE  \E i \in 1..n :
                /\ Rows[i].id # 0 /\ p \in ListedPaths(archive')
                /\ LastAt(archive', p).id = out.rows[i].id
                /\ Same(LastAt(archive', p), LastAt(archive, p))
                /\ LastAt(archive, p).id = Rows[i].id
  <2>1. PICK d \in FinalEntries(archive) : d.path = p
    BY <1>3
  <2>2. PICK i \in 1..n : Rows[i] = d
    BY <1>2
  <2>3. Rows[i].id # 0 /\ LastAt(archive, p) = EntryOf(archive, Rows[i].id)
    BY <1>3, <2>1, <2>2
  <2>4. /\ p \in ListedPaths(archive') /\ LastAt(archive', p).id = out.rows[i].id
        /\ Same(LastAt(archive', p), EntryOf(archive, Rows[i].id))
    BY <1>2, <2>1, <2>2, <2>3, RowIsKept
  <2>5. EntryOf(archive, d.id).id = d.id
    BY <1>3, EntryOfNamed
  <2> QED BY <2>2, <2>3, <2>4, <2>5
<1>5. ASSUME NEW p \in ListedPaths(archive), NEW q \in ListedPaths(archive)
      PROVE  LastAt(archive', p).id = LastAt(archive', q).id
                 <=> LastAt(archive, p).id = LastAt(archive, q).id
  <2>1. PICK i \in 1..n : /\ Rows[i].id # 0 /\ LastAt(archive', p).id = out.rows[i].id
                          /\ LastAt(archive, p).id = Rows[i].id
    BY <1>4
  <2>2. PICK j \in 1..n : /\ Rows[j].id # 0 /\ LastAt(archive', q).id = out.rows[j].id
                          /\ LastAt(archive, q).id = Rows[j].id
    BY <1>4
  <2>3. Done = n /\ LinksCopied
    BY ReplacedTable DEF ToolsInv, CopyInv, Copiers
  <2> HIDE DEF n
  <2>4. out.rows[i].id = out.rows[j].id <=> Rows[i].id = Rows[j].id
    BY <1>2, <2>1, <2>2, <2>3 DEF LinksCopied
  <2> QED BY <2>1, <2>2, <2>4
<1>6. ASSUME NEW p \in ListedPaths(archive') \ ListedPaths(archive)
      PROVE  /\ LastAt(archive', p).kind = "dir"
             /\ \E q \in ListedPaths(archive) : p \in Parents(q)
  <2>1. PICK m \in 1..n : /\ Rows[m].path = p
                          /\ Rows[m].id = 0 => LastAt(archive', p).kind = "dir"
    BY ReplacedLast
  <2>2. Rows[m].id = 0 /\ Rows[m] \in MissingRows(archive)
    BY <1>2, <1>3, <2>1
  <2> QED BY <1>1, <2>1, <2>2, MissingRowsAreDirs
<1>7. Resolves(archive') /\ (OnePathEach(Rows) => NoDuplicates(archive'))
  BY ReplacedPaths
<1> QED BY <1>2, <1>4, <1>5, <1>6, <1>7

(***************************************************************************)
(* compact keeps what each path is of last, of any archive: the kind and    *)
(* the data, and which paths are hard links of each other; all that it adds *)
(* is directories.                                                          *)
(***************************************************************************)
THEOREM CompactKeepsLastAlways == Spec => CompactKeepsLast
<1>1. ToolsInv /\ [Next]_vars =>
        [(Replace /\ tool = "compact") =>
            /\ Resolves(archive')
            /\ \A p \in ListedPaths(archive) :
                /\ p \in ListedPaths(archive')
                /\ Same(LastAt(archive', p), LastAt(archive, p))
            /\ \A p, q \in ListedPaths(archive) :
                LastAt(archive', p).id = LastAt(archive', q).id
                    <=> LastAt(archive, p).id = LastAt(archive, q).id
            /\ \A p \in ListedPaths(archive') \ ListedPaths(archive) :
                /\ LastAt(archive', p).kind = "dir"
                /\ \E q \in ListedPaths(archive) : p \in Parents(q)
            /\ FileAbove(archive) \/ NoDuplicates(archive')]_vars
  BY CompactedKept
<1> QED BY <1>1, ToolsInvariance, PTL DEF Spec, CompactKeepsLast

LEMMA RenamedKept ==
  ASSUME ToolsInv, Replace, tool = "rename", ~Collides(archive)
  PROVE  LET s == Listed(archive)
         IN  /\ NoDuplicates(archive') /\ Resolves(archive')
             /\ Len(archive'.rows) = Len(s)
             /\ \A i \in DOMAIN s :
                 /\ Renamed(s, i) \in ListedPaths(archive')
                 /\ Same(LastAt(archive', Renamed(s, i)), EntryOf(archive, s[i].id))
             /\ \A p \in ListedPaths(archive) :
                 Same(LastAt(archive', p), LastAt(archive, p))
             /\ \A i, j \in DOMAIN s :
                 s[i].id = s[j].id <=>
                     LastAt(archive', Renamed(s, i)).id = LastAt(archive', Renamed(s, j)).id
<1> DEFINE s == Listed(archive)
           n == Len(s)
<1>1. /\ archive \in Archive /\ Rows = RenameRows(archive)
      /\ \A i \in DOMAIN s : Storable(Renamed(s, i))
  BY DEF ToolsInv, TypeOK, TodoInv, Rows
<1>2. n \in Nat /\ DOMAIN s = 1..n /\ \A k \in 1..n : s[k].id # 0
  BY <1>1, ListedRows DEF Id
<1>3. Len(Rows) = n /\ OnePathEach(Rows)
  BY <1>1, RenameRowsArePermuted
<1>4. PICK at \in [1..n -> 1..n] :
        /\ \A k \in 1..n : Rows[k].path = Renamed(s, at[k]) /\ Rows[k].id = s[at[k]].id
        /\ \A i \in 1..n : \E k \in 1..n : at[k] = i
  BY <1>1, RenameRowsArePermuted
<1> HIDE DEF n
<1>5. Clear(Rows)
  <2> SUFFICES ASSUME NEW i \in 1..n, NEW j \in 1..n, i < j
               PROVE  Rows[i].path # Rows[j].path
    BY <1>3 DEF Clear
  <2>1. i # j
    BY <1>2
  <2> QED BY <1>3, <2>1 DEF OnePathEach
<1>6. ASSUME NEW i \in 1..n
      PROVE  \E k \in 1..n :
                /\ Rows[k].id = s[i].id /\ Rows[k].id # 0
                /\ Renamed(s, i) \in ListedPaths(archive')
                /\ LastAt(archive', Renamed(s, i)).id = out.rows[k].id
                /\ Same(LastAt(archive', Renamed(s, i)), EntryOf(archive, s[i].id))
  <2>1. PICK k \in 1..n : at[k] = i
    BY <1>4
  <2>2. Rows[k].path = Renamed(s, i) /\ Rows[k].id = s[i].id /\ Rows[k].id # 0
    <3>1. s[i].id # 0
      BY <1>2
    <3> HIDE DEF s
    <3> QED BY <1>4, <2>1, <3>1
  <2>3. k \in 1..Len(Rows)
    BY <1>3
  <2>4. /\ Rows[k].path \in ListedPaths(archive')
        /\ LastAt(archive', Rows[k].path).id = out.rows[k].id
        /\ Same(LastAt(archive', Rows[k].path), EntryOf(archive, Rows[k].id))
    BY <1>5, <2>2, <2>3, RowIsKept
  <2> QED BY <2>2, <2>4
<1>7. ASSUME NEW i \in 1..n, NEW j \in 1..n
      PROVE  s[i].id = s[j].id <=>
                 LastAt(archive', Renamed(s, i)).id = LastAt(archive', Renamed(s, j)).id
  <2>1. PICK k \in 1..n : /\ Rows[k].id = s[i].id /\ Rows[k].id # 0
                          /\ LastAt(archive', Renamed(s, i)).id = out.rows[k].id
    BY <1>6
  <2>2. PICK l \in 1..n : /\ Rows[l].id = s[j].id /\ Rows[l].id # 0
                          /\ LastAt(archive', Renamed(s, j)).id = out.rows[l].id
    BY <1>6
  <2>3. Done = n /\ LinksCopied
    BY <1>3, ReplacedTable DEF ToolsInv, CopyInv, Copiers
  <2>4. out.rows[k].id = out.rows[l].id <=> Rows[k].id = Rows[l].id
    BY <1>5, <2>1, <2>2, <2>3 DEF LinksCopied
  <2> QED BY <2>1, <2>2, <2>4
<1>8. ASSUME NEW p \in ListedPaths(archive)
      PROVE  Same(LastAt(archive', p), LastAt(archive, p))
  <2> DEFINE here == { i \in 1..n : s[i].path = p }
  <2>1. here \in SUBSET (1..n) /\ here # {}
    BY <1>2 DEF ListedPaths
  <2>2. PICK m \in here : \A j \in here : j <= m
    BY <1>2, <2>1, GreatestMember
  <2>3. m \in 1..n /\ s[m].path = p /\ \A j \in 1..n : s[j].path = p => j <= m
    BY <2>2
  <2>4. LastAt(archive, p) = EntryOf(archive, s[m].id)
    BY <1>1, <2>3, LastOfPath DEF n
  <2>5. Occurrence(s, m) = Count(s, m) /\ Count(s, m) \in Nat
    <3> DEFINE all == { j \in DOMAIN s : s[j].path = s[m].path }
    <3>1. { j \in 1..m : s[j].path = s[m].path } = all
      <4> HIDE DEF s
      <4> QED BY <1>2, <2>3
    <3>2. all \in SUBSET (1..n) /\ IsFiniteSet(1..n)
      <4>1. all \in SUBSET (1..n)
        <5> HIDE DEF s
        <5> QED BY Zenon, <1>2
      <4>2. IsFiniteSet(1..n)
        <5>1. n \in Int /\ 1 \in Int
          BY <1>2
        <5> QED BY <5>1, FS_Interval
      <4> QED BY <4>1, <4>2
    <3>3. Occurrence(s, m) = Cardinality(all) /\ Count(s, m) = Cardinality(all)
      BY <3>1 DEF Occurrence, Count
    <3> HIDE DEF all
    <3>4. Cardinality(all) \in Nat
      BY <3>2, FS_Subset, FS_CardinalityType
    <3> QED BY <3>3, <3>4
  <2>6. Renamed(s, m) = p
    <3> HIDE DEF s
    <3> QED BY <2>3, <2>5 DEF Renamed
  <2> QED BY <1>6, <2>3, <2>4, <2>6
<1>9. /\ NoDuplicates(archive') /\ Resolves(archive') /\ Len(archive'.rows) = n
  BY <1>3, ReplacedPaths, ReplacedTable
<1> QED BY <1>2, <1>6, <1>7, <1>8, <1>9 DEF n

(***************************************************************************)
(* rename_duplicates, unless a numbered name is taken, loses no row of any  *)
(* archive, and the last row of a path keeps it.                            *)
(***************************************************************************)
THEOREM RenameKeepsAllAlways == Spec => RenameKeepsAll
<1>1. ToolsInv /\ [Next]_vars =>
        [(Replace /\ tool = "rename" /\ ~Collides(archive)) =>
            LET s == Listed(archive)
            IN  /\ NoDuplicates(archive') /\ Resolves(archive')
                /\ Len(archive'.rows) = Len(s)
                /\ \A i \in DOMAIN s :
                    /\ Renamed(s, i) \in ListedPaths(archive')
                    /\ Same(LastAt(archive', Renamed(s, i)), EntryOf(archive, s[i].id))
                /\ \A p \in ListedPaths(archive) :
                    Same(LastAt(archive', p), LastAt(archive, p))
                /\ \A i, j \in DOMAIN s :
                    s[i].id = s[j].id <=>
                        LastAt(archive', Renamed(s, i)).id
                            = LastAt(archive', Renamed(s, j)).id]_vars
  BY RenamedKept
<1> QED BY <1>1, ToolsInvariance, PTL DEF Spec, RenameKeepsAll

=============================================================================
