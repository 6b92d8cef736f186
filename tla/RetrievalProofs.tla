-------------------------- MODULE RetrievalProofs ---------------------------
(***************************************************************************)
(* How searches rank, and what queries answer, refuse and cite, for any    *)
(* imports, questions and number of concurrent requests.                   *)
(***************************************************************************)
EXTENDS Retrieval, DbFlagProofs, FiniteSetTheorems

-----------------------------------------------------------------------------
(* Sorting.                                                                *)

Fraction == [n : Int, d : Nat \ {0}]

(* Multiplication by a positive number keeps the order.                    *)
LEMMA TimesKeeps ==
  ASSUME NEW x \in Int, NEW y \in Int, NEW z \in Nat, x >= y
  PROVE  x * z >= y * z
<1> DEFINE w == x - y
<1>1. w \in Nat /\ x = y + w
  OBVIOUS
<1>2. x * z = y * z + w * z
  BY <1>1, Z3
<1>3. w * z \in Nat
  BY <1>1, Z3
<1> HIDE DEF w
<1> QED BY <1>2, <1>3, Z3

(* The order of scores is transitive.                                      *)
LEMMA GreaterTransitive ==
  ASSUME NEW a \in Fraction, NEW b \in Fraction, NEW c \in Fraction,
         ~Greater(b, a), ~Greater(c, b)
  PROVE  ~Greater(c, a)
<1> DEFINE u == a.n * b.d
           v == b.n * a.d
           w == b.n * c.d
           x == c.n * b.d
<1>0. /\ a.n \in Int /\ b.n \in Int /\ c.n \in Int
      /\ a.d \in Nat \ {0} /\ b.d \in Nat \ {0} /\ c.d \in Nat \ {0}
  BY DEF Fraction
<1>1. u >= v /\ w >= x /\ u \in Int /\ v \in Int /\ w \in Int /\ x \in Int
  BY <1>0, Z3 DEF Greater
<1>2. u * c.d >= v * c.d
  <2> HIDE DEF u, v
  <2> QED BY <1>0, <1>1, TimesKeeps
<1>3. w * a.d >= x * a.d
  <2> HIDE DEF w, x
  <2> QED BY <1>0, <1>1, TimesKeeps
<1>4. v * c.d = w * a.d
  BY <1>0, Z3
<1>5. u * c.d = (a.n * c.d) * b.d /\ x * a.d = (c.n * a.d) * b.d
  BY <1>0, Z3
<1>6. a.n * c.d \in Int /\ c.n * a.d \in Int
  BY <1>0, Z3
<1> DEFINE y == a.n * c.d
           z == c.n * a.d
<1> HIDE DEF y, z
<1>7. y * b.d >= z * b.d
  <2>1. u * c.d \in Int /\ v * c.d \in Int /\ w * a.d \in Int /\ x * a.d \in Int
    <3> HIDE DEF u, v, w, x
    <3> QED BY <1>0, <1>1, Z3
  <2> HIDE DEF u, v, w, x
  <2> QED BY <1>2, <1>3, <1>4, <1>5, <2>1, Z3 DEF y, z
<1>8. ASSUME z >= y + 1 PROVE FALSE
  <2>0. y \in Int /\ z \in Int
    BY <1>6 DEF y, z
  <2>1. z * b.d >= (y + 1) * b.d
    BY <1>0, <1>8, <2>0, TimesKeeps
  <2>2. (y + 1) * b.d = y * b.d + b.d
    BY <1>0, <2>0, Z3
  <2>3. y * b.d \in Int /\ z * b.d \in Int
    BY <1>0, <2>0, Z3
  <2> QED BY <1>0, <1>7, <2>1, <2>2, <2>3, Z3
<1>9. y >= z
  BY <1>6, <1>8, Z3 DEF y, z
<1> QED BY <1>6, <1>9, Z3 DEF y, z, Greater

(* Position j comes before i in the sorted list.                           *)
Before(score, i, j) == \/ Greater(score[j], score[i])
                       \/ ~Greater(score[i], score[j]) /\ j < i

(* No score is greater than itself.                                        *)
LEMMA GreaterIrreflexive ==
  ASSUME NEW a \in Fraction
  PROVE  ~Greater(a, a)
<1>1. a.n \in Int /\ a.d \in Nat
  BY DEF Fraction
<1>2. a.n * a.d \in Int
  BY <1>1, Z3
<1> QED BY <1>2, Z3 DEF Greater

(* Nor two than each other.                                                *)
LEMMA GreaterAsymmetric ==
  ASSUME NEW a \in Fraction, NEW b \in Fraction, Greater(a, b)
  PROVE  ~Greater(b, a)
<1>1. a.n \in Int /\ a.d \in Nat /\ b.n \in Int /\ b.d \in Nat
  BY DEF Fraction
<1>2. a.n * b.d \in Int /\ b.n * a.d \in Int
  BY <1>1, Z3
<1> QED BY <1>2, Z3 DEF Greater

(* What sorting puts before a position is a strict order.                  *)
LEMMA BeforeIsOrder ==
  ASSUME NEW P \in SUBSET Nat, NEW score, \A i \in P : score[i] \in Fraction,
         NEW i \in P, NEW j \in P, NEW k \in P
  PROVE  /\ ~Before(score, i, i)
         /\ i # j => Before(score, i, j) \/ Before(score, j, i)
         /\ Before(score, i, j) /\ Before(score, j, k) => Before(score, i, k)
<1>0. i \in Nat /\ j \in Nat /\ k \in Nat
  OBVIOUS
<1>1. ~Before(score, i, i)
  BY <1>0, GreaterIrreflexive DEF Before
<1>2. i # j => Before(score, i, j) \/ Before(score, j, i)
  <2>1. i # j => i < j \/ j < i
    BY <1>0
  <2> QED BY <2>1, GreaterAsymmetric DEF Before
<1>3. ASSUME Before(score, i, j), Before(score, j, k)
      PROVE  Before(score, i, k)
  <2>1. ~Greater(score[i], score[j]) /\ ~Greater(score[j], score[k])
    BY <1>3, GreaterAsymmetric DEF Before
  <2>2. ~Greater(score[i], score[k])
    BY <2>1, GreaterTransitive
  <2>3. CASE Greater(score[k], score[i])
    BY <2>3 DEF Before
  <2>4. CASE ~Greater(score[k], score[i])
    <3>1. ~Greater(score[k], score[j])
      BY <2>1, <2>4, GreaterTransitive
    <3>2. ~Greater(score[j], score[i])
      BY <2>1, <2>4, GreaterTransitive
    <3>3. k < j /\ j < i
      BY <1>3, <3>1, <3>2 DEF Before
    <3> QED BY <1>0, <2>2, <3>3 DEF Before
  <2> QED BY <2>3, <2>4
<1> QED BY <1>1, <1>2, <1>3

(* An injection into the numbers below the size of its domain reaches all. *)
LEMMA RanksAreTaken ==
  ASSUME NEW P, IsFiniteSet(P), NEW rank \in [P -> 0 .. Cardinality(P) - 1],
         \A i, j \in P : rank[i] = rank[j] => i = j
  PROVE  \A k \in 1 .. Cardinality(P) : \E i \in P : rank[i] = k - 1
<1> DEFINE n == Cardinality(P)
           T == 0 .. n - 1
<1>1. n \in Nat
  BY FS_CardinalityType
<1>2. IsFiniteSet(T) /\ Cardinality(T) = n
  <2>1. IsFiniteSet(T) /\ Cardinality(T) = IF 0 > n - 1 THEN 0 ELSE (n - 1) - 0 + 1
    BY <1>1, FS_Interval
  <2> HIDE DEF n, T
  <2> QED BY <1>1, <2>1
<1>3. rank \in Injection(P, T)
  BY DEF Injection, IsInjective
<1>4. rank \in Surjection(P, T)
  BY <1>2, <1>3, FS_Injection
<1>5. \A t \in T : \E i \in P : rank[i] = t
  BY <1>4 DEF Surjection
<1>6. \A k \in 1 .. n : k - 1 \in T
  BY <1>1
<1> QED BY <1>5, <1>6

(* r is s at the positions P, which p takes once each, stably sorted: no    *)
(* member goes before one with a higher score, and members with equal      *)
(* scores keep their order.                                                *)
StableSort(r, p, s, P, score) ==
  /\ p \in [1 .. Cardinality(P) -> P]
  /\ r = [k \in 1 .. Cardinality(P) |-> s[p[k]]]
  /\ \A i \in P : \E k \in 1 .. Cardinality(P) : p[k] = i
  /\ \A k, l \in 1 .. Cardinality(P) :
       k < l => p[k] # p[l] /\ Before(score, p[l], p[k])

(* What Sorted, list.sort(reverse=True), returns is a stable sort.         *)
LEMMA SortedIsStable ==
  ASSUME NEW s, NEW P, P \in SUBSET Nat, IsFiniteSet(P),
         NEW score, \A i \in P : score[i] \in Fraction
  PROVE  \E p : StableSort(Sorted(s, P, score), p, s, P, score)
<1> DEFINE n == Cardinality(P)
           before(i) == {j \in P : Before(score, i, j)}
           rank == [i \in P |-> Cardinality(before(i))]
           p == [k \in 1 .. n |-> CHOOSE i \in P : rank[i] = k - 1]
<1>1. n \in Nat
  BY FS_CardinalityType
<1>2. ASSUME NEW i \in P
      PROVE  /\ IsFiniteSet(before(i))
             /\ Cardinality(before(i)) \in 0 .. n - 1
  <2>1. before(i) \in SUBSET (P \ {i})
    BY BeforeIsOrder
  <2>2. IsFiniteSet(P \ {i}) /\ Cardinality(P \ {i}) = n - 1
    BY FS_RemoveElement
  <2>3. IsFiniteSet(before(i)) /\ Cardinality(before(i)) <= n - 1
    BY <2>1, <2>2, FS_Subset
  <2>4. Cardinality(before(i)) \in Nat
    BY <2>3, FS_CardinalityType
  <2> HIDE DEF before, n
  <2> QED BY <1>1, <2>3, <2>4
<1>3. ASSUME NEW i \in P, NEW j \in P, Before(score, i, j)
      PROVE  rank[j] < rank[i]
  <2>1. before(j) \in SUBSET before(i)
    BY <1>3, BeforeIsOrder
  <2>2. j \in before(i) /\ j \notin before(j)
    BY <1>3, BeforeIsOrder
  <2>3. /\ Cardinality(before(j)) <= Cardinality(before(i))
        /\ Cardinality(before(i)) = Cardinality(before(j)) => before(i) = before(j)
    BY <1>2, <2>1, FS_Subset
  <2>4. Cardinality(before(j)) \in Int /\ Cardinality(before(i)) \in Int
    BY <1>1, <1>2
  <2>5. Cardinality(before(i)) # Cardinality(before(j))
    BY <2>2, <2>3
  <2>6. Cardinality(before(j)) < Cardinality(before(i))
    <3> HIDE DEF before
    <3> QED BY <2>3, <2>4, <2>5
  <2> QED BY <2>6
<1>4. rank \in [P -> 0 .. n - 1]
  BY <1>2
<1>5. \A i, j \in P : rank[i] = rank[j] => i = j
  <2> SUFFICES ASSUME NEW i \in P, NEW j \in P, i # j
               PROVE  rank[i] # rank[j]
    OBVIOUS
  <2>1. rank[i] \in Int /\ rank[j] \in Int
    BY <1>1, <1>4
  <2>2. rank[i] < rank[j] \/ rank[j] < rank[i]
    BY <1>3, BeforeIsOrder
  <2> HIDE DEF rank
  <2> QED BY <2>1, <2>2
<1>6. \A k \in 1 .. n : \E i \in P : rank[i] = k - 1
  <2> HIDE DEF rank
  <2> QED BY <1>4, <1>5, RanksAreTaken
<1>7. \A k \in 1 .. n : p[k] \in P /\ rank[p[k]] = k - 1
  <2> HIDE DEF rank
  <2> QED BY <1>6
<1>8. p \in [1 .. n -> P]
  <2> HIDE DEF rank, n
  <2> QED BY <1>6
<1>9. Sorted(s, P, score) = [k \in 1 .. n |-> s[p[k]]]
  <2> DEFINE at(k) == CHOOSE i \in P :
                        Cardinality({j \in P : \/ Greater(score[j], score[i])
                                               \/ ~Greater(score[i], score[j]) /\ j < i})
                          = k - 1
  <2>1. \A i \in P : rank[i] = Cardinality({j \in P : \/ Greater(score[j], score[i])
                                                      \/ ~Greater(score[i], score[j]) /\ j < i})
    BY DEF Before
  <2>2. \A k \in 1 .. n : p[k] = at(k)
    <3> HIDE DEF rank, n
    <3> QED BY <2>1
  <2>3. Sorted(s, P, score) = [k \in 1 .. n |-> s[at(k)]]
    BY Zenon DEF Sorted
  <2> HIDE DEF p, at, n
  <2> QED BY <2>2, <2>3
<1>10. ASSUME NEW i \in P
       PROVE  \E k \in 1 .. n : p[k] = i
  <2>1. rank[i] + 1 \in 1 .. n
    <3>1. rank[i] \in 0 .. n - 1
      BY <1>4
    <3> HIDE DEF rank, n
    <3> QED BY <1>1, <3>1
  <2>2. rank[p[rank[i] + 1]] = (rank[i] + 1) - 1 /\ p[rank[i] + 1] \in P
    <3> HIDE DEF rank, p
    <3> QED BY <1>7, <2>1
  <2>3. rank[i] \in Int
    BY <1>1, <1>4
  <2>4. \A k \in 1 .. n : p[k] \in P /\ (k - 1 = rank[i] => rank[p[k]] = rank[i])
    <3> HIDE DEF rank, p
    <3> QED BY <1>7
  <2>5. (rank[i] + 1) - 1 = rank[i]
    <3> HIDE DEF rank
    <3> QED BY <2>3
  <2>6. \A k \in 1 .. n : k - 1 = rank[i] => p[k] = i
    <3> HIDE DEF rank, p
    <3> QED BY <1>5, <2>4
  <2> HIDE DEF rank, p
  <2> QED BY <2>1, <2>5, <2>6
<1>11. ASSUME NEW k \in 1 .. n, NEW l \in 1 .. n, k < l
       PROVE  p[k] # p[l] /\ Before(score, p[l], p[k])
  <2> HIDE DEF rank, p
  <2>1. rank[p[k]] = k - 1 /\ rank[p[l]] = l - 1 /\ p[k] \in P /\ p[l] \in P
    BY <1>7
  <2>2. ~(rank[p[l]] < rank[p[k]])  /\ rank[p[l]] # rank[p[k]]
    BY <1>1, <1>11, <2>1
  <2>3. p[k] # p[l]
    BY <2>2
  <2>4. ~Before(score, p[k], p[l])
    BY <1>3, <2>1, <2>2
  <2> QED BY <2>1, <2>3, <2>4, BeforeIsOrder
<1> HIDE DEF p
<1> QED BY <1>8, <1>9, <1>10, <1>11 DEF StableSort

(* The first members of a list.                                            *)
LEMMA TopIsPrefix ==
  ASSUME NEW S, NEW s \in Seq(S), NEW k \in Nat
  PROVE  /\ Top(s, k) \in Seq(S)
         /\ Len(Top(s, k)) = IF k < Len(s) THEN k ELSE Len(s)
         /\ \A i \in DOMAIN Top(s, k) : i \in DOMAIN s /\ Top(s, k)[i] = s[i]
<1> DEFINE n == IF k < Len(s) THEN k ELSE Len(s)
<1>1. n \in Nat /\ n <= Len(s)
  OBVIOUS
<1>2. Top(s, k) = [i \in 1 .. n |-> s[i]]
  <2> HIDE DEF n
  <2>1. SubSeq(s, 1, n) = [i \in 1 .. n |-> s[i]]
    BY <1>1
  <2> QED BY <2>1 DEF Top, n
<1>3. \A i \in 1 .. n : i \in 1 .. Len(s) /\ s[i] \in S
  BY <1>1
<1> HIDE DEF n
<1>4. [i \in 1 .. n |-> s[i]] \in Seq(S)
  BY <1>1, <1>3
<1>5. Len([i \in 1 .. n |-> s[i]]) = n
  BY <1>1, <1>4
<1>6. QED
  BY <1>1, <1>2, <1>3, <1>4, <1>5 DEF n

(* The members of r are those of s at the positions P.                     *)
SameMembers(r, s, P) ==
  /\ \A k \in DOMAIN r : \E i \in P : r[k] = s[i]
  /\ \A i \in P : \E k \in DOMAIN r : r[k] = s[i]

(* Sorting loses no member and adds none.                                  *)
LEMMA SortedMembers ==
  ASSUME NEW S, NEW s \in Seq(S), NEW P, P \in SUBSET DOMAIN s,
         NEW score, \A i \in P : score[i] \in Fraction
  PROVE  /\ Sorted(s, P, score) \in Seq(S)
         /\ IsFiniteSet(P)
         /\ Len(Sorted(s, P, score)) = Cardinality(P)
         /\ SameMembers(Sorted(s, P, score), s, P)
<1>1. IsFiniteSet(P) /\ P \in SUBSET Nat /\ \A i \in P : s[i] \in S
  <2>1. DOMAIN s = 1 .. Len(s) /\ Len(s) \in Nat
    OBVIOUS
  <2>2. IsFiniteSet(1 .. Len(s))
    BY <2>1, FS_Interval
  <2> QED BY <2>1, <2>2, FS_Subset
<1> DEFINE n == Cardinality(P)
           r == Sorted(s, P, score)
<1>2. PICK p : StableSort(r, p, s, P, score)
  BY <1>1, SortedIsStable
<1>3. n \in Nat
  BY <1>1, FS_CardinalityType
<1>4. /\ p \in [1 .. n -> P]
      /\ r = [k \in 1 .. n |-> s[p[k]]]
      /\ \A i \in P : \E k \in 1 .. n : p[k] = i
  BY <1>2 DEF StableSort
<1> HIDE DEF n, r
<1>5. \A k \in 1 .. n : p[k] \in P /\ r[k] = s[p[k]] /\ r[k] \in S
  BY <1>1, <1>4
<1>6. r \in Seq(S) /\ Len(r) = n /\ DOMAIN r = 1 .. n
  <2>1. r \in [1 .. n -> S] /\ DOMAIN r = 1 .. n
    BY <1>4, <1>5
  <2> QED BY <1>3, <2>1
<1>7. SameMembers(r, s, P)
  BY <1>4, <1>5, <1>6 DEF SameMembers
<1> QED BY <1>1, <1>6, <1>7 DEF n, r

(* A comprehension has the members at P and no others.                     *)
LEMMA KeptMembers ==
  ASSUME NEW S, NEW s \in Seq(S), NEW P, P \in SUBSET DOMAIN s
  PROVE  /\ Kept(s, P) \in Seq(S)
         /\ SameMembers(Kept(s, P), s, P)
<1> DEFINE zero == [i \in P |-> [n |-> 0, d |-> 1]]
<1>1. \A i \in P : zero[i] \in Fraction
  BY DEF Fraction
<1>2. Kept(s, P) = Sorted(s, P, zero)
  BY DEF Kept
<1> HIDE DEF zero
<1> QED BY <1>1, <1>2, SortedMembers

(* The scores of results are what a list of results can be sorted by.      *)
LEMMA ScoresAreFractions ==
  ASSUME NEW R, \A r \in R : r.score \in Int, NEW s \in Seq(R)
  PROVE  \A i \in DOMAIN s : Scores(s)[i] \in Fraction
<1>1. \A i \in DOMAIN s : s[i].score \in Int
  OBVIOUS
<1>2. \A x \in Int : [n |-> x, d |-> 1] \in Fraction
  BY DEF Fraction
<1>3. \A i \in DOMAIN s : Scores(s)[i] = [n |-> s[i].score, d |-> 1]
  BY DEF Scores
<1> QED BY <1>1, <1>2, <1>3, Zenon

(* What is sorted by its scores has none above its first.                  *)
LEMMA FirstIsHighest ==
  ASSUME NEW R, \A r \in R : r.score \in Int, NEW s \in Seq(R),
         NEW P, P \subseteq DOMAIN s, NEW i \in P
  PROVE  /\ 1 \in DOMAIN Sorted(s, P, Scores(s))
         /\ Sorted(s, P, Scores(s))[1].score >= s[i].score
<1> DEFINE n == Cardinality(P)
           r == Sorted(s, P, Scores(s))
<1>1. \A j \in P : Scores(s)[j] \in Fraction /\ s[j] \in R
  BY ScoresAreFractions
<1>2. IsFiniteSet(P) /\ P \in SUBSET Nat /\ n \in Nat
  <2>1. IsFiniteSet(P)
    BY <1>1, SortedMembers
  <2>2. \A j \in DOMAIN s : j \in Nat
    OBVIOUS
  <2> QED BY <2>1, <2>2, FS_CardinalityType
<1>3. PICK p : StableSort(r, p, s, P, Scores(s))
  BY <1>1, <1>2, SortedIsStable
<1>4. /\ p \in [1 .. n -> P]
      /\ r = [k \in 1 .. n |-> s[p[k]]]
      /\ \E k \in 1 .. n : p[k] = i
      /\ \A k, l \in 1 .. n : k < l => Before(Scores(s), p[l], p[k])
  BY <1>3 DEF StableSort
<1> HIDE DEF r, n
<1>5. PICK k \in 1 .. n : p[k] = i
  BY <1>4
<1>6. 1 \in 1 .. n /\ r[1] = s[p[1]] /\ p[1] \in P /\ DOMAIN r = 1 .. n
  BY <1>2, <1>4, <1>5
<1>7. CASE k = 1
  BY <1>1, <1>5, <1>6, <1>7 DEF r
<1>8. CASE k # 1
  <2>1. Before(Scores(s), i, p[1])
    BY <1>2, <1>4, <1>5, <1>6, <1>8
  <2>2. ~Greater(Scores(s)[i], Scores(s)[p[1]])
    BY <1>1, <1>6, <2>1, GreaterAsymmetric DEF Before
  <2>3. /\ Scores(s)[i] = [n |-> s[i].score, d |-> 1]
        /\ Scores(s)[p[1]] = [n |-> s[p[1]].score, d |-> 1]
    BY <1>6 DEF Scores
  <2>4. s[i].score \in Int /\ s[p[1]].score \in Int
    BY <1>1, <1>6
  <2>5. ~(s[i].score > s[p[1]].score)
    BY <2>2, <2>3, <2>4 DEF Greater
  <2> QED BY <1>6, <2>4, <2>5 DEF r
<1> QED BY <1>7, <1>8

-----------------------------------------------------------------------------
(* The searches.                                                           *)

(* The results a search of these chunks can have.                          *)
Score == -10000 .. 10000
ResultsFrom(c) == {Result(c, x) : x \in Score}
ResultOf(chunks) == UNION {ResultsFrom(chunks[i]) : i \in DOMAIN chunks}

(* The fields of a result.                                                 *)
LEMMA ResultFields ==
  ASSUME NEW chunks, NEW r \in ResultOf(chunks)
  PROVE  /\ r.score \in Score /\ r.score \in Int
         /\ \E i \in DOMAIN chunks :
              /\ r = Result(chunks[i], r.score)
              /\ r.id = chunks[i].id /\ r.doc = chunks[i].doc
              /\ r.content = chunks[i].content
<1>0. PICK i \in DOMAIN chunks : r \in ResultsFrom(chunks[i])
  BY Zenon DEF ResultOf
<1>1. PICK x \in Score : r = Result(chunks[i], x)
  BY <1>0, Zenon DEF ResultsFrom
<1>2. r.score = x
  BY <1>1 DEF Result
<1>3. r.id = chunks[i].id /\ r.doc = chunks[i].doc /\ r.content = chunks[i].content
  BY <1>1 DEF Result
<1>4. r.score \in Int
  BY <1>2 DEF Score
<1> QED BY <1>1, <1>2, <1>3, <1>4

(* What is a result of the index.                                          *)
LEMMA ResultIntro ==
  ASSUME NEW chunks, NEW i \in DOMAIN chunks, NEW x \in Score
  PROVE  Result(chunks[i], x) \in ResultOf(chunks)
<1>1. Result(chunks[i], x) \in ResultsFrom(chunks[i])
  BY Zenon DEF ResultsFrom
<1> QED BY <1>1, Zenon DEF ResultOf

(* The numbers of a match.                                                 *)
LEMMA MatchType ==
  ASSUME NEW q \in Question, NEW x \in Content
  PROVE  /\ 100 * Match[q][x].sim \in Score
         /\ 100 * Match[q][x].shared \in Score
         /\ Match[q][x].shared \in 0 .. 100
         /\ Match[q][x].overlap \in 0 .. 100
         /\ Match[q][x].density \in 0 .. 100
         /\ Match[q][x].phrase \in BOOLEAN
<1>1. Match[q][x] \in [sim : -100 .. 100, shared : Percent, overlap : Percent,
                       density : Percent, phrase : BOOLEAN]
  BY MatchAssumption
<1>2. \A m \in [sim : -100 .. 100, shared : Percent, overlap : Percent,
                density : Percent, phrase : BOOLEAN] :
        /\ m.sim \in -100 .. 100 /\ m.shared \in 0 .. 100 /\ m.overlap \in 0 .. 100
        /\ m.density \in 0 .. 100 /\ m.phrase \in BOOLEAN
  BY DEF Percent
<1>3. \A n \in -100 .. 100 : 100 * n \in Score
  BY DEF Score
<1>4. \A n \in 0 .. 100 : n \in -100 .. 100
  OBVIOUS
<1> QED BY <1>1, <1>2, <1>3, <1>4

(* Every result of the vector search is one of the chunks, and there are   *)
(* at most k.                                                              *)
LEMMA VectorSearchType ==
  ASSUME NEW C, \A c \in C : c.content \in Content, NEW chunks \in Seq(C),
         NEW q \in Question, NEW k \in Nat
  PROVE  VectorSearch(chunks, q, k) \in Seq(ResultOf(chunks))
<1> DEFINE scored == [i \in DOMAIN chunks |->
                        Result(chunks[i], 100 * Match[q][chunks[i].content].sim)]
           P == {i \in DOMAIN chunks : chunks[i].embedded}
           R == ResultOf(chunks)
<1>1. \A i \in DOMAIN chunks : scored[i] \in R
  <2>1. \A i \in DOMAIN chunks : chunks[i].content \in Content
    OBVIOUS
  <2>2. \A i \in DOMAIN chunks : 100 * Match[q][chunks[i].content].sim \in Score
    BY <2>1, MatchType
  <2> QED BY <2>2, ResultIntro
<1>2. scored \in Seq(R)
  <2>1. DOMAIN chunks = 1 .. Len(chunks) /\ Len(chunks) \in Nat
    OBVIOUS
  <2>2. scored \in [1 .. Len(chunks) -> R]
    <3> HIDE DEF R
    <3> QED BY <1>1, <2>1
  <2> HIDE DEF R, scored
  <2> QED BY <2>1, <2>2
<1>3. \A r \in R : r.score \in Int
  BY ResultFields
<1>4. P \subseteq DOMAIN scored
  OBVIOUS
<1>5. VectorSearch(chunks, q, k) = Top(Sorted(scored, P, Scores(scored)), k)
  BY DEF VectorSearch
<1> HIDE DEF scored, P, R
<1>6. Sorted(scored, P, Scores(scored)) \in Seq(R)
  BY <1>2, <1>3, <1>4, ScoresAreFractions, SortedMembers
<1> QED BY <1>5, <1>6, TopIsPrefix DEF R

(* The keyword search has the share of words as its score, and begins with *)
(* a chunk that has all words of the question if there is one.             *)
GoodKeyword(found, chunks, q) ==
  /\ \A i \in DOMAIN found : found[i].score = 100 * Match[q][found[i].content].shared
  /\ (\E i \in DOMAIN chunks : Match[q][chunks[i].content].shared = 100)
       => 1 \in DOMAIN found /\ found[1].score = 10000

(* What the keyword search returns, and that it finds full matches.        *)
LEMMA KeywordSearchType ==
  ASSUME NEW C, \A c \in C : c.content \in Content, NEW chunks \in Seq(C),
         NEW q \in Question, NEW k \in Nat \ {0}
  PROVE  /\ KeywordSearch(chunks, q, k) \in Seq(ResultOf(chunks))
         /\ GoodKeyword(KeywordSearch(chunks, q, k), chunks, q)
<1> DEFINE scored == [i \in DOMAIN chunks |->
                        Result(chunks[i], 100 * Match[q][chunks[i].content].shared)]
           P == {i \in DOMAIN chunks : scored[i].score > 0}
           R == ResultOf(chunks)
           all == Sorted(scored, P, Scores(scored))
           found == KeywordSearch(chunks, q, k)
<1>0. \A i \in DOMAIN chunks : chunks[i].content \in Content
  OBVIOUS
<1>1. \A i \in DOMAIN chunks :
        /\ scored[i] \in R
        /\ scored[i].score = 100 * Match[q][scored[i].content].shared
        /\ scored[i].content = chunks[i].content
  <2>1. \A i \in DOMAIN chunks : scored[i] \in R
    <3>1. \A i \in DOMAIN chunks : 100 * Match[q][chunks[i].content].shared \in Score
      BY <1>0, MatchType
    <3> QED BY <3>1, ResultIntro
  <2>2. \A i \in DOMAIN chunks :
          scored[i] = Result(chunks[i], 100 * Match[q][chunks[i].content].shared)
    OBVIOUS
  <2>3. \A i \in DOMAIN chunks :
          /\ scored[i].score = 100 * Match[q][scored[i].content].shared
          /\ scored[i].content = chunks[i].content
    <3>1. \A c, x : Result(c, x).score = x /\ Result(c, x).content = c.content
      BY DEF Result
    <3> HIDE DEF scored
    <3> QED BY <2>2, <3>1
  <2> QED BY <2>1, <2>3
<1>2. scored \in Seq(R) /\ DOMAIN scored = DOMAIN chunks
  <2>1. DOMAIN chunks = 1 .. Len(chunks) /\ Len(chunks) \in Nat
    OBVIOUS
  <2>2. scored \in [1 .. Len(chunks) -> R]
    <3> HIDE DEF R
    <3> QED BY <1>1, <2>1
  <2> HIDE DEF R, scored
  <2> QED BY <2>1, <2>2
<1>3. \A r \in R : r.score \in Int
  BY ResultFields
<1>4. P \subseteq DOMAIN scored
  OBVIOUS
<1>5. found = Top(all, k)
  BY DEF KeywordSearch
<1>6. \A i \in DOMAIN chunks : Match[q][chunks[i].content].shared = 100 => i \in P
  BY <1>0, <1>1
<1>7. \A i \in P : i \in DOMAIN chunks
  OBVIOUS
<1> HIDE DEF scored, P, R
<1>8. all \in Seq(R) /\ SameMembers(all, scored, P)
  BY <1>2, <1>3, <1>4, ScoresAreFractions, SortedMembers
<1>9. \A i \in DOMAIN all : all[i].score = 100 * Match[q][all[i].content].shared
  BY <1>1, <1>7, <1>8 DEF SameMembers
<1> HIDE DEF all, found
<1>10. /\ found \in Seq(R)
       /\ \A i \in DOMAIN found : found[i].score = 100 * Match[q][found[i].content].shared
  BY <1>5, <1>8, <1>9, TopIsPrefix
<1>11. ASSUME NEW i \in DOMAIN chunks,
              Match[q][chunks[i].content].shared = 100
       PROVE  1 \in DOMAIN found /\ found[1].score = 10000
  <2>1. i \in P /\ scored[i].score = 10000
    <3>1. scored[i].score = 100 * Match[q][chunks[i].content].shared
      BY <1>1
    <3> QED BY <1>6, <1>11, <3>1
  <2>2. 1 \in DOMAIN all /\ all[1].score >= 10000
    BY <1>2, <1>3, <1>4, <2>1, FirstIsHighest DEF all
  <2>3. all[1] \in R /\ Len(all) >= 1
    BY <1>8, <2>2
  <2>4. all[1].score <= 10000 /\ all[1].score \in Int
    <3>1. all[1] \in ResultOf(chunks)
      BY <2>3 DEF R
    <3>2. all[1].score \in Score
      BY <3>1, ResultFields
    <3>3. \A x \in Score : x <= 10000 /\ x \in Int
      BY DEF Score
    <3> QED BY <3>2, <3>3
  <2>5. 1 \in DOMAIN found
    <3>1. Len(found) >= 1 /\ Len(found) \in Nat
      BY <1>5, <1>8, <1>10, <2>3, TopIsPrefix
    <3> QED BY <1>10, <3>1
  <2>6. found[1] = all[1]
    BY <1>5, <1>8, <2>5, TopIsPrefix
  <2> QED BY <2>2, <2>4, <2>5, <2>6
<1>12. GoodKeyword(found, chunks, q)
  BY <1>10, <1>11 DEF GoodKeyword
<1> QED BY <1>10, <1>12 DEF found, R

-----------------------------------------------------------------------------
(* Fusion.                                                                 *)

(* A share is a fraction with a positive denominator.                      *)
LEMMA ShareType ==
  ASSUME NEW R, NEW s \in Seq(R), NEW id
  PROVE  Share(s, id) \in Fraction
<1>1. CASE id \in Ids(s)
  <2> DEFINE i == CHOOSE i \in DOMAIN s : s[i].id = id
  <2>1. i \in DOMAIN s
    BY <1>1 DEF Ids
  <2>2. i \in Nat
    <3> HIDE DEF i
    <3> QED BY <2>1
  <2>3. Share(s, id) = [n |-> 1, d |-> 60 + i]
    BY <1>1 DEF Share
  <2> HIDE DEF i
  <2> QED BY <2>2, <2>3 DEF Fraction
<1>2. CASE id \notin Ids(s)
  BY <1>2 DEF Share, Fraction
<1> QED BY <1>1, <1>2

(* And so is a fused score.                                                *)
LEMMA FusedScoreType ==
  ASSUME NEW R, NEW vector \in Seq(R), NEW keyword \in Seq(R), NEW id
  PROVE  FusedScore(vector, keyword, id) \in Fraction
<1> DEFINE a == Share(vector, id)
           b == Share(keyword, id)
<1>1. a \in Fraction /\ b \in Fraction
  BY ShareType
<1>2. FusedScore(vector, keyword, id) = [n |-> a.n * b.d + b.n * a.d, d |-> a.d * b.d]
  BY DEF FusedScore
<1> HIDE DEF a, b
<1>3. a.n \in Int /\ b.n \in Int /\ a.d \in Nat \ {0} /\ b.d \in Nat \ {0}
  BY <1>1 DEF Fraction
<1>4. \A x, y \in Int, u, v \in Nat \ {0} : x * v + y * u \in Int /\ u * v \in Nat \ {0}
  BY Z3
<1>5. a.n * b.d + b.n * a.d \in Int /\ a.d * b.d \in Nat \ {0}
  BY <1>3, <1>4
<1> QED BY <1>2, <1>5 DEF Fraction

(* Both lists together have an entry for every result of the keyword list. *)
LEMMA BothType ==
  ASSUME NEW R, NEW vector \in Seq(R), NEW keyword \in Seq(R)
  PROVE  /\ Both(vector, keyword) \in Seq(R)
         /\ \A j \in DOMAIN keyword : \E i \in DOMAIN Both(vector, keyword) :
              Both(vector, keyword)[i].id = keyword[j].id
<1> DEFINE P == {i \in DOMAIN keyword : keyword[i].id \notin Ids(vector)}
           rest == Kept(keyword, P)
<1>1. rest \in Seq(R) /\ SameMembers(rest, keyword, P)
  BY KeptMembers
<1>2. Both(vector, keyword) = vector \o rest
  BY DEF Both
<1>3. ASSUME NEW j \in DOMAIN keyword
      PROVE  \E i \in DOMAIN (vector \o rest) : (vector \o rest)[i].id = keyword[j].id
  <2>1. CASE keyword[j].id \in Ids(vector)
    <3>1. PICK i \in DOMAIN vector : vector[i].id = keyword[j].id
      BY <2>1 DEF Ids
    <3> HIDE DEF rest
    <3>2. i \in DOMAIN (vector \o rest) /\ (vector \o rest)[i] = vector[i]
      BY <1>1
    <3> QED BY <3>1, <3>2
  <2>2. CASE keyword[j].id \notin Ids(vector)
    <3>1. j \in P
      BY <2>2
    <3>2. PICK k \in DOMAIN rest : rest[k] = keyword[j]
      BY <1>1, <3>1 DEF SameMembers
    <3> HIDE DEF rest
    <3>3. /\ Len(vector) + k \in DOMAIN (vector \o rest)
          /\ (vector \o rest)[Len(vector) + k] = rest[k]
      BY <1>1, <3>2
    <3> QED BY <3>2, <3>3
  <2> QED BY <2>1, <2>2
<1> HIDE DEF rest
<1> QED BY <1>1, <1>2, <1>3

(* The fused list of two lists: results of these lists, and for each one   *)
(* of the keyword list a result of that list about the same chunk.         *)
FusedOf(vector, keyword) ==
  Fused(FusedOrder(Both(vector, keyword), vector, keyword), keyword)

Covers(fused, keyword) ==
  \A j \in DOMAIN keyword : \E i \in DOMAIN fused : \E l \in DOMAIN keyword :
    keyword[l].id = keyword[j].id /\ fused[i] = keyword[l]

(* Fusion returns results of the two lists, every keyword result included. *)
LEMMA FusedType ==
  ASSUME NEW R, NEW vector \in Seq(R), NEW keyword \in Seq(R)
  PROVE  /\ FusedOf(vector, keyword) \in Seq(R)
         /\ Covers(FusedOf(vector, keyword), keyword)
<1> DEFINE both == Both(vector, keyword)
           score == [i \in DOMAIN both |-> FusedScore(vector, keyword, both[i].id)]
           order == FusedOrder(both, vector, keyword)
           at(r) == CHOOSE i \in DOMAIN keyword : keyword[i].id = r.id
           last(r) == IF r.id \in Ids(keyword) THEN keyword[at(r)] ELSE r
           fused == FusedOf(vector, keyword)
<1>1. both \in Seq(R)
  BY BothType
<1>2. \A i \in DOMAIN both : score[i] \in Fraction
  BY FusedScoreType
<1>3. order = Sorted(both, DOMAIN both, score)
  BY DEF FusedOrder
<1>4. order \in Seq(R) /\ SameMembers(order, both, DOMAIN both)
  <2> HIDE DEF both, score
  <2> QED BY <1>1, <1>2, <1>3, SortedMembers
<1>5. fused = [i \in DOMAIN order |-> last(order[i])]
  BY DEF FusedOf, Fused
<1>6. \A r : r.id \in Ids(keyword) =>
        /\ at(r) \in DOMAIN keyword /\ keyword[at(r)].id = r.id
        /\ last(r) = keyword[at(r)]
  BY DEF Ids
<1>7. \A r \in R : last(r) \in R
  <2> SUFFICES ASSUME NEW r \in R PROVE last(r) \in R
    OBVIOUS
  <2>1. CASE r.id \in Ids(keyword)
    <3>1. at(r) \in DOMAIN keyword /\ last(r) = keyword[at(r)]
      BY <1>6, <2>1
    <3> HIDE DEF at, last
    <3> QED BY <3>1
  <2> QED BY <2>1
<1> HIDE DEF last, at, fused
<1>8. fused \in Seq(R) /\ DOMAIN fused = DOMAIN order
  <2>1. DOMAIN order = 1 .. Len(order) /\ Len(order) \in Nat
        /\ \A i \in DOMAIN order : order[i] \in R
    BY <1>4
  <2>2. fused \in [1 .. Len(order) -> R]
    BY <1>5, <1>7, <2>1
  <2> QED BY <2>1, <2>2
<1>9. ASSUME NEW j \in DOMAIN keyword
      PROVE  \E i \in DOMAIN fused : \E l \in DOMAIN keyword :
               keyword[l].id = keyword[j].id /\ fused[i] = keyword[l]
  <2>1. PICK b \in DOMAIN both : both[b].id = keyword[j].id
    BY BothType
  <2> HIDE DEF both
  <2>2. PICK i \in DOMAIN order : order[i] = both[b]
    BY <1>4 DEF SameMembers
  <2>3. order[i].id \in Ids(keyword) /\ order[i].id = keyword[j].id
    BY <2>1, <2>2 DEF Ids
  <2>4. fused[i] = last(order[i]) /\ i \in DOMAIN fused
    BY <1>5, <1>8
  <2> QED BY <1>6, <2>3, <2>4
<1> QED BY <1>8, <1>9 DEF fused, Covers

-----------------------------------------------------------------------------
(* Reranking.                                                              *)

(* Bounds of the pair score: what similarity alone can reach, and a full   *)
(* match.                                                                  *)
LEMMA AdjustedBounds ==
  ASSUME NEW m, m.overlap \in 0 .. 100, m.density \in 0 .. 100,
         m.phrase \in BOOLEAN, NEW s \in Score
  PROVE  /\ Adjusted(m, s) \in Score
         /\ m.overlap = 0 /\ m.density = 0 /\ ~m.phrase => Adjusted(m, s) <= 5500
         /\ s = 10000 /\ m.overlap = 100 => Adjusted(m, s) >= 8500
<1>1. m.overlap \in 0 .. 100 /\ m.density \in 0 .. 100 /\ m.phrase \in BOOLEAN
  OBVIOUS
<1>2. s \in -10000 .. 10000
  BY DEF Score
<1> DEFINE part == (55 * s) \div 100
<1>3. part \in Int /\ part >= -5500 /\ part <= 5500 /\ (s = 10000 => part = 5500)
  <2>1. 55 * s \in Int /\ 55 * s >= -550000 /\ 55 * s <= 550000
        /\ (s = 10000 => 55 * s = 550000)
    BY <1>2
  <2>2. \A t \in Int : t >= -550000 /\ t <= 550000 =>
          t \div 100 \in Int /\ t \div 100 >= -5500 /\ t \div 100 <= 5500
    OBVIOUS
  <2>3. 550000 \div 100 = 5500
    OBVIOUS
  <2> QED BY <2>1, <2>2, <2>3
<1> DEFINE bonus == IF m.phrase THEN 1500 ELSE 0
           sum == part + 30 * m.overlap + 15 * m.density + bonus
<1>4. Adjusted(m, s) = IF sum < 10000 THEN sum ELSE 10000
  BY DEF Adjusted
<1>5. bonus \in Nat /\ (~m.phrase => bonus = 0)
  BY <1>1
<1> HIDE DEF part, bonus
<1>6. sum \in Int /\ sum >= -5500
      /\ (s = 10000 /\ m.overlap = 100 => sum >= 8500)
      /\ (m.overlap = 0 /\ m.density = 0 /\ ~m.phrase => sum <= 5500)
  <2>1. 30 * m.overlap \in Nat /\ 15 * m.density \in Nat
        /\ (m.overlap = 100 => 30 * m.overlap = 3000)
        /\ (m.overlap = 0 => 30 * m.overlap = 0)
        /\ (m.density = 0 => 15 * m.density = 0)
    BY <1>1
  <2> QED BY <1>3, <1>5, <2>1
<1> HIDE DEF sum
<1>7. /\ Adjusted(m, s) \in -10000 .. 10000
      /\ (s = 10000 /\ m.overlap = 100 => Adjusted(m, s) >= 8500)
      /\ (m.overlap = 0 /\ m.density = 0 /\ ~m.phrase => Adjusted(m, s) <= 5500)
  BY <1>4, <1>6
<1>8. Adjusted(m, s) \in Score
  BY <1>7 DEF Score
<1> QED BY <1>7, <1>8

(* Reranking keeps the chunks of the results; each score is the adjusted   *)
(* score of one of them, and the first is the highest.                     *)
LEMMA RerankedType ==
  ASSUME NEW C, \A c \in C : c.content \in Content, NEW chunks \in Seq(C),
         NEW q \in Question, NEW results \in Seq(ResultOf(chunks))
  PROVE  /\ Reranked(results, q) \in Seq(ResultOf(chunks))
         /\ \A k \in DOMAIN Reranked(results, q) : \E s \in Score :
              Reranked(results, q)[k].score
                = Adjusted(Match[q][Reranked(results, q)[k].content], s)
         /\ \A i \in DOMAIN results :
              results[i].score = 10000 /\ Match[q][results[i].content].overlap = 100
                => /\ 1 \in DOMAIN Reranked(results, q)
                   /\ Reranked(results, q)[1].score >= 8500
<1> DEFINE R == ResultOf(chunks)
           a(r) == Adjusted(Match[q][r.content], r.score)
           adjusted == [i \in DOMAIN results |->
                          [results[i] EXCEPT !.score =
                             Adjusted(Match[q][results[i].content], @)]]
           all == Sorted(adjusted, DOMAIN adjusted, Scores(adjusted))
           rr == Reranked(results, q)
           rescored(r) == [r EXCEPT !.score = a(r)]
<1>1. ASSUME NEW r \in R
      PROVE  /\ rescored(r) \in R
             /\ rescored(r).score = a(r)
             /\ rescored(r).content = r.content
             /\ r.score \in Score
             /\ (r.score = 10000 /\ Match[q][r.content].overlap = 100 => a(r) >= 8500)
             /\ a(r) \in Int
  <2>1. PICK i \in DOMAIN chunks : r = Result(chunks[i], r.score) /\ r.content = chunks[i].content
    BY ResultFields
  <2>2. r.score \in Score
    BY ResultFields
  <2>3. r.content \in Content
    <3>1. chunks[i] \in C
      BY <2>1
    <3> QED BY <2>1, <3>1
  <2> DEFINE m == Match[q][r.content]
  <2>4. m.overlap \in 0 .. 100 /\ m.density \in 0 .. 100 /\ m.phrase \in BOOLEAN
    BY <2>3, MatchType
  <2> HIDE DEF m
  <2>5. Adjusted(m, r.score) \in Score
        /\ (r.score = 10000 /\ m.overlap = 100 => Adjusted(m, r.score) >= 8500)
    BY <2>2, <2>4, AdjustedBounds
  <2>6. \A x, y : [Result(chunks[i], x) EXCEPT !.score = y] = Result(chunks[i], y)
    BY DEF Result
  <2>7. rescored(r) = Result(chunks[i], Adjusted(m, r.score))
    BY <2>1, <2>6 DEF m
  <2>8. Result(chunks[i], Adjusted(m, r.score)) \in R
    BY <2>5, ResultIntro
  <2>9. /\ Result(chunks[i], Adjusted(m, r.score)).score = Adjusted(m, r.score)
        /\ Result(chunks[i], Adjusted(m, r.score)).content = chunks[i].content
    BY DEF Result
  <2>10. \A x \in Score : x \in Int
    BY DEF Score
  <2> QED BY <2>1, <2>2, <2>5, <2>7, <2>8, <2>9, <2>10 DEF m
<1>2. \A i \in DOMAIN results : results[i] \in R
  OBVIOUS
<1>3. ASSUME NEW i \in DOMAIN results
      PROVE  /\ adjusted[i] \in R
             /\ adjusted[i].score \in Int
             /\ \E s \in Score : adjusted[i].score = Adjusted(Match[q][adjusted[i].content], s)
             /\ (results[i].score = 10000 /\ Match[q][results[i].content].overlap = 100
                   => adjusted[i].score >= 8500)
  <2>1. results[i] \in R
    BY <1>2
  <2>2. adjusted[i] = rescored(results[i])
    <3>1. results[i] = Result(results[i], results[i].score)
      BY <2>1, ResultFields DEF Result
    <3> QED BY <3>1 DEF Result
  <2> HIDE DEF R, adjusted, rescored
  <2>3. adjusted[i] \in R /\ adjusted[i].score = a(results[i])
        /\ adjusted[i].content = results[i].content
    BY <1>1, <2>1, <2>2
  <2>4. /\ results[i].score \in Score /\ a(results[i]) \in Int
        /\ (results[i].score = 10000 /\ Match[q][results[i].content].overlap = 100
              => a(results[i]) >= 8500)
    BY <1>1, <2>1
  <2>5. adjusted[i].score = Adjusted(Match[q][adjusted[i].content], results[i].score)
    BY <2>3
  <2> HIDE DEF a
  <2>6. adjusted[i].score \in Int
    BY <2>3, <2>4
  <2>7. results[i].score = 10000 /\ Match[q][results[i].content].overlap = 100
          => adjusted[i].score >= 8500
    BY <2>3, <2>4
  <2>8. \E s \in Score : adjusted[i].score = Adjusted(Match[q][adjusted[i].content], s)
    BY <2>4, <2>5
  <2> QED BY <2>3, <2>6, <2>7, <2>8
<1>4. adjusted \in Seq(R) /\ DOMAIN adjusted = DOMAIN results
  <2>1. DOMAIN results = 1 .. Len(results) /\ Len(results) \in Nat
    OBVIOUS
  <2>2. adjusted \in [1 .. Len(results) -> R]
    <3>1. adjusted = [i \in 1 .. Len(results) |-> adjusted[i]]
      BY <2>1
    <3> HIDE DEF R, adjusted
    <3> QED BY <1>3, <2>1, <3>1
  <2> HIDE DEF R, adjusted
  <2> QED BY <2>1, <2>2
<1>5. rr = Top(all, RerankTopK)
  BY DEF Reranked
<1>6. \A r \in R : r.score \in Int
  BY ResultFields
<1> HIDE DEF adjusted, R
<1>7. all \in Seq(R) /\ SameMembers(all, adjusted, DOMAIN adjusted)
  BY <1>4, <1>6, ScoresAreFractions, SortedMembers
<1>8. ASSUME NEW k \in DOMAIN all
      PROVE  \E s \in Score : all[k].score = Adjusted(Match[q][all[k].content], s)
  <2> HIDE DEF all
  <2>1. PICK i \in DOMAIN adjusted : all[k] = adjusted[i]
    BY <1>7 DEF SameMembers
  <2>2. \E s \in Score : adjusted[i].score = Adjusted(Match[q][adjusted[i].content], s)
    BY <1>3, <1>4
  <2> QED BY <2>1, <2>2
<1>9. \A i \in DOMAIN adjusted : 1 \in DOMAIN all /\ all[1].score >= adjusted[i].score
  BY <1>4, <1>6, FirstIsHighest
<1> HIDE DEF all, rr
<1>10. RerankTopK \in Nat /\ RerankTopK >= 1
  BY SettingsAssumption
<1>11. /\ rr \in Seq(R)
       /\ \A k \in DOMAIN rr : k \in DOMAIN all /\ rr[k] = all[k]
       /\ (1 \in DOMAIN all => 1 \in DOMAIN rr)
  <2>1. /\ rr \in Seq(R)
        /\ Len(rr) = IF RerankTopK < Len(all) THEN RerankTopK ELSE Len(all)
        /\ \A k \in DOMAIN rr : k \in DOMAIN all /\ rr[k] = all[k]
    BY <1>5, <1>7, <1>10, TopIsPrefix
  <2>2. 1 \in DOMAIN all => 1 \in DOMAIN rr
    BY <1>7, <1>10, <2>1
  <2> QED BY <2>1, <2>2
<1>12. ASSUME NEW i \in DOMAIN results,
              results[i].score = 10000, Match[q][results[i].content].overlap = 100
       PROVE  1 \in DOMAIN rr /\ rr[1].score >= 8500
  <2>1. 1 \in DOMAIN all /\ all[1].score >= adjusted[i].score
    BY <1>4, <1>9
  <2>2. all[1].score \in Int /\ adjusted[i].score >= 8500 /\ adjusted[i].score \in Int
    BY <1>3, <1>6, <1>7, <1>12, <2>1
  <2> QED BY <1>11, <2>1, <2>2
<1>13. \A k \in DOMAIN rr : \E s \in Score :
         rr[k].score = Adjusted(Match[q][rr[k].content], s)
  BY <1>8, <1>11
<1> QED BY <1>11, <1>12, <1>13 DEF rr, R

-----------------------------------------------------------------------------
(* The whole search.                                                       *)

(* Ids identify the entries of a list.                                     *)
Distinct(s) == \A i, j \in DOMAIN s : s[i].id = s[j].id => i = j

(* What a search with the list vector returns.                             *)
SearchOf(vector, chunks, q, top) ==
  Top(Reranked(FusedOf(vector, KeywordSearch(chunks, q, top)), q), top)

(* A search returns at most top results, each a chunk of the index; a      *)
(* result above 5500 shares words with the question; and if a chunk has    *)
(* all words of the question, with or without an embedding, there is a     *)
(* result and the first has 8500 at least.                                 *)
GoodSearch(found, chunks, q) ==
  /\ \A i \in DOMAIN found :
       found[i].score > 5500 => \/ Match[q][found[i].content].overlap > 0
                                \/ Match[q][found[i].content].phrase
  /\ \A i \in DOMAIN chunks :
       /\ Match[q][chunks[i].content].shared = 100
       /\ Match[q][chunks[i].content].overlap = 100
       => 1 \in DOMAIN found /\ found[1].score >= 8500

(* What the search returns, for either outcome of the embedding.           *)
LEMMA SearchReturns ==
  ASSUME NEW C, \A c \in C : c.content \in Content, NEW chunks \in Seq(C),
         Distinct(chunks), NEW q \in Question, NEW top \in Nat \ {0},
         NEW vector \in Seq(ResultOf(chunks))
  PROVE  /\ SearchOf(vector, chunks, q, top) \in Seq(ResultOf(chunks))
         /\ Len(SearchOf(vector, chunks, q, top)) <= top
         /\ GoodSearch(SearchOf(vector, chunks, q, top), chunks, q)
<1> DEFINE R == ResultOf(chunks)
           keyword == KeywordSearch(chunks, q, top)
           fused == FusedOf(vector, keyword)
           rr == Reranked(fused, q)
           found == SearchOf(vector, chunks, q, top)
<1>1. keyword \in Seq(R)
  BY KeywordSearchType
<1>2. fused \in Seq(R)
  BY <1>1, FusedType
<1>3. /\ rr \in Seq(R)
      /\ \A k \in DOMAIN rr : \E s \in Score :
           rr[k].score = Adjusted(Match[q][rr[k].content], s)
      /\ \A i \in DOMAIN fused :
           fused[i].score = 10000 /\ Match[q][fused[i].content].overlap = 100
             => 1 \in DOMAIN rr /\ rr[1].score >= 8500
  <2> HIDE DEF fused
  <2> QED BY <1>2, RerankedType
<1>4. found = Top(rr, top)
  BY DEF SearchOf
<1>5. \A r \in R : r.content \in Content /\ r.score \in Score /\ r.score \in Int
  <2> SUFFICES ASSUME NEW r \in R PROVE r.content \in Content /\ r.score \in Score /\ r.score \in Int
    OBVIOUS
  <2>1. PICK i \in DOMAIN chunks : r.content = chunks[i].content
    BY ResultFields
  <2>2. chunks[i] \in C
    BY <2>1
  <2> QED BY <2>1, <2>2, ResultFields
<1>6. ASSUME NEW k \in DOMAIN rr, rr[k].score > 5500
      PROVE  Match[q][rr[k].content].overlap > 0 \/ Match[q][rr[k].content].phrase
  <2> DEFINE m == Match[q][rr[k].content]
  <2>1. rr[k].content \in Content /\ rr[k].score \in Int
    <3>1. rr[k] \in R
      <4> HIDE DEF rr, R
      <4> QED BY <1>3
    <3> HIDE DEF rr, R
    <3> QED BY <1>5, <3>1
  <2>2. m.overlap \in 0 .. 100 /\ m.density \in 0 .. 100 /\ m.phrase \in BOOLEAN
    <3> HIDE DEF rr
    <3> QED BY <2>1, MatchType
  <2>3. m.overlap = 0 => m.density = 0
    <3> HIDE DEF rr
    <3> QED BY <2>1, WordsAssumption
  <2>4. PICK s \in Score : rr[k].score = Adjusted(m, s)
    BY <1>3
  <2> HIDE DEF m, rr
  <2>5. Adjusted(m, s) > 5500
    BY <1>6, <2>4
  <2>6. Adjusted(m, s) \in Int
    BY <2>1, <2>4
  <2>7. ~(m.overlap = 0 /\ m.density = 0 /\ ~m.phrase)
    <3>1. m.overlap = 0 /\ m.density = 0 /\ ~m.phrase => Adjusted(m, s) <= 5500
      BY <2>2, AdjustedBounds
    <3> QED BY <2>5, <2>6, <3>1
  <2>8. m.overlap > 0 \/ m.phrase
    <3>1. CASE m.overlap = 0
      BY <2>3, <2>7, <3>1, Zenon
    <3>2. CASE m.overlap # 0
      <4>1. \A n \in 0 .. 100 : n # 0 => n > 0
        OBVIOUS
      <4> QED BY <2>2, <3>2, <4>1, Zenon
    <3> QED BY <3>1, <3>2, Zenon
  <2> QED BY <2>8 DEF m
<1>7. ASSUME NEW i \in DOMAIN chunks, Match[q][chunks[i].content].shared = 100,
             Match[q][chunks[i].content].overlap = 100
      PROVE  1 \in DOMAIN rr /\ rr[1].score >= 8500
  <2>1. /\ 1 \in DOMAIN keyword
        /\ keyword[1].score = 10000
        /\ \A j \in DOMAIN keyword :
             keyword[j].score = 100 * Match[q][keyword[j].content].shared
    <3>1. GoodKeyword(keyword, chunks, q)
      BY KeywordSearchType
    <3> HIDE DEF keyword
    <3> QED BY <1>7, <3>1 DEF GoodKeyword
  <2> HIDE DEF keyword
  <2>2. PICK f \in DOMAIN fused, l \in DOMAIN keyword :
          keyword[l].id = keyword[1].id /\ fused[f] = keyword[l]
    <3>1. Covers(fused, keyword)
      BY <1>1, FusedType
    <3>2. 1 \in DOMAIN keyword
      BY <2>1
    <3> HIDE DEF fused
    <3> QED BY <3>1, <3>2 DEF Covers
  <2>3. keyword[1] \in R /\ keyword[l] \in R
    <3> HIDE DEF R
    <3> QED BY <1>1, <2>1
  <2>4. PICK a \in DOMAIN chunks :
          keyword[1].id = chunks[a].id /\ keyword[1].content = chunks[a].content
    BY <2>3, ResultFields
  <2>5. PICK b \in DOMAIN chunks :
          keyword[l].id = chunks[b].id /\ keyword[l].content = chunks[b].content
    BY <2>3, ResultFields
  <2>6. keyword[l].content = keyword[1].content
    BY <2>2, <2>4, <2>5 DEF Distinct
  <2>7. fused[f].score = 10000
    BY <2>1, <2>2, <2>6
  <2>8. Match[q][fused[f].content].shared = 100
    <3>1. keyword[1].content \in Content
      BY <1>5, <2>3
    <3> DEFINE n == Match[q][keyword[1].content].shared
    <3>2. n \in 0 .. 100
      BY <3>1, MatchType
    <3>3. 100 * n = 10000
      BY <2>1
    <3>4. n = 100
      <4> HIDE DEF n
      <4> QED BY <3>2, <3>3
    <3> QED BY <2>2, <2>6, <3>4, Zenon
  <2>9. Match[q][fused[f].content].overlap = 100
    <3>1. chunks[i].content \in Content
      OBVIOUS
    <3>2. fused[f].content \in Content
      BY <1>5, <2>2, <2>3
    <3> QED BY <1>7, <2>8, <3>1, <3>2, WordsAssumption
  <2> QED BY <1>3, <2>7, <2>9
<1> HIDE DEF rr, R, found
<1>8. /\ found \in Seq(R) /\ Len(found) <= top
      /\ \A k \in DOMAIN found : k \in DOMAIN rr /\ found[k] = rr[k]
      /\ (1 \in DOMAIN rr => 1 \in DOMAIN found)
  <2>1. /\ found \in Seq(R)
        /\ Len(found) = IF top < Len(rr) THEN top ELSE Len(rr)
        /\ \A k \in DOMAIN found : k \in DOMAIN rr /\ found[k] = rr[k]
    BY <1>3, <1>4, TopIsPrefix
  <2> QED BY <1>3, <2>1
<1>9. \A i \in DOMAIN found :
        found[i].score > 5500 => \/ Match[q][found[i].content].overlap > 0
                                 \/ Match[q][found[i].content].phrase
  BY <1>6, <1>8
<1>10. \A i \in DOMAIN chunks :
         /\ Match[q][chunks[i].content].shared = 100
         /\ Match[q][chunks[i].content].overlap = 100
         => 1 \in DOMAIN found /\ found[1].score >= 8500
  BY <1>7, <1>8
<1> QED BY <1>8, <1>9, <1>10 DEF found, R, GoodSearch

-----------------------------------------------------------------------------
(* The index.                                                              *)

(* Keeping some members of a list without repetition repeats none.         *)
LEMMA KeptDistinct ==
  ASSUME NEW S, NEW s \in Seq(S), Distinct(s), NEW P, P \subseteq DOMAIN s
  PROVE  Distinct(Kept(s, P))
<1> DEFINE zero == [i \in P |-> [n |-> 0, d |-> 1]]
           r == Kept(s, P)
           n == Cardinality(P)
<1>1. \A i \in P : zero[i] \in Fraction
  BY DEF Fraction
<1>2. r = Sorted(s, P, zero)
  BY DEF Kept
<1> HIDE DEF zero, r
<1>3. IsFiniteSet(P) /\ P \in SUBSET Nat /\ n \in Nat
  <2>1. IsFiniteSet(P)
    BY <1>1, SortedMembers
  <2>2. \A j \in DOMAIN s : j \in Nat
    OBVIOUS
  <2> QED BY <2>1, <2>2, FS_CardinalityType
<1>4. PICK p : StableSort(r, p, s, P, zero)
  BY <1>1, <1>2, <1>3, SortedIsStable
<1>5. /\ p \in [1 .. n -> P]
      /\ r = [k \in 1 .. n |-> s[p[k]]]
      /\ \A k, l \in 1 .. n : k < l => p[k] # p[l]
  BY <1>4 DEF StableSort
<1> HIDE DEF n
<1>6. ASSUME NEW k \in DOMAIN r, NEW l \in DOMAIN r, r[k].id = r[l].id
      PROVE  k = l
  <2>1. k \in 1 .. n /\ l \in 1 .. n /\ r[k] = s[p[k]] /\ r[l] = s[p[l]]
    BY <1>5
  <2>2. p[k] \in DOMAIN s /\ p[l] \in DOMAIN s
    BY <1>5, <2>1
  <2>3. p[k] = p[l]
    BY <1>6, <2>1, <2>2 DEF Distinct
  <2>4. k \in Int /\ l \in Int
    BY <1>3, <2>1
  <2> QED BY <1>5, <2>1, <2>3, <2>4
<1> QED BY <1>6 DEF Distinct, r

(* An import leaves one entry for each id, all of them imported.           *)
LEMMA StoredType ==
  ASSUME NEW C, NEW chunks \in Seq(C), NEW new \in Seq(C),
         Distinct(chunks), Distinct(new)
  PROVE  Stored(chunks, new) \in Seq(C) /\ Distinct(Stored(chunks, new))
<1> DEFINE at(c) == CHOOSE i \in DOMAIN new : new[i].id = c.id
           latest(c) == IF c.id \in Ids(new) THEN new[at(c)] ELSE c
           old == [i \in DOMAIN chunks |-> latest(chunks[i])]
           P == {i \in DOMAIN new : new[i].id \notin Ids(chunks)}
           rest == Kept(new, P)
<1>1. rest \in Seq(C) /\ SameMembers(rest, new, P) /\ Distinct(rest)
  BY KeptMembers, KeptDistinct
<1>2. Stored(chunks, new) = old \o rest
  BY DEF Stored
<1>3. ASSUME NEW c \in C
      PROVE  latest(c) \in C /\ latest(c).id = c.id
  <2>1. CASE c.id \in Ids(new)
    <3>1. at(c) \in DOMAIN new /\ new[at(c)].id = c.id
      BY <2>1 DEF Ids
    <3>2. latest(c) = new[at(c)]
      BY <2>1
    <3> HIDE DEF at, latest
    <3> QED BY <3>1, <3>2
  <2>2. CASE c.id \notin Ids(new)
    BY <2>2
  <2> QED BY <2>1, <2>2
<1> HIDE DEF latest, at
<1>4. \A i \in DOMAIN chunks : old[i] \in C /\ old[i].id = chunks[i].id
  BY <1>3
<1>5. old \in Seq(C) /\ DOMAIN old = DOMAIN chunks
  <2>1. DOMAIN chunks = 1 .. Len(chunks) /\ Len(chunks) \in Nat
    OBVIOUS
  <2>2. old \in [1 .. Len(chunks) -> C]
    <3>1. old = [i \in 1 .. Len(chunks) |-> old[i]]
      BY <2>1
    <3> HIDE DEF old
    <3> QED BY <1>4, <2>1, <3>1
  <2> HIDE DEF old
  <2> QED BY <2>1, <2>2
<1>6. \A k \in DOMAIN rest : rest[k].id \notin Ids(chunks)
  <2> SUFFICES ASSUME NEW k \in DOMAIN rest PROVE rest[k].id \notin Ids(chunks)
    OBVIOUS
  <2>1. PICK i \in P : rest[k] = new[i]
    BY <1>1 DEF SameMembers
  <2> QED BY <2>1
<1> HIDE DEF old, rest, P
<1> DEFINE all == old \o rest
<1>7. all \in Seq(C)
  BY <1>1, <1>5
<1>8. \A k \in DOMAIN all :
        \/ k \in DOMAIN old /\ all[k] = old[k]
        \/ /\ k - Len(old) \in DOMAIN rest
           /\ all[k] = rest[k - Len(old)]
  BY <1>1, <1>5
<1>9. \A k \in DOMAIN old : old[k].id \in Ids(chunks)
  BY <1>4, <1>5 DEF Ids
<1>10. ASSUME NEW k \in DOMAIN all, NEW l \in DOMAIN all, all[k].id = all[l].id
       PROVE  k = l
  <2>1. k \in Int /\ l \in Int /\ Len(old) \in Int
    BY <1>5, <1>7
  <2> HIDE DEF all
  <2>2. CASE k \in DOMAIN old /\ all[k] = old[k] /\ l \in DOMAIN old /\ all[l] = old[l]
    BY <1>4, <1>5, <1>10, <2>2 DEF Distinct
  <2>3. CASE /\ k - Len(old) \in DOMAIN rest /\ all[k] = rest[k - Len(old)]
             /\ l - Len(old) \in DOMAIN rest /\ all[l] = rest[l - Len(old)]
    <3>1. k - Len(old) = l - Len(old)
      BY <1>1, <1>10, <2>3 DEF Distinct
    <3> QED BY <2>1, <3>1
  <2>4. CASE all[k].id \in Ids(chunks) /\ all[l].id \notin Ids(chunks)
    BY <1>10, <2>4
  <2>5. CASE all[l].id \in Ids(chunks) /\ all[k].id \notin Ids(chunks)
    BY <1>10, <2>5
  <2> QED BY <1>6, <1>8, <1>9, <2>2, <2>3, <2>4, <2>5
<1> QED BY <1>2, <1>7, <1>10 DEF all, Distinct

-----------------------------------------------------------------------------
(* The inductive invariant.                                                *)

(* What any search can return.                                             *)
AnyResult == UNION {ResultsFrom(c) : c \in Imported}

Fields == {"pc", "kind", "ask", "top", "results", "cited"}
QueryPCs == Awaiting \cup {"idle", "answered", "refused", "failed", "lost"}
AfterSearch == {"generating", "chunkRows", "docRows", "tracing"}

Shares(ask, content) == Match[ask][content].overlap > 0 \/ Match[ask][content].phrase

(* The results r of a search are within its top, were all in the index     *)
(* since then (w), one of them reaches the threshold, and those that do    *)
(* share words with the question if the threshold is above 5500.           *)
GoodResults(r, w) ==
  /\ \A i \in DOMAIN r.results :
       /\ Version(r.results[i]) \in w
       /\ r.results[i].score > 5500 => Shares(r.ask, r.results[i].content)
  /\ ~CheckRefusal(r.results)

(* What r cites is what it used, as the index had it since the search.     *)
GoodCitations(r, w) ==
  LET used == Top(r.results, 3)
  IN  /\ [i \in DOMAIN r.cited |-> r.cited[i].id] = [i \in DOMAIN used |-> used[i].id]
      /\ \A i \in DOMAIN used : Version(r.cited[i]) \in w

(* A request r whose window is w, while the index has chunks.              *)
QueryOK(r, w, chunks) ==
  /\ DOMAIN r = Fields
  /\ r.pc \in QueryPCs /\ r.kind \in {"search", "query"}
  /\ r.pc = "embedding" => r.ask \in Question
  /\ r.top \in Nat \ {0}
  /\ r.results \in Seq(AnyResult) /\ Len(r.results) <= r.top
  /\ r.results # <<>> <=> r.pc \in AfterSearch
  /\ r.cited # <<>> => r.pc \in {"tracing", "answered"}
  /\ r.pc \in AfterSearch => GoodResults(r, w) /\ Versions(chunks) \subseteq w
  /\ r.pc = "tracing" => GoodCitations(r, w)

IndexOK == index.chunks \in Seq(Imported) /\ Distinct(index.chunks)

QueriesOK ==
  /\ query = [q \in Query |-> query[q]]
  /\ window = [q \in Query |-> window[q]]
  /\ \A q \in Query : QueryOK(query[q], window[q], index.chunks)

RetInv == DbInv /\ IndexOK /\ QueriesOK

(* A request that has ended is in order wherever it ended, if it cites     *)
(* only when it was answered.                                              *)
LEMMA EndedOK ==
  ASSUME NEW req, NEW pc \in {"answered", "refused", "failed", "lost"},
         req.cited # <<>> => pc = "answered", NEW w, NEW chunks
  PROVE  QueryOK(Ended(req, pc), w, chunks) /\ Ended(req, pc).pc = pc
<1> DEFINE r == Ended(req, pc)
<1>1. /\ DOMAIN NewQuery = Fields
      /\ NewQuery.kind = "query" /\ NewQuery.top = 1 /\ NewQuery.results = <<>>
  BY DEF NewQuery, Fields
<1>2. /\ DOMAIN r = Fields
      /\ r.pc = pc /\ r.kind = "query" /\ r.top = 1 /\ r.results = <<>>
      /\ r.cited = req.cited
  BY <1>1 DEF Ended, Fields
<1> HIDE DEF r
<1>3. r.pc \in QueryPCs /\ r.pc \notin AfterSearch /\ r.pc # "embedding"
  BY <1>2 DEF QueryPCs, AfterSearch
<1>4. r.results \in Seq(AnyResult) /\ Len(r.results) <= r.top
  BY <1>2
<1>5. r.pc # "tracing"
  BY <1>3 DEF AfterSearch
<1> QED BY <1>2, <1>3, <1>4, <1>5 DEF QueryOK, r

(* A new request is in order.                                              *)
LEMMA NewOK ==
  ASSUME NEW w, NEW chunks
  PROVE  QueryOK(NewQuery, w, chunks)
<1> DEFINE r == NewQuery
<1>1. /\ DOMAIN r = Fields /\ r.pc = "idle"
      /\ r.kind = "query" /\ r.top = 1 /\ r.results = <<>> /\ r.cited = <<>>
  BY DEF NewQuery, Fields
<1> HIDE DEF r
<1>2. r.pc \in QueryPCs /\ r.pc \notin AfterSearch
  BY <1>1 DEF QueryPCs, AfterSearch
<1> QED BY <1>1, <1>2 DEF QueryOK, r

(* One request moves; the others and the index stay.                       *)
LEMMA OneQueryMoves ==
  ASSUME QueriesOK, NEW q \in Query, NEW new, NEW w, UNCHANGED index,
         Advance(q, new), window' = [window EXCEPT ![q] = w],
         QueryOK(new, w, index.chunks)
  PROVE  QueriesOK'
<1>1. query = [p \in Query |-> query[p]] /\ window = [p \in Query |-> window[p]]
  BY DEF QueriesOK
<1>2. query' = [query EXCEPT ![q] = new]
  BY DEF Advance
<1>3. query' = [p \in Query |-> query'[p]] /\ window' = [p \in Query |-> window'[p]]
  BY <1>1, <1>2
<1>4. ASSUME NEW p \in Query
      PROVE  QueryOK(query'[p], window'[p], index'.chunks)
  <2>1. CASE p = q
    <3>1. query'[p] = new /\ window'[p] = w
      BY <1>1, <1>2, <2>1
    <3> QED BY <3>1
  <2>2. CASE p # q
    <3>1. query'[p] = query[p] /\ window'[p] = window[p]
      BY <1>1, <1>2, <2>2
    <3> QED BY <3>1 DEF QueriesOK
  <2> QED BY <2>1, <2>2
<1> QED BY <1>3, <1>4 DEF QueriesOK

(* The same, when its window stays too.                                    *)
LEMMA OneQueryAdvances ==
  ASSUME QueriesOK, NEW q \in Query, NEW new, UNCHANGED <<index, window>>,
         Advance(q, new), QueryOK(new, window[q], index.chunks)
  PROVE  QueriesOK'
<1>1. window' = [window EXCEPT ![q] = window[q]]
  <2>1. window = [p \in Query |-> window[p]]
    BY DEF QueriesOK
  <2> QED BY <2>1
<1> QED BY <1>1, OneQueryMoves

(* Only a list that does not reach the threshold is refused.               *)
LEMMA RefusedFails ==
  ASSUME NEW req, DOMAIN req = Fields, NEW results, Found(req, results).pc = "refused"
  PROVE  CheckRefusal(results)
<1> SUFFICES ASSUME ~CheckRefusal(results) PROVE FALSE
  OBVIOUS
<1>1. CASE req.kind = "search"
  <2>1. Found(req, results) = [NewQuery EXCEPT !.pc = "answered", !.cited = req.cited]
    BY <1>1 DEF Found, Ended
  <2>2. DOMAIN NewQuery = Fields
    BY DEF NewQuery, Fields
  <2> QED BY <2>1, <2>2 DEF Fields
<1>2. CASE req.kind # "search"
  <2>1. Found(req, results) = [req EXCEPT !.pc = "generating", !.results = results]
    BY <1>2 DEF Found
  <2> QED BY <2>1 DEF Fields
<1> QED BY <1>1, <1>2

(* What a search leaves of its request.                                    *)
LEMMA FoundOK ==
  ASSUME NEW req, DOMAIN req = Fields, req.kind \in {"search", "query"},
         req.top \in Nat \ {0}, req.cited = <<>>,
         NEW results \in Seq(AnyResult), Len(results) <= req.top, NEW chunks,
         \A i \in DOMAIN results :
           /\ Version(results[i]) \in Versions(chunks)
           /\ results[i].score > 5500 => Shares(req.ask, results[i].content),
         NEW w, Found(req, results).pc = "generating" => w = Versions(chunks)
  PROVE  QueryOK(Found(req, results), w, chunks)
<1> DEFINE r == Found(req, results)
<1>1. CASE req.kind = "search"
  <2>1. r = Ended(req, "answered")
    BY <1>1 DEF Found
  <2> QED BY <2>1, EndedOK
<1>2. CASE req.kind # "search" /\ CheckRefusal(results)
  <2>1. r = Ended(req, "refused")
    BY <1>2 DEF Found
  <2> QED BY <1>2, <2>1, EndedOK
<1>3. CASE req.kind # "search" /\ ~CheckRefusal(results)
  <2>1. r = [req EXCEPT !.pc = "generating", !.results = results]
    BY <1>3 DEF Found
  <2>2. /\ DOMAIN r = Fields /\ r.pc = "generating" /\ r.results = results
        /\ r.kind = req.kind /\ r.ask = req.ask /\ r.top = req.top /\ r.cited = <<>>
    BY <2>1 DEF Fields
  <2>3. w = Versions(chunks)
    BY <2>2
  <2> HIDE DEF r
  <2>4. r.pc \in QueryPCs /\ r.pc \in AfterSearch
    BY <2>2 DEF QueryPCs, AfterSearch, Awaiting
  <2>5. results # <<>>
    BY <1>3 DEF CheckRefusal
  <2>6. GoodResults(r, w)
    BY <1>3, <2>2, <2>3 DEF GoodResults
  <2>7. QueryOK(r, w, chunks)
    BY <2>2, <2>3, <2>4, <2>5, <2>6 DEF QueryOK
  <2> QED BY <2>2, <2>7 DEF r
<1> QED BY <1>1, <1>2, <1>3

(* A request that arrives is in order; refused at once only if the index   *)
(* is empty.                                                               *)
LEMMA AskKeeps ==
  ASSUME IndexOK, QueriesOK, NEW q \in Query, NEW req,
         req.kind \in {"search", "query"}, req.ask \in Question, req.top \in Nat \ {0},
         Ask(q, req)
  PROVE  /\ IndexOK' /\ QueriesOK'
         /\ \A p \in Query : query'[p].pc = "refused" /\ query[p].pc # "refused"
                               => index.chunks = <<>>
<1> DEFINE new == [NewQuery EXCEPT !.pc = "embedding", !.kind = req.kind,
                                   !.ask = req.ask, !.top = req.top]
           r == IF index.chunks = <<>> THEN Found(new, <<>>) ELSE new
<1>0. Advance(q, r) /\ UNCHANGED <<index, window>>
  BY DEF Ask
<1>1. /\ DOMAIN new = Fields /\ new.pc = "embedding" /\ new.kind = req.kind
      /\ new.ask = req.ask /\ new.top = req.top /\ new.results = <<>> /\ new.cited = <<>>
  <2>1. DOMAIN NewQuery = Fields /\ NewQuery.results = <<>> /\ NewQuery.cited = <<>>
    BY DEF NewQuery, Fields
  <2> QED BY <2>1 DEF Fields
<1> HIDE DEF new
<1>2. QueryOK(r, window[q], index.chunks)
  <2>1. CASE index.chunks = <<>>
    <3>1. CheckRefusal(<<>>) /\ <<>> \in Seq(AnyResult) /\ Len(<<>>) <= new.top
      BY <1>1 DEF CheckRefusal
    <3>2. Found(new, <<>>).pc # "generating"
      <4>1. \/ Found(new, <<>>) = Ended(new, "answered")
            \/ Found(new, <<>>) = Ended(new, "refused")
        BY <3>1 DEF Found
      <4> QED BY <1>1, <4>1, EndedOK
    <3>3. QueryOK(Found(new, <<>>), window[q], index.chunks)
      <4> HIDE DEF r
      <4>1. \A i \in DOMAIN <<>> :
              /\ Version(<<>>[i]) \in Versions(index.chunks)
              /\ <<>>[i].score > 5500 => Shares(new.ask, <<>>[i].content)
        OBVIOUS
      <4>2. Found(new, <<>>).pc = "generating" => window[q] = Versions(index.chunks)
        BY <3>2
      <4> QED BY <1>1, <3>1, <4>1, <4>2, FoundOK
    <3> QED BY <2>1, <3>3
  <2>2. CASE index.chunks # <<>>
    <3>1. new.pc \in QueryPCs /\ new.pc \notin AfterSearch
      BY <1>1 DEF QueryPCs, AfterSearch, Awaiting
    <3>2. QueryOK(new, window[q], index.chunks)
      BY <1>1, <3>1 DEF QueryOK
    <3> QED BY <2>2, <3>2
  <2> QED BY <2>1, <2>2
<1>3. r.pc = "refused" => index.chunks = <<>>
  BY <1>1
<1> HIDE DEF r
<1>4. QueriesOK'
  BY <1>0, <1>2, OneQueryAdvances
<1>5. IndexOK'
  BY <1>0 DEF IndexOK, Distinct
<1>6. ASSUME NEW p \in Query, query'[p].pc = "refused", query[p].pc # "refused"
      PROVE  index.chunks = <<>>
  <2>1. query = [x \in Query |-> query[x]] /\ query' = [query EXCEPT ![q] = r]
    BY <1>0 DEF QueriesOK, Advance
  <2>2. p = q /\ query'[p] = r
    BY <1>6, <2>1
  <2> QED BY <1>3, <1>6, <2>2
<1> QED BY <1>4, <1>5, <1>6

(* A search ends in order, and refuses no question of which the index has  *)
(* a full match.                                                           *)
FullMatch(ask) ==
  \E i \in DOMAIN index.chunks :
    LET m == Match[ask][index.chunks[i].content]
    IN  m.shared = 100 /\ m.overlap = 100

(* The search keeps the invariant, and refuses no full match.              *)
LEMMA EmbeddedKeeps ==
  ASSUME IndexOK, QueriesOK, NEW q \in Query, Embedded(q)
  PROVE  /\ IndexOK' /\ QueriesOK'
         /\ Threshold <= 8500 =>
              \A p \in Query : query'[p].pc = "refused" /\ query[p].pc # "refused"
                                 => ~FullMatch(query[p].ask)
<1> DEFINE r == query[q]
           chunks == index.chunks
           keyword == KeywordSearch(chunks, r.ask, r.top)
<1>1. PICK vector \in {VectorSearch(chunks, r.ask, r.top), <<>>} :
        LET found == SearchOf(vector, chunks, r.ask, r.top)
        IN  Advance(q, Found(r, found))
  BY DEF Embedded, SearchOf, FusedOf
<1> DEFINE found == SearchOf(vector, chunks, r.ask, r.top)
<1>2. QueryOK(r, window[q], chunks)
  BY DEF QueriesOK
<1>3. r.pc = "embedding" /\ UNCHANGED index
  BY DEF Embedded
<1>4. /\ DOMAIN r = Fields /\ r.kind \in {"search", "query"} /\ r.top \in Nat \ {0}
      /\ r.ask \in Question /\ r.cited = <<>>
  BY <1>2, <1>3 DEF QueryOK
<1>5. /\ chunks \in Seq(Imported) /\ Distinct(chunks)
      /\ \A c \in Imported : c.content \in Content
  BY BatchAssumption DEF IndexOK
<1>6. vector \in Seq(ResultOf(chunks))
  <2>1. VectorSearch(chunks, r.ask, r.top) \in Seq(ResultOf(chunks))
    <3> HIDE DEF r, chunks
    <3> QED BY <1>4, <1>5, VectorSearchType
  <2>2. <<>> \in Seq(ResultOf(chunks))
    OBVIOUS
  <2> QED BY <2>1, <2>2
<1>7. /\ found \in Seq(ResultOf(chunks))
      /\ Len(found) <= r.top
      /\ GoodSearch(found, chunks, r.ask)
  <2> HIDE DEF r, chunks
  <2> QED BY <1>4, <1>5, <1>6, SearchReturns
<1>8. \A x \in ResultOf(chunks) :
        x \in AnyResult /\ Version(x) \in Versions(chunks) /\ x.score \in Int
  <2> SUFFICES ASSUME NEW x \in ResultOf(chunks)
               PROVE  x \in AnyResult /\ Version(x) \in Versions(chunks) /\ x.score \in Int
    OBVIOUS
  <2>1. PICK i \in DOMAIN chunks :
          /\ x.id = chunks[i].id /\ x.doc = chunks[i].doc
          /\ x.content = chunks[i].content
    BY ResultFields
  <2>2. Version(x) = Version(chunks[i])
    BY <2>1 DEF Version
  <2>3. PICK j \in DOMAIN chunks : x \in ResultsFrom(chunks[j])
    BY DEF ResultOf
  <2>4. chunks[j] \in Imported
    BY <1>5
  <2>5. x \in AnyResult
    BY <2>3, <2>4, Zenon DEF AnyResult
  <2>6. Version(x) \in Versions(chunks)
    BY <2>2 DEF Versions
  <2> QED BY <2>5, <2>6, ResultFields
<1> HIDE DEF found, r, chunks
<1>9. /\ found \in Seq(AnyResult)
      /\ \A i \in DOMAIN found : Version(found[i]) \in Versions(chunks) /\ found[i].score \in Int
  BY <1>7, <1>8
<1> DEFINE new == Found(r, found)
           w == IF new.pc = "generating" THEN Versions(chunks) ELSE {}
<1>10. Advance(q, new) /\ window' = [window EXCEPT ![q] = w]
  <2>1. query' = [query EXCEPT ![q] = new]
    BY <1>1 DEF Advance, found
  <2>2. query'[q] = new
    BY <2>1 DEF QueriesOK
  <2> HIDE DEF new
  <2> QED BY <2>1, <2>2 DEF Embedded, Advance, chunks
<1>11. /\ QueryOK(new, w, chunks)
       /\ new.pc = "refused" => CheckRefusal(found)
  <2>1. \A i \in DOMAIN found : found[i].score > 5500 => Shares(r.ask, found[i].content)
    BY <1>7 DEF GoodSearch, Shares
  <2>2. \A i \in DOMAIN found :
          /\ Version(found[i]) \in Versions(chunks)
          /\ found[i].score > 5500 => Shares(r.ask, found[i].content)
    BY <1>9, <2>1
  <2>3. Found(r, found).pc = "generating" => w = Versions(chunks)
    OBVIOUS
  <2> HIDE DEF w
  <2>4. found \in Seq(AnyResult) /\ Len(found) <= r.top
    BY <1>7, <1>9
  <2>5. QueryOK(Found(r, found), w, chunks)
    BY <1>4, <2>2, <2>3, <2>4, FoundOK
  <2>6. Found(r, found).pc = "refused" => CheckRefusal(found)
    BY <1>4, RefusedFails
  <2> QED BY <2>5, <2>6
<1> HIDE DEF new, w
<1>12. QueriesOK'
  BY <1>3, <1>10, <1>11, OneQueryMoves DEF chunks
<1>13. IndexOK'
  BY <1>3 DEF IndexOK, Distinct
<1>14. ASSUME Threshold <= 8500, NEW p \in Query,
              query'[p].pc = "refused", query[p].pc # "refused", FullMatch(query[p].ask)
       PROVE  FALSE
  <2>1. query = [x \in Query |-> query[x]] /\ query' = [query EXCEPT ![q] = new]
    BY <1>10 DEF QueriesOK, Advance
  <2>2. p = q /\ query'[p] = new
    BY <1>14, <2>1
  <2>3. CheckRefusal(found)
    BY <1>11, <1>14, <2>2
  <2>4. 1 \in DOMAIN found /\ found[1].score >= 8500
    BY <1>7, <1>14, <2>2 DEF FullMatch, r, chunks, GoodSearch
  <2>5. found[1].score < Threshold /\ found[1].score \in Int /\ Threshold \in Int
    BY <1>9, <2>3, <2>4, SettingsAssumption DEF CheckRefusal
  <2> QED BY <1>14, <2>4, <2>5
<1> QED BY <1>12, <1>13, <1>14

(* Citing keeps a request in order, wherever the lookup looked.            *)
LEMMA CiteOK ==
  ASSUME NEW r, NEW w, NEW chunks, QueryOK(r, w, chunks),
         r.pc \in {"generating", "chunkRows", "docRows"},
         NEW found, Versions(found) \subseteq w
  PROVE  QueryOK(Cite(r, found), w, chunks)
<1> DEFINE used == Top(r.results, 3)
           cited == [i \in DOMAIN used |-> Citation(used[i], found)]
           new == Cite(r, found)
<1>1. new = [r EXCEPT !.pc = "tracing", !.cited = cited]
  BY DEF Cite
<1>2. /\ DOMAIN new = Fields /\ new.pc = "tracing" /\ new.cited = cited
      /\ new.kind = r.kind /\ new.ask = r.ask /\ new.top = r.top /\ new.results = r.results
  <2> HIDE DEF cited, new
  <2> QED BY <1>1 DEF QueryOK, Fields
<1>3. r.pc \in AfterSearch /\ "tracing" \in QueryPCs /\ "tracing" \in AfterSearch
  BY DEF AfterSearch, QueryPCs, Awaiting
<1>4. \A i \in DOMAIN used : Version(used[i]) \in w
  <2>1. r.results \in Seq(AnyResult) /\ \A i \in DOMAIN r.results : Version(r.results[i]) \in w
    BY <1>3 DEF QueryOK, GoodResults
  <2>2. \A i \in DOMAIN used : i \in DOMAIN r.results /\ used[i] = r.results[i]
    BY <2>1, TopIsPrefix
  <2> QED BY <2>1, <2>2
<1>5. ASSUME NEW i \in DOMAIN used
      PROVE  cited[i].id = used[i].id /\ Version(cited[i]) \in w
  <2> DEFINE at == CHOOSE j \in DOMAIN found : found[j].id = used[i].id
             c == IF used[i].id \in Ids(found) THEN found[at] ELSE used[i]
  <2>1. cited[i] = [id |-> c.id, doc |-> c.doc, content |-> c.content,
                    title |-> TitleOf(c)]
    BY DEF Citation
  <2>2. c.id = used[i].id /\ Version(c) \in w
    <3>1. CASE used[i].id \in Ids(found)
      <4>1. at \in DOMAIN found /\ found[at].id = used[i].id
        BY <3>1 DEF Ids
      <4>2. c = found[at]
        BY <3>1
      <4> HIDE DEF at, c
      <4>3. Version(c) \in Versions(found)
        BY <4>1, <4>2 DEF Versions
      <4> QED BY <4>1, <4>2, <4>3
    <3>2. CASE used[i].id \notin Ids(found)
      BY <1>4, <3>2
    <3> QED BY <3>1, <3>2
  <2> HIDE DEF c, cited
  <2>3. Version(cited[i]) = Version(c) /\ cited[i].id = c.id
    BY <2>1 DEF Version
  <2> QED BY <2>2, <2>3
<1>6. GoodCitations(new, w)
  <2>1. DOMAIN cited = DOMAIN used
    OBVIOUS
  <2> HIDE DEF cited, new
  <2> QED BY <1>2, <1>5, <2>1 DEF GoodCitations
<1>7. GoodResults(new, w) /\ Versions(chunks) \subseteq w
  <2>1. GoodResults(r, w) /\ Versions(chunks) \subseteq w
    BY <1>3 DEF QueryOK
  <2> HIDE DEF cited, new
  <2> QED BY <1>2, <2>1 DEF GoodResults
<1> HIDE DEF cited, new
<1>8. /\ new.results \in Seq(AnyResult) /\ Len(new.results) <= new.top
      /\ new.results # <<>> /\ new.top \in Nat \ {0} /\ new.kind \in {"search", "query"}
  BY <1>2, <1>3 DEF QueryOK
<1>9. QueryOK(new, w, chunks)
  BY <1>2, <1>3, <1>6, <1>7, <1>8 DEF QueryOK
<1> QED BY <1>9 DEF new

(* Waiting for the next lookup with the same results.                      *)
LEMMA LookupOK ==
  ASSUME NEW r, NEW w, NEW chunks, QueryOK(r, w, chunks),
         r.pc \in {"generating", "chunkRows", "docRows"},
         NEW pc \in {"chunkRows", "docRows"}
  PROVE  QueryOK([r EXCEPT !.pc = pc], w, chunks)
<1> DEFINE new == [r EXCEPT !.pc = pc]
<1>1. r.pc \in AfterSearch /\ pc \in QueryPCs /\ pc \in AfterSearch /\ r.cited = <<>>
      /\ pc # "tracing" /\ pc # "embedding"
  BY DEF AfterSearch, QueryPCs, Awaiting, QueryOK
<1>2. /\ DOMAIN new = Fields /\ new.pc = pc /\ new.cited = r.cited
      /\ new.kind = r.kind /\ new.ask = r.ask /\ new.top = r.top /\ new.results = r.results
  BY DEF QueryOK, Fields
<1> HIDE DEF new
<1>3. GoodResults(new, w) /\ Versions(chunks) \subseteq w
  BY <1>1, <1>2 DEF QueryOK, GoodResults
<1>4. /\ new.results \in Seq(AnyResult) /\ Len(new.results) <= new.top
      /\ new.results # <<>> /\ new.top \in Nat \ {0} /\ new.kind \in {"search", "query"}
  BY <1>1, <1>2 DEF QueryOK
<1>5. QueryOK(new, w, chunks)
  BY <1>1, <1>2, <1>3, <1>4 DEF QueryOK
<1> QED BY <1>5 DEF new

(* The steps from the answer of the LLM to the response.                   *)
LEMMA AnsweringKeeps ==
  ASSUME IndexOK, QueriesOK, NEW q \in Query,
         Generated(q) \/ NoRows(q) \/ RowsFail(q) \/ Traced(q)
  PROVE  /\ IndexOK' /\ QueriesOK'
         /\ \A p \in Query : query'[p].pc = "refused" => query[p].pc = "refused"
<1> DEFINE r == query[q]
<1>1. QueryOK(r, window[q], index.chunks) /\ UNCHANGED index
  BY DEF QueriesOK, Generated, NoRows, RowsFail, Traced
<1>2. IndexOK'
  BY <1>1 DEF IndexOK, Distinct
<1>3. PICK new, w :
        /\ Advance(q, new) /\ window' = [window EXCEPT ![q] = w]
        /\ QueryOK(new, w, index.chunks)
        /\ new.pc # "refused"
  <2>0. window = [window EXCEPT ![q] = window[q]]
    BY DEF QueriesOK
  <2>1. CASE r.pc \in {"generating", "chunkRows", "docRows"} /\ UNCHANGED window
             /\ \E pc \in {"chunkRows", "docRows"} : Advance(q, [r EXCEPT !.pc = pc])
    <3>1. PICK pc \in {"chunkRows", "docRows"} : Advance(q, [r EXCEPT !.pc = pc])
      BY <2>1
    <3>2. QueryOK([r EXCEPT !.pc = pc], window[q], index.chunks)
      BY <1>1, <2>1, LookupOK
    <3>3. [r EXCEPT !.pc = pc].pc # "refused"
      BY <1>1 DEF QueryOK, Fields
    <3> HIDE DEF r
    <3> QED BY <2>0, <2>1, <3>1, <3>2, <3>3
  <2>2. CASE r.pc \in {"generating", "chunkRows", "docRows"} /\ UNCHANGED window
             /\ \E found \in {index.chunks, <<>>} : Advance(q, Cite(r, found))
    <3>1. PICK found \in {index.chunks, <<>>} : Advance(q, Cite(r, found))
      BY <2>2
    <3>2. Versions(index.chunks) \subseteq window[q]
      BY <1>1, <2>2 DEF QueryOK, AfterSearch
    <3>3. Versions(found) \subseteq window[q]
      BY <3>2 DEF Versions
    <3>4. QueryOK(Cite(r, found), window[q], index.chunks)
      BY <1>1, <2>2, <3>3, CiteOK
    <3>5. Cite(r, found).pc # "refused"
      BY <1>1 DEF QueryOK, Fields, Cite
    <3> HIDE DEF r
    <3> QED BY <2>0, <2>2, <3>1, <3>4, <3>5
  <2>3. CASE RowsFail(q)
    <3>1. Advance(q, Ended(r, "failed")) /\ r.cited = <<>> /\ window' = [window EXCEPT ![q] = {}]
      BY <1>1, <2>3 DEF RowsFail, QueryOK
    <3>2. QueryOK(Ended(r, "failed"), {}, index.chunks) /\ Ended(r, "failed").pc = "failed"
      BY <3>1, EndedOK
    <3> HIDE DEF r
    <3> QED BY <3>1, <3>2
  <2>4. CASE Traced(q)
    <3>1. Advance(q, Ended(r, "answered")) /\ window' = [window EXCEPT ![q] = {}]
      BY <2>4 DEF Traced
    <3>2. QueryOK(Ended(r, "answered"), {}, index.chunks) /\ Ended(r, "answered").pc = "answered"
      BY EndedOK
    <3> HIDE DEF r
    <3> QED BY <3>1, <3>2
  <2>5. Generated(q) => \/ r.pc \in {"generating", "chunkRows", "docRows"} /\ UNCHANGED window
                           /\ \E pc \in {"chunkRows", "docRows"} : Advance(q, [r EXCEPT !.pc = pc])
                        \/ r.pc \in {"generating", "chunkRows", "docRows"} /\ UNCHANGED window
                           /\ \E found \in {index.chunks, <<>>} : Advance(q, Cite(r, found))
    BY DEF Generated
  <2>6. NoRows(q) => \/ r.pc \in {"generating", "chunkRows", "docRows"} /\ UNCHANGED window
                        /\ \E pc \in {"chunkRows", "docRows"} : Advance(q, [r EXCEPT !.pc = pc])
                     \/ r.pc \in {"generating", "chunkRows", "docRows"} /\ UNCHANGED window
                        /\ \E found \in {index.chunks, <<>>} : Advance(q, Cite(r, found))
    BY DEF NoRows
  <2> HIDE DEF r
  <2> QED BY <2>1, <2>2, <2>3, <2>4, <2>5, <2>6, Zenon
<1>4. QueriesOK'
  BY <1>1, <1>3, OneQueryMoves
<1>5. ASSUME NEW p \in Query, query'[p].pc = "refused" PROVE query[p].pc = "refused"
  <2>1. query = [x \in Query |-> query[x]] /\ query' = [query EXCEPT ![q] = new]
    BY <1>3 DEF QueriesOK, Advance
  <2>2. p = q => query'[p] = new
    BY <2>1
  <2>3. p # q => query'[p] = query[p]
    BY <2>1
  <2> QED BY <1>3, <1>5, <2>2, <2>3
<1> QED BY <1>2, <1>4, <1>5

(* An import keeps the requests in order: what they have found stays in    *)
(* their windows, and the windows follow the index.                        *)
LEMMA ImportKeeps ==
  ASSUME IndexOK, QueriesOK, NEW batch \in Batch, ImportData(batch)
  PROVE  IndexOK' /\ QueriesOK'
<1>1. /\ index' = [chunks |-> Stored(index.chunks, batch.chunks),
                   docs   |-> Titles(index.docs, batch.docs)]
      /\ query' = query
      /\ window' = [q \in Query |-> IF Searched(q)
                                      THEN window[q] \cup Versions(index'.chunks)
                                      ELSE window[q]]
  BY DEF ImportData
<1>2. index'.chunks = Stored(index.chunks, batch.chunks)
  BY <1>1
<1>3. batch.chunks \in Seq(Imported) /\ Distinct(batch.chunks)
  BY BatchAssumption DEF Distinct
<1>4. IndexOK'
  <2>1. index'.chunks \in Seq(Imported) /\ Distinct(index'.chunks)
    BY <1>2, <1>3, StoredType DEF IndexOK
  <2> QED BY <2>1 DEF IndexOK, Distinct
<1>5. ASSUME NEW q \in Query
      PROVE  QueryOK(query'[q], window'[q], index'.chunks)
  <2> DEFINE r == query[q]
             w == window[q]
             v == window'[q]
             n == index'.chunks
  <2>1. QueryOK(r, w, index.chunks) /\ query'[q] = r
    BY <1>1 DEF QueriesOK
  <2>2. v = IF Searched(q) THEN w \cup Versions(n) ELSE w
    BY <1>1
  <2>3. Searched(q) <=> r.pc \in AfterSearch
    BY DEF Searched, InFlight, Awaiting, AfterSearch
  <2>4. w \subseteq v
    <3> HIDE DEF w, v, n
    <3> QED BY <2>2
  <2>5. r.pc \in AfterSearch => Versions(n) \subseteq v
    <3> HIDE DEF w, v, n
    <3> QED BY <2>2, <2>3
  <2> HIDE DEF w, v, n, r
  <2>6. r.pc \in AfterSearch => GoodResults(r, v)
    BY <2>1, <2>4 DEF QueryOK, GoodResults
  <2>7. r.pc = "tracing" => GoodCitations(r, v)
    BY <2>1, <2>4 DEF QueryOK, GoodCitations
  <2>8. QueryOK(r, v, n)
    BY <2>1, <2>5, <2>6, <2>7 DEF QueryOK
  <2> QED BY <2>1, <2>8 DEF r, v, n
<1>6. /\ query' = [q \in Query |-> query'[q]]
      /\ window' = [q \in Query |-> window'[q]]
  BY <1>1 DEF QueriesOK
<1> QED BY <1>4, <1>5, <1>6 DEF QueriesOK

(* After a restart nothing is in flight.                                   *)
LEMMA RestartKeeps ==
  ASSUME IndexOK, QueriesOK, RetRestart
  PROVE  /\ IndexOK' /\ QueriesOK'
         /\ \A p \in Query : query'[p].pc = "refused" => query[p].pc = "refused"
<1>1. /\ index' = [chunks |-> <<>>, docs |-> <<>>]
      /\ query' = [q \in Query |-> IF InFlight(q) THEN Ended(NewQuery, "lost") ELSE query[q]]
      /\ window' = [q \in Query |-> {}]
  BY DEF RetRestart
<1>2. index'.chunks = <<>>
  BY <1>1
<1>3. IndexOK'
  BY <1>2 DEF IndexOK, Distinct
<1>4. QueryOK(Ended(NewQuery, "lost"), {}, <<>>) /\ Ended(NewQuery, "lost").pc = "lost"
  <2>1. NewQuery.cited = <<>>
    BY DEF NewQuery
  <2> QED BY <2>1, EndedOK
<1>5. ASSUME NEW q \in Query
      PROVE  /\ QueryOK(query'[q], window'[q], index'.chunks)
             /\ query'[q].pc = "refused" => query[q].pc = "refused"
  <2>1. CASE InFlight(q)
    <3>1. query'[q] = Ended(NewQuery, "lost") /\ window'[q] = {}
      BY <1>1, <2>1
    <3> QED BY <1>2, <1>4, <3>1
  <2>2. CASE ~InFlight(q)
    <3> DEFINE r == query[q]
    <3>1. query'[q] = r /\ window'[q] = {}
      BY <1>1, <2>2
    <3>2. QueryOK(r, window[q], index.chunks)
      BY DEF QueriesOK
    <3>3. r.pc \notin AfterSearch /\ r.pc # "tracing"
      BY <2>2 DEF InFlight, Awaiting, AfterSearch
    <3> HIDE DEF r
    <3>4. QueryOK(r, {}, <<>>)
      BY <3>2, <3>3 DEF QueryOK
    <3> QED BY <1>2, <3>1, <3>4 DEF r
  <2> QED BY <2>1, <2>2
<1>6. /\ query' = [q \in Query |-> query'[q]]
      /\ window' = [q \in Query |-> window'[q]]
  BY <1>1
<1> QED BY <1>3, <1>5, <1>6 DEF QueriesOK

(* The invariant holds at first.                                           *)
LEMMA RetInitInv ==
  ASSUME RetInit
  PROVE  RetInv
<1>1. /\ index = [chunks |-> <<>>, docs |-> <<>>]
      /\ query = [q \in Query |-> NewQuery]
      /\ window = [q \in Query |-> {}]
  BY DEF RetInit
<1>2. DbInv
  BY DbInitInv DEF RetInit
<1>3. IndexOK
  <2>1. index.chunks = <<>>
    BY <1>1
  <2> QED BY <2>1 DEF IndexOK, Distinct
<1>4. \A q \in Query : QueryOK(query[q], window[q], index.chunks)
  BY <1>1, NewOK
<1>5. query = [q \in Query |-> query[q]] /\ window = [q \in Query |-> window[q]]
  BY <1>1
<1> QED BY <1>2, <1>3, <1>4, <1>5 DEF RetInv, QueriesOK

(* No step refuses a question of which the index has a full match.         *)
NoFullMatchRefused ==
  \A q \in Query :
    query'[q].pc = "refused" /\ query[q].pc # "refused" => ~FullMatch(query[q].ask)

(* A request that arrives keeps the invariant, whoever sends it.           *)
LEMMA AskInv ==
  ASSUME RetInv, NEW q \in Query, NEW req,
         req.kind \in {"search", "query"}, req.ask \in Question, req.top \in Nat \ {0},
         Ask(q, req)
  PROVE  RetInv' /\ NoFullMatchRefused
<1>1. DbInv'
  BY DbStutterInv DEF Ask, RetInv
<1>2. /\ IndexOK' /\ QueriesOK'
      /\ \A p \in Query : query'[p].pc = "refused" /\ query[p].pc # "refused"
                            => index.chunks = <<>>
  BY AskKeeps DEF RetInv
<1>3. index.chunks = <<>> => \A ask : ~FullMatch(ask)
  BY DEF FullMatch
<1> QED BY <1>1, <1>2, <1>3 DEF RetInv, NoFullMatchRefused

(* Steps of the database and its flag leave the service alone.             *)
LEMMA RetUnchanged ==
  ASSUME RetInv, UNCHANGED retVars, DbInv'
  PROVE  RetInv' /\ NoFullMatchRefused
<1>1. index' = index /\ query' = query /\ window' = window
  BY DEF retVars
<1>2. IndexOK' /\ QueriesOK'
  BY <1>1 DEF RetInv, IndexOK, QueriesOK, Distinct
<1> QED BY <1>1, <1>2 DEF RetInv, NoFullMatchRefused

(* Every step keeps the invariant, and none refuses a full match if the    *)
(* threshold is at most 8500.                                              *)
LEMMA RetNextInv ==
  ASSUME RetInv, RetNext
  PROVE  RetInv' /\ (Threshold <= 8500 => NoFullMatchRefused)
<1>1. CASE DbNext /\ UNCHANGED retVars
  BY <1>1, DbNextInv, RetUnchanged DEF RetInv
<1>2. CASE \E batch \in Batch : ImportData(batch)
  <2>1. PICK batch \in Batch : ImportData(batch)
    BY <1>2
  <2>2. IndexOK' /\ QueriesOK'
    BY <2>1, ImportKeeps DEF RetInv
  <2>3. UNCHANGED dbVars /\ UNCHANGED query
    BY <2>1 DEF ImportData
  <2>4. DbInv'
    BY <2>3, DbStutterInv DEF RetInv
  <2> QED BY <2>2, <2>3, <2>4 DEF RetInv, NoFullMatchRefused
<1>3. CASE \E q \in User, req \in Request : Ask(q, req)
  <2>1. PICK q \in User, req \in Request : Ask(q, req)
    BY <1>3
  <2>2. q \in Query /\ req.kind \in {"search", "query"} /\ req.ask \in Question
        /\ req.top \in Nat \ {0}
    BY UserAssumption, RequestAssumption
  <2> QED BY <2>1, <2>2, AskInv
<1>4. CASE \E q \in Query : QueryStep(q)
  <2>1. PICK q \in Query : QueryStep(q)
    BY <1>4
  <2>2. UNCHANGED dbVars
    BY <2>1 DEF QueryStep, Embedded, Generated, NoRows, RowsFail, Traced
  <2>3. DbInv'
    BY <2>2, DbStutterInv DEF RetInv
  <2>4. CASE Embedded(q)
    BY <2>3, <2>4, EmbeddedKeeps DEF RetInv, NoFullMatchRefused
  <2>5. CASE Generated(q) \/ NoRows(q) \/ RowsFail(q) \/ Traced(q)
    BY <2>3, <2>5, AnsweringKeeps DEF RetInv, NoFullMatchRefused
  <2> QED BY <2>1, <2>4, <2>5 DEF QueryStep
<1>5. CASE RetRestart
  <2>1. DbInv'
    BY <1>5, DbRestartInv DEF RetRestart, RetInv
  <2> QED BY <1>5, <2>1, RestartKeeps DEF RetInv, NoFullMatchRefused
<1> QED BY <1>1, <1>2, <1>3, <1>4, <1>5 DEF RetNext

(* And so does a step that changes nothing.                                *)
LEMMA RetStepInv ==
  RetInv /\ [RetNext]_<<dbVars, retVars>>
    => RetInv' /\ (Threshold <= 8500 => NoFullMatchRefused)
<1> SUFFICES ASSUME RetInv, [RetNext]_<<dbVars, retVars>>
             PROVE  RetInv' /\ (Threshold <= 8500 => NoFullMatchRefused)
  OBVIOUS
<1>1. CASE RetNext
  BY <1>1, RetNextInv
<1>2. CASE UNCHANGED <<dbVars, retVars>>
  <2>1. UNCHANGED dbVars /\ UNCHANGED retVars
    BY <1>2
  <2>2. DbInv'
    BY <2>1, DbStutterInv DEF RetInv
  <2> QED BY <2>1, <2>2, RetUnchanged
<1> QED BY <1>1, <1>2

-----------------------------------------------------------------------------
(* What the invariant says.                                                *)

(* The invariant gives the types.                                          *)
LEMMA RetInvTypes == RetInv => RetrievalTypeOK
<1> SUFFICES ASSUME RetInv PROVE RetrievalTypeOK
  OBVIOUS
<1>1. DbTypeOK
  BY DEF RetInv, DbInv
<1>2. \A i, j \in DOMAIN index.chunks :
        index.chunks[i].id = index.chunks[j].id => i = j
  BY DEF RetInv, IndexOK, Distinct
<1>3. \A i \in DOMAIN index.chunks :
        index.chunks[i].content \in Content /\ index.chunks[i].embedded \in BOOLEAN
  BY BatchAssumption DEF RetInv, IndexOK
<1>4. ASSUME NEW q \in Query
      PROVE  /\ query[q].pc \in Awaiting \cup {"idle", "answered", "refused", "failed", "lost"}
             /\ query[q].kind \in {"search", "query"}
             /\ Len(query[q].results) <= query[q].top
             /\ query[q].cited # <<>> => query[q].pc \in {"tracing", "answered"}
             /\ query[q].results # <<>> <=> Searched(q)
  <2>1. QueryOK(query[q], window[q], index.chunks)
    BY DEF RetInv, QueriesOK
  <2>2. Searched(q) <=> query[q].pc \in AfterSearch
    BY DEF Searched, InFlight, Awaiting, AfterSearch
  <2> QED BY <2>1, <2>2 DEF QueryOK, QueryPCs
<1> QED BY <1>1, <1>2, <1>3, <1>4 DEF RetrievalTypeOK

(* It gives the citations.                                                 *)
LEMMA RetInvCites == RetInv => CitesWhatItUsed
<1> SUFFICES ASSUME RetInv, NEW q \in Query, query[q].pc = "tracing"
             PROVE  LET used  == Top(query[q].results, 3)
                        cited == query[q].cited
                    IN  /\ [i \in DOMAIN cited |-> cited[i].id] = [i \in DOMAIN used |-> used[i].id]
                        /\ \A i \in DOMAIN used :
                             {Version(used[i]), Version(cited[i])} \subseteq window[q]
  BY DEF CitesWhatItUsed
<1> DEFINE r == query[q]
           w == window[q]
           used == Top(r.results, 3)
<1>1. QueryOK(r, w, index.chunks) /\ r.pc = "tracing" /\ r.pc \in AfterSearch
  BY DEF RetInv, QueriesOK, AfterSearch
<1> HIDE DEF r, w
<1>2. GoodCitations(r, w) /\ GoodResults(r, w) /\ r.results \in Seq(AnyResult)
  BY <1>1 DEF QueryOK
<1>3. \A i \in DOMAIN used : i \in DOMAIN r.results /\ used[i] = r.results[i]
  BY <1>2, TopIsPrefix
<1>4. \A i \in DOMAIN used : Version(used[i]) \in w /\ Version(r.cited[i]) \in w
  BY <1>2, <1>3 DEF GoodCitations, GoodResults
<1>5. [i \in DOMAIN r.cited |-> r.cited[i].id] = [i \in DOMAIN used |-> used[i].id]
  BY <1>2 DEF GoodCitations
<1> QED BY <1>4, <1>5 DEF r, w

(* Scores of results are numbers.                                          *)
LEMMA AnyResultScore ==
  ASSUME NEW r \in AnyResult
  PROVE  r.score \in Int
<1>1. PICK c \in Imported : r \in ResultsFrom(c)
  BY Zenon DEF AnyResult
<1>2. PICK x \in Score : r = Result(c, x)
  BY <1>1, Zenon DEF ResultsFrom
<1>3. r.score = x
  BY <1>2 DEF Result
<1> QED BY <1>3 DEF Score

(* It gives shared words, if the threshold is above what similarity can    *)
(* reach.                                                                  *)
LEMMA RetInvShares == Threshold > 5500 /\ RetInv => AnswersShareWords
<1> SUFFICES ASSUME Threshold > 5500, RetInv, NEW q \in Query, query[q].pc = "generating"
             PROVE  \E i \in DOMAIN query[q].results :
                      LET m == Match[query[q].ask][query[q].results[i].content]
                      IN  m.overlap > 0 \/ m.phrase
  BY DEF AnswersShareWords
<1> DEFINE r == query[q]
<1>1. QueryOK(r, window[q], index.chunks) /\ r.pc \in AfterSearch
  BY DEF RetInv, QueriesOK, AfterSearch
<1> HIDE DEF r
<1>2. GoodResults(r, window[q]) /\ r.results \in Seq(AnyResult)
  BY <1>1 DEF QueryOK
<1>3. PICK i \in DOMAIN r.results : ~(r.results[i].score < Threshold)
  BY <1>2 DEF GoodResults, CheckRefusal
<1>4. r.results[i].score \in Int
  <2>1. r.results[i] \in AnyResult
    BY <1>2
  <2> QED BY <2>1, AnyResultScore
<1>5. r.results[i].score > 5500
  BY <1>3, <1>4, SettingsAssumption
<1>6. Shares(r.ask, r.results[i].content)
  BY <1>2, <1>5 DEF GoodResults
<1> QED BY <1>6 DEF Shares, r

-----------------------------------------------------------------------------
(* Theorems.                                                               *)

(* The types of the service, and one entry in the index for each chunk,    *)
(* whatever is imported and asked.                                         *)
THEOREM RetrievalTypeCorrect == RetSpec => []RetrievalTypeOK
<1> QED BY RetInitInv, RetStepInv, RetInvTypes, PTL DEF RetSpec

(* An answer cites the first chunks it was made from, as the index held    *)
(* them since the search, through imports, flag changes and lookups.       *)
THEOREM CitationsAreSound == RetSpec => []CitesWhatItUsed
<1> QED BY RetInitInv, RetStepInv, RetInvCites, PTL DEF RetSpec

(* With a threshold above 0.55, similarity alone does not make an answer.  *)
THEOREM SimilarityIsNotEnough ==
  ASSUME Threshold > 5500
  PROVE  RetSpec => []AnswersShareWords
<1>1. RetInv => AnswersShareWords
  BY RetInvShares
<1> QED BY <1>1, RetInitInv, RetStepInv, PTL DEF RetSpec

(* With a threshold of at most 0.85, no search refuses a question of which *)
(* the index has a full match, for any settings of top_k and of the        *)
(* reranker, and whether or not the match has an embedding.                *)
THEOREM FullMatchesAreAnswered ==
  ASSUME Threshold <= 8500
  PROVE  RetSpec => FullMatchAnswered
<1>1. RetInv /\ [RetNext]_<<dbVars, retVars>> => RetInv' /\ NoFullMatchRefused
  BY RetStepInv
<1>2. NoFullMatchRefused =>
        \A q \in Query :
          query'[q].pc = "refused" /\ query[q].pc # "refused" =>
            ~\E i \in DOMAIN index.chunks :
                LET m == Match[query[q].ask][index.chunks[i].content]
                IN  m.shared = 100 /\ m.overlap = 100
  BY DEF NoFullMatchRefused, FullMatch
<1> QED BY <1>1, <1>2, RetInitInv, PTL DEF RetSpec, FullMatchAnswered
=============================================================================
