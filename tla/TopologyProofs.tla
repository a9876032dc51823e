-------------------------- MODULE TopologyProofs --------------------------
(***************************************************************************)
(* Proofs about the algorithms of Topology, for terms, labels and          *)
(* allowedTopologies of any size.  The loops need induction over data: it  *)
(* is made from the fact that < on the naturals is well-founded.           *)
(***************************************************************************)
EXTENDS Topology, FiniteSetTheorems, TLAPS

-----------------------------------------------------------------------------
(* Induction, order and loops.                                             *)

\* A set of numbers has a least one.  This and the next lemma are the induction
\* that the proofs about loops use.
LEMMA LeastNatural ==
    ASSUME NEW T \in SUBSET Nat, T # {}
    PROVE  \E n \in T : \A m \in T : n <= m
<1> DEFINE R == OpToRel(<, Nat)
<1>1. IsWellFoundedOn(R, Nat)
  BY NatLessThanWellFounded
<1>2. \A x, y \in Nat : x < y => <<x, y>> \in R
  BY DEF OpToRel
<1> HIDE DEF R
<1>3. PICK n \in T : \A y \in T : ~ (<<y, n>> \in R)
  BY <1>1, WFMin
<1>4. ASSUME NEW m \in T PROVE n <= m
  <2>1. m \in Nat /\ n \in Nat
    OBVIOUS
  <2>2. ~(m < n)
    BY <1>2, <1>3, <2>1
  <2> QED BY <2>1, <2>2
<1> QED BY <1>4

\* What holds of 0, and of n + 1 whenever of n, holds of every number.
LEMMA Induction ==
    ASSUME NEW T \in SUBSET Nat, 0 \in T, \A n \in T : n + 1 \in T
    PROVE  T = Nat
<1> SUFFICES ASSUME Nat \ T # {} PROVE FALSE
  OBVIOUS
<1>1. PICK n \in Nat \ T : \A m \in Nat \ T : n <= m
  BY LeastNatural
<1>2. n # 0
  OBVIOUS
<1>3. n - 1 \in Nat /\ ~(n <= n-1)
  BY <1>2
<1>4. n - 1 \in T
  BY <1>1, <1>3
<1>5. (n - 1) + 1 \in T
  BY <1>4
<1> QED BY <1>5

\* A finite set of numbers has a largest one.
LEMMA MaxInterval ==
    ASSUME NEW N \in Nat, NEW s \in SUBSET (1..N), s # {}
    PROVE  Max(s) \in s /\ \A y \in s : y <= Max(s)
<1> DEFINE T == {N - x : x \in s}
<1>1. T \in SUBSET Nat /\ T # {}
  <2>1. \A x \in s : N - x \in Nat
    OBVIOUS
  <2>2. PICK x \in s : TRUE
    OBVIOUS
  <2>3. N - x \in T
    OBVIOUS
  <2> QED BY <2>1, <2>3
<1>2. PICK n \in T : \A m \in T : n <= m
  BY <1>1, LeastNatural
<1>3. PICK x \in s : n = N - x
  BY <1>2
<1>4. \A y \in s : x >= y
  <2> TAKE y \in s
  <2>1. N - y \in T
    OBVIOUS
  <2>2. x \in 1..N /\ y \in 1..N /\ N - x <= N - y
    BY <1>2, <1>3, <2>1
  <2> QED BY <2>2
<1>5. Max(s) \in s /\ \A y \in s : Max(s) >= y
  BY <1>4 DEF Max
<1> QED BY <1>5

\* And every set of numbers a smallest one.
LEMMA MinInterval ==
    ASSUME NEW s \in SUBSET Nat, s # {}
    PROVE  Min(s) \in s /\ \A y \in s : Min(s) <= y
  BY LeastNatural DEF Min

\* There is at least one integer of w bits, so that hashes have a range.
LEMMA Power == ASSUME NEW w \in Nat PROVE 2^w \in Nat \ {0}
<1>1. IsFiniteSet(1..w) /\ Cardinality(1..w) = w
  BY FS_Interval
<1>2. IsFiniteSet(SUBSET (1..w)) /\ Cardinality(SUBSET (1..w)) = 2^w
  BY <1>1, FS_SUBSET
<1>3. Cardinality(SUBSET (1..w)) \in Nat
  BY <1>2, FS_CardinalityType
<1>4. Cardinality(SUBSET (1..w)) # 0
  <2>1. {} \in SUBSET (1..w)
    OBVIOUS
  <2> QED BY <1>2, <2>1, FS_EmptySet
<1> QED BY <1>2, <1>3, <1>4

\* In a finite set with a strict linear order (below[x] are the elements before x)
\* the numbers of elements before others are 0, 1, 2, ...
LEMMA Ranks ==
    ASSUME NEW S, IsFiniteSet(S), NEW below \in [S -> SUBSET S],
           \A x \in S : x \notin below[x],
           \A x \in S : \A y \in below[x] : below[y] \subseteq below[x],
           \A x, y \in S : x = y \/ x \in below[y] \/ y \in below[x]
    PROVE  /\ Cardinality(S) \in Nat
           /\ \A x \in S : Cardinality(below[x]) \in 0..Cardinality(S) - 1
           /\ \A x, y \in S : x \in below[y] <=> Cardinality(below[x]) < Cardinality(below[y])
           /\ \A i \in 1..Cardinality(S) : \E x \in S : Cardinality(below[x]) = i - 1
<1> DEFINE n == Cardinality(S)
           rank == [x \in S |-> Cardinality(below[x]) + 1]
<1>1. n \in Nat
  BY FS_CardinalityType
<1>2. ASSUME NEW x \in S PROVE IsFiniteSet(below[x]) /\ Cardinality(below[x]) \in 0..n - 1
  <2>1. IsFiniteSet(below[x]) /\ Cardinality(below[x]) <= n
    BY FS_Subset
  <2>2. Cardinality(below[x]) \in Nat
    BY <2>1, FS_CardinalityType
  <2>3. Cardinality(below[x]) # n
    BY FS_Subset
  <2> QED BY <1>1, <2>1, <2>2, <2>3
<1>3. ASSUME NEW x \in S, NEW y \in S, x \in below[y]
      PROVE  Cardinality(below[x]) < Cardinality(below[y])
  <2>1. below[x] \in SUBSET below[y] /\ x \notin below[x]
    BY <1>3
  <2>2. Cardinality(below[x]) <= Cardinality(below[y])
    BY <1>2, <2>1, FS_Subset
  <2>3. Cardinality(below[x]) # Cardinality(below[y])
    BY <1>2, <1>3, <2>1, FS_Subset
  <2>4. Cardinality(below[x]) \in 0..n - 1 /\ Cardinality(below[y]) \in 0..n - 1
    BY <1>2
  <2> QED BY <1>1, <2>2, <2>3, <2>4
<1>4. rank \in [S -> 1..n]
  BY <1>1, <1>2
<1>5. ASSUME NEW x \in S, NEW y \in S, x \notin below[y]
      PROVE  ~(Cardinality(below[x]) < Cardinality(below[y]))
  <2>1. Cardinality(below[x]) \in 0..n - 1 /\ Cardinality(below[y]) \in 0..n - 1
    BY <1>2
  <2>2. CASE x = y
    BY <1>1, <2>1, <2>2
  <2>3. CASE y \in below[x]
    BY <1>1, <1>3, <2>1, <2>3
  <2> QED BY <1>5, <2>2, <2>3
<1>6. \A x, y \in S : rank[x] = rank[y] => x = y
  <2> SUFFICES ASSUME NEW x \in S, NEW y \in S, rank[x] = rank[y], x # y PROVE FALSE
    OBVIOUS
  <2>1. Cardinality(below[x]) \in 0..n - 1 /\ Cardinality(below[y]) \in 0..n - 1
    BY <1>2
  <2>2. ~(Cardinality(below[x]) < Cardinality(below[y]))
    BY <1>1, <2>1
  <2>3. ~(Cardinality(below[y]) < Cardinality(below[x]))
    BY <1>1, <2>1
  <2> QED BY <1>3, <2>2, <2>3
<1>7. rank \in Surjection(S, 1..n)
  <2> HIDE DEF rank
  <2>1. rank \in Injection(S, 1..n)
    BY <1>4, <1>6 DEF Injection, IsInjective
  <2>2. IsFiniteSet(1..n) /\ Cardinality(1..n) = n
    BY <1>1, FS_Interval
  <2> QED BY <2>1, <2>2, FS_Injection
<1>8. ASSUME NEW i \in 1..n PROVE \E x \in S : Cardinality(below[x]) = i - 1
  <2>1. PICK x \in S : rank[x] = i
    BY <1>7 DEF Surjection
  <2>2. Cardinality(below[x]) \in 0..n - 1 /\ Cardinality(below[x]) + 1 = i
    BY <1>2, <2>1
  <2> QED BY <1>1, <2>2
<1> QED BY <1>1, <1>2, <1>3, <1>5, <1>8

\* An injective sequence that is as long as a set enumerates it.
LEMMA Enumerates ==
    ASSUME NEW S, IsFiniteSet(S),
           NEW s \in [1..Cardinality(S) -> S], IsInjective(s)
    PROVE  s \in Seq(S) /\ Len(s) = Cardinality(S) /\ Range(s) = S
<1>1. Cardinality(S) \in Nat
  BY FS_CardinalityType
<1>2. s \in Surjection(1..Cardinality(S), S)
  <2>1. s \in Injection(1..Cardinality(S), S)
    BY DEF Injection
  <2>2. Cardinality(1..Cardinality(S)) = Cardinality(S)
    BY <1>1, FS_Interval
  <2> QED BY <2>1, <2>2, FS_Injection
<1>3. s \in Seq(S) /\ Len(s) = Cardinality(S)
  BY <1>1
<1>4. Range(s) = S
  BY <1>2 DEF Range, Surjection
<1> QED BY <1>3, <1>4

\* g[s] is the result of a loop over the indices in s, in increasing order.
IsFold(N, base, step, g) ==
    \A s \in SUBSET (1..N) :
        g[s] = IF s = {} THEN base ELSE step[<<g[s \ {Max(s)}], Max(s)>>]

\* A loop over a sequence of any length has a result: this is what ForEach chooses.
LEMMA FoldExists ==
    ASSUME NEW N \in Nat, NEW State, NEW base \in State,
           NEW step \in [State \X (1..N) -> State]
    PROVE  \E g \in [SUBSET (1..N) -> State] : IsFold(N, base, step, g)
<1> USE DEF IsFold
<1> DEFINE Good(n, g) ==
              \A s \in SUBSET (1..n) :
                 g[s] = IF s = {} THEN base ELSE step[<<g[s \ {Max(s)}], Max(s)>>]
           T == {n \in Nat : n <= N => \E g \in [SUBSET (1..n) -> State] : Good(n, g)}
<1>1. 0 \in T
  <2> DEFINE g == [s \in SUBSET (1..0) |-> base]
  <2>1. g \in [SUBSET (1..0) -> State] /\ Good(0, g)
    OBVIOUS
  <2> QED BY <2>1
<1>2. ASSUME NEW n \in T PROVE n + 1 \in T
  <2> SUFFICES ASSUME n + 1 <= N
               PROVE  \E g \in [SUBSET (1..n + 1) -> State] : Good(n + 1, g)
    <3>1. n + 1 \in Nat
      OBVIOUS
    <3> QED BY <3>1
  <2>1. n \in Nat /\ n <= N /\ n + 1 \in 1..N
    OBVIOUS
  <2>2. PICK g \in [SUBSET (1..n) -> State] : Good(n, g)
    BY <2>1
  <2> DEFINE h == [s \in SUBSET (1..n + 1) |->
                     IF n + 1 \in s THEN step[<<g[s \ {n + 1}], n + 1>>] ELSE g[s]]
  <2>3. \A s \in SUBSET (1..n + 1) : /\ n + 1 \notin s => s \in SUBSET (1..n)
                                      /\ s \ {n + 1} \in SUBSET (1..n)
    BY <2>1
  <2>4. h \in [SUBSET (1..n + 1) -> State]
    BY <2>1, <2>2, <2>3
  <2>5. ASSUME NEW s \in SUBSET (1..n + 1)
        PROVE  h[s] = IF s = {} THEN base ELSE step[<<h[s \ {Max(s)}], Max(s)>>]
    <3>1. CASE n + 1 \in s
      <4>1. Max(s) = n + 1
        <5>1. Max(s) \in s /\ n + 1 <= Max(s)
          <6>1. n + 1 \in Nat /\ s # {}
            BY <2>1, <3>1
          <6> QED BY <3>1, <6>1, MaxInterval
        <5>2. Max(s) \in 1..n + 1
          BY <5>1
        <5> QED BY <2>1, <5>1, <5>2
      <4>2. h[s \ {n + 1}] = g[s \ {n + 1}]
        BY <2>3
      <4> QED BY <3>1, <4>1, <4>2
    <3>2. CASE n + 1 \notin s /\ s # {}
      <4>1. s \in SUBSET (1..n)
        BY <2>3, <3>2
      <4>2. h[s] = g[s] /\ h[s \ {Max(s)}] = g[s \ {Max(s)}]
        BY <2>3, <3>2
      <4> QED BY <2>2, <3>2, <4>1, <4>2
    <3>3. CASE s = {}
      BY <2>2, <3>3
    <3> QED BY <3>1, <3>2, <3>3
  <2> HIDE DEF h
  <2> QED BY <2>4, <2>5
<1>3. T = Nat
  BY <1>1, <1>2, Induction
<1>4. N \in T
  BY <1>3
<1>5. N <= N
  OBVIOUS
<1> QED BY <1>4, <1>5

\* What holds before a loop and is kept by every iteration holds after it.
LEMMA UpTo ==
    ASSUME NEW N \in Nat, NEW T, 0 \in T, \A n \in 0..N - 1 : n \in T => n + 1 \in T
    PROVE  N \in T
<1> DEFINE U == {n \in Nat : n <= N => n \in T}
<1>1. 0 \in U
  OBVIOUS
<1>2. ASSUME NEW n \in U PROVE n + 1 \in U
  <2>1. n \in Nat /\ n + 1 \in Nat
    OBVIOUS
  <2>2. ASSUME n + 1 <= N PROVE n + 1 \in T
    <3>1. n \in 0..N - 1 /\ n <= N
      BY <2>1, <2>2
    <3> QED BY <3>1
  <2> QED BY <2>1, <2>2
<1>3. U = Nat
  BY <1>1, <1>2, Induction
<1>4. N \in U /\ N <= N
  BY <1>3
<1> QED BY <1>4

\* The last iteration of a loop over 1..n + 1 is that for n + 1.
LEMMA LastStep ==
    ASSUME NEW N \in Nat, NEW n \in 0..N - 1
    PROVE  /\ 1..n + 1 \in SUBSET (1..N) /\ 1..n + 1 # {}
           /\ Max(1..n + 1) = n + 1 /\ (1..n + 1) \ {n + 1} = 1..n
<1>1. n \in Nat /\ n + 1 \in Nat /\ n + 1 <= N
  OBVIOUS
<1>2. 1..n + 1 \in SUBSET (1..N) /\ 1..n + 1 # {}
  <2>1. \A i \in 1..n + 1 : i \in 1..N
    BY <1>1
  <2>2. n + 1 \in 1..n + 1
    BY <1>1
  <2> QED BY <2>1, <2>2
<1>3. Max(1..n + 1) = n + 1
  <2>1. Max(1..n + 1) \in 1..n + 1 /\ \A y \in 1..n + 1 : y <= Max(1..n + 1)
    BY <1>1, <1>2, MaxInterval
  <2>2. n + 1 \in 1..n + 1
    BY <1>1
  <2>3. n + 1 <= Max(1..n + 1)
    BY <2>1, <2>2
  <2> QED BY <1>1, <2>1, <2>3
<1>4. (1..n + 1) \ {n + 1} = 1..n
  BY <1>1
<1> QED BY <1>2, <1>3, <1>4

-----------------------------------------------------------------------------
(* Sorting of terms.                                                       *)

\* The segments of terms are ordered, first by key and then by value.
LEMMA BeforeOrder ==
    /\ \A p \in Nat \X Nat : ~Before(p, p)
    /\ \A p, q, r \in Nat \X Nat : Before(p, q) /\ Before(q, r) => Before(p, r)
    /\ \A p, q \in Nat \X Nat : p = q \/ Before(p, q) \/ Before(q, p)
  BY DEF Before

\* Sorting a term lists each of its segments once, in order.
LEMMA SortTerm ==
    ASSUME NEW t, IsTerm(t)
    PROVE  /\ Cardinality(t) \in Nat
           /\ sort(t) \in Seq(t) /\ Len(sort(t)) = Cardinality(t) /\ Range(sort(t)) = t
           /\ DOMAIN sort(t) = 1..Cardinality(t)
           /\ \A i, j \in 1..Cardinality(t) : i < j => Before(sort(t)[i], sort(t)[j])
<1> DEFINE below == [p \in t |-> {q \in t : Before(q, p)}]
           s == sort(t)
           n == Cardinality(t)
<1>1. below \in [t -> SUBSET t]
  OBVIOUS
<1>2. t \subseteq Nat \X Nat /\ IsFiniteSet(t)
  BY DEF IsTerm
<1>3. /\ \A p \in t : p \notin below[p]
      /\ \A p \in t : \A q \in below[p] : below[q] \subseteq below[p]
      /\ \A p, q \in t : p = q \/ p \in below[q] \/ q \in below[p]
  BY <1>2, BeforeOrder
<1> HIDE DEF below
<1>4. /\ n \in Nat
      /\ \A p, q \in t : p \in below[q] <=> Cardinality(below[p]) < Cardinality(below[q])
      /\ \A i \in 1..n : \E p \in t : Cardinality(below[p]) = i - 1
  BY <1>1, <1>2, <1>3, Ranks
<1>5. ASSUME NEW i \in 1..n PROVE s[i] \in t /\ Cardinality(below[s[i]]) = i - 1
  <2>1. PICK p \in t : Cardinality(below[p]) = i - 1
    BY <1>4
  <2>2. Cardinality({q \in t : Before(q, p)}) = i - 1
    BY <2>1 DEF below
  <2>3. s[i] = CHOOSE x \in t : Cardinality({q \in t : Before(q, x)}) = i - 1
    BY DEF sort
  <2>4. s[i] \in t /\ Cardinality({q \in t : Before(q, s[i])}) = i - 1
    BY <2>2, <2>3
  <2> QED BY <2>4 DEF below
<1>6. s \in [1..n -> t]
  <2> DEFINE e(i) == CHOOSE p \in t : Cardinality({q \in t : Before(q, p)}) = i - 1
  <2>1. s = [i \in 1..n |-> e(i)]
    BY DEF sort
  <2> HIDE DEF s, e
  <2> QED BY <1>5, <2>1
<1> HIDE DEF s, n
<1>7. IsInjective(s)
  <2> SUFFICES ASSUME NEW i \in 1..n, NEW j \in 1..n, s[i] = s[j] PROVE i = j
    BY <1>6 DEF IsInjective
  <2>1. i - 1 = j - 1
    BY <1>5
  <2> QED BY <1>4, <2>1
<1>8. s \in Seq(t) /\ Len(s) = n /\ Range(s) = t
  BY <1>2, <1>6, <1>7, Enumerates DEF n
<1>9. ASSUME NEW i \in 1..n, NEW j \in 1..n, i < j PROVE Before(s[i], s[j])
  <2>1. i - 1 < j - 1
    BY <1>4, <1>9
  <2>2. s[i] \in below[s[j]]
    BY <1>4, <1>5, <2>1
  <2> QED BY <1>5, <2>2 DEF below
<1> QED BY <1>4, <1>6, <1>8, <1>9 DEF s, n

\* compare is a strict linear order of the terms: two of them are equal when it
\* finds no difference, so that duplicates are next to each other when sorted.
LEMMA CompareOrder ==
    ASSUME NEW t, NEW u, NEW v, IsTerm(t), IsTerm(u), IsTerm(v)
    PROVE  /\ ~compare(t, t)
           /\ compare(t, u) /\ compare(u, v) => compare(t, v)
           /\ t = u \/ compare(t, u) \/ compare(u, t)
<1> DEFINE a == sort(t)
           b == sort(u)
           c == sort(v)
           D == Nat \X Nat
           Less(x, y, i) == /\ \A j \in 1..i - 1 : x[j] = y[j]
                            /\ Before(x[i], y[i])
<1>1. a \in Seq(D) /\ b \in Seq(D) /\ c \in Seq(D)
  <2>1. ASSUME NEW x, IsTerm(x) PROVE sort(x) \in Seq(D)
    <3>1. sort(x) \in Seq(x) /\ x \subseteq D
      BY <2>1, SortTerm DEF IsTerm
    <3> HIDE DEF D
    <3> QED BY <3>1
  <2> QED BY <2>1
<1>2. t = Range(a) /\ u = Range(b)
  BY SortTerm
<1>3. /\ compare(t, t) <=> \/ Len(a) < Len(a)
                           \/ Len(a) = Len(a) /\ \E i \in 1..Len(a) : Less(a, a, i)
      /\ compare(t, u) <=> \/ Len(a) < Len(b)
                           \/ Len(a) = Len(b) /\ \E i \in 1..Len(a) : Less(a, b, i)
      /\ compare(u, v) <=> \/ Len(b) < Len(c)
                           \/ Len(b) = Len(c) /\ \E i \in 1..Len(b) : Less(b, c, i)
      /\ compare(t, v) <=> \/ Len(a) < Len(c)
                           \/ Len(a) = Len(c) /\ \E i \in 1..Len(a) : Less(a, c, i)
      /\ compare(u, t) <=> \/ Len(b) < Len(a)
                           \/ Len(b) = Len(a) /\ \E i \in 1..Len(b) : Less(b, a, i)
  BY DEF compare
<1> HIDE DEF a, b, c, D
<1>4. ~compare(t, t)
  <2>1. \A i \in 1..Len(a) : a[i] \in D
    BY <1>1
  <2>2. \A i \in 1..Len(a) : ~Before(a[i], a[i])
    BY <2>1, BeforeOrder DEF D
  <2>3. ~(Len(a) < Len(a))
    BY <1>1
  <2> QED BY <1>3, <2>2, <2>3
<1>5. ASSUME compare(t, u), compare(u, v) PROVE compare(t, v)
  <2>1. Len(a) \in Nat /\ Len(b) \in Nat /\ Len(c) \in Nat
    BY <1>1
  <2>2. CASE Len(a) < Len(b) \/ Len(b) < Len(c)
    BY <1>3, <1>5, <2>1, <2>2
  <2>3. CASE ~(Len(a) < Len(b)) /\ ~(Len(b) < Len(c))
    <3>1. /\ Len(a) = Len(b) /\ Len(b) = Len(c)
          /\ \E i \in 1..Len(a) : Less(a, b, i)
          /\ \E i \in 1..Len(a) : Less(b, c, i)
      BY <1>3, <1>5, <2>3
    <3>2. PICK i \in 1..Len(a) : Less(a, b, i)
      BY <3>1
    <3>3. PICK j \in 1..Len(a) : Less(b, c, j)
      BY <3>1
    <3>4. CASE i < j
      <4>1. b[i] = c[i] /\ \A k \in 1..i - 1 : a[k] = c[k]
        BY <2>1, <3>2, <3>3, <3>4
      <4> QED BY <1>3, <3>1, <3>2, <4>1
    <3>5. CASE j < i
      <4>1. a[j] = b[j] /\ \A k \in 1..j - 1 : a[k] = c[k]
        BY <2>1, <3>2, <3>3, <3>5
      <4> QED BY <1>3, <3>1, <3>3, <4>1
    <3>6. CASE i = j
      <4>1. \A k \in 1..i - 1 : a[k] = c[k]
        BY <3>2, <3>3, <3>6
      <4>2. a[i] \in D /\ b[i] \in D /\ c[i] \in D
        BY <1>1, <3>1
      <4>3. Before(a[i], c[i])
        BY <3>2, <3>3, <3>6, <4>2, BeforeOrder DEF D
      <4> QED BY <1>3, <3>1, <4>1, <4>3
    <3>7. i < j \/ j < i \/ i = j
      BY <2>1
    <3> QED BY <3>4, <3>5, <3>6, <3>7
  <2> QED BY <2>2, <2>3
<1>6. ASSUME t # u PROVE compare(t, u) \/ compare(u, t)
  <2>1. Len(a) \in Nat /\ Len(b) \in Nat
    BY <1>1
  <2>2. CASE Len(a) # Len(b)
    BY <1>3, <2>1, <2>2
  <2>3. CASE Len(a) = Len(b)
    <3> DEFINE differ == {i \in 1..Len(a) : a[i] # b[i]}
    <3>1. differ # {}
      <4>1. a # b
        BY <1>2, <1>6
      <4> QED BY <1>1, <2>3, <4>1
    <3>2. differ \in SUBSET Nat
      BY <2>1
    <3>3. PICK i \in differ : \A j \in differ : i <= j
      BY <3>1, <3>2, LeastNatural
    <3>4. i \in 1..Len(a) /\ a[i] # b[i]
      BY <3>3
    <3>5. \A j \in 1..i - 1 : a[j] = b[j] /\ b[j] = a[j]
      <4> TAKE j \in 1..i - 1
      <4>1. j \in 1..Len(a) /\ ~(i <= j)
        BY <2>1, <3>4
      <4> QED BY <3>3, <4>1
    <3>6. a[i] \in D /\ b[i] \in D
      BY <1>1, <2>3, <3>4
    <3>7. Before(a[i], b[i]) \/ Before(b[i], a[i])
      BY <3>4, <3>6, BeforeOrder DEF D
    <3>8. Less(a, b, i) \/ Less(b, a, i)
      BY <3>5, <3>7
    <3> QED BY <1>3, <2>3, <3>4, <3>8
  <2> QED BY <2>2, <2>3
<1> QED BY <1>4, <1>5, <1>6

\* SortFunc and CompactFunc keep every term once.
LEMMA SortTermsEnumerates ==
    ASSUME NEW S, IsFiniteSet(S), \A t \in S : IsTerm(t)
    PROVE  /\ Cardinality(S) \in Nat
           /\ SortTerms(S) \in Seq(S) /\ Len(SortTerms(S)) = Cardinality(S)
           /\ Range(SortTerms(S)) = S /\ IsInjective(SortTerms(S))
           /\ DOMAIN SortTerms(S) = 1..Cardinality(S)
<1> DEFINE below == [t \in S |-> {u \in S : compare(u, t)}]
           s == SortTerms(S)
           n == Cardinality(S)
<1>1. below \in [S -> SUBSET S]
  OBVIOUS
<1>2. /\ \A t \in S : t \notin below[t]
      /\ \A t \in S : \A u \in below[t] : below[u] \subseteq below[t]
      /\ \A t, u \in S : t = u \/ t \in below[u] \/ u \in below[t]
  BY CompareOrder
<1> HIDE DEF below
<1>3. /\ n \in Nat
      /\ \A i \in 1..n : \E t \in S : Cardinality(below[t]) = i - 1
  BY <1>1, <1>2, Ranks
<1>4. ASSUME NEW i \in 1..n PROVE s[i] \in S /\ Cardinality(below[s[i]]) = i - 1
  <2>1. PICK t \in S : Cardinality(below[t]) = i - 1
    BY <1>3
  <2>2. Cardinality({u \in S : compare(u, t)}) = i - 1
    BY <2>1 DEF below
  <2>3. s[i] = CHOOSE x \in S : Cardinality({u \in S : compare(u, x)}) = i - 1
    BY DEF SortTerms
  <2>4. s[i] \in S /\ Cardinality({u \in S : compare(u, s[i])}) = i - 1
    BY <2>2, <2>3
  <2> QED BY <2>4 DEF below
<1>5. s \in [1..n -> S]
  <2> DEFINE e(i) == CHOOSE t \in S : Cardinality({u \in S : compare(u, t)}) = i - 1
  <2>1. s = [i \in 1..n |-> e(i)]
    BY DEF SortTerms
  <2> HIDE DEF s, e
  <2> QED BY <1>4, <2>1
<1> HIDE DEF s, n
<1>6. IsInjective(s)
  <2> SUFFICES ASSUME NEW i \in 1..n, NEW j \in 1..n, s[i] = s[j] PROVE i = j
    BY <1>5 DEF IsInjective
  <2>1. i - 1 = j - 1
    BY <1>4
  <2> QED BY <1>3, <2>1
<1>7. s \in Seq(S) /\ Len(s) = n /\ Range(s) = S
  BY <1>5, <1>6, Enumerates DEF n
<1> QED BY <1>3, <1>5, <1>6, <1>7 DEF s, n

-----------------------------------------------------------------------------
(* subset.                                                                 *)

\* The states of the loop in subset over a sorted term a.
ScanState(a) == [j : 1..Len(a), done : BOOLEAN, found : BOOLEAN]

\* The loop never looks behind the last segment of the term.
LEMMA ScanType ==
    ASSUME NEW a, Len(a) \in Nat, NEW x \in ScanState(a), NEW q
    PROVE  Scan(a, x, q) \in ScanState(a)
<1>1. CASE x.j = Len(a)
  BY <1>1 DEF Scan, ScanState
<1>2. CASE x.j # Len(a)
  <2>1. x.j + 1 \in 1..Len(a)
    BY <1>2 DEF ScanState
  <2> QED BY <1>2, <2>1 DEF Scan, ScanState
<1> QED BY <1>1, <1>2

\* The states that the loop of subset goes through.
LEMMA SubsetLoop ==
    ASSUME NEW t, NEW other, IsTerm(t), IsTerm(other), t # {}
    PROVE  \E F : /\ F[0] = ScanStart /\ F[0] \in ScanState(sort(t))
                  /\ \A n \in 0..Len(sort(other)) - 1 :
                        /\ F[n + 1] = Scan(sort(t), F[n], sort(other)[n + 1])
                        /\ F[n] \in ScanState(sort(t)) => F[n + 1] \in ScanState(sort(t))
                  /\ subset(t, other) <=> F[Len(sort(other))].found
<1> DEFINE a == sort(t)
           b == sort(other)
           N == Len(b)
           loop(g) == g = [s \in SUBSET DOMAIN b |->
                             IF s = {} THEN ScanStart
                             ELSE Scan(a, g[s \ {Max(s)}], b[Max(s)])]
           g == CHOOSE iter : loop(iter)
<1>1. subset(t, other) <=> g[DOMAIN b].found
  BY DEF subset, ForEach, MapThenFoldSet
<1>2. Len(a) \in Nat \ {0} /\ N \in Nat /\ DOMAIN b = 1..N
  <2>1. /\ DOMAIN b = 1..Cardinality(other)
        /\ Cardinality(t) \in Nat /\ Cardinality(other) \in Nat
        /\ Len(a) = Cardinality(t) /\ Len(b) = Cardinality(other)
    BY SortTerm
  <2>2. Cardinality(t) # 0
    BY FS_EmptySet DEF IsTerm
  <2> QED BY <2>1, <2>2
<1> HIDE DEF a, b
<1> DEFINE State == ScanState(a)
           step == [x \in State \X (1..N) |-> Scan(a, x[1], b[x[2]])]
<1>3. ScanStart \in State
  BY <1>2 DEF ScanStart, ScanState
<1>4. step \in [State \X (1..N) -> State]
  BY <1>2, ScanType
<1>5. \E h : loop(h)
  <2>1. PICK h \in [SUBSET (1..N) -> State] : IsFold(N, ScanStart, step, h)
    <3> HIDE DEF State, step, N
    <3> QED BY <1>2, <1>3, <1>4, FoldExists
  <2>2. ASSUME NEW s \in SUBSET (1..N), s # {}
        PROVE  h[s] = Scan(a, h[s \ {Max(s)}], b[Max(s)])
    <3>1. Max(s) \in 1..N /\ s \ {Max(s)} \in SUBSET (1..N)
      BY <1>2, <2>2, MaxInterval
    <3>2. h[s \ {Max(s)}] \in State
      BY <3>1
    <3> HIDE DEF State
    <3> QED BY <2>1, <2>2, <3>1, <3>2 DEF IsFold
  <2>3. h = [s \in SUBSET (1..N) |->
                IF s = {} THEN ScanStart ELSE Scan(a, h[s \ {Max(s)}], b[Max(s)])]
    <3> HIDE DEF State, step
    <3> QED BY <2>1, <2>2 DEF IsFold
  <2> QED BY <1>2, <2>3
<1>6. loop(g)
  BY <1>5
<1> HIDE DEF g
<1> DEFINE F == [n \in 0..N |-> g[1..n]]
<1>7. F[0] = ScanStart
  <2>1. 1..0 = {} /\ 0 \in 0..N
    BY <1>2
  <2> QED BY <1>6, <2>1
<1>8. ASSUME NEW n \in 0..N - 1 PROVE F[n + 1] = Scan(a, F[n], b[n + 1])
  <2>1. 1..n + 1 \in SUBSET DOMAIN b /\ 1..n + 1 # {}
    BY <1>2, LastStep
  <2>2. g[1..n + 1] = Scan(a, g[(1..n + 1) \ {Max(1..n + 1)}], b[Max(1..n + 1)])
    BY <1>6, <2>1
  <2>3. g[1..n + 1] = Scan(a, g[1..n], b[n + 1])
    BY <1>2, <2>2, LastStep
  <2>4. n \in 0..N /\ n + 1 \in 0..N
    BY <1>2
  <2> QED BY <2>3, <2>4
<1>9. F[N] = g[DOMAIN b]
  BY <1>2
<1> HIDE DEF F, loop
<1>10. ASSUME NEW n \in 0..N - 1, F[n] \in State PROVE F[n + 1] \in State
  BY <1>2, <1>8, <1>10, ScanType
<1> QED BY <1>1, <1>3, <1>7, <1>8, <1>9, <1>10 DEF a, b

\* The loop finds only what is there.
LEMMA SubsetSound ==
    ASSUME NEW t, NEW other, IsTerm(t), IsTerm(other), subset(t, other)
    PROVE  t \subseteq other
<1> SUFFICES ASSUME t # {} PROVE t \subseteq other
  OBVIOUS
<1> DEFINE a == sort(t)
           b == sort(other)
           N == Len(b)
           State == ScanState(a)
           seen(x) == /\ \A i \in 1..x.j - 1 : a[i] \in other
                      /\ x.found => \A i \in 1..Len(a) : a[i] \in other
<1>1. /\ a \in Seq(t) /\ Range(a) = t /\ Len(a) \in Nat
      /\ b \in Seq(other) /\ N \in Nat
  BY SortTerm
<1>2. PICK F : /\ F[0] = ScanStart /\ F[0] \in State
               /\ \A n \in 0..N - 1 : /\ F[n + 1] = Scan(a, F[n], b[n + 1])
                                      /\ F[n] \in State => F[n + 1] \in State
               /\ F[N].found
  BY SubsetLoop
<1> HIDE DEF a, b
<1>3. ASSUME NEW x \in State, NEW q \in other, seen(x) PROVE seen(Scan(a, x, q))
  <2> USE DEF Scan, ScanState
  <2>1. CASE x.done \/ a[x.j][1] # q[1]
    BY <1>3, <2>1
  <2>2. CASE ~x.done /\ a[x.j][1] = q[1] /\ a[x.j][2] # q[2]
    BY <1>3, <2>2
  <2>3. CASE ~x.done /\ a[x.j][1] = q[1] /\ a[x.j][2] = q[2]
    <3>1. a[x.j] \in t
      BY <1>1
    <3>2. a[x.j] = q
      BY <2>3, <3>1 DEF IsTerm
    <3>3. \A i \in 1..x.j : a[i] \in other
      BY <1>1, <1>3, <3>2
    <3>4. CASE x.j = Len(a)
      BY <1>3, <2>3, <3>3, <3>4
    <3>5. CASE x.j # Len(a)
      <4>1. (x.j + 1) - 1 = x.j
        BY <1>1
      <4> QED BY <1>3, <2>3, <3>3, <3>5, <4>1
    <3> QED BY <3>4, <3>5
  <2> QED BY <2>1, <2>2, <2>3
<1> DEFINE T == {n \in 0..N : F[n] \in State /\ seen(F[n])}
<1>4. 0 \in T
  <2>1. seen(ScanStart)
    BY DEF ScanStart
  <2> HIDE DEF seen
  <2> QED BY <1>1, <1>2, <2>1
<1>5. ASSUME NEW n \in 0..N - 1, n \in T PROVE n + 1 \in T
  <2>1. b[n + 1] \in other /\ n + 1 \in 0..N
    BY <1>1
  <2> HIDE DEF seen
  <2> QED BY <1>2, <1>3, <1>5, <2>1
<1>6. N \in T
  <2> HIDE DEF T, N
  <2> QED BY <1>1, <1>4, <1>5, UpTo
<1>7. \A i \in 1..Len(a) : a[i] \in other
  BY <1>2, <1>6
<1> QED BY <1>1, <1>7 DEF Range

\* The loop misses nothing, because both terms are sorted and a key has one value.
LEMMA SubsetComplete ==
    ASSUME NEW t, NEW other, IsTerm(t), IsTerm(other), t \subseteq other,
           \A p, q \in other : p[1] = q[1] => p = q
    PROVE  subset(t, other)
<1> SUFFICES ASSUME t # {} PROVE subset(t, other)
  BY DEF subset
<1> DEFINE a == sort(t)
           b == sort(other)
           N == Len(b)
           State == ScanState(a)
           ahead(x, n) == IF x.done THEN x.found ELSE \A k \in 1..n : b[k] # a[x.j]
<1>1. /\ a \in Seq(t) /\ Range(a) = t /\ Len(a) \in Nat
      /\ b \in Seq(other) /\ N \in Nat /\ Range(b) = other
      /\ \A i, j \in 1..Len(a) : i < j => Before(a[i], a[j])
      /\ \A i, j \in 1..N : i < j => Before(b[i], b[j])
  BY SortTerm
<1>2. PICK F : /\ F[0] = ScanStart /\ F[0] \in State
               /\ \A n \in 0..N - 1 : /\ F[n + 1] = Scan(a, F[n], b[n + 1])
                                      /\ F[n] \in State => F[n + 1] \in State
               /\ subset(t, other) <=> F[N].found
  BY SubsetLoop
<1> HIDE DEF a, b
<1>3. t \subseteq Nat \X Nat /\ other \subseteq Nat \X Nat
  BY DEF IsTerm
<1>4. ASSUME NEW x \in State, NEW n \in 0..N - 1, ahead(x, n)
      PROVE  ahead(Scan(a, x, b[n + 1]), n + 1)
  <2> USE DEF Scan, ScanState
  <2> DEFINE q == b[n + 1]
  <2>1. a[x.j] \in t /\ q \in other /\ n \in Nat /\ n + 1 \in 1..N /\ x.j \in 1..Len(a)
    BY <1>1
  <2>2. CASE x.done
    BY <1>4, <2>2
  <2>3. CASE ~x.done /\ a[x.j][1] # q[1]
    <3>1. \A k \in 1..n + 1 : b[k] # a[x.j]
      <4> TAKE k \in 1..n + 1
      <4>1. CASE k = n + 1
        BY <2>3, <4>1
      <4>2. CASE k # n + 1
        <5>1. k \in 1..n
          BY <2>1, <4>2
        <5> QED BY <1>4, <2>3, <5>1
      <4> QED BY <4>1, <4>2
    <3> QED BY <2>3, <3>1
  <2>4. CASE ~x.done /\ a[x.j][1] = q[1]
    <3>1. a[x.j] = q
      BY <2>1, <2>4
    <3>2. CASE x.j = Len(a)
      BY <2>4, <3>1, <3>2
    <3>3. CASE x.j # Len(a)
      <4>1. x.j + 1 \in 1..Len(a) /\ x.j < x.j + 1
        BY <1>1, <2>1, <3>3
      <4>2. Before(q, a[x.j + 1])
        BY <1>1, <2>1, <3>1, <4>1
      <4>3. \A k \in 1..n + 1 : b[k] # a[x.j + 1]
        <5> TAKE k \in 1..n + 1
        <5>1. k \in 1..N /\ (k = n + 1 \/ k < n + 1)
          BY <1>1, <2>1
        <5>2. k = n + 1 \/ Before(b[k], q)
          BY <1>1, <2>1, <5>1
        <5>3. b[k] \in Nat \X Nat /\ q \in Nat \X Nat
          <6>1. b[k] \in other
            BY <1>1, <5>1
          <6> QED BY <1>3, <2>1, <6>1
        <5>4. ~Before(b[k], q) \/ ~Before(q, b[k])
          BY <5>3, BeforeOrder
        <5>5. ~Before(q, q)
          BY <5>3, BeforeOrder
        <5> HIDE DEF q
        <5> QED BY <4>2, <5>2, <5>4, <5>5 DEF q
      <4>4. Scan(a, x, q) = [x EXCEPT !.j = @ + 1]
        BY <2>4, <3>1, <3>3
      <4> QED BY <2>4, <4>3, <4>4
    <3> QED BY <3>2, <3>3
  <2> QED BY <2>2, <2>3, <2>4
<1> DEFINE T == {n \in 0..N : F[n] \in State /\ ahead(F[n], n)}
<1>5. 0 \in T
  <2>1. ahead(ScanStart, 0)
    BY DEF ScanStart
  <2> HIDE DEF ahead
  <2> QED BY <1>1, <1>2, <2>1
<1>6. ASSUME NEW n \in 0..N - 1, n \in T PROVE n + 1 \in T
  <2>1. n + 1 \in 0..N
    BY <1>1
  <2> HIDE DEF ahead
  <2> QED BY <1>2, <1>4, <1>6, <2>1
<1>7. N \in T
  <2> HIDE DEF T, N
  <2> QED BY <1>1, <1>5, <1>6, UpTo
<1>8. F[N].done
  <2>1. a[F[N].j] \in Range(b)
    BY <1>1, <1>7 DEF ScanState
  <2>2. \E k \in 1..N : b[k] = a[F[N].j]
    <3>1. DOMAIN b = 1..N
      BY <1>1
    <3> QED BY <2>1, <3>1 DEF Range
  <2> QED BY <1>7, <2>2
<1> QED BY <1>2, <1>7, <1>8

\* Theorem: the loop of subset, which walks two sorted terms side by side and gives
\* up at the first difference, computes inclusion, if the second term has one value
\* for each key.
THEOREM SubsetCorrect ==
    ASSUME NEW t, NEW other, IsTerm(t), IsTerm(other),
           \A p, q \in other : p[1] = q[1] => p = q
    PROVE  subset(t, other) <=> t \subseteq other
  BY SubsetSound, SubsetComplete

-----------------------------------------------------------------------------
(* flatten.                                                                *)

\* Which value is taken from each expression of one term of allowedTopologies.
Selections(x) == {c \in [DOMAIN x -> Nat] : \A j \in DOMAIN x : c[j] \in x[j].values}

\* The topology that a choice of values gives for the first n expressions.
Picked(x, n, c) == {<<x[j].key, c[j]>> : j \in 1..n}

\* One more expression gives every old term each of its values.
LEMMA DistributeStep ==
    ASSUME NEW x \in Seq(Expressions), NEW n \in 0..Len(x) - 1, NEW terms,
           terms = IF n = 0 THEN {} ELSE {Picked(x, n, c) : c \in Selections(x)}
    PROVE  Distribute(terms, x[n + 1]) = {Picked(x, n + 1, c) : c \in Selections(x)}
<1> DEFINE e == x[n + 1]
<1>1. /\ Len(x) \in Nat /\ DOMAIN x = 1..Len(x) /\ n \in Nat /\ n + 1 \in 1..Len(x)
      /\ \A j \in 1..Len(x) : x[j].values \in SUBSET Nat /\ x[j].values # {}
  <2>1. /\ Len(x) \in Nat /\ DOMAIN x = 1..Len(x) /\ n \in Nat /\ n + 1 \in 1..Len(x)
        /\ \A j \in 1..Len(x) : x[j] \in Expressions
    OBVIOUS
  <2> QED BY <2>1 DEF Expressions
<1>2. \E c : c \in Selections(x)
  <2> DEFINE c == [j \in DOMAIN x |-> CHOOSE v \in x[j].values : TRUE]
  <2>1. \A j \in DOMAIN x : c[j] \in x[j].values
    BY <1>1
  <2>2. c \in [DOMAIN x -> Nat]
    BY <1>1, <2>1
  <2> HIDE DEF c
  <2> QED BY <2>1, <2>2 DEF Selections
<1>3. ASSUME NEW c \in Selections(x)
      PROVE  Picked(x, n + 1, c) = Picked(x, n, c) \cup {<<e.key, c[n + 1]>>}
  <2>1. 1..n + 1 = (1..n) \cup {n + 1}
    BY <1>1
  <2> QED BY <2>1 DEF Picked
<1>4. ASSUME NEW c \in Selections(x) PROVE c[n + 1] \in e.values
  BY <1>1 DEF Selections
<1>5. ASSUME NEW c \in Selections(x), NEW v \in e.values
      PROVE  \E d \in Selections(x) : Picked(x, n + 1, d) = Picked(x, n, c) \cup {<<e.key, v>>}
  <2> DEFINE d == [c EXCEPT ![n + 1] = v]
  <2>1. d \in Selections(x) /\ d[n + 1] = v /\ \A j \in 1..n : d[j] = c[j]
    <3>1. c \in [DOMAIN x -> Nat] /\ \A j \in DOMAIN x : c[j] \in x[j].values
      BY DEF Selections
    <3>2. n + 1 \in DOMAIN x /\ v \in Nat /\ 1..n \subseteq DOMAIN x \ {n + 1}
      BY <1>1
    <3>3. /\ d \in [DOMAIN x -> Nat] /\ d[n + 1] = v
          /\ \A j \in DOMAIN x \ {n + 1} : d[j] = c[j]
      BY <3>1, <3>2
    <3> HIDE DEF d
    <3>4. \A j \in DOMAIN x : d[j] \in x[j].values
      BY <3>1, <3>3
    <3> QED BY <3>2, <3>3, <3>4 DEF Selections
  <2>2. Picked(x, n, d) = Picked(x, n, c)
    <3> HIDE DEF d
    <3> QED BY <2>1 DEF Picked
  <2> HIDE DEF d, e
  <2>3. Picked(x, n + 1, d) = Picked(x, n, c) \cup {<<e.key, v>>}
    BY <1>3, <2>1, <2>2
  <2> QED BY <2>1, <2>3
<1> DEFINE old == IF terms = {} THEN {{}} ELSE terms
           new == {Picked(x, n + 1, c) : c \in Selections(x)}
           over(v) == {t \cup {<<e.key, v>>} : t \in old}
<1>6. old = {Picked(x, n, c) : c \in Selections(x)}
  <2>1. CASE n = 0
    <3>1. \A c : Picked(x, n, c) = {}
      <4>1. 1..n = {}
        BY <2>1
      <4> QED BY <4>1 DEF Picked
    <3>2. old = {{}}
      BY <2>1
    <3> HIDE DEF old
    <3> QED BY <1>2, <3>1, <3>2
  <2>2. CASE n # 0
    BY <1>2, <2>2
  <2> QED BY <2>1, <2>2
<1>7. Distribute(terms, e) = UNION {over(v) : v \in e.values}
  BY DEF Distribute
<1> HIDE DEF old, e
<1>8. \A v : \A y \in over(v) : \E t \in old : y = t \cup {<<e.key, v>>}
  OBVIOUS
<1>9. \A v : \A t \in old : t \cup {<<e.key, v>>} \in over(v)
  OBVIOUS
<1> HIDE DEF over
<1>10. ASSUME NEW y \in Distribute(terms, e) PROVE y \in new
  <2>1. PICK v \in e.values : y \in over(v)
    BY <1>7
  <2>2. PICK t \in old : y = t \cup {<<e.key, v>>}
    BY <1>8, <2>1
  <2>3. PICK c \in Selections(x) : t = Picked(x, n, c)
    BY <1>6, <2>2
  <2> QED BY <1>5, <2>2, <2>3
<1>11. ASSUME NEW c \in Selections(x) PROVE Picked(x, n + 1, c) \in Distribute(terms, e)
  <2>1. Picked(x, n, c) \in old
    BY <1>6
  <2>2. Picked(x, n + 1, c) \in over(c[n + 1])
    BY <1>3, <1>9, <2>1
  <2> QED BY <1>4, <1>7, <2>2
<1>12. \A y \in new : y \in Distribute(terms, e)
  BY <1>11
<1> HIDE DEF new
<1>13. Distribute(terms, e) = new
  BY <1>10, <1>12
<1> QED BY <1>13 DEF e, new

\* The loop over the expressions of one term makes every choice of values.
LEMMA FlattenTerm ==
    ASSUME NEW x \in Seq(Expressions)
    PROVE  ForEach(Distribute, {}, x) =
              IF x = <<>> THEN {} ELSE {Picked(x, Len(x), c) : c \in Selections(x)}
<1> DEFINE N == Len(x)
           done(n) == IF n = 0 THEN {} ELSE {Picked(x, n, c) : c \in Selections(x)}
           loop(g) == g = [s \in SUBSET DOMAIN x |->
                             IF s = {} THEN {}
                             ELSE Distribute(g[s \ {Max(s)}], x[Max(s)])]
           g == CHOOSE iter : loop(iter)
           State == SUBSET SUBSET (Nat \X Nat)
           step == [y \in State \X (1..N) |-> Distribute(y[1], x[y[2]])]
<1>1. ForEach(Distribute, {}, x) = g[DOMAIN x]
  BY DEF ForEach, MapThenFoldSet
<1>2. N \in Nat /\ DOMAIN x = 1..N /\ {} \in State
  OBVIOUS
<1>3. ASSUME NEW y \in State, NEW i \in 1..N PROVE Distribute(y, x[i]) \in State
  <2>1. x[i] \in [key : Nat, values : SUBSET Nat]
    BY DEF Expressions
  <2> DEFINE old == IF y = {} THEN {{}} ELSE y
             over(v) == {t \cup {<<x[i].key, v>>} : t \in old}
  <2>2. old \in State
    OBVIOUS
  <2>3. Distribute(y, x[i]) = UNION {over(v) : v \in x[i].values}
    BY DEF Distribute
  <2> HIDE DEF old
  <2>4. ASSUME NEW v \in x[i].values PROVE over(v) \in State
    <3>1. <<x[i].key, v>> \in Nat \X Nat
      BY <2>1
    <3> QED BY <2>2, <3>1
  <2> HIDE DEF over, State
  <2>5. \A z \in UNION {over(v) : v \in x[i].values} : z \in SUBSET (Nat \X Nat)
    BY <2>4 DEF State
  <2> QED BY <2>3, <2>5 DEF State
<1> HIDE DEF State
<1>4. step \in [State \X (1..N) -> State]
  BY <1>3
<1>5. \E h : loop(h)
  <2>1. PICK h \in [SUBSET (1..N) -> State] : IsFold(N, {}, step, h)
    <3> HIDE DEF step, N
    <3> QED BY <1>2, <1>4, FoldExists
  <2>2. ASSUME NEW s \in SUBSET (1..N), s # {}
        PROVE  h[s] = Distribute(h[s \ {Max(s)}], x[Max(s)])
    <3>1. Max(s) \in 1..N /\ s \ {Max(s)} \in SUBSET (1..N)
      BY <1>2, <2>2, MaxInterval
    <3>2. h[s \ {Max(s)}] \in State
      BY <3>1
    <3> QED BY <2>1, <2>2, <3>1, <3>2 DEF IsFold
  <2>3. h = [s \in SUBSET (1..N) |->
                IF s = {} THEN {} ELSE Distribute(h[s \ {Max(s)}], x[Max(s)])]
    <3> HIDE DEF step
    <3> QED BY <2>1, <2>2 DEF IsFold
  <2> QED BY <1>2, <2>3
<1>6. loop(g)
  BY <1>5
<1> HIDE DEF g
<1>7. g[{}] = {}
  BY <1>6
<1>8. ASSUME NEW n \in 0..N - 1 PROVE g[1..n + 1] = Distribute(g[1..n], x[n + 1])
  <2>1. 1..n + 1 \in SUBSET DOMAIN x /\ 1..n + 1 # {}
    BY <1>2, LastStep
  <2>2. g[1..n + 1] = Distribute(g[(1..n + 1) \ {Max(1..n + 1)}], x[Max(1..n + 1)])
    BY <1>6, <2>1
  <2> QED BY <1>2, <2>2, LastStep
<1> DEFINE T == {n \in 0..N : g[1..n] = done(n)}
<1> HIDE DEF loop
<1>9. 0 \in T
  <2>1. 1..0 = {} /\ 0 \in 0..N
    BY <1>2
  <2> QED BY <1>7, <2>1
<1>10. ASSUME NEW n \in 0..N - 1, n \in T PROVE n + 1 \in T
  <2>1. g[1..n + 1] = Distribute(done(n), x[n + 1])
    BY <1>8, <1>10
  <2>2. Distribute(done(n), x[n + 1]) = {Picked(x, n + 1, c) : c \in Selections(x)}
    <3> DEFINE d == done(n)
    <3> HIDE DEF d
    <3>1. d = IF n = 0 THEN {} ELSE {Picked(x, n, c) : c \in Selections(x)}
      BY DEF d
    <3>2. Distribute(d, x[n + 1]) = {Picked(x, n + 1, c) : c \in Selections(x)}
      BY <3>1, DistributeStep
    <3> QED BY <3>2 DEF d
  <2>3. n + 1 # 0 /\ n + 1 \in 0..N
    BY <1>2
  <2> QED BY <2>1, <2>2, <2>3
<1>11. N \in T
  <2> HIDE DEF T, N
  <2> QED BY <1>2, <1>9, <1>10, UpTo
<1>12. g[DOMAIN x] = done(N)
  BY <1>2, <1>11
<1>13. N = 0 <=> x = <<>>
  BY <1>2
<1> QED BY <1>1, <1>12, <1>13

\* These are finitely many, and none is empty.
LEMMA FlattenTermFinite ==
    ASSUME NEW x \in Seq(Expressions), x # <<>>
    PROVE  /\ IsFiniteSet({Picked(x, Len(x), c) : c \in Selections(x)})
           /\ \A c \in Selections(x) : IsTerm(Picked(x, Len(x), c)) /\ Picked(x, Len(x), c) # {}
<1> DEFINE N == Len(x)
           key == [j \in 1..N |-> x[j].key]
           val == [j \in 1..N |-> x[j].values]
           K == {key[j] : j \in 1..N}
           V == {val[j] : j \in 1..N}
<1>1. /\ N \in Nat \ {0} /\ DOMAIN x = 1..N
      /\ \A j \in 1..N : /\ x[j].key \in Nat /\ x[j].values \in SUBSET Nat
                         /\ IsFiniteSet(x[j].values)
  <2>1. N \in Nat \ {0} /\ DOMAIN x = 1..N /\ \A j \in 1..N : x[j] \in Expressions
    OBVIOUS
  <2> QED BY <2>1 DEF Expressions
<1>2. IsFiniteSet(1..N)
  <2>1. 1 \in Int /\ N \in Int
    BY <1>1
  <2> HIDE DEF N
  <2> QED BY <2>1, FS_Interval
<1>3. IsFiniteSet(K)
  <2>1. key \in Surjection(1..N, K)
    BY DEF Surjection
  <2> QED BY <1>2, <2>1, FS_Surjection
<1>4. IsFiniteSet(V)
  <2>1. val \in Surjection(1..N, V)
    BY DEF Surjection
  <2> QED BY <1>2, <2>1, FS_Surjection
<1>5. IsFiniteSet(UNION V)
  <2>1. \A S \in V : IsFiniteSet(S)
    BY <1>1
  <2> QED BY <1>4, <2>1, FS_UNION
<1>6. IsFiniteSet(K \X UNION V)
  BY <1>3, <1>5, FS_Product
<1>7. K \subseteq Nat /\ UNION V \subseteq Nat
  BY <1>1
<1>8. ASSUME NEW c \in Selections(x) PROVE Picked(x, N, c) \subseteq K \X UNION V
  <2>1. ASSUME NEW j \in 1..N PROVE x[j].key \in K /\ c[j] \in UNION V
    <3>1. c[j] \in x[j].values
      BY <1>1 DEF Selections
    <3>2. x[j].values \in V /\ x[j].key \in K
      OBVIOUS
    <3> QED BY <3>1, <3>2
  <2> HIDE DEF K, V
  <2> QED BY <2>1 DEF Picked
<1> HIDE DEF K, V
<1>9. ASSUME NEW c \in Selections(x) PROVE IsTerm(Picked(x, N, c)) /\ Picked(x, N, c) # {}
  <2>1. IsFiniteSet(Picked(x, N, c))
    BY <1>6, <1>8, FS_Subset
  <2>2. Picked(x, N, c) \subseteq Nat \X Nat
    <3>1. \A A, B : A \subseteq Nat /\ B \subseteq Nat => A \X B \subseteq Nat \X Nat
      OBVIOUS
    <3>2. K \X UNION V \subseteq Nat \X Nat
      BY <1>7, <3>1
    <3> QED BY <1>8, <3>2
  <2>3. <<x[1].key, c[1]>> \in Picked(x, N, c)
    BY <1>1 DEF Picked
  <2> QED BY <2>1, <2>2, <2>3 DEF IsTerm
<1>10. IsFiniteSet({Picked(x, N, c) : c \in Selections(x)})
  <2>1. IsFiniteSet(SUBSET (K \X UNION V))
    BY <1>6, FS_SUBSET
  <2>2. {Picked(x, N, c) : c \in Selections(x)} \in SUBSET SUBSET (K \X UNION V)
    BY <1>8
  <2> QED BY <2>1, <2>2, FS_Subset
<1> QED BY <1>9, <1>10

\* Theorem: flatten distributes the disjunctions (values) over the conjunctions
\* (expressions): its terms are exactly the choices of one value for every
\* expression of one non-empty term.  They are finitely many, and none is empty.
THEOREM FlattenDistributes ==
    ASSUME NEW a \in Seq(Seq(Expressions))
    PROVE  /\ flatten(a) = UNION {{Picked(a[i], Len(a[i]), c) : c \in Selections(a[i])} :
                                      i \in {j \in DOMAIN a : a[j] # <<>>}}
           /\ IsFiniteSet(flatten(a))
           /\ \A t \in flatten(a) : IsTerm(t) /\ t # {}
<1> DEFINE terms == [i \in DOMAIN a |-> ForEach(Distribute, {}, a[i])]
           picks(i) == {Picked(a[i], Len(a[i]), c) : c \in Selections(a[i])}
           filled == {j \in DOMAIN a : a[j] # <<>>}
<1>1. flatten(a) = UNION {terms[i] : i \in DOMAIN a}
  BY DEF flatten
<1>2. \A i \in DOMAIN a : a[i] \in Seq(Expressions)
  OBVIOUS
<1>3. \A i \in DOMAIN a : terms[i] = IF a[i] = <<>> THEN {} ELSE picks(i)
  BY <1>2, FlattenTerm
<1>4. \A i \in DOMAIN a : /\ IsFiniteSet(terms[i])
                          /\ \A t \in terms[i] : IsTerm(t) /\ t # {}
  <2> TAKE i \in DOMAIN a
  <2>1. CASE a[i] = <<>>
    BY <1>3, <2>1, FS_EmptySet
  <2>2. CASE a[i] # <<>>
    <3>1. /\ IsFiniteSet(picks(i))
          /\ \A c \in Selections(a[i]) : /\ IsTerm(Picked(a[i], Len(a[i]), c))
                                      /\ Picked(a[i], Len(a[i]), c) # {}
      BY <1>2, <2>2, FlattenTermFinite
    <3>2. terms[i] = picks(i)
      BY <1>3, <2>2
    <3> HIDE DEF terms
    <3> QED BY <3>1, <3>2
  <2> QED BY <2>1, <2>2
<1> HIDE DEF picks
<1>5. \A y : y \in flatten(a) <=> \E i \in filled : y \in picks(i)
  <2> HIDE DEF terms
  <2>1. \A y : y \in flatten(a) <=> \E i \in DOMAIN a : y \in terms[i]
    BY <1>1
  <2> QED BY <1>3, <2>1
<1>6. flatten(a) = UNION {picks(i) : i \in filled}
  BY <1>5
<1> DEFINE S == {terms[i] : i \in DOMAIN a}
<1>7. IsFiniteSet(S)
  <2>1. terms \in Surjection(DOMAIN a, S)
    BY DEF Surjection
  <2>2. IsFiniteSet(DOMAIN a)
    <3>1. DOMAIN a = 1..Len(a) /\ Len(a) \in Nat
      OBVIOUS
    <3> QED BY <3>1, FS_Interval
  <2> QED BY <2>1, <2>2, FS_Surjection
<1>8. IsFiniteSet(flatten(a))
  <2>1. \A T \in S : IsFiniteSet(T)
    BY <1>4
  <2>2. flatten(a) = UNION S
    BY <1>1
  <2> QED BY <1>7, <2>1, <2>2, FS_UNION
<1>9. \A t \in flatten(a) : IsTerm(t) /\ t # {}
  <2> HIDE DEF terms
  <2> QED BY <1>1, <1>4
<1> QED BY <1>6, <1>8, <1>9 DEF picks

-----------------------------------------------------------------------------
(* Rotation and remainders.                                                *)

\* A rotation has the same length and starts where it is told to.
LEMMA Rotation ==
    ASSUME NEW S, NEW s \in Seq(S), NEW i \in 0..Len(s) - 1
    PROVE  /\ Rotate(s, i) \in Seq(S) /\ Len(Rotate(s, i)) = Len(s)
           /\ Rotate(s, i) # <<>> /\ Head(Rotate(s, i)) = s[i + 1]
           /\ Len(s) \in Nat
<1> DEFINE u == SubSeq(s, i + 1, Len(s))
           v == SubSeq(s, 1, i)
           n == Len(s)
<1>1. n \in Nat /\ i \in Nat /\ i + 1 \in 1..n
  OBVIOUS
<1>2. u \in Seq(S) /\ Len(u) = n - i /\ \A k \in 1..n - i : u[k] = s[i + k]
  <2>1. u \in Seq(S) /\ Len(u) = n - (i + 1) + 1
        /\ \A k \in 1..n - (i + 1) + 1 : u[k] = s[i + 1 + k - 1]
    BY <1>1
  <2>2. n - (i + 1) + 1 = n - i
    BY <1>1
  <2>3. \A k \in 1..n - i : i + 1 + k - 1 = i + k
    BY <1>1
  <2> QED BY <2>1, <2>2, <2>3
<1>3. v \in Seq(S) /\ Len(v) = i
  BY <1>1
<1> HIDE DEF u, v
<1>4. u \o v \in Seq(S) /\ Len(u \o v) = n
  <2>1. u \in Seq(S) /\ v \in Seq(S)
    BY <1>2, <1>3
  <2>2. u \o v \in Seq(S) /\ Len(u \o v) = Len(u) + Len(v)
    BY <2>1
  <2> QED BY <1>1, <1>2, <1>3, <2>2
<1>5. (u \o v)[1] = s[i + 1]
  <2>1. 1 \in 1..Len(u) /\ u[1] = s[i + 1]
    BY <1>1, <1>2
  <2>2. (u \o v)[1] = u[1]
    BY <1>2, <1>3, <2>1
  <2> QED BY <2>1, <2>2
<1>6. u \o v # <<>> /\ Head(u \o v) = (u \o v)[1]
  BY <1>1, <1>4
<1> QED BY <1>1, <1>4, <1>5, <1>6 DEF Rotate, u, v

\* A remainder is smaller than the divisor.
LEMMA Mod == ASSUME NEW x \in Nat, NEW n \in Nat \ {0} PROVE x % n \in 0..n - 1
  OBVIOUS
===========================================================================
