-------------------------- MODULE TermDetectionProofs --------------------------
(***************************************************************************)
(* What the parsers and the detectors compute, for all inputs: the facts about   *)
(* texts, lists and orders that the proofs of the review, of the experiment and   *)
(* of the calibration rest on.                                                 *)
(***************************************************************************)
EXTENDS TermDetection, FiniteSetTheorems, SequenceTheorems, WellFoundedInduction, TLAPS

(***************************************************************************)
(* The order in which sets are listed                                         *)
(***************************************************************************)
(* A set of naturals that is not empty has a least element.                   *)
LEMMA LeastOf ==
    ASSUME NEW S \in SUBSET Nat, S # {}
    PROVE  Least(S) \in S /\ \A y \in S : Least(S) <= y
<1>1. \E x \in S : \A y \in S : x <= y
  <2>1. PICK x \in S : \A y \in S : ~(<<y, x>> \in OpToRel(<, Nat))
    BY NatLessThanWellFounded, WFMin
  <2>2. \A a, b \in Nat : a < b => <<a, b>> \in OpToRel(<, Nat)
    BY DEF OpToRel
  <2>3. \A y \in S : ~(y < x)
    BY <2>1, <2>2
  <2> QED  BY <2>3
<1> QED  BY <1>1 DEF Least

(* below gives for each element of S those that stand before it in a total order.   *)
Orders(below, S) ==
    /\ below \in [S -> SUBSET S]
    /\ \A x \in S : x \notin below[x]
    /\ \A x, y \in S : x \in below[y] => below[x] \subseteq below[y]
    /\ \A x, y \in S : x # y => x \in below[y] \/ y \in below[x]

(* In a finite set each number from 0 on is how many stand before some element ... *)
LEMMA Ranks ==
    ASSUME NEW S, IsFiniteSet(S), NEW below, Orders(below, S)
    PROVE  /\ Cardinality(S) \in Nat
           /\ \A x \in S : Cardinality(below[x]) \in 0..(Cardinality(S) - 1)
           /\ \A x, y \in S : x \in below[y] <=> Cardinality(below[x]) < Cardinality(below[y])
           /\ \A k \in 0..(Cardinality(S) - 1) : \E x \in S : Cardinality(below[x]) = k
<1> DEFINE n == Cardinality(S)
           rank == [x \in S |-> Cardinality(below[x])]
<1>1. n \in Nat
  BY FS_CardinalityType
<1>2. \A x \in S : rank[x] = Cardinality(below[x])
  OBVIOUS
<1>3. DOMAIN rank = S /\ rank = [x \in S |-> rank[x]]
  OBVIOUS
<1> HIDE DEF n, rank
<1>4. \A x \in S : IsFiniteSet(below[x]) /\ rank[x] \in 0..(n - 1)
  <2> TAKE x \in S
  <2>1. below[x] \in SUBSET S /\ below[x] # S
    BY DEF Orders
  <2>2. IsFiniteSet(below[x]) /\ Cardinality(below[x]) <= n /\ Cardinality(below[x]) # n
    BY <2>1, FS_Subset DEF n
  <2>3. Cardinality(below[x]) \in Nat
    BY <2>2, FS_CardinalityType
  <2> QED  BY <1>1, <1>2, <2>2, <2>3
<1>5. \A x, y \in S : x \in below[y] => rank[x] < rank[y]
  <2> SUFFICES ASSUME NEW x \in S, NEW y \in S, x \in below[y]
               PROVE  rank[x] < rank[y]
    OBVIOUS
  <2>1. below[x] \in SUBSET below[y] /\ below[x] # below[y]
    BY DEF Orders
  <2>2. Cardinality(below[x]) <= Cardinality(below[y]) /\ Cardinality(below[y]) # Cardinality(below[x])
    BY <1>4, <2>1, FS_Subset
  <2>3. rank[x] \in Int /\ rank[y] \in Int
    BY <1>1, <1>4
  <2> QED  BY <1>2, <2>2, <2>3
<1>6. \A x, y \in S : x # y => x \in below[y] \/ y \in below[x]
  BY DEF Orders
<1>7. \A x, y \in S : x \in below[y] <=> rank[x] < rank[y]
  <2> SUFFICES ASSUME NEW x \in S, NEW y \in S PROVE x \in below[y] <=> rank[x] < rank[y]
    OBVIOUS
  <2>1. rank[x] \in Int /\ rank[y] \in Int
    BY <1>1, <1>4
  <2> QED  BY <1>5, <1>6, <2>1
<1>8. rank \in [S -> 0..(n - 1)]
  BY <1>3, <1>4
<1>9. rank \in Injection(S, 0..(n - 1))
  <2>1. \A x, y \in S : x # y => rank[x] # rank[y]
    <3> SUFFICES ASSUME NEW x \in S, NEW y \in S, x # y PROVE rank[x] # rank[y]
      OBVIOUS
    <3>1. rank[x] \in Int /\ rank[y] \in Int
      BY <1>1, <1>4
    <3>2. rank[x] < rank[y] \/ rank[y] < rank[x]
      BY <1>5, <1>6
    <3> QED  BY <3>1, <3>2
  <2> QED  BY <1>8, <2>1 DEF Injection, IsInjective
<1>10. rank \in Surjection(S, 0..(n - 1))
  <2>1. IsFiniteSet(0..(n - 1)) /\ Cardinality(0..(n - 1)) = n
    BY <1>1, FS_Interval
  <2> QED  BY <1>9, <2>1, FS_Injection DEF n
<1>11. \A k \in 0..(n - 1) : \E x \in S : rank[x] = k
  BY <1>10 DEF Surjection
<1> QED  BY <1>1, <1>2, <1>4, <1>7, <1>11 DEF n

(* What stands at a place of s has, if anything has, as many before it as the place. *)
PlacedBy(below, s, S) ==
    /\ s = [i \in 1..Cardinality(S) |-> s[i]]
    /\ \A i \in 1..Cardinality(S) :
           (\E x \in S : Cardinality(below[x]) = i - 1)
           => s[i] \in S /\ Cardinality(below[s[i]]) = i - 1

(* The sequence s is the whole set S in the order. *)
Lists(below, s, S) ==
    /\ s \in Seq(S) /\ DOMAIN s = 1..Len(s)
    /\ \A x \in S : \E i \in DOMAIN s : s[i] = x
    /\ \A i, j \in DOMAIN s : i < j <=> s[i] \in below[s[j]]

(* ... so that whatever is placed like that is the set in its order.               *)
LEMMA Ordered ==
    ASSUME NEW S, IsFiniteSet(S), NEW below, Orders(below, S), NEW s, PlacedBy(below, s, S)
    PROVE  Lists(below, s, S)
<1>1. PICK n \in Nat : n = Cardinality(S)
  BY Ranks
<1>2. /\ \A x \in S : Cardinality(below[x]) \in 0..(n - 1)
      /\ \A x, y \in S : x \in below[y] <=> Cardinality(below[x]) < Cardinality(below[y])
      /\ \A k \in 0..(n - 1) : \E x \in S : Cardinality(below[x]) = k
  BY <1>1, Ranks
<1>3. \A i \in 1..n : s[i] \in S /\ Cardinality(below[s[i]]) = i - 1
  <2> SUFFICES ASSUME NEW i \in 1..n PROVE s[i] \in S /\ Cardinality(below[s[i]]) = i - 1
    OBVIOUS
  <2>1. i - 1 \in 0..(n - 1)
    OBVIOUS
  <2>2. \E x \in S : Cardinality(below[x]) = i - 1
    BY <1>2, <2>1
  <2> QED  BY <1>1, <2>2 DEF PlacedBy
<1>4. s \in Seq(S) /\ Len(s) = n /\ DOMAIN s = 1..n
  BY <1>1, <1>3 DEF PlacedBy
<1>5. \A x \in S : \E i \in 1..n : s[i] = x
  <2> SUFFICES ASSUME NEW x \in S PROVE \E i \in 1..n : s[i] = x
    OBVIOUS
  <2>1. PICK k \in 0..(n - 1) : k = Cardinality(below[x])
    BY <1>2
  <2>2. k + 1 \in 1..n /\ (k + 1) - 1 = k
    OBVIOUS
  <2>3. s[k + 1] \in S /\ Cardinality(below[s[k + 1]]) = k
    BY <1>3, <2>2
  <2>4. s[k + 1] \notin below[x] /\ x \notin below[s[k + 1]]
    BY <1>2, <2>1, <2>3
  <2>5. s[k + 1] = x
    BY <2>3, <2>4 DEF Orders
  <2> QED  BY <2>2, <2>5
<1>6. \A i, j \in 1..n : i < j <=> s[i] \in below[s[j]]
  <2> SUFFICES ASSUME NEW i \in 1..n, NEW j \in 1..n PROVE i < j <=> s[i] \in below[s[j]]
    OBVIOUS
  <2>1. /\ s[i] \in S /\ s[j] \in S
        /\ Cardinality(below[s[i]]) = i - 1 /\ Cardinality(below[s[j]]) = j - 1
    BY <1>3
  <2>2. s[i] \in below[s[j]] <=> Cardinality(below[s[i]]) < Cardinality(below[s[j]])
    BY <1>2, <2>1
  <2> QED  BY <2>1, <2>2
<1> QED  BY <1>4, <1>5, <1>6 DEF Lists

(* The numbers before one *)
Below(S, x) == {y \in S : y < x}

(* A set of numbers, in order *)
LEMMA NumbersInOrder ==
    ASSUME NEW S \in SUBSET Int, IsFiniteSet(S)
    PROVE  /\ InOrder(S) \in Seq(S) /\ DOMAIN InOrder(S) = 1..Len(InOrder(S))
           /\ \A x \in S : \E i \in DOMAIN InOrder(S) : InOrder(S)[i] = x
           /\ \A i, j \in DOMAIN InOrder(S) : i < j <=> InOrder(S)[i] < InOrder(S)[j]
<1> DEFINE below == [x \in S |-> Below(S, x)]
           s == InOrder(S)
<1>2. s = [i \in 1..Cardinality(S) |-> CHOOSE x \in S : Cardinality(Below(S, x)) = i - 1]
  BY DEF InOrder, Sorted, Below
<1>3. \A x \in S : below[x] = Below(S, x)
  OBVIOUS
<1>8. \A x, y \in S : y \in Below(S, x) <=> y < x
  BY DEF Below
<1>9. below \in [S -> SUBSET S]
  BY DEF Below
<1> HIDE DEF below, s
<1>1. Orders(below, S)
  <2>1. ASSUME NEW x \in S PROVE x \notin below[x]
    <3>1. x \in Int /\ ~(x < x)
      OBVIOUS
    <3> QED  BY <1>3, <1>8, <3>1
  <2>2. ASSUME NEW x \in S, NEW y \in S, x \in below[y], NEW z \in below[x] PROVE z \in below[y]
    BY <1>3, <1>8, <1>9, <2>2
  <2>3. \A x, y \in S : x # y => x \in below[y] \/ y \in below[x]
    BY <1>3, <1>8
  <2> QED  BY <1>9, <2>1, <2>2, <2>3 DEF Orders
<1>4. s = [i \in 1..Cardinality(S) |-> s[i]]
  BY <1>2
<1>5. ASSUME NEW i \in 1..Cardinality(S), \E x \in S : Cardinality(below[x]) = i - 1
      PROVE  s[i] \in S /\ Cardinality(below[s[i]]) = i - 1
  <2>1. s[i] = CHOOSE x \in S : Cardinality(Below(S, x)) = i - 1
    BY <1>2
  <2>2. PICK x \in S : Cardinality(Below(S, x)) = i - 1
    BY <1>3, <1>5
  <2>3. s[i] \in S /\ Cardinality(Below(S, s[i])) = i - 1
    BY <2>1, <2>2
  <2> QED  BY <1>3, <2>3
<1>6. Lists(below, s, S)
  BY <1>1, <1>4, <1>5, Ordered DEF PlacedBy
<1>7. \A i, j \in DOMAIN s : s[i] \in below[s[j]] <=> s[i] < s[j]
  <2>1. \A i \in DOMAIN s : s[i] \in S
    BY <1>6 DEF Lists
  <2> QED  BY <1>3, <1>8, <2>1
<1> QED  BY <1>6, <1>7 DEF s, Lists

(* One byte string is a strict prefix of another, byte by byte                    *)
LEMMA StrictPrefix ==
    ASSUME NEW a \in Seq(Int), NEW b \in Seq(Int)
    PROVE  IsStrictPrefix(a, b) <=> Len(a) < Len(b) /\ \A j \in 1..Len(a) : a[j] = b[j]
<1>1. ASSUME IsStrictPrefix(a, b) PROVE Len(a) < Len(b) /\ \A j \in 1..Len(a) : a[j] = b[j]
  <2>1. Len(a) <= Len(b) /\ SubSeq(a, 1, Len(a)) = SubSeq(b, 1, Len(a)) /\ a # b
    BY <1>1 DEF IsStrictPrefix, IsPrefix
  <2>2. \A j \in 1..Len(a) : SubSeq(a, 1, Len(a))[j] = a[j] /\ SubSeq(b, 1, Len(a))[j] = b[j]
    BY <2>1
  <2>3. \A j \in 1..Len(a) : a[j] = b[j]
    BY <2>1, <2>2
  <2> QED  BY <2>1, <2>3
<1>2. ASSUME Len(a) < Len(b), \A j \in 1..Len(a) : a[j] = b[j] PROVE IsStrictPrefix(a, b)
  <2>1. SubSeq(a, 1, Len(a)) \in Seq(Int) /\ SubSeq(b, 1, Len(a)) \in Seq(Int)
    BY <1>2
  <2>2. Len(SubSeq(a, 1, Len(a))) = Len(a) /\ Len(SubSeq(b, 1, Len(a))) = Len(a)
    BY <1>2
  <2>3. \A j \in 1..Len(a) : SubSeq(a, 1, Len(a))[j] = a[j] /\ SubSeq(b, 1, Len(a))[j] = b[j]
    BY <1>2
  <2>4. SubSeq(a, 1, Len(a)) = SubSeq(b, 1, Len(a))
    BY <1>2, <2>1, <2>2, <2>3
  <2> QED  BY <1>2, <2>4 DEF IsStrictPrefix, IsPrefix
<1> QED  BY <1>1, <1>2

(* Byte strings differ from some place on, or one goes on where the other ends. *)
Differ(a, b, k) ==
    /\ k \in 1..Len(a) /\ k \in 1..Len(b)
    /\ \A j \in 1..(k - 1) : a[j] = b[j]
    /\ a[k] < b[k]
Shorter(a, b) == Len(a) < Len(b) /\ \A j \in 1..Len(a) : a[j] = b[j]

(* The order of byte strings is total and strict.                              *)
LEMMA LexOrder ==
    /\ \A a \in Seq(Int) : ~LexLess(a, a)
    /\ \A a, b, c \in Seq(Int) : LexLess(a, b) /\ LexLess(b, c) => LexLess(a, c)
    /\ \A a, b \in Seq(Int) : a # b => LexLess(a, b) \/ LexLess(b, a)
<1>1. \A a, b \in Seq(Int) : LexLess(a, b) <=> Shorter(a, b) \/ \E k \in Nat : Differ(a, b, k)
  <2> SUFFICES ASSUME NEW a \in Seq(Int), NEW b \in Seq(Int)
               PROVE  LexLess(a, b) <=> Shorter(a, b) \/ \E k \in Nat : Differ(a, b, k)
    OBVIOUS
  <2>1. IsStrictPrefix(a, b) <=> Shorter(a, b)
    BY StrictPrefix DEF Shorter
  <2>2. \A k : k \in DOMAIN a \cap DOMAIN b <=> k \in 1..Len(a) /\ k \in 1..Len(b)
    OBVIOUS
  <2>3. LexLess(a, b) <=> \/ IsStrictPrefix(a, b)
                         \/ \E k \in DOMAIN a \cap DOMAIN b : (\A j \in 1..(k - 1) : a[j] = b[j]) /\ a[k] < b[k]
    BY DEF LexLess
  <2>4. ASSUME NEW k \in DOMAIN a \cap DOMAIN b, \A j \in 1..(k - 1) : a[j] = b[j], a[k] < b[k]
        PROVE  k \in Nat /\ Differ(a, b, k)
    BY <2>2, <2>4 DEF Differ
  <2>5. ASSUME NEW k \in Nat, Differ(a, b, k)
        PROVE  k \in DOMAIN a \cap DOMAIN b /\ (\A j \in 1..(k - 1) : a[j] = b[j]) /\ a[k] < b[k]
    BY <2>2, <2>5 DEF Differ
  <2> QED  BY <2>1, <2>3, <2>4, <2>5
<1>2. \A a \in Seq(Int) : ~LexLess(a, a)
  BY <1>1 DEF Differ, Shorter
<1>3. ASSUME NEW a \in Seq(Int), NEW b \in Seq(Int), NEW c \in Seq(Int), LexLess(a, b), LexLess(b, c)
      PROVE  LexLess(a, c)
  <2>1. CASE Shorter(a, b) /\ Shorter(b, c)
    <3>1. Shorter(a, c)
      BY <2>1 DEF Shorter
    <3> QED  BY <1>1, <3>1
  <2>2. ASSUME NEW k \in Nat, Differ(a, b, k), Shorter(b, c) PROVE LexLess(a, c)
    <3>1. Differ(a, c, k)
      BY <2>2, SMTT(30) DEF Differ, Shorter
    <3> QED  BY <1>1, <3>1
  <2>3. ASSUME NEW k \in Nat, Differ(b, c, k), Shorter(a, b) PROVE LexLess(a, c)
    <3>1. CASE k <= Len(a)
      <4>1. Differ(a, c, k)
        BY <2>3, <3>1 DEF Differ, Shorter
      <4> QED  BY <1>1, <4>1
    <3>2. CASE k > Len(a)
      <4>1. Shorter(a, c)
        BY <2>3, <3>2 DEF Differ, Shorter
      <4> QED  BY <1>1, <4>1
    <3> QED  BY <3>1, <3>2
  <2>4. ASSUME NEW k \in Nat, NEW l \in Nat,
               Differ(a, b, k), Differ(b, c, l)
        PROVE  LexLess(a, c)
    <3>1. k \in Int /\ l \in Int
      OBVIOUS
    <3>4. k \in 1..Len(a) /\ k \in 1..Len(b) /\ l \in 1..Len(b) /\ l \in 1..Len(c)
      BY <2>4 DEF Differ
    <3>2. CASE k <= l
      <4>1. k \in 1..Len(c)
        BY <3>1, <3>2, <3>4
      <4>2. a[k] < b[k] /\ b[k] <= c[k]
        <5>1. a[k] < b[k] /\ b[k] \in Int
          BY <2>4, <3>4 DEF Differ
        <5>2. CASE k = l
          BY <2>4, <5>1, <5>2 DEF Differ
        <5>3. CASE k \in 1..(l - 1)
          <6>1. b[k] = c[k]
            BY <2>4, <5>3 DEF Differ
          <6> QED  BY <5>1, <6>1
        <5>4. k = l \/ k \in 1..(l - 1)
          BY <3>2, <3>4
        <5> QED  BY <5>2, <5>3, <5>4
      <4>3. a[k] < c[k]
        BY <3>4, <4>1, <4>2
      <4>4. \A j \in 1..(k - 1) : a[j] = c[j]
        <5> SUFFICES ASSUME NEW j \in 1..(k - 1) PROVE a[j] = c[j]
          OBVIOUS
        <5>1. j \in 1..(l - 1)
          BY <3>1, <3>2
        <5> QED  BY <2>4, <5>1 DEF Differ
      <4> QED  BY <1>1, <3>1, <3>4, <4>1, <4>3, <4>4 DEF Differ
    <3>3. CASE l < k
      <4>1. l \in 1..Len(a) /\ l \in 1..(k - 1)
        BY <3>1, <3>3, <3>4
      <4>2. a[l] = b[l] /\ b[l] < c[l]
        BY <2>4, <4>1 DEF Differ
      <4>3. \A j \in 1..(l - 1) : a[j] = c[j]
        <5> SUFFICES ASSUME NEW j \in 1..(l - 1) PROVE a[j] = c[j]
          OBVIOUS
        <5>1. j \in 1..(k - 1)
          BY <3>1, <3>3
        <5> QED  BY <2>4, <5>1 DEF Differ
      <4> QED  BY <1>1, <3>1, <3>4, <4>1, <4>2, <4>3 DEF Differ
    <3> QED  BY <3>1, <3>2, <3>3
  <2> QED  BY <1>1, <1>3, <2>1, <2>2, <2>3, <2>4
<1>4. ASSUME NEW a \in Seq(Int), NEW b \in Seq(Int), a # b, ~LexLess(a, b), ~LexLess(b, a)
      PROVE  FALSE
  <2> DEFINE D == {k \in DOMAIN a \cap DOMAIN b : a[k] # b[k]}
  <2>1. CASE D = {}
    BY <1>1, <1>4, <2>1, SMTT(30) DEF Shorter
  <2>2. CASE D # {}
    <3>1. D \in SUBSET Nat
      OBVIOUS
    <3>2. PICK k \in D : \A j \in D : k <= j
      BY <2>2, <3>1, LeastOf
    <3>3. \A j \in 1..(k - 1) : a[j] = b[j]
      BY <3>2, SMTT(30)
    <3>4. Differ(a, b, k) \/ Differ(b, a, k)
      BY <3>2, <3>3 DEF Differ
    <3> QED  BY <1>1, <1>4, <3>4
  <2> QED  BY <2>1, <2>2
<1> QED  BY <1>2, <1>3, <1>4

(***************************************************************************)
(* Recursions and folds over finite sets                                      *)
(***************************************************************************)
(* A set with zero that contains the successor of each of its naturals has all of them. *)
LEMMA NatSet ==
    ASSUME NEW G, 0 \in G, \A n \in Nat : n \in G => n + 1 \in G
    PROVE  \A n \in Nat : n \in G
<1> SUFFICES ASSUME Nat \ G # {} PROVE FALSE
  OBVIOUS
<1>1. PICK n \in Nat \ G : \A m \in Nat \ G : n <= m
  BY LeastOf
<1>2. n # 0 /\ n - 1 \in Nat
  BY <1>1
<1>3. n - 1 \in G
  BY <1>1, <1>2
<1> QED  BY <1>1, <1>2, <1>3

(* A set that contains each element of D with all whose rank is less has all of D.      *)
LEMMA RankSet ==
    ASSUME NEW D, NEW rank \in [D -> Nat], NEW G,
           \A d \in D : (\A e \in D : rank[e] < rank[d] => e \in G) => d \in G
    PROVE  \A d \in D : d \in G
<1> DEFINE R == {n \in Nat : \E d \in D : rank[d] = n /\ d \notin G}
<1> SUFFICES ASSUME NEW c \in D, c \notin G PROVE FALSE
  OBVIOUS
<1>1. R # {} /\ R \in SUBSET Nat
  OBVIOUS
<1>2. PICK n \in R : \A m \in R : n <= m
  BY <1>1, LeastOf
<1>3. PICK d \in D : rank[d] = n /\ d \notin G
  BY <1>2
<1>4. ASSUME NEW e \in D, rank[e] < rank[d] PROVE e \in G
  <2>1. rank[e] \in Nat /\ rank[d] \in Nat
    OBVIOUS
  <2> QED  BY <1>2, <1>3, <1>4, <2>1
<1> QED  BY <1>3, <1>4

(* A recursion: the values at rank 0 are the base, the others are computed by the step   *)
(* from the values of two arguments of less rank.                                  *)
Recursive(D, V, rank, first, second, base, step) ==
    /\ rank \in [D -> Nat] /\ first \in [D -> D] /\ second \in [D -> D]
    /\ base \in [D -> V] /\ step \in [D -> [V \X V -> V]]
    /\ \A d \in D : rank[d] # 0 => rank[first[d]] < rank[d] /\ rank[second[d]] < rank[d]

Computed(h, d, rank, first, second, base, step) ==
    h[d] = IF rank[d] = 0 THEN base[d] ELSE step[d][<<h[first[d]], h[second[d]]>>]

(* Two functions that are computed alike at an argument and have the same values below   *)
(* it have the same value there.                                                   *)
LEMMA SameBelow ==
    ASSUME NEW D, NEW V, NEW rank, NEW first, NEW second, NEW base, NEW step,
           Recursive(D, V, rank, first, second, base, step),
           NEW g, NEW h, NEW d \in D, \A e \in D : rank[e] < rank[d] => g[e] = h[e],
           Computed(g, d, rank, first, second, base, step)
    PROVE  Computed(h, d, rank, first, second, base, step) <=> g[d] = h[d]
<1>1. CASE rank[d] = 0
  BY <1>1 DEF Computed
<1>2. CASE rank[d] # 0
  <2>1. first[d] \in D /\ second[d] \in D /\ rank[first[d]] < rank[d] /\ rank[second[d]] < rank[d]
    BY <1>2 DEF Recursive
  <2> QED  BY <1>2, <2>1 DEF Computed
<1> QED  BY <1>1, <1>2

(* What is computed up to a rank is determined up to it. *)
Upto(h, n, D, rank, first, second, base, step) ==
    \A d \in D : rank[d] < n => Computed(h, d, rank, first, second, base, step)

LEMMA Determined ==
    ASSUME NEW D, NEW V, NEW rank, NEW first, NEW second, NEW base, NEW step,
           Recursive(D, V, rank, first, second, base, step),
           NEW g, NEW h, NEW n \in Nat, NEW m \in Nat,
           Upto(g, n, D, rank, first, second, base, step),
           Upto(h, m, D, rank, first, second, base, step)
    PROVE  \A d \in D : rank[d] < n /\ rank[d] < m => g[d] = h[d]
<1> DEFINE A == {d \in D : rank[d] < n /\ rank[d] < m => g[d] = h[d]}
<1>1. rank \in [D -> Nat]
  BY DEF Recursive
<1>2. ASSUME NEW d \in D, \A e \in D : rank[e] < rank[d] => e \in A PROVE d \in A
  <2> SUFFICES ASSUME rank[d] < n, rank[d] < m PROVE g[d] = h[d]
    OBVIOUS
  <2>1. /\ Computed(g, d, rank, first, second, base, step)
        /\ Computed(h, d, rank, first, second, base, step)
    BY DEF Upto
  <2>2. ASSUME NEW e \in D, rank[e] < rank[d] PROVE g[e] = h[e]
    <3>1. rank[e] \in Nat /\ rank[d] \in Nat
      BY <1>1
    <3> QED  BY <1>2, <2>2, <3>1
  <2> QED  BY <2>1, <2>2, SameBelow
<1> HIDE DEF A
<1>3. \A d \in D : d \in A
  BY <1>1, <1>2, RankSet
<1> QED  BY <1>3 DEF A

(* What is computed up to a rank can be computed up to the next. *)
LEMMA OneRankMore ==
    ASSUME NEW D, NEW V, NEW rank, NEW first, NEW second, NEW base, NEW step,
           Recursive(D, V, rank, first, second, base, step),
           NEW n \in Nat, NEW h \in [D -> V], Upto(h, n, D, rank, first, second, base, step)
    PROVE  \E f \in [D -> V] : Upto(f, n + 1, D, rank, first, second, base, step)
<1> DEFINE f == [d \in D |-> IF rank[d] = 0 THEN base[d] ELSE step[d][<<h[first[d]], h[second[d]]>>]]
<1>1. rank \in [D -> Nat]
  BY DEF Recursive
<1>2. ASSUME NEW d \in D PROVE f[d] \in V
  <2>1. base[d] \in V /\ step[d] \in [V \X V -> V] /\ h[first[d]] \in V /\ h[second[d]] \in V
    BY DEF Recursive
  <2> QED  BY <2>1
<1>3. ASSUME NEW d \in D, rank[d] < n PROVE f[d] = h[d]
  BY <1>3 DEF Upto, Computed
<1>4. ASSUME NEW d \in D, rank[d] < n + 1 PROVE Computed(f, d, rank, first, second, base, step)
  <2>1. CASE rank[d] = 0
    BY <2>1 DEF Computed
  <2>2. CASE rank[d] # 0
    <3>1. first[d] \in D /\ second[d] \in D /\ rank[first[d]] < rank[d] /\ rank[second[d]] < rank[d]
      BY <2>2 DEF Recursive
    <3>2. rank[d] \in Nat /\ rank[first[d]] \in Nat /\ rank[second[d]] \in Nat
      BY <1>1, <3>1
    <3>3. f[first[d]] = h[first[d]] /\ f[second[d]] = h[second[d]]
      <4> HIDE DEF f
      <4> QED  BY <1>3, <1>4, <3>1, <3>2
    <3>4. f[d] = step[d][<<h[first[d]], h[second[d]]>>]
      BY <2>2
    <3> HIDE DEF f
    <3> QED  BY <2>2, <3>3, <3>4 DEF Computed
  <2> QED  BY <2>1, <2>2
<1>5. f \in [D -> V]
  BY <1>2
<1>6. Upto(f, n + 1, D, rank, first, second, base, step)
  <2> HIDE DEF f
  <2> QED  BY <1>4 DEF Upto
<1> HIDE DEF f
<1> QED  BY <1>5, <1>6

(* A function defined by a recursion exists. *)
LEMMA Recursion ==
    ASSUME NEW D, NEW V, NEW rank, NEW first, NEW second, NEW base, NEW step,
           Recursive(D, V, rank, first, second, base, step)
    PROVE  \E h \in [D -> V] : \A d \in D : Computed(h, d, rank, first, second, base, step)
<1> DEFINE G == {n \in Nat : \E h \in [D -> V] : Upto(h, n, D, rank, first, second, base, step)}
<1>1. rank \in [D -> Nat] /\ base \in [D -> V]
  BY DEF Recursive
<1>2. \A n \in Nat : n \in G
  <2>1. 0 \in G
    <3>1. Upto(base, 0, D, rank, first, second, base, step)
      BY <1>1 DEF Upto
    <3> QED  BY <1>1, <3>1
  <2>2. ASSUME NEW n \in Nat, n \in G PROVE n + 1 \in G
    <3>1. PICK h \in [D -> V] : Upto(h, n, D, rank, first, second, base, step)
      BY <2>2
    <3>2. \E f \in [D -> V] : Upto(f, n + 1, D, rank, first, second, base, step)
      BY <3>1, OneRankMore
    <3> QED  BY <3>2
  <2> HIDE DEF G
  <2> QED  BY <2>1, <2>2, NatSet
<1> DEFINE at == [n \in Nat |-> CHOOSE h \in [D -> V] : Upto(h, n, D, rank, first, second, base, step)]
           f == [d \in D |-> at[rank[d] + 1][d]]
<1>3. ASSUME NEW n \in Nat PROVE at[n] \in [D -> V] /\ Upto(at[n], n, D, rank, first, second, base, step)
  <2>1. \E h \in [D -> V] : Upto(h, n, D, rank, first, second, base, step)
    BY <1>2
  <2>2. at[n] = CHOOSE h \in [D -> V] : Upto(h, n, D, rank, first, second, base, step)
    OBVIOUS
  <2> HIDE DEF at
  <2> QED  BY <2>1, <2>2, Zenon
<1> HIDE DEF at, G
<1>4. ASSUME NEW d \in D PROVE rank[d] + 1 \in Nat /\ f[d] = at[rank[d] + 1][d] /\ f[d] \in V
  BY <1>1, <1>3
<1>5. f \in [D -> V]
  BY <1>4
<1> HIDE DEF f
<1>6. ASSUME NEW d \in D PROVE Computed(f, d, rank, first, second, base, step)
  <2>1. PICK n \in Nat : n = rank[d] + 1
    BY <1>4
  <2>2. Upto(at[n], n, D, rank, first, second, base, step)
    BY <1>3
  <2>3. rank[d] \in Nat /\ rank[d] < n
    BY <1>1, <2>1
  <2>4. ASSUME NEW e \in D, rank[e] < rank[d] PROVE at[n][e] = f[e]
    <3>1. PICK m \in Nat : m = rank[e] + 1
      BY <1>4
    <3>2. rank[e] \in Nat /\ rank[e] < m /\ rank[e] < n
      BY <1>1, <2>3, <2>4, <3>1
    <3>3. Upto(at[m], m, D, rank, first, second, base, step)
      BY <1>3
    <3>4. at[m][e] = at[n][e]
      BY <2>2, <3>2, <3>3, Determined
    <3> QED  BY <1>4, <3>1, <3>4
  <2>5. Computed(at[n], d, rank, first, second, base, step)
    BY <2>2, <2>3 DEF Upto
  <2>6. at[n][d] = f[d]
    BY <1>4, <2>1
  <2> QED  BY <2>4, <2>5, <2>6, SameBelow
<1> QED  BY <1>5, <1>6

(* A fold over a finite set, which takes the members one by one in the order of pick,    *)
(* exists: step says what a member does to a value.                                  *)
IsFold(h, S, pick, base, step) ==
    \A s \in SUBSET S : h[s] = IF s = {} THEN base ELSE step[pick[s]][h[s \ {pick[s]}]]

Foldable(S, V, pick, base, step) ==
    /\ IsFiniteSet(S) /\ base \in V /\ \A x \in S : step[x] \in [V -> V]
    /\ \A s \in SUBSET S : s # {} => pick[s] \in s

LEMMA FoldExists ==
    ASSUME NEW S, NEW V, NEW pick, NEW base, NEW step, Foldable(S, V, pick, base, step)
    PROVE  \E h \in [SUBSET S -> V] : IsFold(h, S, pick, base, step)
<1> DEFINE rank == [s \in SUBSET S |-> Cardinality(s)]
           rest == [s \in SUBSET S |-> IF s = {} THEN {} ELSE s \ {pick[s]}]
           bases == [s \in SUBSET S |-> base]
           steps == [s \in SUBSET S |-> [v \in V \X V |-> IF s = {} THEN base ELSE step[pick[s]][v[1]]]]
<1>0. /\ IsFiniteSet(S) /\ base \in V /\ \A x \in S : step[x] \in [V -> V]
      /\ \A s \in SUBSET S : s # {} => pick[s] \in s
  BY DEF Foldable
<1>1. ASSUME NEW s \in SUBSET S PROVE rank[s] \in Nat /\ (rank[s] = 0 <=> s = {})
  <2>1. IsFiniteSet(s)
    BY <1>0, FS_Subset
  <2> QED  BY <2>1, FS_CardinalityType, FS_EmptySet
<1>2. ASSUME NEW s \in SUBSET S, s # {} PROVE rest[s] = s \ {pick[s]} /\ rank[rest[s]] < rank[s]
  <2>1. IsFiniteSet(s) /\ pick[s] \in s
    BY <1>0, <1>2, FS_Subset
  <2>2. Cardinality(s \ {pick[s]}) = Cardinality(s) - 1
    BY <2>1, FS_RemoveElement
  <2>3. rank[s] = Cardinality(s) /\ rest[s] = s \ {pick[s]} /\ rest[s] \in SUBSET S
    BY <1>2
  <2>4. rank[rest[s]] = Cardinality(s \ {pick[s]})
    BY <2>3
  <2>5. rank[s] \in Nat
    BY <1>1
  <2> HIDE DEF rank, rest
  <2> QED  BY <2>2, <2>3, <2>4, <2>5
<1>3. rest \in [SUBSET S -> SUBSET S] /\ bases \in [SUBSET S -> V] /\ rank \in [SUBSET S -> Nat]
  <2>1. \A s \in SUBSET S : rest[s] \in SUBSET S /\ bases[s] \in V
    BY <1>0
  <2>2. \A s \in SUBSET S : rank[s] \in Nat
    BY <1>1
  <2> QED  BY <2>1, <2>2
<1>4. steps \in [SUBSET S -> [V \X V -> V]]
  <2>1. ASSUME NEW s \in SUBSET S, NEW v \in V \X V
        PROVE  (IF s = {} THEN base ELSE step[pick[s]][v[1]]) \in V
    <3>1. v[1] \in V
      OBVIOUS
    <3>2. CASE s # {}
      <4>1. step[pick[s]] \in [V -> V]
        BY <1>0, <3>2
      <4> QED  BY <3>1, <3>2, <4>1
    <3> QED  BY <1>0, <3>2
  <2>2. \A s \in SUBSET S : steps[s] \in [V \X V -> V]
    BY <2>1
  <2> QED  BY <2>2
<1>5. ASSUME NEW s \in SUBSET S, NEW v \in V PROVE steps[s][<<v, v>>] = IF s = {} THEN base ELSE step[pick[s]][v]
  OBVIOUS
<1>6. \A s \in SUBSET S : bases[s] = base
  OBVIOUS
<1> HIDE DEF rank, rest, bases, steps
<1>7. Recursive(SUBSET S, V, rank, rest, rest, bases, steps)
  BY <1>1, <1>2, <1>3, <1>4 DEF Recursive
<1>8. PICK h \in [SUBSET S -> V] : \A s \in SUBSET S : Computed(h, s, rank, rest, rest, bases, steps)
  BY <1>7, Recursion
<1>9. ASSUME NEW s \in SUBSET S
      PROVE  h[s] = IF s = {} THEN base ELSE step[pick[s]][h[s \ {pick[s]}]]
  <2>1. h[s] = IF rank[s] = 0 THEN bases[s] ELSE steps[s][<<h[rest[s]], h[rest[s]]>>]
    BY <1>8 DEF Computed
  <2>2. CASE s = {}
    BY <1>1, <1>6, <2>1, <2>2
  <2>3. CASE s # {}
    <3>1. rest[s] = s \ {pick[s]} /\ rank[s] # 0 /\ h[rest[s]] \in V
      BY <1>1, <1>2, <1>3, <2>3
    <3>2. PICK v \in V : v = h[s \ {pick[s]}]
      BY <3>1
    <3>3. h[s] = steps[s][<<v, v>>]
      BY <2>1, <3>1, <3>2
    <3> QED  BY <1>5, <2>3, <3>2, <3>3
  <2> QED  BY <2>2, <2>3
<1>10. IsFold(h, S, pick, base, step)
  BY <1>9 DEF IsFold
<1> QED  BY <1>10

(* The greatest and the least place among some places of a list *)
LEMMA Extremes ==
    ASSUME NEW n \in Nat
    PROVE  /\ IsFiniteSet(1..n)
           /\ \A s \in SUBSET (1..n) : s # {} => Max(s) \in s /\ Min(s) \in s
           /\ \A k \in 1..n : Max(1..k) = k /\ (1..k) \ {k} = 1..(k - 1)
           /\ \A k \in 1..n : Min(k..n) = k /\ (k..n) \ {k} = (k + 1)..n
<1>1. IsFiniteSet(1..n)
  BY FS_Interval
<1>2. ASSUME NEW s \in SUBSET (1..n), s # {} PROVE Min(s) \in s
  <2>1. s \in SUBSET Nat
    OBVIOUS
  <2>2. \E x \in s : \A y \in s : x <= y
    BY <1>2, <2>1, LeastOf
  <2> QED  BY <2>2 DEF Min
<1>3. ASSUME NEW s \in SUBSET (1..n), s # {} PROVE Max(s) \in s
  <2> DEFINE down == {n - x : x \in s}
  <2>1. \A d \in down : d \in Nat
    OBVIOUS
  <2>5. down \in SUBSET Nat /\ down # {}
    <3>1. PICK x \in s : TRUE
      BY <1>3
    <3>2. n - x \in down
      OBVIOUS
    <3> HIDE DEF down
    <3> QED  BY <2>1, <3>2
  <2>2. PICK d \in down : \A y \in down : d <= y
    BY <2>5, LeastOf
  <2>3. PICK x \in s : d = n - x
    BY <2>2
  <2>4. ASSUME NEW y \in s PROVE x >= y
    <3>1. n - y \in down
      OBVIOUS
    <3>2. d <= n - y
      BY <2>2, <3>1
    <3>3. x \in Int /\ y \in Int /\ d = n - x
      BY <2>3
    <3> HIDE DEF down
    <3> QED  BY <3>2, <3>3
  <2> QED  BY <2>4 DEF Max
<1>4. ASSUME NEW k \in 1..n PROVE Max(1..k) = k /\ (1..k) \ {k} = 1..(k - 1)
  <2>1. k \in 1..k /\ \A y \in 1..k : k >= y
    OBVIOUS
  <2>2. \A x \in 1..k : (\A y \in 1..k : x >= y) => x = k
    BY <2>1
  <2> QED  BY <2>1, <2>2 DEF Max
<1>5. ASSUME NEW k \in 1..n PROVE Min(k..n) = k /\ (k..n) \ {k} = (k + 1)..n
  <2>1. k \in k..n /\ \A y \in k..n : k <= y
    OBVIOUS
  <2>2. \A x \in k..n : (\A y \in k..n : x <= y) => x = k
    BY <2>1
  <2> QED  BY <2>1, <2>2 DEF Min
<1> QED  BY <1>1, <1>2, <1>3, <1>4, <1>5

(***************************************************************************)
(* Places of a list                                                          *)
(***************************************************************************)
(* The members of some places that come before one *)
Preceding(A, x) == {y \in A : y < x}
Foremost(A, m) == {x \in A : Cardinality(Preceding(A, x)) < m}

(* Of some places at least m of which come before one, exactly m are the foremost m, and   *)
(* they come before it.                                                      *)
LEMMA FirstFew ==
    ASSUME NEW n \in Nat, NEW A \in SUBSET (1..n), NEW m \in Nat, NEW j \in A,
           ~(Cardinality(Preceding(A, j)) < m)
    PROVE  Cardinality(Foremost(A, m)) = m /\ \A x \in Foremost(A, m) : x < j
<1> DEFINE below == [x \in A |-> Preceding(A, x)]
           rank == [x \in Foremost(A, m) |-> Cardinality(below[x])]
<1>1. IsFiniteSet(A) /\ \A x \in A : x \in Nat
  <2>1. IsFiniteSet(1..n)
    BY FS_Interval
  <2>2. IsFiniteSet(A)
    BY <2>1, FS_Subset, Zenon
  <2> QED  BY <2>2
<1>2. \A x \in A : below[x] = Preceding(A, x)
  OBVIOUS
<1>3. Orders(below, A)
  <2>1. below \in [A -> SUBSET A]
    BY DEF Preceding
  <2>2. \A x, y \in A : y \in below[x] <=> y < x
    BY <1>2 DEF Preceding
  <2> HIDE DEF below
  <2>3. \A x \in A : x \notin below[x]
    BY <1>1, <2>2
  <2>4. ASSUME NEW x \in A, NEW y \in A, x \in below[y], NEW z \in below[x] PROVE z \in below[y]
    <3>1. z \in A
      BY <2>1
    <3> QED  BY <1>1, <2>2, <2>4, <3>1
  <2>5. \A x, y \in A : x # y => x \in below[y] \/ y \in below[x]
    BY <1>1, <2>2
  <2> QED  BY <2>1, <2>3, <2>4, <2>5 DEF Orders
<1> HIDE DEF below
<1>4. /\ Cardinality(A) \in Nat
      /\ \A x \in A : Cardinality(below[x]) \in 0..(Cardinality(A) - 1)
      /\ \A x, y \in A : x \in below[y] <=> Cardinality(below[x]) < Cardinality(below[y])
      /\ \A k \in 0..(Cardinality(A) - 1) : \E x \in A : Cardinality(below[x]) = k
  BY <1>1, <1>3, Ranks
<1>5. m <= Cardinality(below[j]) /\ m <= Cardinality(A) - 1
  BY <1>2, <1>4
<1>6. \A x \in A : x \in Foremost(A, m) <=> Cardinality(below[x]) < m
  BY <1>2 DEF Foremost
<1>7. ASSUME NEW x \in Foremost(A, m) PROVE x \in A /\ x < j
  <2>1. x \in A
    BY DEF Foremost
  <2>2. Cardinality(below[x]) < Cardinality(below[j])
    BY <1>4, <1>5, <1>6, <2>1
  <2> QED  BY <1>2, <1>4, <2>1, <2>2 DEF Preceding
<1>8. rank \in Bijection(Foremost(A, m), 0..(m - 1))
  <2>1. ASSUME NEW x \in Foremost(A, m)
        PROVE  rank[x] = Cardinality(below[x]) /\ rank[x] \in 0..(m - 1)
    <3>1. rank[x] = Cardinality(below[x]) /\ x \in A
      BY <1>7
    <3>2. Cardinality(below[x]) \in 0..(Cardinality(A) - 1) /\ Cardinality(below[x]) < m
      BY <1>4, <1>6, <3>1
    <3> HIDE DEF rank
    <3> QED  BY <1>4, <3>1, <3>2
  <2>2. \A x, y \in Foremost(A, m) : rank[x] = rank[y] => x = y
    <3> SUFFICES ASSUME NEW x \in Foremost(A, m), NEW y \in Foremost(A, m), rank[x] = rank[y], x # y
                 PROVE  FALSE
      OBVIOUS
    <3>1. Cardinality(below[x]) = Cardinality(below[y]) /\ Cardinality(below[x]) \in Nat
      BY <1>4, <1>7, <2>1
    <3>2. x \in below[y] \/ y \in below[x]
      BY <1>3, <1>7 DEF Orders
    <3>3. Cardinality(below[x]) < Cardinality(below[y]) \/ Cardinality(below[y]) < Cardinality(below[x])
      <4>1. x \in A /\ y \in A
        BY <1>7
      <4> QED  BY <1>4, <3>2, <4>1
    <3> QED  BY <3>1, <3>3
  <2>3. ASSUME NEW k \in 0..(m - 1) PROVE \E x \in Foremost(A, m) : rank[x] = k
    <3>1. PICK x \in A : Cardinality(below[x]) = k
      BY <1>4, <1>5
    <3> QED  BY <1>6, <3>1
  <2>4. rank \in [Foremost(A, m) -> 0..(m - 1)]
    BY <2>1
  <2> HIDE DEF rank
  <2> QED  BY <2>2, <2>3, <2>4 DEF Bijection, Injection, Surjection, IsInjective
<1>9. Cardinality(Foremost(A, m)) = m
  <2>1. IsFiniteSet(0..(m - 1)) /\ Cardinality(0..(m - 1)) = m
    <3>1. PICK a \in Int, b \in Int : a = 0 /\ b = m - 1
      OBVIOUS
    <3>2. IsFiniteSet(a..b) /\ Cardinality(a..b) = IF a > b THEN 0 ELSE b - a + 1
      BY FS_Interval
    <3> QED  BY <3>1, <3>2
  <2>2. IsFiniteSet(Foremost(A, m))
    BY <1>1, FS_Subset DEF Foremost
  <2>3. Cardinality(Foremost(A, m)) = Cardinality(0..(m - 1))
    <3>1. ExistsBijection(Foremost(A, m), 0..(m - 1))
      BY <1>8 DEF ExistsBijection
    <3> QED  BY <2>1, <2>2, <3>1, FS_Bijection
  <2> QED  BY <2>1, <2>3
<1> QED  BY <1>7, <1>9

(* As many places of a list of numbers hold a member of a set as the set has, when all of  *)
(* them are in the list.                                                     *)
LEMMA CountAt ==
    ASSUME NEW P \in SUBSET Int, IsFiniteSet(P), NEW Q \in SUBSET P
    PROVE  Cardinality({k \in DOMAIN InOrder(P) : InOrder(P)[k] \in Q}) = Cardinality(Q)
<1> DEFINE at == InOrder(P)
           K == {k \in DOMAIN at : at[k] \in Q}
           f == [k \in K |-> at[k]]
<1>1. /\ at \in Seq(P) /\ DOMAIN at = 1..Len(at)
      /\ \A x \in P : \E i \in DOMAIN at : at[i] = x
      /\ \A i, j \in DOMAIN at : i < j <=> at[i] < at[j]
  BY NumbersInOrder
<1> HIDE DEF at
<1>2. Len(at) \in Nat /\ \A k \in DOMAIN at : at[k] \in Int /\ k \in Int
  <2>1. Len(at) \in Nat
    BY <1>1
  <2>2. \A k \in DOMAIN at : at[k] \in P
    BY <1>1
  <2>3. \A k \in DOMAIN at : k \in Int
    BY <1>1, <2>1
  <2> QED  BY <2>1, <2>2, <2>3
<1>3. f \in Bijection(K, Q)
  <2>1. \A k \in K : f[k] = at[k] /\ at[k] \in Q /\ k \in DOMAIN at
    OBVIOUS
  <2>2. ASSUME NEW k \in K, NEW l \in K, f[k] = f[l] PROVE k = l
    <3>1. at[k] = at[l] /\ k \in DOMAIN at /\ l \in DOMAIN at
      BY <2>1, <2>2
    <3>2. ~(at[k] < at[l]) /\ ~(at[l] < at[k])
      BY <1>2, <3>1
    <3>3. ~(k < l) /\ ~(l < k)
      BY <1>1, <3>1, <3>2
    <3> HIDE DEF f, K
    <3> QED  BY <1>2, <3>1, <3>3
  <2>3. ASSUME NEW x \in Q PROVE \E k \in K : f[k] = x
    <3>1. PICK k \in DOMAIN at : at[k] = x
      BY <1>1
    <3> QED  BY <3>1
  <2>4. f \in [K -> Q]
    BY <2>1
  <2> HIDE DEF f, K
  <2> QED  BY <2>2, <2>3, <2>4 DEF Bijection, Injection, Surjection, IsInjective
<1>4. ExistsBijection(K, Q)
  BY <1>3 DEF ExistsBijection
<1>5. IsFiniteSet(K) /\ IsFiniteSet(Q)
  <2>1. IsFiniteSet(DOMAIN at)
    BY <1>1, <1>2, FS_Interval
  <2> QED  BY <2>1, FS_Subset
<1>6. Cardinality(K) = Cardinality(Q)
  <2> HIDE DEF K
  <2> QED  BY <1>4, <1>5, FS_Bijection
<1> QED  BY <1>6 DEF at

(* The places of which fewer than m before them have the same value *)
FewBefore(n, value, m) == {i \in 1..n : Cardinality({j \in 1..(i - 1) : value[j] = value[i]}) < m}

(* Where a place is dropped, m of the same value are kept, and all of them come before it.  *)
LEMMA DroppedLast ==
    ASSUME NEW n \in Nat, NEW value, NEW m \in Nat, NEW P, P = FewBefore(n, value, m),
           NEW j \in 1..n, j \notin P
    PROVE  /\ Cardinality({k \in DOMAIN InOrder(P) : value[InOrder(P)[k]] = value[j]}) = m
           /\ \A k \in DOMAIN InOrder(P) : value[InOrder(P)[k]] = value[j] => InOrder(P)[k] < j
<1> DEFINE A == {i \in 1..n : value[i] = value[j]}
           at == InOrder(P)
<1>1. ASSUME NEW i \in 1..n, value[i] = value[j]
      PROVE  {h \in 1..(i - 1) : value[h] = value[i]} = Preceding(A, i)
  <2>1. ASSUME NEW h, h \in 1..(i - 1), value[h] = value[i] PROVE h \in Preceding(A, i)
    BY <1>1, <2>1 DEF Preceding
  <2>2. ASSUME NEW h, h \in Preceding(A, i) PROVE h \in 1..(i - 1) /\ value[h] = value[i]
    BY <1>1, <2>2 DEF Preceding
  <2> QED  BY <2>1, <2>2
<1>2. \A i \in A : i \in 1..n /\ value[i] = value[j]
  OBVIOUS
<1>3. \A i \in A : i \in P <=> Cardinality(Preceding(A, i)) < m
  BY <1>1, <1>2 DEF FewBefore
<1>4. j \in A /\ A \in SUBSET (1..n)
  OBVIOUS
<1>5. \A i \in 1..n : value[i] = value[j] <=> i \in A
  OBVIOUS
<1> HIDE DEF A
<1>6. Cardinality(Foremost(A, m)) = m /\ \A x \in Foremost(A, m) : x < j
  BY <1>3, <1>4, FirstFew
<1>7. P \in SUBSET (1..n) /\ P \in SUBSET Int
  BY DEF FewBefore
<1>8. IsFiniteSet(P)
  <2>1. IsFiniteSet(1..n)
    BY FS_Interval
  <2> QED  BY <1>7, <2>1, FS_Subset, Zenon
<1>9. Foremost(A, m) \in SUBSET P
  BY <1>3 DEF Foremost
<1>10. \A k \in DOMAIN at : at[k] \in P
  <2>1. at \in Seq(P)
    BY <1>7, <1>8, NumbersInOrder
  <2> QED  BY <2>1
<1>11. \A k \in DOMAIN at : value[at[k]] = value[j] <=> at[k] \in Foremost(A, m)
  BY <1>3, <1>4, <1>5, <1>7, <1>10 DEF Foremost
<1>12. {k \in DOMAIN at : value[at[k]] = value[j]} = {k \in DOMAIN at : at[k] \in Foremost(A, m)}
  <2> HIDE DEF at
  <2> QED  BY <1>11
<1>13. Cardinality({k \in DOMAIN at : at[k] \in Foremost(A, m)}) = m
  BY <1>6, <1>7, <1>8, <1>9, CountAt
<1> QED  BY <1>6, <1>11, <1>12, <1>13

(* Part of a text is a text. *)
LEMMA SliceType ==
    ASSUME NEW text \in Seq(Byte), NEW start \in Nat, NEW end \in 0..Len(text)
    PROVE  /\ Slice(text, start, end) \in Seq(Byte)
           /\ start < end => Len(Slice(text, start, end)) = end - start
           /\ start < end => \A i \in 1..(end - start) : Slice(text, start, end)[i] = text[start + i]
<1>1. PICK m \in Nat : m = Len(text) /\ DOMAIN text = 1..m /\ \A i \in 1..m : text[i] \in Byte
  BY LenProperties
<1>2. \A i \in (start + 1)..end : text[i] \in Byte
  BY <1>1
<1>3. PICK a \in Int : a = start + 1
  OBVIOUS
<1>4. end \in Int
  BY <1>1
<1>5. /\ SubSeq(text, a, end) \in Seq(Byte)
      /\ Len(SubSeq(text, a, end)) = IF a <= end THEN end - a + 1 ELSE 0
      /\ \A i \in 1..(end - a + 1) : SubSeq(text, a, end)[i] = text[a + i - 1]
  BY <1>2, <1>3, <1>4, SubSeqProperties
<1>6. \A i \in Int : a + i - 1 = start + i
  BY <1>3
<1>7. Slice(text, start, end) = SubSeq(text, a, end)
  BY <1>3 DEF Slice
<1>8. end - a + 1 = end - start /\ (start < end => a <= end)
  BY <1>1, <1>3
<1>9. ASSUME NEW i \in 1..(end - start) PROVE SubSeq(text, a, end)[i] = text[start + i]
  BY <1>4, <1>5, <1>6, <1>8, <1>9
<1> QED  BY <1>5, <1>7, <1>8, <1>9

(* Some places of a text are a text. *)
LEMMA AtPlacesType ==
    ASSUME NEW m \in Nat, NEW s, NEW P \in SUBSET (1..m)
    PROVE  /\ DOMAIN AtPlaces(s, P) = DOMAIN InOrder(P)
           /\ \A k \in DOMAIN InOrder(P) : AtPlaces(s, P)[k] = s[InOrder(P)[k]] /\ InOrder(P)[k] \in P
           /\ \A x \in P : \E k \in DOMAIN InOrder(P) : InOrder(P)[k] = x
           /\ \E n \in Nat : n = Len(AtPlaces(s, P)) /\ DOMAIN AtPlaces(s, P) = 1..n
<1>1. P \in SUBSET Int
  OBVIOUS
<1>2. IsFiniteSet(P)
  <2>1. IsFiniteSet(1..m)
    BY FS_Interval
  <2> QED  BY <2>1, FS_Subset, Zenon
<1>3. PICK at : at = InOrder(P)
  OBVIOUS
<1>4. at \in Seq(P) /\ DOMAIN at = 1..Len(at) /\ \A x \in P : \E i \in DOMAIN at : at[i] = x
  BY <1>1, <1>2, <1>3, NumbersInOrder
<1>5. \A k \in DOMAIN at : at[k] \in P
  BY <1>4
<1>6. AtPlaces(s, P) = [i \in DOMAIN at |-> s[at[i]]]
  BY <1>3 DEF AtPlaces
<1>7. PICK n \in Nat : n = Len(at)
  BY <1>4, LenProperties
<1>8. Len(AtPlaces(s, P)) = n
  BY <1>4, <1>6, <1>7
<1>9. DOMAIN AtPlaces(s, P) = 1..n /\ DOMAIN at = 1..n
  BY <1>4, <1>6, <1>7
<1>10. \A k \in DOMAIN at : AtPlaces(s, P)[k] = s[at[k]]
  BY <1>6
<1> QED  BY <1>3, <1>4, <1>5, <1>8, <1>9, <1>10

(* Where the characters of a text start, and where the last one ends *)
LEMMA ByteStartsType ==
    ASSUME NEW text \in Seq(Byte), NEW m \in Nat, m = Len(text),
           NEW at, at = ByteStarts(text)
    PROVE  /\ \E n \in Nat : n = Len(at) /\ DOMAIN at = 1..n
           /\ \A i \in DOMAIN at : at[i] \in 0..m
           /\ \A x \in 0..m : CharBoundary(text, x) => \E i \in DOMAIN at : at[i] = x
           /\ \A i, j \in DOMAIN at : i < j <=> at[i] < at[j]
<1> DEFINE B == {i \in 0..m : CharBoundary(text, i)}
<1>1. at = InOrder(B)
  BY DEF ByteStarts
<1>2. B \in SUBSET (0..m) /\ B \in SUBSET Int
  OBVIOUS
<1>3. \A x \in 0..m : CharBoundary(text, x) => x \in B
  OBVIOUS
<1> HIDE DEF B
<1>4. IsFiniteSet(B)
  <2>1. IsFiniteSet(0..m)
    BY FS_Interval
  <2> QED  BY <1>2, <2>1, FS_Subset, Zenon
<1>5. /\ at \in Seq(B) /\ DOMAIN at = 1..Len(at)
      /\ \A x \in B : \E i \in DOMAIN at : at[i] = x
      /\ \A i, j \in DOMAIN at : i < j <=> at[i] < at[j]
  BY <1>1, <1>2, <1>4, NumbersInOrder
<1>6. \A i \in DOMAIN at : at[i] \in 0..m
  <2>1. \A i \in DOMAIN at : at[i] \in B
    BY <1>5
  <2> QED  BY <1>2, <2>1
<1>7. PICK n \in Nat : n = Len(at)
  BY <1>5, LenProperties
<1> QED  BY <1>3, <1>5, <1>6, <1>7

(***************************************************************************)
(* The edit distance                                                         *)
(***************************************************************************)
(* What holds of the fold of no place, and of each next place if it holds of those before. *)
LEMMA PrefixFold ==
    ASSUME NEW n \in Nat, NEW V, NEW c, c[1..0] \in V[0],
           \A k \in 1..n : c[1..(k - 1)] \in V[k - 1] => c[1..k] \in V[k]
    PROVE  \A k \in 0..n : c[1..k] \in V[k]
<1> DEFINE G == {k \in Nat : k <= n => c[1..k] \in V[k]}
<1>1. 0 \in G
  OBVIOUS
<1>2. ASSUME NEW k \in Nat, k \in G PROVE k + 1 \in G
  <2> SUFFICES ASSUME k + 1 <= n PROVE c[1..(k + 1)] \in V[k + 1]
    OBVIOUS
  <2>1. PICK m \in 1..n : m = k + 1
    OBVIOUS
  <2>2. m - 1 = k /\ c[1..k] \in V[k]
    BY <1>2, <2>1
  <2>3. c[1..(m - 1)] \in V[m - 1]
    BY <2>2
  <2> QED  BY <2>1, <2>3
<1> HIDE DEF G
<1>3. \A k \in Nat : k \in G
  BY <1>1, <1>2, NatSet
<1> QED  BY <1>3 DEF G

(* A list with one element more *)
LEMMA Appended ==
    ASSUME NEW S, NEW s \in Seq(S), NEW x \in S
    PROVE  /\ Append(s, x) \in Seq(S) /\ Append(s, x) # <<>>
           /\ Len(s) \in Nat /\ Len(Append(s, x)) = Len(s) + 1
<1>1. PICK u : u = Append(s, x)
  OBVIOUS
<1>2. u \in Seq(S) /\ Len(u) = Len(s) + 1 /\ Len(s) \in Nat
  BY <1>1, AppendProperties, LenProperties
<1>3. u # <<>>
  BY <1>2
<1> QED  BY <1>1, <1>2, <1>3

Cell(previous, byte, right, last, j) ==
    Least({previous[j] + (IF right[j] = byte THEN 0 ELSE 1), last + 1, previous[j + 1] + 1})

(* A row of the edit distance is a row of numbers, one longer than the text. *)
LEMMA NextRowType ==
    ASSUME NEW m \in Nat, NEW right, DOMAIN right = 1..m,
           NEW previous \in Seq(Nat), Len(previous) = m + 1, NEW byte
    PROVE  NextRow(previous, byte, right) \in Seq(Nat) /\ Len(NextRow(previous, byte, right)) = m + 1
<1> DEFINE V == Seq(Nat) \ {<<>>}
           base == <<previous[1] + 1>>
           at == [j \in DOMAIN right |-> j]
           D == DOMAIN at
           Is(iter) == iter = [s \in SUBSET D |-> IF s = {} THEN base
                                   ELSE LET i == Max(s) IN Append(iter[s \ {i}], Cell(previous, byte, right, Last(iter[s \ {i}]), at[i]))]
<1>0. NextRow(previous, byte, right) = (CHOOSE iter : Is(iter))[D]
  BY Zenon DEF NextRow, FoldLeft, MapThenFoldSet, Cell
<1>1. D = 1..m /\ \A i \in 1..m : at[i] = i
  OBVIOUS
<1>2. ASSUME NEW row \in V, NEW j \in 1..m
      PROVE  Append(row, Cell(previous, byte, right, Last(row), j)) \in V
  <2>1. PICK last \in Nat : last = Last(row)
    BY DEF Last
  <2>2. previous[j] \in Nat /\ previous[j + 1] \in Nat
    <3>1. j \in 1..(m + 1) /\ j + 1 \in 1..(m + 1)
      OBVIOUS
    <3> QED  BY <3>1
  <2>3. PICK a \in Nat : a = previous[j] + (IF right[j] = byte THEN 0 ELSE 1)
    BY <2>2
  <2>10. PICK d \in Nat : d = previous[j + 1] + 1
    BY <2>2
  <2>9. PICK b \in Nat : b = last + 1
    OBVIOUS
  <2>4. Cell(previous, byte, right, last, j) = Least({a, b, d})
    BY <2>3, <2>9, <2>10 DEF Cell
  <2>5. Least({a, b, d}) \in {a, b, d}
    <3>1. {a, b, d} \in SUBSET Nat /\ {a, b, d} # {}
      OBVIOUS
    <3> QED  BY <3>1, LeastOf
  <2>6. PICK x \in Nat : x = Cell(previous, byte, right, Last(row), j)
    BY <2>1, <2>4, <2>5
  <2>7. row \in Seq(Nat)
    OBVIOUS
  <2>8. Append(row, x) \in Seq(Nat) /\ Append(row, x) # <<>>
    BY <2>7, Appended
  <2> QED  BY <2>6, <2>8
<1>3. base \in V
  <2>1. previous[1] \in Nat
    OBVIOUS
  <2> QED  BY <2>1
<1> DEFINE pick == [s \in SUBSET (1..m) |-> Max(s)]
           step == [j \in 1..m |-> [row \in V |-> Append(row, Cell(previous, byte, right, Last(row), j))]]
<1>4. PICK h \in [SUBSET (1..m) -> V] : IsFold(h, 1..m, pick, base, step)
  <2>1. \A s \in SUBSET (1..m) : s # {} => pick[s] \in s
    BY Extremes
  <2>2. \A j \in 1..m : step[j] \in [V -> V]
    BY <1>2
  <2>3. IsFiniteSet(1..m)
    BY Extremes
  <2> HIDE DEF V, base, pick, step
  <2>4. Foldable(1..m, V, pick, base, step)
    BY <1>3, <2>1, <2>2, <2>3 DEF Foldable
  <2> QED  BY <2>4, FoldExists
<1>5. Is(h)
  <2>1. ASSUME NEW s \in SUBSET (1..m), s # {}, NEW i, i = Max(s)
        PROVE  h[s] = Append(h[s \ {i}], Cell(previous, byte, right, Last(h[s \ {i}]), at[i]))
    <3>1. i \in 1..m /\ i = pick[s] /\ at[i] = i /\ h[s \ {i}] \in V
      BY <1>1, <2>1, Extremes
    <3>2. h[s] = step[i][h[s \ {i}]]
      BY <1>4, <2>1, <3>1 DEF IsFold
    <3>3. PICK v \in V : v = h[s \ {i}]
      BY <3>1
    <3>4. step[i][v] = Append(v, Cell(previous, byte, right, Last(v), i))
      BY <3>1
    <3> HIDE DEF step, V, at
    <3> QED  BY <3>1, <3>2, <3>3, <3>4
  <2>2. h[{}] = base
    BY <1>4 DEF IsFold
  <2>3. h = [s \in SUBSET (1..m) |-> h[s]]
    OBVIOUS
  <2> HIDE DEF at, D, base
  <2> QED  BY <1>1, <2>1, <2>2, <2>3
<1>6. PICK c : NextRow(previous, byte, right) = c[1..m] /\ Is(c)
  <2> HIDE DEF D, Is
  <2> QED  BY <1>0, <1>1, <1>5, Zenon
<1>7. c[1..0] = base
  <2>1. 1..0 = {} /\ {} \in SUBSET D
    OBVIOUS
  <2> HIDE DEF base, at, D
  <2> QED  BY <1>6, <2>1
<1>8. ASSUME NEW k \in 1..m
      PROVE  c[1..k] = Append(c[1..(k - 1)], Cell(previous, byte, right, Last(c[1..(k - 1)]), k))
  <2>1. Max(1..k) = k /\ (1..k) \ {k} = 1..(k - 1)
    BY Extremes
  <2>2. k \in 1..k /\ \A i \in 1..k : i \in 1..m
    OBVIOUS
  <2>3. 1..k \in SUBSET D /\ at[k] = k
    BY <1>1, <2>2
  <2> HIDE DEF base, at, D
  <2> QED  BY <1>6, <2>1, <2>2, <2>3
<1> DEFINE W == [k \in 0..m |-> {v \in Seq(Nat) : Len(v) = k + 1}]
<1>9. c[1..0] \in W[0]
  BY <1>3, <1>7
<1>10. ASSUME NEW k \in 1..m, c[1..(k - 1)] \in W[k - 1] PROVE c[1..k] \in W[k]
  <2>1. PICK v \in Seq(Nat) : v = c[1..(k - 1)] /\ Len(v) = k
    BY <1>10
  <2>2. v \in V
    BY <2>1
  <2>3. PICK u : u = c[1..k] /\ u = Append(v, Cell(previous, byte, right, Last(v), k)) /\ u \in V
    BY <1>2, <1>8, <2>1, <2>2
  <2>4. Len(u) = k + 1
    BY <2>1, <2>3
  <2> QED  BY <2>3, <2>4
<1>11. c[1..m] \in W[m]
  <2> HIDE DEF W
  <2>1. m \in 0..m
    OBVIOUS
  <2> QED  BY <1>9, <1>10, <2>1, PrefixFold
<1>12. NextRow(previous, byte, right) \in W[m]
  BY <1>6, <1>11
<1> QED  BY <1>12

(* The edit distance of two texts is a number. *)
LEMMA DistanceType ==
    ASSUME NEW n \in Nat, NEW left, DOMAIN left = 1..n,
           NEW m \in Nat, NEW right, DOMAIN right = 1..m, m = Len(right)
    PROVE  Distance(left, right) \in Nat
<1> DEFINE V == {v \in Seq(Nat) : Len(v) = m + 1}
           base == [j \in 1..(Len(right) + 1) |-> j - 1]
           D == DOMAIN left
           Is(iter) == iter = [s \in SUBSET D |-> IF s = {} THEN base
                                   ELSE LET i == Max(s) IN NextRow(iter[s \ {i}], left[i], right)]
           pick == [s \in SUBSET (1..n) |-> Max(s)]
           step == [i \in 1..n |-> [v \in V |-> NextRow(v, left[i], right)]]
<1>1. Distance(left, right) = Last((CHOOSE iter : Is(iter))[D])
  BY Zenon DEF Distance, FoldLeft, MapThenFoldSet
<1>2. base \in V
  <2>1. base \in [1..(m + 1) -> Nat] /\ m + 1 \in Nat
    OBVIOUS
  <2> QED  BY <2>1
<1>3. ASSUME NEW v \in V, NEW i \in 1..n PROVE NextRow(v, left[i], right) \in V
  BY NextRowType
<1>4. PICK h \in [SUBSET (1..n) -> V] : IsFold(h, 1..n, pick, base, step)
  <2>1. \A s \in SUBSET (1..n) : s # {} => pick[s] \in s
    BY Extremes
  <2>2. \A i \in 1..n : step[i] \in [V -> V]
    BY <1>3
  <2>3. IsFiniteSet(1..n)
    BY Extremes
  <2> HIDE DEF V, base, pick, step
  <2>4. Foldable(1..n, V, pick, base, step)
    BY <1>2, <2>1, <2>2, <2>3 DEF Foldable
  <2> QED  BY <2>4, FoldExists
<1>5. Is(h)
  <2>1. ASSUME NEW s \in SUBSET (1..n), s # {}, NEW i, i = Max(s)
        PROVE  h[s] = NextRow(h[s \ {i}], left[i], right)
    <3>1. i \in 1..n /\ i = pick[s] /\ h[s \ {i}] \in V
      BY <2>1, Extremes
    <3>2. h[s] = step[i][h[s \ {i}]]
      BY <1>4, <2>1, <3>1 DEF IsFold
    <3>3. PICK v \in V : v = h[s \ {i}]
      BY <3>1
    <3>4. step[i][v] = NextRow(v, left[i], right)
      BY <3>1
    <3> HIDE DEF step, V
    <3> QED  BY <3>1, <3>2, <3>3, <3>4
  <2>2. h[{}] = base
    BY <1>4 DEF IsFold
  <2>3. h = [s \in SUBSET (1..n) |-> h[s]]
    OBVIOUS
  <2> HIDE DEF base
  <2> QED  BY <2>1, <2>2, <2>3
<1>6. PICK c : Distance(left, right) = Last(c[1..n]) /\ Is(c)
  <2>1. D = 1..n
    OBVIOUS
  <2> HIDE DEF D, Is
  <2> QED  BY <1>1, <1>5, <2>1, Zenon
<1> DEFINE W == [k \in 0..n |-> V]
<1>7. c[1..0] \in W[0]
  <2>1. 1..0 = {} /\ {} \in SUBSET D /\ W[0] = V
    OBVIOUS
  <2> HIDE DEF base, V, W
  <2> QED  BY <1>2, <1>6, <2>1
<1>8. ASSUME NEW k \in 1..n, c[1..(k - 1)] \in W[k - 1] PROVE c[1..k] \in W[k]
  <2>1. Max(1..k) = k /\ (1..k) \ {k} = 1..(k - 1)
    BY Extremes
  <2>2. k \in 1..k /\ \A i \in 1..k : i \in 1..n
    OBVIOUS
  <2>3. W[k - 1] = V /\ W[k] = V
    OBVIOUS
  <2> HIDE DEF base, V, W
  <2>4. c[1..k] = NextRow(c[1..(k - 1)], left[k], right)
    BY <1>6, <2>1, <2>2
  <2> QED  BY <1>3, <1>8, <2>3, <2>4
<1>9. c[1..n] \in V
  <2>1. n \in 0..n /\ W[n] = V
    OBVIOUS
  <2> HIDE DEF W, V
  <2> QED  BY <1>7, <1>8, <2>1, PrefixFold
<1> QED  BY <1>6, <1>9 DEF Last

(***************************************************************************)
(* What the parsers make of lines                                             *)
(***************************************************************************)
(* The first m of the sequences in q, joined up to each of them *)
Joins(g, q, m) == \A i \in 1..m : g[i] = IF i = 1 THEN q[i] ELSE g[i - 1] \o q[i]

Joinable(q, m, S) == \E g \in [1..m -> Seq(S)] : Joins(g, q, m)

(* Of the sequences of a sequence there are such joins, by what is joined with more *)
(* and more of them.                                                           *)
LEMMA JoinsExist ==
    ASSUME NEW S, NEW q \in Seq(Seq(S)), NEW n \in Nat, n = Len(q)
    PROVE  Joinable(q, n, S)
<1> DEFINE bad == {m \in 0..n : ~Joinable(q, m, S)}
<1>1. \A i \in 1..n : q[i] \in Seq(S)
  OBVIOUS
<1> SUFFICES ASSUME bad # {} PROVE FALSE
  OBVIOUS
<1>2. PICK m \in Nat : m \in 0..n /\ ~Joinable(q, m, S) /\ \A k \in bad : m <= k
  <2>1. bad \in SUBSET Nat
    OBVIOUS
  <2>2. Least(bad) \in bad /\ \A k \in bad : Least(bad) <= k
    BY <2>1, LeastOf
  <2> QED  BY <2>1, <2>2
<1>3. CASE m = 0
  <2>1. [i \in 1..m |-> q[i]] \in [1..m -> Seq(S)]
    BY <1>1, <1>2, <1>3
  <2>2. Joins([i \in 1..m |-> q[i]], q, m)
    BY <1>3 DEF Joins
  <2> QED  BY <1>2, <2>1, <2>2 DEF Joinable
<1>4. CASE m # 0
  <2>1. m - 1 \in 0..n /\ m - 1 \notin bad
    BY <1>2, <1>4
  <2>2. PICK g \in [1..(m - 1) -> Seq(S)] : Joins(g, q, m - 1)
    BY <2>1 DEF Joinable
  <2>3. PICK last \in Seq(S) : last = IF m = 1 THEN q[1] ELSE g[m - 1] \o q[m]
    <3>1. q[m] \in Seq(S)
      BY <1>1, <1>2, <1>4
    <3>2. CASE m = 1
      BY <3>1, <3>2
    <3>3. CASE m # 1
      <4>1. g[m - 1] \in Seq(S)
        BY <1>2, <1>4, <2>2, <3>3
      <4>2. g[m - 1] \o q[m] \in Seq(S)
        BY <3>1, <4>1
      <4> QED  BY <3>3, <4>2
    <3> QED  BY <3>2, <3>3
  <2>4. PICK h \in [1..m -> Seq(S)] : \A i \in 1..m : h[i] = IF i = m THEN last ELSE g[i]
    <3>1. \A i \in 1..m : (IF i = m THEN last ELSE g[i]) \in Seq(S)
      BY <1>2, <2>2, <2>3
    <3>2. [i \in 1..m |-> IF i = m THEN last ELSE g[i]] \in [1..m -> Seq(S)]
      BY <3>1
    <3> QED  BY <3>2
  <2>5. ASSUME NEW i \in 1..m PROVE h[i] = IF i = 1 THEN q[i] ELSE h[i - 1] \o q[i]
    <3>1. CASE i = m
      <4>1. h[i] = last
        BY <2>4, <3>1
      <4>2. m # 1 => m - 1 \in 1..m /\ h[m - 1] = g[m - 1]
        BY <1>2, <1>4, <2>4
      <4> QED  BY <2>3, <3>1, <4>1, <4>2
    <3>2. CASE i # m
      <4>1. i \in 1..(m - 1) /\ h[i] = g[i] /\ (i # 1 => i - 1 \in 1..m /\ i - 1 # m /\ h[i - 1] = g[i - 1])
        BY <1>2, <2>4, <3>2
      <4> QED  BY <2>2, <4>1 DEF Joins
    <3> QED  BY <3>1, <3>2
  <2> QED  BY <1>2, <2>5 DEF Joins, Joinable
<1> QED  BY <1>3, <1>4

(* The sequences that are joined are joined to a sequence.                     *)
LEMMA FlattenType ==
    ASSUME NEW S, NEW q \in Seq(Seq(S))
    PROVE  FlattenSeq(q) \in Seq(S)
<1>1. PICK n \in Nat : n = Len(q)
  OBVIOUS
<1>2. \A i \in 1..n : q[i] \in Seq(S)
  BY <1>1
<1>3. CASE n = 0
  <2>1. q = <<>>
    BY <1>1, <1>3, EmptySeq
  <2>2. FlattenSeq(q) = q
    BY <1>1, <1>3, Zenon DEF FlattenSeq
  <2>3. <<>> \in Seq(S)
    OBVIOUS
  <2> QED  BY <2>1, <2>2, <2>3
<1>4. CASE n # 0
  <2> DEFINE flatten == CHOOSE f : f = [i \in 1..n |-> IF i = 1 THEN q[i] ELSE f[i - 1] \o q[i]]
  <2>1. FlattenSeq(q) = flatten[n]
    BY <1>1, <1>4, Zenon DEF FlattenSeq
  <2>2. PICK g \in [1..n -> Seq(S)] : Joins(g, q, n)
    BY <1>1, JoinsExist DEF Joinable
  <2>3. g = [i \in 1..n |-> IF i = 1 THEN q[i] ELSE g[i - 1] \o q[i]]
    BY <2>2 DEF Joins
  <2>4. flatten = [i \in 1..n |-> IF i = 1 THEN q[i] ELSE flatten[i - 1] \o q[i]]
    BY <2>3, Zenon
  <2> HIDE DEF flatten
  <2>5. \A i \in 1..n : flatten[i] = IF i = 1 THEN q[i] ELSE flatten[i - 1] \o q[i]
    BY <2>4
  <2> DEFINE wrong == {i \in 1..n : flatten[i] \notin Seq(S)}
  <2>6. wrong = {}
    <3> SUFFICES ASSUME wrong # {} PROVE FALSE
      OBVIOUS
    <3>1. PICK i \in Nat : i \in 1..n /\ flatten[i] \notin Seq(S) /\ \A k \in wrong : i <= k
      <4>1. wrong \in SUBSET Nat
        OBVIOUS
      <4>2. Least(wrong) \in wrong /\ \A k \in wrong : Least(wrong) <= k
        BY <4>1, LeastOf
      <4> QED  BY <4>1, <4>2
    <3>2. CASE i = 1
      BY <1>2, <2>5, <3>1, <3>2
    <3>3. CASE i # 1
      <4>1. i - 1 \in 1..n /\ i - 1 \notin wrong
        BY <3>1, <3>3
      <4>2. flatten[i - 1] \in Seq(S) /\ q[i] \in Seq(S)
        BY <1>2, <3>1, <4>1
      <4>3. flatten[i - 1] \o q[i] \in Seq(S)
        BY <4>2
      <4> QED  BY <2>5, <3>1, <3>3, <4>3
    <3> QED  BY <3>2, <3>3
  <2>7. \A i \in 1..n : flatten[i] \in Seq(S)
    BY <2>6
  <2>8. n \in 1..n
    BY <1>4
  <2> QED  BY <2>1, <2>7, <2>8
<1> QED  BY <1>3, <1>4

(* Where a run of neighbours ends *)
RunEnd(P, i) == CHOOSE j \in P : j >= i /\ i..j \subseteq P /\ j + 1 \notin P

(* Runs of neighbours begin and end at positions.                              *)
LEMMA RunsType ==
    ASSUME NEW m \in Nat, NEW P \in SUBSET (1..m)
    PROVE  RunsOf(P) \in Seq([first : 1..m, last : 1..m])
<1> DEFINE S == {i \in P : i - 1 \notin P}
           starts == InOrder(S)
<1>1. S \in SUBSET P /\ S \in SUBSET (1..m) /\ S \in SUBSET Int
  <2>1. \A i \in S : i \in P /\ i \in 1..m /\ i \in Int
    OBVIOUS
  <2> HIDE DEF S
  <2> QED  BY <2>1
<1>2. IsFiniteSet(S)
  <2>1. IsFiniteSet(1..m)
    BY FS_Interval
  <2> HIDE DEF S
  <2> QED  BY <1>1, <2>1, FS_Subset
<1>3. RunsOf(P) = [n \in DOMAIN starts |-> [first |-> starts[n], last |-> RunEnd(P, starts[n])]]
  BY DEF RunsOf, RunEnd
<1>4. ASSUME NEW i \in P PROVE RunEnd(P, i) \in P
  <2> DEFINE later == {j \in i..m : j + 1 \notin P}
  <2>1. later \in SUBSET Nat /\ m \in later
    OBVIOUS
  <2>2. Least(later) \in later /\ \A k \in later : Least(later) <= k
    BY <2>1, LeastOf
  <2>3. PICK j \in i..m : j + 1 \notin P /\ \A k \in later : j <= k
    BY <2>2
  <2>4. ASSUME NEW k \in i..j, k \notin P PROVE FALSE
    <3>1. k - 1 \in i..m /\ (k - 1) + 1 = k
      BY <2>3, <2>4
    <3>2. k - 1 \in later
      BY <2>4, <3>1
    <3> QED  BY <2>3, <2>4, <3>2
  <2>5. i..j \subseteq P /\ j \in P /\ j >= i
    BY <2>3, <2>4
  <2> QED  BY <2>3, <2>5, SMTT(30) DEF RunEnd
<1>5. starts \in Seq(S)
  <2> HIDE DEF S
  <2> QED  BY <1>1, <1>2, NumbersInOrder
<1> HIDE DEF starts, S
<1>6. PICK k \in Nat : DOMAIN starts = 1..k /\ \A n \in 1..k : starts[n] \in P
  <2>1. Len(starts) \in Nat /\ DOMAIN starts = 1..Len(starts) /\ \A n \in 1..Len(starts) : starts[n] \in S
    BY <1>5
  <2> QED  BY <1>1, <2>1
<1>7. \A n \in 1..k : [first |-> starts[n], last |-> RunEnd(P, starts[n])] \in [first : 1..m, last : 1..m]
  <2> SUFFICES ASSUME NEW n \in 1..k
               PROVE  [first |-> starts[n], last |-> RunEnd(P, starts[n])] \in [first : 1..m, last : 1..m]
    OBVIOUS
  <2>1. starts[n] \in P /\ RunEnd(P, starts[n]) \in P
    BY <1>4, <1>6
  <2> QED  BY <2>1
<1> QED  BY <1>3, <1>6, <1>7

(* Some segments with texts *)
Texts(segs) == \E n \in Nat : DOMAIN segs = 1..n /\ \A i \in 1..n : segs[i].text \in Seq(Byte)

(* A text is a sequence of bytes. *)
LEMMA TextType ==
    ASSUME NEW segs, Texts(segs), NEW n \in DOMAIN segs
    PROVE  segs[n].text \in Seq(Byte) /\ \E m \in Nat : m = Len(segs[n].text)
BY LenProperties DEF Texts

(* The lines of a cue's text are joined to a text. *)
LEMMA JoinedType ==
    ASSUME NEW lines \in Seq(SrtLine) PROVE Joined(lines) \in Seq(Byte)
<1> DEFINE part(i) == (IF i = 1 THEN <<>> ELSE <<Newline>>) \o BytesOf(lines[i])
<1>1. ASSUME NEW i \in DOMAIN lines PROVE part(i) \in Seq(Byte)
  <2>1. lines[i] \in SrtLine
    OBVIOUS
  <2>2. lines[i].kind = "text" => lines[i].text \in Seq(Byte)
    BY <2>1 DEF SrtLine, Blank
  <2>3. <<0>> \in Seq(Byte) /\ <<Newline>> \in Seq(Byte) /\ <<>> \in Seq(Byte)
    BY DEF Byte, Newline
  <2>4. BytesOf(lines[i]) \in Seq(Byte)
    BY <2>2, <2>3 DEF BytesOf
  <2>5. (IF i = 1 THEN <<>> ELSE <<Newline>>) \in Seq(Byte)
    BY <2>3
  <2> QED  BY <2>4, <2>5, ConcatProperties
<1>2. Joined(lines) = FlattenSeq([i \in DOMAIN lines |-> part(i)])
  BY DEF Joined
<1> HIDE DEF part
<1>3. PICK n \in Nat : DOMAIN lines = 1..n
  BY LenProperties
<1>4. [i \in DOMAIN lines |-> part(i)] \in Seq(Seq(Byte))
  BY <1>1, <1>3
<1> QED  BY <1>2, <1>4, FlattenType

(* What a transcript file is parsed to has texts. *)
LEMMA SegmentsType ==
    ASSUME NEW lines \in Seq(SrtLine) PROVE Texts(ParseSrt(lines))
<1> DEFINE P == {i \in DOMAIN lines : lines[i] # Blank}
           runs == RunsOf(P)
           blocks == Blocks(lines)
<1>1. PICK m \in Nat : m = Len(lines) /\ DOMAIN lines = 1..m /\ \A i \in 1..m : lines[i] \in SrtLine
  BY LenProperties
<1>2. P \in SUBSET (1..m)
  BY <1>1
<1>3. blocks = [n \in DOMAIN runs |-> SubSeq(lines, runs[n].first, runs[n].last)]
  BY DEF Blocks
<1>4. ParseSrt(lines) = [n \in DOMAIN blocks |-> SegmentOf(blocks[n])]
  BY DEF ParseSrt
<1> HIDE DEF P
<1>5. runs \in Seq([first : 1..m, last : 1..m])
  BY <1>2, RunsType
<1> HIDE DEF runs, blocks
<1>6. PICK k \in Nat : DOMAIN runs = 1..k /\ \A n \in 1..k : runs[n] \in [first : 1..m, last : 1..m]
  <2> DEFINE R == [first : 1..m, last : 1..m]
  <2>1. runs \in Seq(R)
    BY <1>5
  <2> HIDE DEF R
  <2>2. Len(runs) \in Nat /\ DOMAIN runs = 1..Len(runs) /\ \A n \in 1..Len(runs) : runs[n] \in R
    BY <2>1
  <2> QED  BY <2>2 DEF R
<1>7. ASSUME NEW n \in 1..k PROVE SegmentOf(blocks[n]).text \in Seq(Byte)
  <2>1. PICK block : block = blocks[n]
    OBVIOUS
  <2>2. PICK a \in 1..m, b \in 1..m : block = SubSeq(lines, a, b)
    BY <1>3, <1>6, <2>1
  <2>3. \A i \in a..b : lines[i] \in SrtLine
    BY <1>1
  <2>4. block \in Seq(SrtLine)
    BY <2>2, <2>3, SubSeqProperties
  <2>5. \A i \in 3..Len(block) : block[i] \in SrtLine
    BY <2>4
  <2>6. Len(block) \in Int
    BY <2>4, LenProperties
  <2>7. SubSeq(block, 3, Len(block)) \in Seq(SrtLine)
    BY <2>5, <2>6, SubSeqProperties
  <2>8. SegmentOf(block).text = Joined(SubSeq(block, 3, Len(block)))
    BY DEF SegmentOf
  <2> QED  BY <2>1, <2>7, <2>8, JoinedType
<1>8. DOMAIN blocks = 1..k
  BY <1>3, <1>6
<1> QED  BY <1>4, <1>7, <1>8 DEF Texts

(* Of a line of the terms file, the values under a prefix *)
LEMMA ValuesType ==
    ASSUME NEW T, NEW forms \in Seq([prefix : T, value : Seq(Byte)]), NEW prefix
    PROVE  ValuesOf(forms, prefix) \in Seq(Seq(Byte))
<1> DEFINE S == {f \in DOMAIN forms : forms[f].prefix = prefix}
           at == InOrder(S)
<1>1. PICK m \in Nat : DOMAIN forms = 1..m /\ \A f \in 1..m : forms[f] \in [prefix : T, value : Seq(Byte)]
  <2> DEFINE R == [prefix : T, value : Seq(Byte)]
  <2>1. forms \in Seq(R)
    OBVIOUS
  <2> HIDE DEF R
  <2>2. Len(forms) \in Nat /\ DOMAIN forms = 1..Len(forms) /\ \A n \in 1..Len(forms) : forms[n] \in R
    BY <2>1
  <2> QED  BY <2>2 DEF R
<1>2. S \in SUBSET (1..m)
  BY <1>1
<1>3. ValuesOf(forms, prefix) = [i \in DOMAIN at |-> forms[at[i]].value]
  BY DEF ValuesOf
<1> HIDE DEF S
<1>4. IsFiniteSet(S) /\ S \in SUBSET Int
  <2>1. IsFiniteSet(1..m)
    BY FS_Interval
  <2>2. IsFiniteSet(S)
    BY <1>2, <2>1, FS_Subset
  <2>3. \A i \in S : i \in Int
    BY <1>2
  <2> QED  BY <2>2, <2>3
<1>5. at \in Seq(S)
  BY <1>4, NumbersInOrder
<1> HIDE DEF at
<1>6. PICK k \in Nat : DOMAIN at = 1..k /\ \A i \in 1..k : at[i] \in S
  BY <1>5, LenProperties
<1>7. \A i \in 1..k : forms[at[i]].value \in Seq(Byte)
  BY <1>1, <1>2, <1>6
<1> QED  BY <1>3, <1>6, <1>7

(* What a terms file is parsed to are entries. *)
LEMMA EntriesType ==
    ASSUME NEW lines \in Seq(TermLine) PROVE ParseTerms(lines) \in Seq(Entry)
<1> DEFINE S == {l \in DOMAIN lines : lines[l].content}
           filled == InOrder(S)
<1>1. PICK m \in Nat : DOMAIN lines = 1..m /\ \A l \in 1..m : lines[l] \in TermLine
  BY LenProperties
<1>2. S \in SUBSET (1..m)
  BY <1>1
<1>3. ParseTerms(lines) = [i \in DOMAIN filled |-> EntryOf(lines[filled[i]])]
  BY DEF ParseTerms
<1> HIDE DEF S
<1>4. IsFiniteSet(S) /\ S \in SUBSET Int
  <2>1. IsFiniteSet(1..m)
    BY FS_Interval
  <2>2. IsFiniteSet(S)
    BY <1>2, <2>1, FS_Subset
  <2>3. \A i \in S : i \in Int
    BY <1>2
  <2> QED  BY <2>2, <2>3
<1>5. filled \in Seq(S)
  BY <1>4, NumbersInOrder
<1> HIDE DEF filled
<1>6. PICK k \in Nat : DOMAIN filled = 1..k /\ \A i \in 1..k : filled[i] \in S
  BY <1>5, LenProperties
<1>7. ASSUME NEW i \in 1..k PROVE EntryOf(lines[filled[i]]) \in Entry
  <2>1. lines[filled[i]] \in TermLine
    BY <1>1, <1>2, <1>6
  <2>2. PICK line \in TermLine : line = lines[filled[i]]
    BY <2>1
  <2>3. line.canonical \in Seq(Byte) /\ line.forms \in Seq([prefix : Prefix, value : Seq(Byte)])
    BY DEF TermLine
  <2>4. ValuesOf(line.forms, "alias") \in Seq(Seq(Byte)) /\ ValuesOf(line.forms, "error") \in Seq(Seq(Byte))
    BY <2>3, ValuesType
  <2> QED  BY <2>2, <2>3, <2>4 DEF EntryOf, Entry
<1> QED  BY <1>3, <1>6, <1>7

(***************************************************************************)
(* What the detectors find                                                   *)
(***************************************************************************)
(* What is kept of some places, from left to right, when what is kept may not reach *)
(* into what is kept before it                                                *)
Free(found, start, len) == \A earlier \in found : earlier < start => earlier + len <= start
Keeps(found, all, len) == \A start \in all : start \in found <=> Free(found, start, len)
LeftOf(all, m) == {x \in all : x < m}
CanKeep(all, len, m) == \E found \in SUBSET LeftOf(all, m) : Keeps(found, LeftOf(all, m), len)

(* Such a choice can be made, by what is kept of more and more of the places.          *)
LEMMA KeptOf ==
    ASSUME NEW all \in SUBSET Nat, NEW len \in Nat, NEW n \in Nat
    PROVE  CanKeep(all, len, n)
<1> DEFINE bad == {m \in 0..n : ~CanKeep(all, len, m)}
<1> SUFFICES ASSUME bad # {} PROVE FALSE
  OBVIOUS
<1>1. PICK m \in Nat : m \in 0..n /\ ~CanKeep(all, len, m) /\ \A k \in bad : m <= k
  <2>1. bad \in SUBSET Nat
    OBVIOUS
  <2>2. Least(bad) \in bad /\ \A k \in bad : Least(bad) <= k
    BY <2>1, LeastOf
  <2> QED  BY <2>1, <2>2
<1>2. CASE m = 0
  <2>1. LeftOf(all, m) = {}
    <3>1. \A x \in all : ~(x < m)
      BY <1>2
    <3> QED  BY <3>1 DEF LeftOf
  <2>2. {} \in SUBSET LeftOf(all, m) /\ Keeps({}, LeftOf(all, m), len)
    BY <2>1 DEF Keeps
  <2> QED  BY <1>1, <2>2, Zenon DEF CanKeep
<1>3. CASE m # 0
  <2>1. m - 1 \in 0..n /\ m - 1 \notin bad
    BY <1>1, <1>3
  <2>2. PICK found \in SUBSET LeftOf(all, m - 1) : Keeps(found, LeftOf(all, m - 1), len)
    BY <2>1 DEF CanKeep
  <2>3. \A x : x \in LeftOf(all, m) <=> x \in LeftOf(all, m - 1) \/ (x \in all /\ x = m - 1)
    <3>1. \A x, k : x \in LeftOf(all, k) <=> x \in all /\ x < k
      BY DEF LeftOf
    <3> SUFFICES ASSUME NEW x
                 PROVE  x \in LeftOf(all, m) <=> x \in LeftOf(all, m - 1) \/ (x \in all /\ x = m - 1)
      OBVIOUS
    <3>2. x \in all => (x < m <=> x < m - 1 \/ x = m - 1)
      BY <1>1, <1>3
    <3> QED  BY <3>1, <3>2
  <2>5. ASSUME NEW x \in LeftOf(all, m - 1) PROVE x \in Nat /\ x < m - 1 /\ x \in LeftOf(all, m)
    <3>1. x \in all /\ x < m - 1
      BY DEF LeftOf
    <3>2. x \in Nat /\ x < m
      BY <1>1, <3>1
    <3> QED  BY <3>1, <3>2 DEF LeftOf
  <2>4. \A x \in found : x \in Nat /\ x < m - 1 /\ x \in LeftOf(all, m)
    BY <2>5
  <2>6. CASE m - 1 \in all /\ Free(found, m - 1, len)
    <3>1. PICK more : more = found \cup {m - 1}
      OBVIOUS
    <3>2. more \in SUBSET LeftOf(all, m)
      BY <2>3, <2>4, <2>6, <3>1
    <3>3. ASSUME NEW x \in LeftOf(all, m) PROVE Free(more, x, len) <=> Free(found, x, len)
      <4>1. x <= m - 1 /\ x \in Nat
        BY <1>1, <1>3, <2>3, <2>5
      <4> QED  BY <1>1, <1>3, <3>1, <4>1 DEF Free
    <3>4. ASSUME NEW x \in LeftOf(all, m) PROVE x \in more <=> Free(more, x, len)
      <4>1. CASE x = m - 1
        BY <2>6, <3>1, <3>3, <4>1
      <4>2. CASE x # m - 1
        <5>1. x \in LeftOf(all, m - 1)
          BY <2>3, <4>2
        <5> QED  BY <2>2, <3>1, <3>3, <4>2, <5>1 DEF Keeps
      <4> QED  BY <4>1, <4>2
    <3> QED  BY <1>1, <3>2, <3>4 DEF CanKeep, Keeps
  <2>7. CASE ~(m - 1 \in all /\ Free(found, m - 1, len))
    <3>1. found \in SUBSET LeftOf(all, m)
      BY <2>4
    <3>2. ASSUME NEW x \in LeftOf(all, m) PROVE x \in found <=> Free(found, x, len)
      <4>1. CASE x = m - 1
        <5>1. x \in all /\ x \notin found
          BY <2>4, <4>1 DEF LeftOf
        <5> QED  BY <2>7, <4>1, <5>1
      <4>2. CASE x # m - 1
        <5>1. x \in LeftOf(all, m - 1)
          BY <2>3, <4>2
        <5> QED  BY <2>2, <5>1 DEF Keeps
      <4> QED  BY <4>1, <4>2
    <3> QED  BY <1>1, <3>1, <3>2 DEF CanKeep, Keeps
  <2> QED  BY <2>6, <2>7
<1> QED  BY <1>2, <1>3

(* A form is found where it occurs. *)
LEMMA MatchesType ==
    ASSUME NEW text \in Seq(Byte), NEW form \in Seq(Byte), NEW start \in MatchStarts(text, form)
    PROVE  start \in Nat /\ start + Len(form) <= Len(text) /\ Occurs(text, form, start)
<1>1. PICK all : all = {at \in 0..(Len(text) - Len(form)) : Occurs(text, form, at)}
  OBVIOUS
<1>2. Len(text) \in Nat /\ Len(form) \in Nat
  BY LenProperties
<1>3. \A at \in all : at \in Nat /\ at + Len(form) <= Len(text) /\ Occurs(text, form, at)
  BY <1>1, <1>2
<1>4. MatchStarts(text, form) = CHOOSE found \in SUBSET all : \A at \in all :
            at \in found <=> \A earlier \in found : earlier < at => earlier + Len(form) <= at
  BY <1>1, Zenon DEF MatchStarts
<1>5. \E found \in SUBSET all : \A at \in all :
            at \in found <=> \A earlier \in found : earlier < at => earlier + Len(form) <= at
  <2>1. all \in SUBSET Nat
    BY <1>3
  <2>2. PICK n \in Nat : n = Len(text) + 1
    BY <1>2
  <2>3. CanKeep(all, Len(form), n)
    BY <1>2, <2>1, KeptOf
  <2>4. LeftOf(all, n) = all
    <3>1. \A x \in all : x < n
      BY <1>2, <1>3, <2>2
    <3> QED  BY <3>1 DEF LeftOf
  <2> QED  BY <2>3, <2>4, Zenon DEF CanKeep, Keeps, Free
<1>6. MatchStarts(text, form) \in SUBSET all
  BY <1>4, <1>5, Zenon
<1> QED  BY <1>3, <1>6

(* Words lie in their text. *)
LEMMA WordsType ==
    ASSUME NEW text \in Seq(Byte), NEW m \in Nat, m = Len(text)
    PROVE  \A n \in DOMAIN Words(text) : Words(text)[n].start \in 0..(m - 1) /\ Words(text)[n].end \in 1..m
<1> DEFINE P == {i \in DOMAIN text : text[i] \in Letter}
           runs == RunsOf(P)
<1>1. P \in SUBSET (1..m)
  BY LenProperties
<1>2. Words(text) = [n \in DOMAIN runs |-> [start |-> runs[n].first - 1, end |-> runs[n].last]]
  BY DEF Words, Runs
<1> HIDE DEF P
<1>3. runs \in Seq([first : 1..m, last : 1..m])
  BY <1>1, RunsType
<1> HIDE DEF runs
<1>4. \A n \in DOMAIN runs : runs[n] \in [first : 1..m, last : 1..m]
  <2> DEFINE R == [first : 1..m, last : 1..m]
  <2>1. runs \in Seq(R)
    BY <1>3
  <2> HIDE DEF R
  <2>2. \A n \in DOMAIN runs : runs[n] \in R
    BY <2>1
  <2> QED  BY <2>2 DEF R
<1>5. ASSUME NEW n \in DOMAIN Words(text)
      PROVE  Words(text)[n].start \in 0..(m - 1) /\ Words(text)[n].end \in 1..m
  <2>1. n \in DOMAIN runs /\ Words(text)[n] = [start |-> runs[n].first - 1, end |-> runs[n].last]
    BY <1>2
  <2>2. runs[n].first \in 1..m /\ runs[n].last \in 1..m
    BY <1>4, <2>1
  <2> QED  BY <2>1, <2>2
<1> QED  BY <1>5

(* A window is a range of its text. *)
LEMMA WindowsType ==
    ASSUME NEW text \in Seq(Byte), NEW w \in Windows(text)
    PROVE  w.start \in Nat /\ w.end \in Nat /\ w.start < w.end /\ w.end <= Len(text)
<1>1. PICK m \in Nat : m = Len(text)
  BY LenProperties
<1>2. \A v \in Range(Words(text)) : v.start \in 0..(m - 1) /\ v.end \in 1..m
  BY <1>1, WordsType DEF Range
<1> DEFINE pairs == {[start |-> from.start, end |-> to.end] : from, to \in Range(Words(text))}
<1>3. Windows(text) = {v \in pairs : v.start < v.end /\ IsStructural(Slice(text, v.start, v.end))}
  BY DEF Windows
<1>4. w \in pairs /\ w.start < w.end
  <2> HIDE DEF pairs
  <2> QED  BY <1>3
<1>5. PICK from \in Range(Words(text)), to \in Range(Words(text)) :
          w = [start |-> from.start, end |-> to.end]
  BY <1>4
<1> QED  BY <1>1, <1>2, <1>4, <1>5

(* A span lies in a segment's text. *)
Placed(c, segs) ==
    /\ c.segment \in DOMAIN segs
    /\ c.start \in Nat /\ c.end \in Nat /\ c.start < c.end /\ c.end <= Len(segs[c.segment].text)

(* Source forms are not empty, and each is one form of one entry. *)
FormsDiffer(ents) ==
    \A detector \in {Glossary, Observed} : \A d, e \in Range(ents) :
        \A f \in Range(FormsOf(detector, d)) :
            f # <<>> /\ (f \in Range(FormsOf(detector, e)) => d = e)

(* An entry's aliases and errors are among its source forms. *)
LEMMA FormsAreSources ==
    ASSUME NEW e \in Entry, NEW detector \in {Glossary, Observed}, NEW f \in Range(FormsOf(detector, e))
    PROVE  \E j \in DOMAIN SourceForms(e) : SourceForms(e)[j] = f
<1>1. PICK a \in Seq(Seq(Byte)), b \in Seq(Seq(Byte)) : a = e.aliases /\ b = e.errors
  BY DEF Entry
<1>2. /\ Len(a) \in Nat /\ Len(b) \in Nat /\ Len(a \o b) = Len(a) + Len(b)
      /\ DOMAIN a = 1..Len(a) /\ DOMAIN b = 1..Len(b) /\ DOMAIN (a \o b) = 1..(Len(a) + Len(b))
      /\ \A k \in 1..(Len(a) + Len(b)) : (a \o b)[k] = IF k <= Len(a) THEN a[k] ELSE b[k - Len(a)]
  BY ConcatProperties
<1>3. SourceForms(e) = a \o b
  BY <1>1 DEF SourceForms
<1>4. f \in Range(a) \/ f \in Range(b)
  BY <1>1 DEF FormsOf
<1>5. CASE f \in Range(a)
  <2>1. PICK k \in 1..Len(a) : a[k] = f
    BY <1>2, <1>5 DEF Range
  <2>2. k \in 1..(Len(a) + Len(b)) /\ (a \o b)[k] = f
    BY <1>2, <2>1
  <2> QED  BY <1>2, <1>3, <2>2
<1>6. CASE f \in Range(b)
  <2>1. PICK k \in 1..Len(b) : b[k] = f
    BY <1>2, <1>6 DEF Range
  <2>2. Len(a) + k \in 1..(Len(a) + Len(b)) /\ (a \o b)[Len(a) + k] = f
    <3>1. PICK j \in Nat : j = Len(a) + k
      BY <1>2, <2>1
    <3>2. j \in 1..(Len(a) + Len(b)) /\ ~(j <= Len(a)) /\ j - Len(a) = k
      BY <1>2, <2>1, <3>1
    <3> QED  BY <1>2, <2>1, <3>1, <3>2
  <2> QED  BY <1>2, <1>3, <2>2
<1> QED  BY <1>4, <1>5, <1>6

(* The detectors run only on such entries. *)
LEMMA DetectedForms ==
    ASSUME NEW segs, NEW ents \in Seq(Entry),
           DetectionError(RunFor(segs, ents), segs, ents) = None
    PROVE  FormsDiffer(ents)
<1>1. ~EmptyForm(ents) /\ ~SharedForm(ents)
  <2>1. /\ "revision-mismatch" # None /\ "session-terms-identity-mismatch" # None
        /\ "configuration-mismatch" # None /\ "duplicate-canonical-term" # None
        /\ "empty-form" # None /\ "duplicate-source-form" # None
    BY NoErrorAssumption DEF DetectionErrors
  <2> QED  BY <2>1, Zenon DEF DetectionError
<1> SUFFICES ASSUME NEW detector \in {Glossary, Observed}, NEW d \in Range(ents), NEW e \in Range(ents),
                    NEW f \in Range(FormsOf(detector, d))
             PROVE  f # <<>> /\ (f \in Range(FormsOf(detector, e)) => d = e)
  BY DEF FormsDiffer
<1>2. PICK i \in DOMAIN ents, k \in DOMAIN ents : d = ents[i] /\ e = ents[k]
  BY DEF Range
<1>3. d \in Entry /\ e \in Entry
  BY <1>2
<1>4. PICK j \in DOMAIN SourceForms(d) : SourceForms(d)[j] = f
  BY <1>3, FormsAreSources
<1>5. f # <<>>
  BY <1>1, <1>4 DEF EmptyForm, Range
<1>6. ASSUME f \in Range(FormsOf(detector, e)) PROVE d = e
  <2>1. PICK l \in DOMAIN SourceForms(e) : SourceForms(e)[l] = f
    BY <1>3, <1>6, FormsAreSources
  <2>2. ~(<<i, j>> # <<k, l>>)
    BY <1>1, <1>2, <1>4, <2>1 DEF SharedForm
  <2> QED  BY <1>2, <2>2
<1> QED  BY <1>5, <1>6

(* What a detector of exact matches raises *)
Exact(c, segs, ents, detector) ==
    \E n \in DOMAIN segs, entry \in Range(ents) :
        \E form \in Range(FormsOf(detector, entry)) :
            \E start \in MatchStarts(segs[n].text, form) :
                c = Span(n, start, start + Len(form), detector, entry.canonical)

(* They raise nothing else. *)
LEMMA ExactSpan ==
    ASSUME NEW segs, NEW ents, NEW detector, NEW c \in ExactSpans(segs, ents, detector)
    PROVE  Exact(c, segs, ents, detector)
BY DEF ExactSpans, Exact

(* What the phonetic detector raises *)
NearOwners(segs, n, w, targets) == SingleOwner(Owners(Tokens(Slice(segs[n].text, w.start, w.end)), targets))
Similar(c, segs, targets) ==
    \E n \in DOMAIN segs : \E w \in Windows(segs[n].text) :
        \E owner \in NearOwners(segs, n, w, targets) : c = Span(n, w.start, w.end, Phonetic, owner)

(* It raises nothing else. *)
LEMMA NearSpan ==
    ASSUME NEW segs, NEW targets, NEW c \in SpansNear(targets, segs)
    PROVE  Similar(c, segs, targets)
BY DEF SpansNear, Similar, NearOwners

(* A target's owner is a canonical term. *)
LEMMA TargetOwners ==
    ASSUME NEW ents, NEW t \in TargetsOf(ents)
    PROVE  \E e \in Range(ents) : t.owner = e.canonical
<1> DEFINE named == UNION {{<<e.canonical, 0, e.canonical>>}
                            \cup {<<a, 1, e.canonical>> : a \in Range(e.aliases)}
                            : e \in Range(ents)}
           ours == {f \in named : IsStructural(f[1])}
<1>1. TargetsOf(ents) = FirstOfEach({Target(f[1], f[2], f[3], Tokens(f[1])) : f \in ours})
  BY DEF TargetsOf
<1>2. \A f \in named : \E e \in Range(ents) : f[3] = e.canonical
  OBVIOUS
<1> HIDE DEF named
<1>3. PICK f \in ours : t = Target(f[1], f[2], f[3], Tokens(f[1]))
  BY <1>1 DEF FirstOfEach
<1>4. t.owner = f[3]
  BY <1>3 DEF Target
<1> QED  BY <1>2, <1>3, <1>4

(* A sequence has finitely many elements. *)
LEMMA RangeIsFinite ==
    ASSUME NEW s, NEW n \in Nat, DOMAIN s = 1..n
    PROVE  IsFiniteSet(Range(s))
<1>1. [i \in 1..n |-> s[i]] \in Surjection(1..n, Range(s))
  <2>1. \A i \in 1..n : s[i] \in Range(s)
    BY DEF Range
  <2>2. \A t \in Range(s) : \E i \in 1..n : s[i] = t
    BY DEF Range
  <2> QED  BY <2>1, <2>2 DEF Surjection
<1> QED  BY <1>1, FS_Interval, FS_Surjection

(* Whom a window is near is one of finitely many. *)
LEMMA OwnersAreFinite ==
    ASSUME NEW ents \in Seq(Entry), NEW tokens
    PROVE  IsFiniteSet(Owners(tokens, TargetsOf(ents)))
<1> DEFINE terms == [i \in DOMAIN ents |-> ents[i].canonical]
<1>1. IsFiniteSet(Range(terms))
  <2>1. PICK n \in Nat : DOMAIN ents = 1..n
    OBVIOUS
  <2>2. DOMAIN terms = 1..n
    BY <2>1
  <2> HIDE DEF terms
  <2> QED  BY <2>2, RangeIsFinite
<1>2. \A e \in Range(ents) : e.canonical \in Range(terms)
  BY DEF Range
<1> HIDE DEF terms
<1>3. ASSUME NEW o \in Owners(tokens, TargetsOf(ents)) PROVE o \in Range(terms)
  <2>1. PICK t \in TargetsOf(ents) : o = t.owner
    BY DEF Owners
  <2> QED  BY <1>2, <2>1, TargetOwners
<1>4. Owners(tokens, TargetsOf(ents)) \in SUBSET Range(terms)
  BY <1>3
<1> QED  BY <1>1, <1>4, FS_Subset

(* A window has one owner at most. *)
LEMMA OneOwner ==
    ASSUME NEW ents \in Seq(Entry), NEW segs, NEW n, NEW w,
           NEW o \in NearOwners(segs, n, w, TargetsOf(ents)), NEW p \in NearOwners(segs, n, w, TargetsOf(ents))
    PROVE  o = p /\ o \in Seq(Byte)
<1>1. PICK owners : owners = Owners(Tokens(Slice(segs[n].text, w.start, w.end)), TargetsOf(ents))
  OBVIOUS
<1>2. IsFiniteSet(owners)
  BY <1>1, OwnersAreFinite
<1>3. o \in owners /\ p \in owners /\ Cardinality(owners) = 1
  BY <1>1 DEF NearOwners, SingleOwner
<1>4. o = p
  BY <1>2, <1>3, FS_Singleton
<1>5. PICK t \in TargetsOf(ents) : o = t.owner
  BY <1>1, <1>3 DEF Owners
<1>6. PICK e \in Range(ents) : o = e.canonical
  BY <1>5, TargetOwners
<1>7. e \in Entry
  BY DEF Range
<1> QED  BY <1>4, <1>6, <1>7 DEF Entry

(* What is detected are places in a text, with a term each. *)
Detected(c, segs) ==
    Placed(c, segs) /\ c.detector \in 1..3 /\ c.replacement \in Seq(Byte)

(* Where a form is found, the text is that form. *)
LEMMA ExactIsPlaced ==
    ASSUME NEW segs, Texts(segs), NEW ents \in Seq(Entry), FormsDiffer(ents),
           NEW detector \in {Glossary, Observed}, NEW c, Exact(c, segs, ents, detector)
    PROVE  /\ Detected(c, segs)
           /\ \E entry \in Range(ents) :
                  /\ Slice(segs[c.segment].text, c.start, c.end) \in Range(FormsOf(detector, entry))
                  /\ c = Span(c.segment, c.start, c.end, detector, entry.canonical)
<1>15. PICK n \in DOMAIN segs, entry \in Range(ents) :
        \E form \in Range(FormsOf(detector, entry)) :
            \E start \in MatchStarts(segs[n].text, form) :
                c = Span(n, start, start + Len(form), detector, entry.canonical)
  BY DEF Exact
<1>16. PICK form \in Range(FormsOf(detector, entry)) :
        \E start \in MatchStarts(segs[n].text, form) :
            c = Span(n, start, start + Len(form), detector, entry.canonical)
  BY <1>15
<1>1. PICK start \in MatchStarts(segs[n].text, form) :
        c = Span(n, start, start + Len(form), detector, entry.canonical)
  BY <1>16
<1>2. entry \in Entry
  BY DEF Range
<1>3. form \in Seq(Byte) /\ entry.canonical \in Seq(Byte)
  <2>1. entry.aliases \in Seq(Seq(Byte)) /\ entry.errors \in Seq(Seq(Byte)) /\ entry.canonical \in Seq(Byte)
    BY <1>2 DEF Entry
  <2>2. PICK s \in Seq(Seq(Byte)) : s = FormsOf(detector, entry)
    BY <2>1 DEF FormsOf
  <2> QED  BY <2>1, <2>2 DEF Range
<1>4. form # <<>>
  BY DEF FormsDiffer
<1>5. segs[n].text \in Seq(Byte)
  BY DEF Texts
<1>6. start \in Nat /\ start + Len(form) <= Len(segs[n].text) /\ Occurs(segs[n].text, form, start)
  BY <1>3, <1>5, MatchesType
<1>7. Len(form) \in Nat /\ Len(form) > 0
  BY <1>3, <1>4, EmptySeq, LenProperties
<1>8. PICK end \in Nat : end = start + Len(form)
  BY <1>6, <1>7
<1>9. /\ c.segment = n /\ c.start = start /\ c.end = end /\ c.detector = detector
      /\ c.replacement = entry.canonical
  BY <1>1, <1>8 DEF Span
<1>10. Slice(segs[n].text, start, end) = form
  BY <1>6, <1>8 DEF Occurs
<1>11. start < end /\ end <= Len(segs[n].text)
  BY <1>6, <1>7, <1>8
<1>12. detector \in 1..3
  BY DEF Glossary, Observed
<1>13. Detected(c, segs)
  BY <1>3, <1>6, <1>8, <1>9, <1>11, <1>12 DEF Detected, Placed
<1>14. c = Span(c.segment, c.start, c.end, detector, entry.canonical)
  BY <1>1, <1>8, <1>9
<1> QED  BY <1>9, <1>10, <1>13, <1>14

(* A phonetic span is a window with its one owner. *)
LEMMA NearIsPlaced ==
    ASSUME NEW segs, Texts(segs), NEW ents \in Seq(Entry), NEW c, Similar(c, segs, TargetsOf(ents))
    PROVE  /\ Detected(c, segs)
           /\ \E w, owner : /\ w = [start |-> c.start, end |-> c.end]
                            /\ owner \in NearOwners(segs, c.segment, w, TargetsOf(ents))
                            /\ c = Span(c.segment, c.start, c.end, Phonetic, owner)
<1>1. PICK n \in DOMAIN segs : \E w \in Windows(segs[n].text) :
        \E owner \in NearOwners(segs, n, w, TargetsOf(ents)) : c = Span(n, w.start, w.end, Phonetic, owner)
  BY DEF Similar
<1>2. PICK w \in Windows(segs[n].text) :
        \E owner \in NearOwners(segs, n, w, TargetsOf(ents)) : c = Span(n, w.start, w.end, Phonetic, owner)
  BY <1>1
<1>3. PICK owner \in NearOwners(segs, n, w, TargetsOf(ents)) : c = Span(n, w.start, w.end, Phonetic, owner)
  BY <1>2
<1>4. segs[n].text \in Seq(Byte)
  BY DEF Texts
<1>5. w.start \in Nat /\ w.end \in Nat /\ w.start < w.end /\ w.end <= Len(segs[n].text)
  BY <1>4, WindowsType
<1>6. owner \in Seq(Byte)
  BY OneOwner
<1>7. /\ c.segment = n /\ c.start = w.start /\ c.end = w.end /\ c.detector = Phonetic
      /\ c.replacement = owner
  BY <1>3 DEF Span
<1>8. w = [start |-> w.start, end |-> w.end]
  <2> DEFINE pairs == {[start |-> from.start, end |-> to.end] : from, to \in Range(Words(segs[n].text))}
  <2>1. Windows(segs[n].text)
            = {v \in pairs : v.start < v.end /\ IsStructural(Slice(segs[n].text, v.start, v.end))}
    BY DEF Windows
  <2>2. w \in pairs
    <3> HIDE DEF pairs
    <3> QED  BY <2>1
  <2> QED  BY <2>2
<1>9. Detected(c, segs)
  BY <1>5, <1>6, <1>7 DEF Detected, Placed, Phonetic
<1> QED  BY <1>3, <1>7, <1>8, <1>9

(* What is detected, and that a place and a detector name one span               *)
LEMMA SpansDetected ==
    ASSUME NEW segs, Texts(segs), NEW ents \in Seq(Entry),
           DetectionError(RunFor(segs, ents), segs, ents) = None
    PROVE  /\ \A c \in CanonicalSpans(segs, ents) : Detected(c, segs)
           /\ \A c, d \in CanonicalSpans(segs, ents) : SpanKey(c) = SpanKey(d) => c = d
<1>1. FormsDiffer(ents)
  BY DetectedForms
<1>2. ASSUME NEW c \in CanonicalSpans(segs, ents)
      PROVE  \/ Exact(c, segs, ents, Glossary) \/ Exact(c, segs, ents, Observed)
             \/ Similar(c, segs, TargetsOf(ents))
  BY ExactSpan, NearSpan DEF CanonicalSpans, PhoneticSpans
<1>3. ASSUME NEW c \in CanonicalSpans(segs, ents) PROVE Detected(c, segs)
  BY <1>1, <1>2, ExactIsPlaced, NearIsPlaced
<1>4. ASSUME NEW c \in CanonicalSpans(segs, ents), NEW d \in CanonicalSpans(segs, ents),
             SpanKey(c) = SpanKey(d)
      PROVE  c = d
  <2>1. c.segment = d.segment /\ c.start = d.start /\ c.end = d.end /\ c.detector = d.detector
    BY <1>4 DEF SpanKey
  <2>2. \A x, detector : Exact(x, segs, ents, detector) => x.detector = detector
    BY DEF Exact, Span
  <2>3. \A x : Similar(x, segs, TargetsOf(ents)) => x.detector = Phonetic
    BY DEF Similar, Span
  <2>4. ASSUME NEW detector \in {Glossary, Observed}, Exact(c, segs, ents, detector), Exact(d, segs, ents, detector)
        PROVE  c = d
    <3>1. PICK e \in Range(ents) :
              /\ Slice(segs[c.segment].text, c.start, c.end) \in Range(FormsOf(detector, e))
              /\ c = Span(c.segment, c.start, c.end, detector, e.canonical)
      BY <1>1, <2>4, ExactIsPlaced
    <3>2. PICK f \in Range(ents) :
              /\ Slice(segs[d.segment].text, d.start, d.end) \in Range(FormsOf(detector, f))
              /\ d = Span(d.segment, d.start, d.end, detector, f.canonical)
      BY <1>1, <2>4, ExactIsPlaced
    <3>3. e = f
      BY <1>1, <2>1, <3>1, <3>2 DEF FormsDiffer
    <3> QED  BY <2>1, <3>1, <3>2, <3>3
  <2>5. ASSUME Similar(c, segs, TargetsOf(ents)), Similar(d, segs, TargetsOf(ents)) PROVE c = d
    <3>1. PICK w, o : /\ w = [start |-> c.start, end |-> c.end]
                      /\ o \in NearOwners(segs, c.segment, w, TargetsOf(ents))
                      /\ c = Span(c.segment, c.start, c.end, Phonetic, o)
      BY <2>5, NearIsPlaced
    <3>2. PICK v, p : /\ v = [start |-> d.start, end |-> d.end]
                      /\ p \in NearOwners(segs, d.segment, v, TargetsOf(ents))
                      /\ d = Span(d.segment, d.start, d.end, Phonetic, p)
      BY <2>5, NearIsPlaced
    <3>3. o = p
      BY <2>1, <3>1, <3>2, OneOwner
    <3> QED  BY <2>1, <3>1, <3>2, <3>3
  <2>6. Glossary # Observed /\ Glossary # Phonetic /\ Observed # Phonetic
    BY DEF Glossary, Observed, Phonetic
  <2> QED  BY <1>2, <2>1, <2>2, <2>3, <2>4, <2>5, <2>6
<1> QED  BY <1>3, <1>4

(***************************************************************************)
(* The cases, in their order                                                  *)
(***************************************************************************)
(* The order of keys is an order of what they are the keys of. *)
LEMMA ListedByKey ==
    ASSUME NEW S, IsFiniteSet(S), NEW key \in [S -> Seq(Int)],
           \A x, y \in S : key[x] = key[y] => x = y,
           NEW before \in [S -> SUBSET S], \A x, y \in S : y \in before[x] <=> LexLess(key[y], key[x]),
           NEW s, s = [i \in 1..Cardinality(S) |-> CHOOSE x \in S : Cardinality(before[x]) = i - 1]
    PROVE  Lists(before, s, S)
<1>1. Orders(before, S)
  <2>1. \A x \in S : x \notin before[x]
    BY LexOrder
  <2>2. ASSUME NEW x \in S, NEW y \in S, x \in before[y], NEW z \in before[x] PROVE z \in before[y]
    <3>1. z \in S
      OBVIOUS
    <3>2. LexLess(key[z], key[x]) /\ LexLess(key[x], key[y])
      BY <2>2, <3>1
    <3>3. key[x] \in Seq(Int) /\ key[y] \in Seq(Int) /\ key[z] \in Seq(Int)
      BY <3>1
    <3>4. LexLess(key[z], key[y])
      BY <3>2, <3>3, LexOrder
    <3> QED  BY <3>1, <3>4
  <2>3. ASSUME NEW x \in S, NEW y \in S, x # y PROVE x \in before[y] \/ y \in before[x]
    <3>1. key[x] \in Seq(Int) /\ key[y] \in Seq(Int) /\ key[x] # key[y]
      BY <2>3
    <3>2. LexLess(key[x], key[y]) \/ LexLess(key[y], key[x])
      BY <3>1, LexOrder
    <3> QED  BY <3>2
  <2> QED  BY <2>1, <2>2, <2>3 DEF Orders
<1>2. ASSUME NEW i \in 1..Cardinality(S), \E x \in S : Cardinality(before[x]) = i - 1
      PROVE  s[i] \in S /\ Cardinality(before[s[i]]) = i - 1
  <2>1. s[i] = CHOOSE x \in S : Cardinality(before[x]) = i - 1
    OBVIOUS
  <2> QED  BY <1>2, <2>1
<1>3. s = [i \in 1..Cardinality(S) |-> s[i]]
  OBVIOUS
<1> QED  BY <1>1, <1>2, <1>3, Ordered DEF PlacedBy

(* The places a span of a segment may be at *)
PlacesIn(segs, n) == ({n} \X (0..Len(segs[n].text))) \X ((0..Len(segs[n].text)) \X (1..3))

(* There are finitely many places. *)
AllPlaces(segs) == UNION {PlacesIn(segs, n) : n \in DOMAIN segs}

LEMMA PlacesAreFinite ==
    ASSUME NEW segs, Texts(segs)
    PROVE  IsFiniteSet(AllPlaces(segs))
<1>1. PICK k \in Nat : DOMAIN segs = 1..k /\ \A n \in 1..k : segs[n].text \in Seq(Byte)
  BY DEF Texts
<1> DEFINE places == [n \in 1..k |-> PlacesIn(segs, n)]
<1>2. IsFiniteSet(Range(places))
  <2>1. DOMAIN places = 1..k
    OBVIOUS
  <2> HIDE DEF places
  <2> QED  BY <2>1, RangeIsFinite
<1>3. ASSUME NEW n \in 1..k PROVE IsFiniteSet(PlacesIn(segs, n))
  <2>1. Len(segs[n].text) \in Nat
    BY <1>1, LenProperties
  <2>2. IsFiniteSet(0..Len(segs[n].text)) /\ IsFiniteSet(1..3) /\ IsFiniteSet({n})
    <3>1. PICK l \in Nat : l = Len(segs[n].text)
      BY <2>1
    <3>2. IsFiniteSet(0..l)
      BY FS_Interval
    <3>3. IsFiniteSet(1..3)
      <4>1. PICK d \in Nat : d = 3
        OBVIOUS
      <4>2. IsFiniteSet(1..d)
        BY FS_Interval
      <4> QED  BY <4>1, <4>2
    <3>4. IsFiniteSet({n})
      BY FS_Singleton, Zenon
    <3> QED  BY <3>1, <3>2, <3>3, <3>4
  <2>3. IsFiniteSet({n} \X (0..Len(segs[n].text))) /\ IsFiniteSet((0..Len(segs[n].text)) \X (1..3))
    BY <2>2, FS_Product
  <2> QED  BY <2>3, FS_Product DEF PlacesIn
<1>4. \A T \in Range(places) : IsFiniteSet(T)
  BY <1>3 DEF Range
<1>5. IsFiniteSet(UNION Range(places))
  BY <1>2, <1>4, FS_UNION
<1>6. AllPlaces(segs) = UNION Range(places)
  BY <1>1 DEF AllPlaces, Range
<1> QED  BY <1>5, <1>6

(* There are finitely many spans. *)
LEMMA SpansAreFinite ==
    ASSUME NEW segs, Texts(segs), NEW S, \A c \in S : Detected(c, segs),
           \A c, d \in S : SpanKey(c) = SpanKey(d) => c = d
    PROVE  IsFiniteSet(S)
<1> DEFINE at == [c \in S |-> <<<<c.segment, c.start>>, <<c.end, c.detector>>>>]
<1>1. ASSUME NEW c \in S PROVE at[c] \in AllPlaces(segs)
  <2>1. /\ c.segment \in DOMAIN segs /\ c.start \in Nat /\ c.end \in Nat /\ c.start < c.end
        /\ c.end <= Len(segs[c.segment].text) /\ c.detector \in 1..3
    BY DEF Detected, Placed
  <2>2. Len(segs[c.segment].text) \in Nat
    BY <2>1, LenProperties DEF Texts
  <2>3. c.start \in 0..Len(segs[c.segment].text) /\ c.end \in 0..Len(segs[c.segment].text)
    BY <2>1, <2>2
  <2>4. at[c] \in PlacesIn(segs, c.segment)
    BY <2>1, <2>3 DEF PlacesIn
  <2> QED  BY <2>1, <2>4 DEF AllPlaces
<1>2. ASSUME NEW c \in S, NEW d \in S, at[c] = at[d] PROVE c = d
  <2>1. SpanKey(c) = SpanKey(d)
    BY <1>2 DEF SpanKey
  <2> QED  BY <2>1
<1>3. at \in Injection(S, AllPlaces(segs))
  <2>1. at \in [S -> AllPlaces(segs)]
    BY <1>1
  <2> HIDE DEF at
  <2> QED  BY <1>2, <2>1 DEF Injection, IsInjective
<1> QED  BY <1>3, PlacesAreFinite, FS_Injection

(* What cases are ordered by *)
FullKey(c) == SpanKey(c) \o c.replacement
SpansBefore(S, x) == {y \in S : LexLess(FullKey(y), FullKey(x))}

(* The key begins with the place and the detector. *)
LEMMA FullKeyType ==
    ASSUME NEW c, c.segment \in Int, c.start \in Int, c.end \in Int, c.detector \in Int,
           c.replacement \in Seq(Byte)
    PROVE  /\ FullKey(c) \in Seq(Int) /\ Len(FullKey(c)) >= 4
           /\ FullKey(c)[1] = c.segment /\ FullKey(c)[2] = c.start
           /\ FullKey(c)[3] = c.end /\ FullKey(c)[4] = c.detector
<1>1. PICK a \in Seq(Int) : a = <<c.segment, c.start, c.end, c.detector>>
  <2>1. <<c.segment, c.start, c.end, c.detector>> \in Seq(Int)
    OBVIOUS
  <2> QED  BY <2>1
<1>2. Len(a) = 4 /\ a[1] = c.segment /\ a[2] = c.start /\ a[3] = c.end /\ a[4] = c.detector
  BY <1>1
<1>3. PICK b \in Seq(Int) : b = c.replacement
  <2>1. \A x \in Byte : x \in Int
    BY DEF Byte
  <2>2. c.replacement \in Seq(Int)
    BY <2>1
  <2> QED  BY <2>2
<1>4. FullKey(c) = a \o b
  BY <1>1, <1>3 DEF FullKey, SpanKey
<1>5. /\ a \o b \in Seq(Int) /\ Len(a \o b) = 4 + Len(b) /\ Len(b) \in Nat
      /\ \A i \in 1..4 : (a \o b)[i] = a[i]
  <2>1. /\ a \o b \in Seq(Int) /\ Len(a \o b) = Len(a) + Len(b)
        /\ \A i \in 1..(Len(a) + Len(b)) : (a \o b)[i] = IF i <= Len(a) THEN a[i] ELSE b[i - Len(a)]
    BY ConcatProperties
  <2>2. Len(b) \in Nat
    OBVIOUS
  <2>3. \A i \in 1..4 : i \in 1..(Len(a) + Len(b)) /\ i <= Len(a)
    BY <1>2, <2>2
  <2> QED  BY <1>2, <2>1, <2>2, <2>3
<1> QED  BY <1>2, <1>4, <1>5

(* The cases are the spans, each once. *)
LEMMA SpansInOrder ==
    ASSUME NEW segs, Texts(segs), NEW S, \A c \in S : Detected(c, segs),
           \A c, d \in S : SpanKey(c) = SpanKey(d) => c = d
    PROVE  /\ InSpanOrder(S) \in Seq(S) /\ DOMAIN InSpanOrder(S) = 1..Len(InSpanOrder(S))
           /\ \A i, j \in DOMAIN InSpanOrder(S) : InSpanOrder(S)[i] = InSpanOrder(S)[j] => i = j
<1> DEFINE key == [c \in S |-> FullKey(c)]
           before == [c \in S |-> SpansBefore(S, c)]
           s == InSpanOrder(S)
<1>1. IsFiniteSet(S)
  BY SpansAreFinite
<1>2. ASSUME NEW c \in S
      PROVE  /\ FullKey(c) \in Seq(Int) /\ FullKey(c)[1] = c.segment /\ FullKey(c)[2] = c.start
             /\ FullKey(c)[3] = c.end /\ FullKey(c)[4] = c.detector
  <2>1. PICK k \in Nat : DOMAIN segs = 1..k
    BY DEF Texts
  <2>2. c.segment \in Int /\ c.start \in Int /\ c.end \in Int /\ c.detector \in Int /\ c.replacement \in Seq(Byte)
    BY <2>1 DEF Detected, Placed
  <2> QED  BY <2>2, FullKeyType
<1>3. key \in [S -> Seq(Int)]
  BY <1>2
<1>4. ASSUME NEW c \in S, NEW d \in S, key[c] = key[d] PROVE c = d
  <2>1. FullKey(c) = FullKey(d)
    BY <1>4
  <2>2. SpanKey(c) = SpanKey(d)
    BY <1>2, <2>1 DEF SpanKey
  <2> QED  BY <2>2
<1>5. before \in [S -> SUBSET S]
  BY DEF SpansBefore
<1>6. \A c, d \in S : d \in before[c] <=> LexLess(key[d], key[c])
  BY DEF SpansBefore
<1>7. s = [i \in 1..Cardinality(S) |-> CHOOSE c \in S : Cardinality(SpansBefore(S, c)) = i - 1]
  BY DEF InSpanOrder, Sorted, SpansBefore, FullKey
<1>8. \A i : (CHOOSE c \in S : Cardinality(SpansBefore(S, c)) = i - 1)
             = CHOOSE c \in S : Cardinality(before[c]) = i - 1
  <2>1. \A c \in S : before[c] = SpansBefore(S, c)
    OBVIOUS
  <2> HIDE DEF before
  <2> QED  BY <2>1
<1> HIDE DEF key, before, s
<1>9. s = [i \in 1..Cardinality(S) |-> CHOOSE c \in S : Cardinality(before[c]) = i - 1]
  BY <1>7, <1>8
<1>10. Lists(before, s, S)
  BY <1>1, <1>3, <1>4, <1>5, <1>6, <1>9, ListedByKey
<1>11. ASSUME NEW i \in DOMAIN s, NEW j \in DOMAIN s, s[i] = s[j] PROVE i = j
  <2>1. i \in Int /\ j \in Int
    BY <1>10 DEF Lists
  <2>2. s[i] \in S /\ s[i] \notin before[s[i]]
    BY <1>3, <1>6, <1>10, LexOrder DEF Lists
  <2>3. ~(i < j) /\ ~(j < i)
    BY <1>10, <1>11, <2>2 DEF Lists
  <2> QED  BY <2>1, <2>3
<1> QED  BY <1>10, <1>11 DEF s, Lists
=============================================================================
