-------------------------- MODULE DriftDetector_proof --------------------------
(***************************************************************************)
(* Lemmas about the statistics of DriftDetector, for all finite samples:   *)
(* two samples with the same shares of every score and every bucket make   *)
(* each of the three statistics zero, whatever their sizes are.            *)
(***************************************************************************)
EXTENDS DriftDetector, FiniteSetTheorems, TLAPS

-------------------------------------------------------------------------------
(* Counting.                                                                *)

\* The members of S with key k.
Class(S, key, k) == {s \in S : key[s] = k}

\* Two finite sets have the same size when each class of the one, by a key, has
\* the size of the class of the other: the bijections of the classes make one.
LEMMA SameSizeByClasses ==
  ASSUME NEW A, NEW B, NEW K, IsFiniteSet(A), IsFiniteSet(B),
         NEW f \in [A -> K], NEW g \in [B -> K],
         \A k \in K : Cardinality(Class(A, f, k)) = Cardinality(Class(B, g, k))
  PROVE  Cardinality(A) = Cardinality(B)
<1> DEFINE
      InA(k) == Class(A, f, k)
      InB(k) == Class(B, g, k)
      h == [k \in K |-> CHOOSE e \in Bijection(InA(k), InB(k)) : TRUE]
      glued == [a \in A |-> h[f[a]][a]]
<1>1. \A k \in K : h[k] \in Bijection(InA(k), InB(k))
  <2> SUFFICES ASSUME NEW k \in K PROVE Bijection(InA(k), InB(k)) # {}
    OBVIOUS
  <2>1. IsFiniteSet(InA(k)) /\ IsFiniteSet(InB(k))
    BY FS_Subset DEF Class
  <2>2. ExistsBijection(InA(k), InB(k))
    BY <2>1, FS_SameCardinalityBij
  <2> QED
    BY <2>2 DEF ExistsBijection
<1>2. \A k \in K : /\ \A a \in InA(k) : h[k][a] \in InB(k)
                   /\ \A a, b \in InA(k) : h[k][a] = h[k][b] => a = b
                   /\ \A b \in InB(k) : \E a \in InA(k) : h[k][a] = b
  <2> HIDE DEF h, InA, InB
  <2> TAKE k \in K
  <2> DEFINE e == h[k]
  <2>1. e \in Bijection(InA(k), InB(k))
    BY <1>1
  <2>2. e \in [InA(k) -> InB(k)] /\ IsInjective(e)
        /\ \A b \in InB(k) : \E a \in InA(k) : e[a] = b
    BY <2>1 DEF Bijection, Injection, Surjection
  <2> HIDE DEF e
  <2>3. \A a, b \in InA(k) : e[a] = e[b] => a = b
    BY <2>2 DEF IsInjective
  <2> QED
    BY <2>2, <2>3 DEF e
<1> HIDE DEF h
<1>3. \A a \in A : glued[a] \in B /\ g[glued[a]] = f[a]
  BY <1>2 DEF Class
<1>4. \A a, b \in A : glued[a] = glued[b] => a = b
  <2> SUFFICES ASSUME NEW a \in A, NEW b \in A, glued[a] = glued[b] PROVE a = b
    OBVIOUS
  <2>1. f[a] = f[b]
    BY <1>3
  <2> QED
    BY <1>2, <2>1 DEF Class
<1>5. \A b \in B : \E a \in A : glued[a] = b
  <2> TAKE b \in B
  <2>1. g[b] \in K /\ b \in InB(g[b])
    BY DEF Class
  <2> HIDE DEF InA, InB
  <2>2. PICK a \in InA(g[b]) : h[g[b]][a] = b
    BY <1>2, <2>1
  <2>3. a \in A /\ f[a] = g[b]
    BY DEF InA, Class
  <2> QED
    BY <2>2, <2>3
<1>6. glued \in Bijection(A, B)
  BY <1>3, <1>4, <1>5 DEF Bijection, Injection, Surjection, IsInjective
<1> QED
  BY <1>6, FS_Bijection DEF ExistsBijection

\* Numbers of rows are natural numbers, none of a sample's part exceeds it, and
\* only the empty sample has none.
LEMMA Counts ==
  ASSUME NEW S, IsFiniteSet(S), NEW T \in SUBSET S
  PROVE  /\ IsFiniteSet(T) /\ Cardinality(T) \in Nat /\ Cardinality(S) \in Nat
         /\ Cardinality(T) <= Cardinality(S)
         /\ Cardinality(T) = 0 <=> T = {}
         /\ Cardinality(S \ T) = Cardinality(S) - Cardinality(T)
<1>1. IsFiniteSet(T) /\ Cardinality(T) <= Cardinality(S)
  BY FS_Subset
<1>2. Cardinality(S) \in Nat /\ Cardinality(T) \in Nat
  BY <1>1, FS_CardinalityType
<1>3. Cardinality(T) = 0 <=> T = {}
  BY <1>1, FS_EmptySet
<1>4. S \cap T = T
  OBVIOUS
<1>5. Cardinality(S \ T) = Cardinality(S) - Cardinality(T)
  BY <1>4, FS_Difference
<1> QED
  BY <1>1, <1>2, <1>3, <1>5

-------------------------------------------------------------------------------
(* Shares.                                                                  *)

\* The rows of a sample with one score.
AtScore(S, x) == {r \in S : ScoreOf[r] = x}

\* A part of the scores has the same share of two samples when each score has.
LEMMA SharesAddUp ==
  ASSUME NEW ref \in SUBSET Reference, NEW rec \in SUBSET Predictions,
         IsFiniteSet(ref), IsFiniteSet(rec),
         \A x \in ScoresIn(ref \cup rec) : SameShare(AtScore(ref, x), ref, AtScore(rec, x), rec),
         NEW x \in Int
  PROVE  SameShare(Below(ref, x), ref, Below(rec, x), rec)
<1> DEFINE
      A == Below(ref, x) \X rec
      B == Below(rec, x) \X ref
      K == ScoresIn(ref \cup rec)
      f == [a \in A |-> ScoreOf[a[1]]]
      g == [b \in B |-> ScoreOf[b[1]]]
<1>1. \A r \in ref \cup rec : ScoreOf[r] \in Int
  BY DriftAssumption
<1>2. Below(ref, x) \subseteq ref /\ Below(rec, x) \subseteq rec
  BY DEF Below
<1>3. IsFiniteSet(Below(ref, x)) /\ IsFiniteSet(Below(rec, x))
  BY <1>2, FS_Subset
<1>4. /\ IsFiniteSet(A) /\ Cardinality(A) = Cardinality(Below(ref, x)) * Cardinality(rec)
      /\ IsFiniteSet(B) /\ Cardinality(B) = Cardinality(Below(rec, x)) * Cardinality(ref)
  BY <1>3, FS_Product
<1>5. f \in [A -> K] /\ g \in [B -> K]
  BY <1>2 DEF ScoresIn
<1>6. \A k \in K : Cardinality(Class(A, f, k)) = Cardinality(Class(B, g, k))
  <2> TAKE k \in K
  <2>1. k \in Int
    BY <1>1 DEF ScoresIn
  <2>2. CASE k < x
    <3>1. Class(A, f, k) = AtScore(ref, k) \X rec
      BY <1>1, <1>2, <2>2 DEF AtScore, Below, Class
    <3>2. Class(B, g, k) = AtScore(rec, k) \X ref
      BY <1>1, <1>2, <2>2 DEF AtScore, Below, Class
    <3>3. IsFiniteSet(AtScore(ref, k)) /\ IsFiniteSet(AtScore(rec, k))
      BY FS_Subset DEF AtScore
    <3>4. /\ Cardinality(AtScore(ref, k) \X rec) = Cardinality(AtScore(ref, k)) * Cardinality(rec)
          /\ Cardinality(AtScore(rec, k) \X ref) = Cardinality(AtScore(rec, k)) * Cardinality(ref)
      BY <3>3, FS_Product
    <3> QED
      BY <3>1, <3>2, <3>4 DEF SameShare
  <2>3. CASE ~(k < x)
    <3>1. Class(A, f, k) = {} /\ Class(B, g, k) = {}
      BY <1>1, <2>3 DEF Below, Class
    <3> QED
      BY <3>1
  <2> QED
    BY <2>2, <2>3
<1> HIDE DEF A, B, K, f, g
<1>7. Cardinality(A) = Cardinality(B)
  <2>1. IsFiniteSet(A) /\ IsFiniteSet(B) /\ f \in [A -> K] /\ g \in [B -> K]
    BY <1>4, <1>5
  <2> QED
    BY ONLY <2>1, <1>6, SameSizeByClasses
<1> QED
  BY <1>4, <1>7 DEF SameShare

\* Shares stay the same when rows of which both samples have the same share are
\* left out of both.
LEMMA SharesOfTheRest ==
  ASSUME NEW r \in Nat, NEW c \in Nat, c > 0,  \* the sizes of two samples
         NEW n \in Nat, NEW m \in Nat, n * c = m * r,  \* what is left out of them
         NEW a \in Nat, NEW b \in Nat, a * c = b * r   \* a class of each
  PROVE  a * (c - m) = b * (r - n)
<1>1. (a * m) * c = (b * n) * c
  <2>1. (a * m) * c = (a * c) * m
    OBVIOUS
  <2>2. (a * c) * m = (b * r) * m
    OBVIOUS
  <2>3. (b * r) * m = b * (m * r)
    OBVIOUS
  <2>4. b * (m * r) = b * (n * c)
    OBVIOUS
  <2>5. b * (n * c) = (b * n) * c
    OBVIOUS
  <2> QED
    BY <2>1, <2>2, <2>3, <2>4, <2>5
<1>2. a * m = b * n
  <2>1. \A i, j \in Int : i * c = j * c => i = j
    OBVIOUS
  <2>2. a * m \in Int /\ b * n \in Int
    OBVIOUS
  <2> QED
    BY <1>1, <2>1, <2>2
<1>3. a * (c - m) = a * c - a * m /\ b * (r - n) = b * r - b * n
  OBVIOUS
<1> QED
  BY <1>2, <1>3

-------------------------------------------------------------------------------
(* The statistics of samples with the same distribution.                    *)

LEMMA ScoresAgree ==
  ASSUME NEW ref \in SUBSET Reference, NEW rec \in SUBSET Predictions,
         IsFiniteSet(ref), IsFiniteSet(rec), SameDistribution(ref, rec)
  PROVE  \A x \in ScoresIn(ref \cup rec) : SameShare(Below(ref, x), ref, Below(rec, x), rec)
<1>1. \A x \in ScoresIn(ref \cup rec) : SameShare(AtScore(ref, x), ref, AtScore(rec, x), rec)
  BY DEF SameDistribution, AtScore
<1>2. ScoresIn(ref \cup rec) \subseteq Int
  BY DriftAssumption DEF ScoresIn
<1> QED
  BY <1>1, <1>2, SharesAddUp

LEMMA BucketsAgree ==
  ASSUME NEW ref, NEW rec, IsFiniteSet(ref), IsFiniteSet(rec), ref # {}, rec # {},
         SameDistribution(ref, rec)
  PROVE  ~ JsNonZero(ref, rec)
<1> DEFINE
      r == Cardinality(ref)
      c == Cardinality(rec)
      n == Cardinality(InBucket(ref, NoHash))
      m == Cardinality(InBucket(rec, NoHash))
      hashed(S) == S \ InBucket(S, NoHash)
<1>1. \A S, b : InBucket(S, b) \in SUBSET S
  BY DEF InBucket
<1>2. /\ r \in Nat /\ c \in Nat /\ r > 0 /\ c > 0
      /\ n \in Nat /\ m \in Nat /\ n <= r /\ m <= c
  <2>1. n \in Nat /\ r \in Nat /\ n <= r
    BY <1>1, Counts
  <2>2. m \in Nat /\ c \in Nat /\ m <= c
    BY <1>1, Counts
  <2>3. r # 0 /\ c # 0
    BY FS_EmptySet
  <2> QED
    BY <2>1, <2>2, <2>3
<1>3. Cardinality(hashed(ref)) = r - n /\ Cardinality(hashed(rec)) = c - m
  BY <1>1, Counts
<1>4. \A b \in {BucketOf[e] : e \in ref \cup rec} :
        Cardinality(InBucket(ref, b)) * c = Cardinality(InBucket(rec, b)) * r
  BY DEF SameDistribution, SameShare
<1>5. n * c = m * r
  <2>1. CASE NoHash \in {BucketOf[e] : e \in ref \cup rec}
    BY <1>4, <2>1
  <2>2. CASE NoHash \notin {BucketOf[e] : e \in ref \cup rec}
    <3>1. InBucket(ref, NoHash) = {} /\ InBucket(rec, NoHash) = {}
      BY <2>2 DEF InBucket
    <3>2. n = 0 /\ m = 0
      BY <3>1, FS_EmptySet
    <3> QED
      BY <3>2, <1>2
  <2> QED
    BY <2>1, <2>2
<1> HIDE DEF r, c, n, m
<1>6. (hashed(ref) = {}) <=> (hashed(rec) = {})
  <2>1. (hashed(ref) = {} <=> r - n = 0) /\ (hashed(rec) = {} <=> c - m = 0)
    <3>1. IsFiniteSet(hashed(ref)) /\ IsFiniteSet(hashed(rec))
      BY FS_Difference
    <3> QED
      BY <1>3, <3>1, FS_EmptySet
  <2>2. r * (c - m) = c * (r - n)
    <3>1. r * (c - m) = r * c - m * r /\ c * (r - n) = r * c - n * c
      BY <1>2
    <3> QED
      BY <1>5, <3>1
  <2>3. r - n = 0 <=> c - m = 0
    <3>1. \A i, j \in Nat : i > 0 /\ i * j = 0 => j = 0
      OBVIOUS
    <3>2. r - n \in Nat /\ c - m \in Nat
      BY <1>2
    <3>3. r - n = 0 => r * (c - m) = 0
      BY <1>2, <2>2
    <3>4. c - m = 0 => c * (r - n) = 0
      BY <1>2, <2>2
    <3> QED
      BY <1>2, <3>1, <3>2, <3>3, <3>4
  <2> QED
    BY <2>1, <2>3
<1>7. \A b \in {BucketOf[e] : e \in hashed(ref) \cup hashed(rec)} :
        SameShare(InBucket(ref, b), hashed(ref), InBucket(rec, b), hashed(rec))
  <2> TAKE b \in {BucketOf[e] : e \in hashed(ref) \cup hashed(rec)}
  <2>1. Cardinality(InBucket(ref, b)) \in Nat /\ Cardinality(InBucket(rec, b)) \in Nat
    BY <1>1, Counts
  <2>2. Cardinality(InBucket(ref, b)) * c = Cardinality(InBucket(rec, b)) * r
    BY <1>4
  <2>3. Cardinality(InBucket(ref, b)) * (c - m) = Cardinality(InBucket(rec, b)) * (r - n)
    <3> DEFINE
          i == Cardinality(InBucket(ref, b))
          j == Cardinality(InBucket(rec, b))
    <3> HIDE DEF i, j
    <3>1. i \in Nat /\ j \in Nat /\ i * c = j * r
      BY <2>1, <2>2 DEF i, j
    <3>2. r \in Nat /\ c \in Nat /\ c > 0 /\ n \in Nat /\ m \in Nat
      BY <1>2
    <3>3. i * (c - m) = j * (r - n)
      BY ONLY <1>5, <3>1, <3>2, SharesOfTheRest
    <3> QED
      BY <3>3 DEF i, j
  <2> QED
    BY <1>3, <2>3 DEF SameShare
<1> QED
  BY <1>6, <1>7 DEF JsNonZero

\* Each statistic is zero on two samples with the same shares of every score and
\* every bucket, however many rows they have: PSI's bins between quantiles, the
\* distribution functions of KS and the shares of JS's buckets, rows without a
\* hash left out, are all sums of those shares (psi.py, ks.py, js.py). What fires
\* is what the thresholds make fire at zero: PSI with a threshold of 0, which it
\* has only to meet (runner.py:87), and nothing when no threshold is met by zero.
THEOREM SameDistributionIsSilent ==
  ASSUME NEW ref \in SUBSET Reference, NEW rec \in SUBSET Predictions,
         IsFiniteSet(ref), IsFiniteSet(rec), ref # {}, rec # {},
         SameDistribution(ref, rec)
  PROVE  /\ \A d \in Detectors : ~ NonZero(d, ref, rec)
         /\ DOMAIN Firings(ref, rec) = {d \in Detectors : FoundAtZero[d] # "none"}
         /\ \A d \in DOMAIN Firings(ref, rec) : Firings(ref, rec)[d] = FoundAtZero[d]
<1>1. ~ PsiNonZero(ref, rec)
  BY ScoresAgree DEF PsiNonZero, Edges
<1>2. ~ KsNonZero(ref, rec)
  BY ScoresAgree DEF KsNonZero
<1>3. ~ JsNonZero(ref, rec)
  BY BucketsAgree
<1>4. \A d \in Detectors : ~ NonZero(d, ref, rec)
  BY <1>1, <1>2, <1>3 DEF NonZero, Detectors
<1>5. \A d \in Detectors : Outcome(d, ref, rec) = FoundAtZero[d]
  BY <1>4 DEF Outcome
<1> QED
  BY <1>4, <1>5 DEF Firings
===============================================================================
