------------------------- MODULE DSASharedPoolProofs -------------------------
(***************************************************************************)
(* Proofs about DSASharedPool for every layout and every capacity.          *)
(***************************************************************************)
EXTENDS DSASharedPool, FiniteSetTheorems, WellFoundedInduction, TLAPS

-----------------------------------------------------------------------------
(* Order                                                                    *)

\* A nonempty set of naturals has a least element.
LEMMA LeastElement ==
    ASSUME NEW T, T \subseteq Nat, T # {}
    PROVE  \E m \in T : \A k \in T : m <= k
<1>1. PICK m \in T : \A k \in T : ~(<<k, m>> \in OpToRel(<, Nat))
  BY NatLessThanWellFounded, WFMin, Zenon
<1>2. ASSUME NEW k \in T PROVE m <= k
  <2>1. ~(<<k, m>> \in {ss \in Nat \X Nat : ss[1] < ss[2]})
    BY <1>1 DEF OpToRel
  <2>2. k \in Nat /\ m \in Nat
    OBVIOUS
  <2>3. ~(k < m)
    BY <2>1, <2>2
  <2>. QED BY <2>2, <2>3
<1>. QED BY <1>2

\* A nonempty set of naturals with an upper bound has a greatest element.
LEMMA GreatestElement ==
    ASSUME NEW T, T \subseteq Nat, T # {}, NEW c \in Nat, \A k \in T : k <= c
    PROVE  \E m \in T : \A k \in T : k <= m
<1>. DEFINE U == {u \in Nat : \E k \in T : u = c - k}
<1>1. U \subseteq Nat /\ U # {}
  <2>1. PICK k \in T : TRUE
    BY Zenon
  <2>2. c - k \in U
    BY <2>1
  <2>. QED BY <2>2, Zenon
<1>2. PICK u \in U : \A v \in U : u <= v
  BY <1>1, LeastElement, Zenon
<1>3. PICK m \in T : u = c - m
  OBVIOUS
<1>4. \A k \in T : c - m <= c - k
  <2>. TAKE k \in T
  <2>1. c - k \in U
    OBVIOUS
  <2>. QED BY <1>2, <1>3, <2>1
<1>5. \A k \in T : k <= m
  BY <1>4
<1>. QED BY <1>5

-----------------------------------------------------------------------------
(* Arithmetic                                                               *)

\* Dividing by a positive number: what bundle_id_for_block relies on.
LEMMA DivOfRow ==
    ASSUME NEW p \in Nat \ {0}, NEW b \in Nat, NEW i \in 0..(p - 1)
    PROVE  (b * p + i) \div p = b
  BY Z3

\* n blocks that fit in c bundles need at most c bundles.
LEMMA CeilDivBound ==
    ASSUME NEW p \in Nat \ {0}, NEW c \in Nat, NEW n \in Nat, n <= c * p
    PROVE  /\ (n + p - 1) \div p \in Nat
           /\ (n + p - 1) \div p <= c
  BY Z3

\* Multiplication by a bundle size is monotone.
LEMMA MulMono ==
    ASSUME NEW p \in Nat, NEW b \in Nat, NEW c \in Nat, b <= c
    PROVE  b * p <= c * p /\ b * p \in Nat /\ c * p \in Nat
  BY Z3

-----------------------------------------------------------------------------
(* The layout                                                               *)

\* The latent rows of a bundle are rows of the tensor, none is the null row,
\* and bundle_id_for_block finds the bundle again.
LEMMA LatentLayout ==
    ASSUME NEW b \in Bundle, NEW id \in BlocksOf("latent", b)
    PROVE  /\ id \in BlockId("latent") \ {0}
           /\ bundle_id_for_block("latent", id) = b
<1>. USE LayoutAssumption
<1>. DEFINE p == LatentPerBundle
<1>1. PICK i \in 1..p : id = b * p + (i - 1)
  BY DEF BlocksOf, block_ids_for_bundle, blocks_per_bundle
<1>2. b \in Nat /\ 1 <= b /\ b <= CapacityBundles /\ CapacityBundles \in Nat /\ p \in Nat \ {0}
  BY DEF Bundle
<1>. HIDE DEF p
<1>3. i - 1 \in 0..(p - 1)
  BY <1>2
<1>4. id \div p = b
  BY <1>1, <1>2, <1>3, DivOfRow
<1>5. 1 * p <= b * p /\ b * p <= CapacityBundles * p /\ CapacityBundles * p \in Nat /\ b * p \in Nat
  BY <1>2, MulMono
<1>6. (CapacityBundles + 1) * p = CapacityBundles * p + p
  BY <1>2, Z3
<1>7. id \in 0..((CapacityBundles + 1) * p - 1) /\ id # 0
  BY <1>1, <1>2, <1>3, <1>5, <1>6
<1>. QED
  BY <1>4, <1>7 DEF BlockId, row_count, slot_count, blocks_per_bundle, bundle_id_for_block, p

\* The same for the indexer, whose nope and pe rows are two slabs.
LEMMA IndexerLayout ==
    ASSUME NEW b \in Bundle, NEW id \in BlocksOf("indexer", b)
    PROVE  /\ id \in BlockId("indexer") \ {0}
           /\ bundle_id_for_block("indexer", id) = b
<1>. USE LayoutAssumption
<1>. DEFINE N == NopePages
            P == PePages
            C == CapacityBundles
<1>1. PICK i \in 1..(N + P) :
         id = IF i <= N THEN b * N + (i - 1) ELSE (C + 1) * N + b * P + (i - N - 1)
  BY DEF BlocksOf, block_ids_for_bundle, blocks_per_bundle, slot_count
<1>2. /\ b \in Nat /\ 1 <= b /\ b <= C /\ C \in Nat
      /\ N \in Nat \ {0} /\ P \in Nat \ {0}
  BY DEF Bundle
<1>. SUFFICES /\ id \in 0..((C + 1) * (N + P) - 1) /\ id # 0
              /\ IF id < (C + 1) * N THEN id \div N = b
                 ELSE (id - (C + 1) * N) \div P = b
  BY DEF BlockId, row_count, slot_count, blocks_per_bundle, bundle_id_for_block
<1>. HIDE DEF N, P, C
<1>3. /\ 1 * N <= b * N /\ b * N <= C * N /\ C * N \in Nat /\ b * N \in Nat
      /\ 1 * P <= b * P /\ b * P <= C * P /\ C * P \in Nat /\ b * P \in Nat
  BY <1>2, MulMono
<1>4. (C + 1) * N = C * N + N /\ (C + 1) * (N + P) = C * N + N + C * P + P
  BY <1>2, Z3
<1>5. CASE i <= N
  <2>1. i - 1 \in 0..(N - 1) /\ id = b * N + (i - 1)
    BY <1>1, <1>2, <1>5
  <2>2. id \div N = b
    BY <1>2, <2>1, DivOfRow
  <2>3. id < (C + 1) * N /\ id \in Nat /\ id # 0 /\ id < (C + 1) * (N + P)
    BY <1>2, <1>3, <1>4, <2>1
  <2>. QED BY <1>2, <1>3, <1>4, <2>2, <2>3
<1>6. CASE ~(i <= N)
  <2>. DEFINE j == i - N - 1
  <2>1. j \in 0..(P - 1) /\ id = (C + 1) * N + b * P + j
    BY <1>1, <1>2, <1>6
  <2>. HIDE DEF j
  <2>2. (b * P + j) \div P = b
    BY <1>2, <2>1, DivOfRow
  <2>3. id - (C + 1) * N = b * P + j
    BY <1>2, <1>3, <1>4, <2>1
  <2>4. ~(id < (C + 1) * N) /\ id \in Nat /\ id # 0 /\ id < (C + 1) * (N + P)
    BY <1>2, <1>3, <1>4, <2>1
  <2>. QED BY <1>2, <1>3, <1>4, <2>2, <2>3, <2>4
<1>. QED BY <1>5, <1>6

\* Both groups at once.
LEMMA LayoutInverse ==
    ASSUME NEW o \in Owner, NEW b \in Bundle, NEW id \in BlocksOf(o, b)
    PROVE  /\ id \in BlockId(o) \ {0}
           /\ bundle_id_for_block(o, id) = b
  BY LatentLayout, IndexerLayout DEF Owner

\* A bundle has at least one block, and a bundle size is positive.
LEMMA BundleSize ==
    ASSUME NEW o \in Owner
    PROVE  /\ blocks_per_bundle(o) \in Nat \ {0}
           /\ \A b \in Bundle : BlocksOf(o, b) # {}
  BY LayoutAssumption DEF blocks_per_bundle, BlocksOf

-----------------------------------------------------------------------------
(* The free list                                                            *)

\* Ranges that are in order and of which no two overlap or touch.
Separated(fr) ==
    /\ \A r \in fr : r \in Bundle \X Bundle /\ r[1] <= r[2]
    /\ \A r, q \in fr : r = q \/ r[2] + 1 < q[1] \/ q[2] + 1 < r[1]

\* What is free lies in the pool.
LEMMA FreeInPool ==
    ASSUME NEW fr, fr \subseteq Bundle \X Bundle
    PROVE  FreeBundles(fr) \subseteq Bundle
  BY LayoutAssumption DEF FreeBundles, Bundle

\* Separated ranges are the maximal runs of what they hold.
LEMMA SeparatedIsMaximal ==
    ASSUME NEW fr, Separated(fr)
    PROVE  fr = MaximalRuns(FreeBundles(fr))
<1>. DEFINE F == FreeBundles(fr)
<1>1. \A x : x \in F <=> \E q \in fr : x \in q[1]..q[2]
  BY DEF FreeBundles
<1>2. \A r \in fr : /\ r = <<r[1], r[2]>> /\ r[1] \in Nat /\ r[2] \in Nat /\ r[1] <= r[2]
  BY LayoutAssumption DEF Separated, Bundle
<1>3. \A r, q \in fr : r = q \/ r[2] + 1 < q[1] \/ q[2] + 1 < r[1]
  BY DEF Separated
<1>. HIDE DEF F
<1>4. ASSUME NEW r \in fr PROVE r \in MaximalRuns(F)
  <2>1. r[1] \in F /\ r[2] \in F /\ r[1]..r[2] \subseteq F
    BY <1>1, <1>2
  <2>2. r[1] - 1 \notin F
    <3>. SUFFICES ASSUME r[1] - 1 \in F PROVE FALSE
      OBVIOUS
    <3>1. PICK q \in fr : r[1] - 1 \in q[1]..q[2]
      BY <1>1
    <3>. QED BY <1>2, <1>3, <3>1
  <2>3. r[2] + 1 \notin F
    <3>. SUFFICES ASSUME r[2] + 1 \in F PROVE FALSE
      OBVIOUS
    <3>1. PICK q \in fr : r[2] + 1 \in q[1]..q[2]
      BY <1>1
    <3>. QED BY <1>2, <1>3, <3>1
  <2>4. r \in F \X F
    BY <1>2, <2>1
  <2>. QED BY <1>2, <2>1, <2>2, <2>3, <2>4 DEF MaximalRuns
<1>5. ASSUME NEW r \in MaximalRuns(F) PROVE r \in fr
  <2>1. /\ r = <<r[1], r[2]>> /\ r[1] \in F /\ r[2] \in F /\ r[1] <= r[2]
        /\ r[1]..r[2] \subseteq F /\ r[1] - 1 \notin F /\ r[2] + 1 \notin F
    BY DEF MaximalRuns
  <2>2. PICK q \in fr : r[1] \in q[1]..q[2]
    BY <1>1, <2>1
  <2>3. r[1] \in Nat /\ r[2] \in Int
    <3>1. PICK s \in fr : r[2] \in s[1]..s[2]
      BY <1>1, <2>1
    <3>. QED BY <1>2, <2>2, <3>1
  <2>4. \A x \in q[1]..q[2] : x \in F
    BY <1>1
  <2>5. r[1] = q[1]
    <3>. SUFFICES ASSUME q[1] < r[1] PROVE FALSE
      BY <1>2, <2>2
    <3>1. r[1] - 1 \in q[1]..q[2]
      BY <1>2, <2>2
    <3>. QED BY <2>1, <2>4, <3>1
  <2>6. ~(r[2] < q[2])
    <3>. SUFFICES ASSUME r[2] < q[2] PROVE FALSE
      OBVIOUS
    <3>1. r[2] + 1 \in q[1]..q[2]
      BY <1>2, <2>1, <2>2, <2>3
    <3>. QED BY <2>1, <2>4, <3>1
  <2>7. ~(q[2] < r[2])
    <3>. SUFFICES ASSUME q[2] < r[2] PROVE FALSE
      OBVIOUS
    <3>1. q[2] + 1 \in r[1]..r[2]
      BY <1>2, <2>2, <2>3
    <3>2. PICK s \in fr : q[2] + 1 \in s[1]..s[2]
      BY <1>1, <2>1, <3>1
    <3>. QED BY <1>2, <1>3, <3>2
  <2>8. r[2] = q[2]
    BY <1>2, <2>3, <2>6, <2>7
  <2>9. r = q
    BY <1>2, <2>1, <2>5, <2>8
  <2>. QED BY <2>9
<1>6. fr = MaximalRuns(F)
  BY <1>4, <1>5
<1>. QED BY <1>6 DEF F

\* Maximal runs are separated.
LEMMA MaximalIsSeparated ==
    ASSUME NEW S, S \subseteq Bundle
    PROVE  Separated(MaximalRuns(S))
<1>1. ASSUME NEW r \in MaximalRuns(S)
      PROVE  /\ r \in Bundle \X Bundle /\ r[1] <= r[2]
             /\ r = <<r[1], r[2]>> /\ r[1] \in Nat /\ r[2] \in Nat
             /\ \A x \in r[1]..r[2] : x \in S
             /\ r[1] \in S /\ r[2] \in S /\ r[1] - 1 \notin S /\ r[2] + 1 \notin S
  <2>1. /\ r \in S \X S /\ r[1] <= r[2] /\ r[1]..r[2] \subseteq S
        /\ r[1] - 1 \notin S /\ r[2] + 1 \notin S
    BY DEF MaximalRuns
  <2>2. r = <<r[1], r[2]>> /\ r[1] \in S /\ r[2] \in S
    BY <2>1
  <2>3. r[1] \in Bundle /\ r[2] \in Bundle
    BY <2>2
  <2>4. r[1] \in Nat /\ r[2] \in Nat
    BY <2>3, LayoutAssumption DEF Bundle
  <2>. QED BY <2>1, <2>2, <2>3, <2>4
<1>2. ASSUME NEW r \in MaximalRuns(S), NEW q \in MaximalRuns(S)
      PROVE  r = q \/ r[2] + 1 < q[1] \/ q[2] + 1 < r[1]
  <2>. SUFFICES ASSUME ~(r[2] + 1 < q[1]), ~(q[2] + 1 < r[1]) PROVE r = q
    OBVIOUS
  <2>0. /\ r[1] \in Nat /\ r[2] \in Nat /\ r[1] <= r[2]
        /\ q[1] \in Nat /\ q[2] \in Nat /\ q[1] <= q[2]
    BY <1>1
  <2>1. q[1] # r[2] + 1 /\ r[1] # q[2] + 1
    BY <1>1
  <2>2. q[1] <= r[2] /\ r[1] <= q[2]
    BY <2>0, <2>1
  <2>3. ~(q[1] < r[1])
    <3>. SUFFICES ASSUME q[1] < r[1] PROVE r[1] - 1 \in q[1]..q[2]
      BY <1>1
    <3>. QED BY <2>0, <2>2
  <2>4. ~(r[1] < q[1])
    <3>. SUFFICES ASSUME r[1] < q[1] PROVE q[1] - 1 \in r[1]..r[2]
      BY <1>1
    <3>. QED BY <2>0, <2>2
  <2>5. ~(r[2] < q[2])
    <3>. SUFFICES ASSUME r[2] < q[2] PROVE r[2] + 1 \in q[1]..q[2]
      BY <1>1
    <3>. QED BY <2>0, <2>2
  <2>6. ~(q[2] < r[2])
    <3>. SUFFICES ASSUME q[2] < r[2] PROVE q[2] + 1 \in r[1]..r[2]
      BY <1>1
    <3>. QED BY <2>0, <2>2
  <2>7. r[1] = q[1] /\ r[2] = q[2]
    BY <2>0, <2>3, <2>4, <2>5, <2>6
  <2>. QED BY <1>1, <2>7
<1>. QED BY <1>1, <1>2 DEF Separated

\* The maximal runs of a set of bundles hold exactly that set.
LEMMA MaximalRunsCover ==
    ASSUME NEW S, S \subseteq Bundle
    PROVE  FreeBundles(MaximalRuns(S)) = S
<1>1. FreeBundles(MaximalRuns(S)) \subseteq S
  BY DEF FreeBundles, MaximalRuns
<1>2. ASSUME NEW x \in S PROVE x \in FreeBundles(MaximalRuns(S))
  <2>. DEFINE C == CapacityBundles
              L == {k \in 1..x : k..x \subseteq S}
              H == {k \in x..C : x..k \subseteq S}
  <2>0. C \in Nat /\ x \in Nat /\ 1 <= x /\ x <= C /\ \A y \in S : y \in 1..C
    BY LayoutAssumption DEF Bundle
  <2>. HIDE DEF C
  <2>1. x \in L /\ x \in H
    BY <2>0
  <2>2. PICK a \in L : \A k \in L : a <= k
    <3>1. L \subseteq Nat /\ L # {}
      BY <2>0, <2>1
    <3>. QED BY <3>1, LeastElement, Zenon
  <2>3. PICK z \in H : \A k \in H : k <= z
    <3>1. H \subseteq Nat /\ H # {} /\ \A k \in H : k <= C
      BY <2>0, <2>1
    <3>. QED BY <2>0, <3>1, GreatestElement, Zenon
  <2>4. a \in Nat /\ z \in Nat /\ a <= x /\ x <= z /\ 1 <= a /\ z <= C
    BY <2>0, <2>2, <2>3
  <2>5. a - 1 \notin S
    <3>. SUFFICES ASSUME a - 1 \in S PROVE FALSE
      OBVIOUS
    <3>1. a - 1 \in 1..x
      BY <2>0, <2>4
    <3>2. (a - 1)..x \subseteq S
      <4>. SUFFICES ASSUME NEW y \in (a - 1)..x PROVE y \in S
        OBVIOUS
      <4>1. y = a - 1 \/ y \in a..x
        BY <2>4, <2>0
      <4>. QED BY <2>2, <4>1
    <3>. QED BY <2>2, <2>4, <3>1, <3>2
  <2>6. z + 1 \notin S
    <3>. SUFFICES ASSUME z + 1 \in S PROVE FALSE
      OBVIOUS
    <3>1. z + 1 \in x..C
      BY <2>0, <2>4
    <3>2. x..(z + 1) \subseteq S
      <4>. SUFFICES ASSUME NEW y \in x..(z + 1) PROVE y \in S
        OBVIOUS
      <4>1. y = z + 1 \/ y \in x..z
        BY <2>4, <2>0
      <4>. QED BY <2>3, <4>1
    <3>. QED BY <2>3, <2>4, <3>1, <3>2
  <2>7. a..z \subseteq S
    <3>. SUFFICES ASSUME NEW y \in a..z PROVE y \in S
      OBVIOUS
    <3>1. y \in a..x \/ y \in x..z
      BY <2>4, <2>0
    <3>. QED BY <2>2, <2>3, <3>1
  <2>8. a \in S /\ z \in S
    BY <2>4, <2>7
  <2>9. PICK r \in S \X S : r[1] = a /\ r[2] = z
    <3>1. <<a, z>> \in S \X S /\ <<a, z>>[1] = a /\ <<a, z>>[2] = z
      BY <2>8
    <3>. QED BY <3>1
  <2>10. r \in MaximalRuns(S)
    <3>1. /\ r[1] <= r[2] /\ r[1]..r[2] \subseteq S
          /\ r[1] - 1 \notin S /\ r[2] + 1 \notin S
      <4>1. a <= z
        BY <2>0, <2>4
      <4>. HIDE DEF L, H
      <4>. QED BY <4>1, <2>5, <2>6, <2>7, <2>9
    <3>. HIDE DEF L, H
    <3>. QED BY <3>1 DEF MaximalRuns
  <2>11. x \in r[1]..r[2]
    BY <2>0, <2>4, <2>9
  <2>. QED BY <2>10, <2>11 DEF FreeBundles
<1>. QED BY <1>1, <1>2

\* Some range with room is the best one, whenever any has room.
LEMMA BestRangeExists ==
    ASSUME NEW fr, Separated(fr), NEW n \in Nat, Fitting(fr, n) # {}
    PROVE  BestRange(fr, n) \in Fitting(fr, n)
<1>. DEFINE G == Fitting(fr, n)
<1>0. \A r \in G : /\ r[1] \in Nat /\ r[2] \in Nat /\ r[1] <= r[2] /\ Len1(r) \in Nat
  BY LayoutAssumption DEF Fitting, Separated, Bundle, Len1
<1>. HIDE DEF G
<1>. DEFINE T == {k \in Nat : \E r \in G : k = Len1(r)}
<1>1. T \subseteq Nat /\ T # {}
  BY <1>0 DEF G
<1>2. PICK k \in T : \A j \in T : k <= j
  BY <1>1, LeastElement, Zenon
<1>. DEFINE U == {s \in Nat : \E r \in G : Len1(r) = k /\ s = r[1]}
<1>3. U \subseteq Nat /\ U # {}
  BY <1>0, <1>2
<1>4. PICK s \in U : \A t \in U : s <= t
  BY <1>3, LeastElement, Zenon
<1>5. PICK r \in G : Len1(r) = k /\ s = r[1]
  BY <1>4
<1>6. ASSUME NEW q \in G
      PROVE  Len1(r) < Len1(q) \/ (Len1(r) = Len1(q) /\ r[1] <= q[1])
  <2>1. Len1(q) \in T
    BY <1>0
  <2>2. k <= Len1(q) /\ k \in Nat /\ Len1(q) \in Nat
    BY <1>0, <1>2, <2>1
  <2>3. CASE Len1(q) = k
    <3>1. q[1] \in U
      BY <1>0, <2>3
    <3>. QED BY <1>4, <1>5, <2>3, <3>1
  <2>4. CASE Len1(q) # k
    BY <1>5, <2>2, <2>4
  <2>. QED BY <2>3, <2>4
<1>7. \E x \in G : \A q \in G : Len1(x) < Len1(q) \/ (Len1(x) = Len1(q) /\ x[1] <= q[1])
  BY <1>6
<1>. QED BY <1>7 DEF BestRange, G

\* Taking bundles from the best range.
LEMMA TakeBest ==
    ASSUME NEW fr, Separated(fr), NEW n \in Nat \ {0}, Fitting(fr, n) # {}
    PROVE  /\ Separated(take(fr, n))
           /\ FreeBundles(take(fr, n)) = FreeBundles(fr) \ Taken(fr, n)
           /\ Taken(fr, n) \subseteq FreeBundles(fr)
           /\ IsFiniteSet(Taken(fr, n)) /\ Cardinality(Taken(fr, n)) = n
<1>. DEFINE r == BestRange(fr, n)
            rest == IF r[1] + n <= r[2] THEN {<<r[1] + n, r[2]>>} ELSE {}
<1>1. r \in fr /\ Len1(r) >= n
  BY BestRangeExists DEF Fitting
<1>2. \A q \in fr : /\ q \in Bundle \X Bundle /\ q[1] \in Nat /\ q[2] \in Nat
                    /\ q[1] <= q[2] /\ 1 <= q[1] /\ q[2] <= CapacityBundles
  BY LayoutAssumption DEF Separated, Bundle
<1>3. take(fr, n) = (fr \ {r}) \cup rest /\ Taken(fr, n) = r[1]..(r[1] + n - 1)
  BY DEF take, Taken
<1>. HIDE DEF r
<1>4. r[1] + n - 1 <= r[2] /\ r[1] \in Nat /\ r[2] \in Nat
  BY <1>1, <1>2 DEF Len1
<1>5. \A p \in fr, q \in fr : p = q \/ p[2] + 1 < q[1] \/ q[2] + 1 < p[1]
  BY DEF Separated
<1>6. \A q \in rest : /\ q[1] = r[1] + n /\ q[2] = r[2] /\ q[1] <= q[2]
                      /\ q \in Bundle \X Bundle
  BY <1>1, <1>2, <1>4, LayoutAssumption DEF Bundle
<1>7. \A p, q \in rest : p = q
  OBVIOUS
<1>8. r[1] + n <= r[2] => \E q \in rest : q[1] = r[1] + n /\ q[2] = r[2]
  BY Zenon
<1>. HIDE DEF rest
<1>9. Separated(take(fr, n))
  <2>1. \A q \in take(fr, n) : q \in Bundle \X Bundle /\ q[1] <= q[2]
    BY <1>2, <1>3, <1>6
  <2>2. ASSUME NEW p \in take(fr, n), NEW q \in take(fr, n)
        PROVE  p = q \/ p[2] + 1 < q[1] \/ q[2] + 1 < p[1]
    <3>1. CASE p \in fr /\ q \in fr
      BY <1>5, <3>1
    <3>2. CASE p \in rest /\ q \in rest
      BY <1>7, <3>2
    <3>3. CASE p \in fr \ {r} /\ q \in rest
      <4>1. p[2] + 1 < r[1] \/ r[2] + 1 < p[1]
        BY <1>1, <1>5, <3>3
      <4>2. q[1] = r[1] + n /\ q[2] = r[2] /\ p[1] \in Nat /\ p[2] \in Nat
        BY <1>2, <1>6, <3>3
      <4>. QED BY <1>4, <4>1, <4>2
    <3>4. CASE q \in fr \ {r} /\ p \in rest
      <4>1. q[2] + 1 < r[1] \/ r[2] + 1 < q[1]
        BY <1>1, <1>5, <3>4
      <4>2. p[1] = r[1] + n /\ p[2] = r[2] /\ q[1] \in Nat /\ q[2] \in Nat
        BY <1>2, <1>6, <3>4
      <4>. QED BY <1>4, <4>1, <4>2
    <3>. QED BY <1>3, <3>1, <3>2, <3>3, <3>4
  <2>. QED BY <2>1, <2>2 DEF Separated
<1>10. \A x : x \in FreeBundles(fr) <=> \E q \in fr : x \in q[1]..q[2]
  BY DEF FreeBundles
<1>11. \A x : x \in FreeBundles(take(fr, n)) <=> \E q \in take(fr, n) : x \in q[1]..q[2]
  BY DEF FreeBundles
<1>12. Taken(fr, n) \subseteq FreeBundles(fr)
  BY <1>1, <1>3, <1>4, <1>10
<1>13. ASSUME NEW x \in FreeBundles(take(fr, n))
       PROVE  x \in FreeBundles(fr) /\ x \notin Taken(fr, n)
  <2>1. PICK q \in take(fr, n) : x \in q[1]..q[2]
    BY <1>11
  <2>2. CASE q \in fr \ {r}
    <3>1. q[2] + 1 < r[1] \/ r[2] + 1 < q[1]
      BY <1>1, <1>5, <2>2
    <3>2. q[1] \in Nat /\ q[2] \in Nat
      BY <1>2, <2>2
    <3>3. x \in FreeBundles(fr)
      BY <1>10, <2>1, <2>2
    <3>4. x \notin r[1]..(r[1] + n - 1)
      BY <1>4, <2>1, <3>1, <3>2
    <3>. QED BY <1>3, <3>3, <3>4
  <2>3. CASE q \in rest
    <3>1. x \in r[1]..r[2] /\ x > r[1] + n - 1
      BY <1>4, <1>6, <2>1, <2>3
    <3>. QED BY <1>1, <1>3, <1>4, <1>10, <3>1
  <2>. QED BY <1>3, <2>1, <2>2, <2>3
<1>14. ASSUME NEW x \in FreeBundles(fr), x \notin Taken(fr, n)
       PROVE  x \in FreeBundles(take(fr, n))
  <2>1. PICK q \in fr : x \in q[1]..q[2]
    BY <1>10
  <2>2. CASE q # r
    BY <1>3, <1>11, <2>1, <2>2, Zenon
  <2>3. CASE q = r
    <3>1. x \in (r[1] + n)..r[2]
      BY <1>3, <1>4, <1>14, <2>1, <2>3
    <3>2. r[1] + n <= r[2]
      BY <1>4, <3>1
    <3>3. PICK s \in rest : s[1] = r[1] + n /\ s[2] = r[2]
      BY <1>8, <3>2
    <3>. QED BY <1>3, <1>11, <3>1, <3>3, Zenon
  <2>. QED BY <2>2, <2>3
<1>15. FreeBundles(take(fr, n)) = FreeBundles(fr) \ Taken(fr, n)
  BY <1>13, <1>14
<1>16. IsFiniteSet(Taken(fr, n)) /\ Cardinality(Taken(fr, n)) = n
  <2>1. r[1] \in Int /\ r[1] + n - 1 \in Int /\ ~(r[1] > r[1] + n - 1)
    BY <1>4
  <2>2. (r[1] + n - 1) - r[1] + 1 = n
    BY <1>4
  <2>. QED BY <1>3, <2>1, <2>2, FS_Interval, Zenon
<1>. QED BY <1>9, <1>12, <1>15, <1>16

\* Emptying ranges from the front of the list up to bundle c.
LEMMA TrimRanges ==
    ASSUME NEW fr, Separated(fr), NEW c \in Nat
    PROVE  /\ Separated(Trim(fr, c))
           /\ FreeBundles(Trim(fr, c)) = {b \in FreeBundles(fr) : ~(b <= c)}
<1>1. \A q \in fr : /\ q \in Bundle \X Bundle /\ q[1] \in Nat /\ q[2] \in Nat
                    /\ q[1] <= q[2] /\ 1 <= q[1] /\ q[2] <= CapacityBundles
  BY LayoutAssumption DEF Separated, Bundle
<1>2. \A p \in fr, q \in fr : p = q \/ p[2] + 1 < q[1] \/ q[2] + 1 < p[1]
  BY DEF Separated
<1>3. ASSUME NEW t \in Trim(fr, c)
      PROVE  \E q \in fr : /\ q[2] > c /\ t[2] = q[2]
                           /\ t[1] = IF q[1] > c THEN q[1] ELSE c + 1
                           /\ t = <<t[1], t[2]>>
  BY DEF Trim
<1>4. ASSUME NEW q \in fr, q[2] > c
      PROVE  \E t \in Trim(fr, c) : /\ t[2] = q[2]
                                    /\ t[1] = IF q[1] > c THEN q[1] ELSE c + 1
  <2>. DEFINE t == <<IF q[1] > c THEN q[1] ELSE c + 1, q[2]>>
  <2>1. q \in {s \in fr : s[2] > c}
    BY <1>4
  <2>2. t \in Trim(fr, c)
    BY <2>1, Zenon DEF Trim
  <2>3. t[2] = q[2] /\ t[1] = IF q[1] > c THEN q[1] ELSE c + 1
    OBVIOUS
  <2>. HIDE DEF t
  <2>. QED BY <2>2, <2>3
<1>5. Separated(Trim(fr, c))
  <2>1. ASSUME NEW t \in Trim(fr, c) PROVE t \in Bundle \X Bundle /\ t[1] <= t[2]
    <3>1. PICK q \in fr : /\ q[2] > c /\ t[2] = q[2]
                          /\ t[1] = IF q[1] > c THEN q[1] ELSE c + 1
                          /\ t = <<t[1], t[2]>>
      BY <1>3
    <3>2. t[1] \in Bundle /\ t[2] \in Bundle /\ t[1] <= t[2]
      BY <1>1, <3>1, LayoutAssumption DEF Bundle
    <3>. QED BY <3>1, <3>2
  <2>2. ASSUME NEW s \in Trim(fr, c), NEW t \in Trim(fr, c)
        PROVE  s = t \/ s[2] + 1 < t[1] \/ t[2] + 1 < s[1]
    <3>1. PICK p \in fr : /\ p[2] > c /\ s[2] = p[2]
                          /\ s[1] = IF p[1] > c THEN p[1] ELSE c + 1
                          /\ s = <<s[1], s[2]>>
      BY <1>3
    <3>2. PICK q \in fr : /\ q[2] > c /\ t[2] = q[2]
                          /\ t[1] = IF q[1] > c THEN q[1] ELSE c + 1
                          /\ t = <<t[1], t[2]>>
      BY <1>3
    <3>3. CASE p = q
      BY <3>1, <3>2, <3>3
    <3>4. CASE p # q
      BY <1>1, <1>2, <3>1, <3>2, <3>4
    <3>. QED BY <3>3, <3>4
  <2>. QED BY <2>1, <2>2 DEF Separated
<1>6. \A x : x \in FreeBundles(fr) <=> \E q \in fr : x \in q[1]..q[2]
  BY DEF FreeBundles
<1>7. \A x : x \in FreeBundles(Trim(fr, c)) <=> \E q \in Trim(fr, c) : x \in q[1]..q[2]
  BY DEF FreeBundles
<1>8. ASSUME NEW x \in FreeBundles(Trim(fr, c))
      PROVE  x \in FreeBundles(fr) /\ ~(x <= c)
  <2>1. PICK t \in Trim(fr, c) : x \in t[1]..t[2]
    BY <1>7
  <2>2. PICK q \in fr : /\ q[2] > c /\ t[2] = q[2]
                        /\ t[1] = IF q[1] > c THEN q[1] ELSE c + 1
    BY <1>3
  <2>3. x \in q[1]..q[2] /\ ~(x <= c)
    BY <1>1, <2>1, <2>2
  <2>. QED BY <1>6, <2>3
<1>9. ASSUME NEW x \in FreeBundles(fr), ~(x <= c)
      PROVE  x \in FreeBundles(Trim(fr, c))
  <2>1. PICK q \in fr : x \in q[1]..q[2]
    BY <1>6
  <2>2. q[2] > c
    BY <1>1, <1>9, <2>1
  <2>3. PICK t \in Trim(fr, c) : /\ t[2] = q[2]
                                 /\ t[1] = IF q[1] > c THEN q[1] ELSE c + 1
    BY <1>4, <2>2
  <2>4. x \in t[1]..t[2]
    BY <1>1, <1>9, <2>1, <2>3
  <2>. QED BY <1>7, <2>4
<1>. QED BY <1>5, <1>8, <1>9

\* Of a finite set of bundles with n or more members, some member is the last
\* of the n lowest ones.
LEMMA GatherEndExists ==
    ASSUME NEW F, F \subseteq Bundle, NEW n \in Nat \ {0}, n <= Cardinality(F)
    PROVE  \E c \in F : Cardinality({b \in F : b <= c}) = n
<1>. DEFINE Low(c) == {b \in F : b <= c}
            T == {c \in Nat : Cardinality(Low(c)) >= n}
<1>1. CapacityBundles \in Nat /\ \A b \in F : b \in Nat /\ 1 <= b /\ b <= CapacityBundles
  BY LayoutAssumption DEF Bundle
<1>2. IsFiniteSet(F)
  BY <1>1, FS_BoundedSetOfNaturals
<1>3. \A c : IsFiniteSet(Low(c)) /\ Cardinality(Low(c)) \in Nat
  <2>. TAKE c
  <2>1. Low(c) \subseteq F
    OBVIOUS
  <2>. QED BY <1>2, <2>1, FS_Subset, FS_CardinalityType
<1>4. CapacityBundles \in T
  <2>1. Low(CapacityBundles) = F
    BY <1>1
  <2>. QED BY <1>1, <1>2, <2>1, FS_CardinalityType, Zenon
<1>5. PICK c \in T : \A k \in T : c <= k
  <2>1. T \subseteq Nat /\ T # {}
    BY <1>4, Zenon
  <2>. HIDE DEF T
  <2>. QED BY <2>1, LeastElement, Zenon
<1>6. c \in Nat /\ Cardinality(Low(c)) >= n
  OBVIOUS
<1>7. c # 0
  <2>. SUFFICES ASSUME c = 0 PROVE FALSE
    OBVIOUS
  <2>1. Low(c) = {}
    BY <1>1
  <2>2. Cardinality(Low(c)) = 0
    BY <2>1, FS_EmptySet
  <2>. HIDE DEF Low
  <2>. QED BY <1>6, <2>2
<1>8. c - 1 \in Nat /\ ~(Cardinality(Low(c - 1)) >= n)
  <2>1. c - 1 \in Nat /\ ~(c <= c - 1)
    BY <1>6, <1>7
  <2>2. c - 1 \notin T
    BY <1>5, <2>1
  <2>. QED BY <2>1, <2>2
<1>9. c \in F
  <2>. SUFFICES ASSUME c \notin F PROVE FALSE
    OBVIOUS
  <2>1. Low(c) = Low(c - 1)
    BY <1>1, <1>6
  <2>. HIDE DEF Low
  <2>. QED BY <1>6, <1>8, <2>1
<1>10. Low(c) = Low(c - 1) \cup {c} /\ c \notin Low(c - 1)
  <2>1. \A b \in F : b <= c <=> (b <= c - 1 \/ b = c)
    BY <1>1, <1>6
  <2>2. ~(c <= c - 1) /\ c <= c
    BY <1>6
  <2>. QED BY <1>9, <2>1, <2>2, Zenon
<1>. HIDE DEF Low
<1>11. Cardinality(Low(c)) = Cardinality(Low(c - 1)) + 1
  BY <1>3, <1>10, FS_AddElement, Zenon
<1>12. Cardinality(Low(c)) = n
  BY <1>3, <1>6, <1>8, <1>11
<1>. QED BY <1>9, <1>12 DEF Low

\* allocate(n): exactly n free bundles leave the free list, and what remains is
\* in canonical form again.
LEMMA TakeCorrect ==
    ASSUME NEW fr, Separated(fr), NEW n \in Nat, n <= free_bundle_count(fr)
    PROVE  /\ Separated(take(fr, n))
           /\ FreeBundles(take(fr, n)) = FreeBundles(fr) \ Taken(fr, n)
           /\ Taken(fr, n) \subseteq FreeBundles(fr)
           /\ IsFiniteSet(Taken(fr, n)) /\ Cardinality(Taken(fr, n)) = n
<1>1. CASE n = 0
  BY <1>1, FS_EmptySet DEF take, Taken
<1>2. CASE n # 0 /\ Fitting(fr, n) # {}
  <2>1. n \in Nat \ {0}
    BY <1>2
  <2>. QED BY <1>2, <2>1, TakeBest
<1>3. CASE n # 0 /\ Fitting(fr, n) = {}
  <2>. DEFINE F == FreeBundles(fr)
              c == GatherEnd(fr, n)
  <2>1. F \subseteq Bundle
    <3>1. fr \subseteq Bundle \X Bundle
      BY DEF Separated
    <3>. QED BY <3>1, FreeInPool
  <2>2. \E x \in F : Cardinality({b \in F : b <= x}) = n
    <3>1. n \in Nat \ {0} /\ n <= Cardinality(F)
      BY <1>3 DEF free_bundle_count
    <3>. HIDE DEF F
    <3>. QED BY <2>1, <3>1, GatherEndExists
  <2>3. c \in F /\ Cardinality({b \in F : b <= c}) = n
    BY <2>2, Zenon DEF GatherEnd
  <2>4. Taken(fr, n) = {b \in F : b <= c} /\ take(fr, n) = Trim(fr, c)
    BY <1>3 DEF Taken, take
  <2>5. c \in Nat /\ \A b \in F : b \in Nat /\ b <= CapacityBundles
    BY <2>1, <2>3, LayoutAssumption DEF Bundle
  <2>. HIDE DEF c
  <2>6. /\ Separated(Trim(fr, c))
        /\ FreeBundles(Trim(fr, c)) = {b \in F : ~(b <= c)}
    BY <2>5, TrimRanges
  <2>. HIDE DEF F
  <2>7. IsFiniteSet({b \in F : b <= c})
    <3>1. {b \in F : b <= c} \in SUBSET Nat
      BY <2>5
    <3>2. \A s \in {b \in F : b <= c} : s <= c
      OBVIOUS
    <3>. QED BY <2>5, <3>1, <3>2, FS_BoundedSetOfNaturals
  <2>8. /\ Separated(take(fr, n)) /\ Taken(fr, n) \subseteq F
        /\ FreeBundles(take(fr, n)) = F \ Taken(fr, n)
    BY <2>4, <2>6
  <2>. QED BY <2>3, <2>4, <2>7, <2>8 DEF F
<1>. QED BY <1>1, <1>2, <1>3

\* free(ids): the returned bundles join the free list, merged with their
\* neighbours.
LEMMA GiveBackCorrect ==
    ASSUME NEW fr, Separated(fr), NEW S, S \subseteq Bundle
    PROVE  /\ Separated(give_back(fr, S))
           /\ FreeBundles(give_back(fr, S)) = FreeBundles(fr) \cup S
<1>1. CASE S = {}
  BY <1>1 DEF give_back
<1>2. CASE S # {}
  <2>1. fr \subseteq Bundle \X Bundle
    BY DEF Separated
  <2>2. FreeBundles(fr) \cup S \subseteq Bundle
    BY <2>1, FreeInPool
  <2>. QED BY <1>2, <2>2, MaximalIsSeparated, MaximalRunsCover DEF give_back
<1>. QED BY <1>1, <1>2

-----------------------------------------------------------------------------
(* The inductive invariant                                                  *)

\* Only blocks of bundles are ever referenced: the null row and the rest of
\* slot 0 are not.
LiveInBundles ==
    \A o \in Owner : \A id \in BlockId(o) :
        ref_cnt[o][id] > 0 => \E b \in Bundle : id \in BlocksOf(o, b)

\* FreeListExact in the form the steps preserve.
FreeListSeparated ==
    /\ Separated(free_ranges)
    /\ FreeBundles(free_ranges) = {b \in Bundle : owners[b] = NoOwner}

IInv == TypeOK /\ FreeListSeparated /\ OwnedIffReferenced /\ LiveInBundles

\* Names for the parts of the two actions.
Chosen(o, n) == Taken(free_ranges, bundle_count_for_blocks(o, n))
NewIds(o, n) == UNION {BlocksOf(o, b) : b \in Chosen(o, n)}
LeftAfter(o, S) ==
    [id \in BlockId(o) |-> IF id \in S THEN ref_cnt[o][id] - 1 ELSE ref_cnt[o][id]]
Emptied(o, S) ==
    {b \in {bundle_id_for_block(o, id) : id \in S} :
        \A id \in BlocksOf(o, b) : LeftAfter(o, S)[id] = 0}

\* The reference counts, one group at a time.
LEMMA RefCntType ==
    ASSUME TypeOK, NEW o \in Owner, NEW row \in [BlockId(o) -> {0, 1}],
           ref_cnt' = [ref_cnt EXCEPT ![o] = row]
    PROVE  /\ ref_cnt'[o] = row
           /\ \A q \in Owner : q # o => ref_cnt'[q] = ref_cnt[q]
           /\ ref_cnt' \in [Owner -> UNION {[BlockId(q) -> {0, 1}] : q \in Owner}]
           /\ \A q \in Owner : ref_cnt'[q] \in [BlockId(q) -> {0, 1}]
<1>1. ref_cnt \in [Owner -> UNION {[BlockId(q) -> {0, 1}] : q \in Owner}]
  BY DEF TypeOK
<1>2. \A q \in Owner : ref_cnt[q] \in [BlockId(q) -> {0, 1}]
  BY DEF TypeOK
<1>3. ref_cnt'[o] = row /\ \A q \in Owner : q # o => ref_cnt'[q] = ref_cnt[q]
  BY <1>1
<1>4. row \in UNION {[BlockId(q) -> {0, 1}] : q \in Owner}
  OBVIOUS
<1>5. ref_cnt' \in [Owner -> UNION {[BlockId(q) -> {0, 1}] : q \in Owner}]
  BY <1>1, <1>4
<1>. QED BY <1>2, <1>3, <1>5

\* A call of get_new_blocks takes exactly the bundles it needs, all unowned.
LEMMA NewBlocksFacts ==
    ASSUME IInv, NEW o \in Owner, NEW n \in Nat, get_new_blocks(o, n)
    PROVE  /\ Chosen(o, n) \subseteq {b \in Bundle : owners[b] = NoOwner}
           /\ IsFiniteSet(Chosen(o, n))
           /\ Cardinality(Chosen(o, n)) = bundle_count_for_blocks(o, n)
           /\ Separated(free_ranges')
           /\ FreeBundles(free_ranges') = FreeBundles(free_ranges) \ Chosen(o, n)
           /\ owners' = [b \in Bundle |-> IF b \in Chosen(o, n) THEN o ELSE owners[b]]
           /\ ref_cnt' = [ref_cnt EXCEPT ![o] =
                [id \in BlockId(o) |-> IF id \in NewIds(o, n) THEN 1 ELSE ref_cnt[o][id]]]
<1>. DEFINE k == bundle_count_for_blocks(o, n)
            c == free_bundle_count(free_ranges)
            p == blocks_per_bundle(o)
<1>1. Separated(free_ranges) /\ FreeBundles(free_ranges) = {b \in Bundle : owners[b] = NoOwner}
  BY DEF IInv, FreeListSeparated
<1>2. c \in Nat
  <2>1. FreeBundles(free_ranges) \in SUBSET Nat /\ CapacityBundles \in Nat
    BY <1>1, LayoutAssumption DEF Bundle
  <2>2. \A s \in FreeBundles(free_ranges) : s <= CapacityBundles
    BY <1>1, LayoutAssumption DEF Bundle
  <2>3. IsFiniteSet(FreeBundles(free_ranges))
    BY <2>1, <2>2, FS_BoundedSetOfNaturals
  <2>. QED BY <2>3, FS_CardinalityType DEF free_bundle_count
<1>3. p \in Nat \ {0}
  BY BundleSize
<1>4. n <= c * p
  BY DEF get_new_blocks, get_num_free_blocks
<1>5. k \in Nat /\ k <= c
  <2>. HIDE DEF c, p
  <2>1. k = (n + p - 1) \div p
    BY DEF bundle_count_for_blocks, p
  <2>. QED BY <1>2, <1>3, <1>4, <2>1, CeilDivBound
<1>6. /\ Separated(take(free_ranges, k))
      /\ FreeBundles(take(free_ranges, k)) = FreeBundles(free_ranges) \ Taken(free_ranges, k)
      /\ Taken(free_ranges, k) \subseteq FreeBundles(free_ranges)
      /\ IsFiniteSet(Taken(free_ranges, k)) /\ Cardinality(Taken(free_ranges, k)) = k
  <2>. HIDE DEF k
  <2>. QED BY <1>1, <1>5, TakeCorrect
<1>7. free_ranges' = take(free_ranges, k)
  BY DEF get_new_blocks
<1>8. owners' = [b \in Bundle |-> IF b \in Chosen(o, n) THEN o ELSE owners[b]]
  BY DEF get_new_blocks, Chosen
<1>9. ref_cnt' = [ref_cnt EXCEPT ![o] =
        [id \in BlockId(o) |-> IF id \in NewIds(o, n) THEN 1 ELSE ref_cnt[o][id]]]
  BY DEF get_new_blocks, Chosen, NewIds
<1>. QED BY <1>1, <1>6, <1>7, <1>8, <1>9 DEF Chosen

\* A call of free_blocks returns only bundles its own group owns.
LEMMA FreeBlocksFacts ==
    ASSUME IInv, NEW o \in Owner, NEW S \in SUBSET Live(o), free_blocks(o, S)
    PROVE  /\ Emptied(o, S) \subseteq {b \in Bundle : owners[b] = o}
           /\ \A id \in S : /\ id \in BlockId(o) /\ ref_cnt[o][id] = 1
                            /\ bundle_id_for_block(o, id) \in Bundle
                            /\ id \in BlocksOf(o, bundle_id_for_block(o, id))
           /\ Separated(free_ranges')
           /\ FreeBundles(free_ranges') = FreeBundles(free_ranges) \cup Emptied(o, S)
           /\ owners' = [b \in Bundle |-> IF b \in Emptied(o, S) THEN NoOwner ELSE owners[b]]
           /\ ref_cnt' = [ref_cnt EXCEPT ![o] = LeftAfter(o, S)]
<1>1. ref_cnt[o] \in [BlockId(o) -> {0, 1}]
  BY DEF IInv, TypeOK
<1>2. ASSUME NEW id \in S
      PROVE  /\ id \in BlockId(o) /\ ref_cnt[o][id] = 1
             /\ bundle_id_for_block(o, id) \in Bundle
             /\ id \in BlocksOf(o, bundle_id_for_block(o, id))
  <2>1. id \in BlockId(o) /\ ref_cnt[o][id] > 0
    BY DEF Live
  <2>2. ref_cnt[o][id] = 1
    BY <1>1, <2>1
  <2>3. PICK b \in Bundle : id \in BlocksOf(o, b)
    BY <2>1 DEF IInv, LiveInBundles
  <2>4. bundle_id_for_block(o, id) = b
    BY <2>3, LayoutInverse
  <2>. QED BY <2>1, <2>2, <2>3, <2>4
<1>3. ASSUME NEW b \in Emptied(o, S) PROVE b \in Bundle /\ owners[b] = o
  <2>1. PICK id \in S : b = bundle_id_for_block(o, id)
    BY DEF Emptied
  <2>2. b \in Bundle /\ id \in BlocksOf(o, b) /\ ref_cnt[o][id] > 0
    BY <1>2, <2>1
  <2>. QED BY <2>2 DEF IInv, OwnedIffReferenced
<1>4. /\ free_ranges' = give_back(free_ranges, Emptied(o, S))
      /\ owners' = [b \in Bundle |-> IF b \in Emptied(o, S) THEN NoOwner ELSE owners[b]]
      /\ ref_cnt' = [ref_cnt EXCEPT ![o] = LeftAfter(o, S)]
  BY DEF free_blocks, Emptied, LeftAfter
<1>5. Separated(free_ranges) /\ Emptied(o, S) \subseteq Bundle
  BY <1>3 DEF IInv, FreeListSeparated
<1>. QED BY <1>2, <1>3, <1>4, <1>5, GiveBackCorrect

\* The constructors establish the invariant.
LEMMA InitIInv == Init => IInv
<1>. SUFFICES ASSUME Init PROVE IInv
  OBVIOUS
<1>0. CapacityBundles \in Nat \ {0} /\ Bundle = 1..CapacityBundles
  BY LayoutAssumption DEF Bundle
<1>1. \A o \in Owner : ref_cnt[o] = [id \in BlockId(o) |-> 0]
  BY DEF Init
<1>2. TypeOK
  <2>1. owners \in [Bundle -> Owner \cup {NoOwner}]
    BY DEF Init
  <2>2. free_ranges \subseteq Bundle \X Bundle
    BY <1>0 DEF Init
  <2>3. \A o \in Owner : ref_cnt[o] \in [BlockId(o) -> {0, 1}]
    BY <1>1, Zenon
  <2>4. ref_cnt \in [Owner -> UNION {[BlockId(o) -> {0, 1}] : o \in Owner}]
    <3>1. ref_cnt = [o \in Owner |-> [id \in BlockId(o) |-> 0]]
      BY DEF Init
    <3>2. \A o \in Owner : [id \in BlockId(o) |-> 0] \in UNION {[BlockId(q) -> {0, 1}] : q \in Owner}
      OBVIOUS
    <3>. QED BY <3>1, <3>2
  <2>. QED BY <2>1, <2>2, <2>3, <2>4 DEF TypeOK
<1>3. FreeListSeparated
  <2>1. free_ranges = {<<1, CapacityBundles>>}
    BY DEF Init
  <2>2. Separated(free_ranges)
    BY <1>0, <2>1 DEF Separated
  <2>3. FreeBundles(free_ranges) = Bundle
    BY <1>0, <2>1 DEF FreeBundles
  <2>. QED BY <2>2, <2>3, Zenon DEF FreeListSeparated, Init
<1>4. OwnedIffReferenced
  <2>. SUFFICES ASSUME NEW b \in Bundle, NEW o \in Owner
                PROVE  owners[b] # o /\ \A id \in BlocksOf(o, b) : ~(ref_cnt[o][id] > 0)
    BY DEF OwnedIffReferenced
  <2>1. owners[b] # o
    BY DEF Init, Owner, NoOwner
  <2>2. \A id \in BlocksOf(o, b) : id \in BlockId(o)
    BY LayoutInverse
  <2>3. \A id \in BlocksOf(o, b) : ref_cnt[o][id] = 0
    BY <1>1, <2>2, Zenon
  <2>. QED BY <2>1, <2>3
<1>5. LiveInBundles
  <2>1. \A o \in Owner : \A id \in BlockId(o) : ref_cnt[o][id] = 0
    BY <1>1, Zenon
  <2>. QED BY <2>1 DEF LiveInBundles
<1>. QED BY <1>2, <1>3, <1>4, <1>5 DEF IInv

\* get_new_blocks preserves the invariant.
LEMMA NewBlocksIInv ==
    ASSUME IInv, NEW o \in Owner, NEW n \in Nat, get_new_blocks(o, n)
    PROVE  IInv'
<1>. DEFINE B == Chosen(o, n)
            I == NewIds(o, n)
            row == [id \in BlockId(o) |-> IF id \in I THEN 1 ELSE ref_cnt[o][id]]
<1>1. /\ B \subseteq {b \in Bundle : owners[b] = NoOwner}
      /\ Separated(free_ranges')
      /\ FreeBundles(free_ranges') = FreeBundles(free_ranges) \ B
      /\ owners' = [b \in Bundle |-> IF b \in B THEN o ELSE owners[b]]
      /\ ref_cnt' = [ref_cnt EXCEPT ![o] = row]
  BY NewBlocksFacts
<1>2. \A id : id \in I <=> \E b \in B : id \in BlocksOf(o, b)
  BY DEF NewIds
<1>3. /\ TypeOK /\ FreeListSeparated /\ OwnedIffReferenced /\ LiveInBundles
  BY DEF IInv
<1>4. ref_cnt[o] \in [BlockId(o) -> {0, 1}] /\ owners \in [Bundle -> Owner \cup {NoOwner}]
  BY <1>3 DEF TypeOK
<1>. HIDE DEF B, I
<1>5. row \in [BlockId(o) -> {0, 1}]
  BY <1>4
<1>. HIDE DEF row
<1>6. /\ ref_cnt'[o] = row
      /\ \A q \in Owner : q # o => ref_cnt'[q] = ref_cnt[q]
      /\ ref_cnt' \in [Owner -> UNION {[BlockId(q) -> {0, 1}] : q \in Owner}]
      /\ \A q \in Owner : ref_cnt'[q] \in [BlockId(q) -> {0, 1}]
  BY <1>1, <1>3, <1>5, RefCntType, Zenon
<1>7. \A id \in BlockId(o) : ref_cnt'[o][id] = IF id \in I THEN 1 ELSE ref_cnt[o][id]
  BY <1>6 DEF row
<1>8. TypeOK'
  <2>1. owners' \in [Bundle -> Owner \cup {NoOwner}]
    BY <1>1, <1>4
  <2>2. free_ranges' \subseteq Bundle \X Bundle
    BY <1>1 DEF Separated
  <2>. QED BY <1>6, <2>1, <2>2 DEF TypeOK
<1>9. FreeListSeparated'
  <2>1. FreeBundles(free_ranges) = {b \in Bundle : owners[b] = NoOwner}
    BY <1>3 DEF FreeListSeparated
  <2>2. FreeBundles(free_ranges') = {b \in Bundle : owners'[b] = NoOwner}
    BY <1>1, <2>1 DEF Owner, NoOwner
  <2>. QED BY <1>1, <2>2 DEF FreeListSeparated
<1>10. ASSUME NEW b \in Bundle, NEW q \in Owner
       PROVE  owners'[b] = q <=> \E id \in BlocksOf(q, b) : ref_cnt'[q][id] > 0
  <2>0. owners[b] = q <=> \E id \in BlocksOf(q, b) : ref_cnt[q][id] > 0
    BY <1>3 DEF OwnedIffReferenced
  <2>1. CASE q # o
    <3>1. owners'[b] = q <=> owners[b] = q
      BY <1>1, <2>1 DEF Owner, NoOwner
    <3>. QED BY <1>6, <2>0, <2>1, <3>1
  <2>2. CASE q = o /\ b \in B
    <3>1. owners'[b] = o
      BY <1>1, <2>2
    <3>2. PICK id \in BlocksOf(o, b) : TRUE
      BY BundleSize
    <3>3. id \in BlockId(o) /\ id \in I
      BY <1>2, <2>2, <3>2, LayoutInverse
    <3>4. ref_cnt'[o][id] = 1
      BY <1>7, <3>3
    <3>. QED BY <2>2, <3>1, <3>4
  <2>3. CASE q = o /\ b \notin B
    <3>1. owners'[b] = owners[b]
      BY <1>1, <2>3
    <3>2. \A id \in BlocksOf(o, b) : id \in BlockId(o) /\ id \notin I
      BY <1>1, <1>2, <2>3, LayoutInverse
    <3>3. \A id \in BlocksOf(o, b) : ref_cnt'[o][id] = ref_cnt[o][id]
      BY <1>7, <3>2
    <3>. QED BY <2>0, <2>3, <3>1, <3>3
  <2>. QED BY <2>1, <2>2, <2>3
<1>11. LiveInBundles'
  <2>. SUFFICES ASSUME NEW q \in Owner, NEW id \in BlockId(q), ref_cnt'[q][id] > 0
                PROVE  \E b \in Bundle : id \in BlocksOf(q, b)
    BY DEF LiveInBundles
  <2>1. CASE ref_cnt'[q][id] = ref_cnt[q][id]
    BY <1>3, <2>1 DEF LiveInBundles
  <2>2. CASE q = o /\ id \in I
    BY <1>1, <1>2, <2>2
  <2>. QED BY <1>6, <1>7, <2>1, <2>2
<1>. QED BY <1>8, <1>9, <1>10, <1>11 DEF IInv, OwnedIffReferenced

\* free_blocks preserves the invariant.
LEMMA FreeBlocksIInv ==
    ASSUME IInv, NEW o \in Owner, NEW S \in SUBSET Live(o), free_blocks(o, S)
    PROVE  IInv'
<1>. DEFINE E == Emptied(o, S)
            row == LeftAfter(o, S)
<1>1. /\ E \subseteq {b \in Bundle : owners[b] = o}
      /\ \A id \in S : /\ id \in BlockId(o) /\ ref_cnt[o][id] = 1
                       /\ bundle_id_for_block(o, id) \in Bundle
                       /\ id \in BlocksOf(o, bundle_id_for_block(o, id))
      /\ Separated(free_ranges')
      /\ FreeBundles(free_ranges') = FreeBundles(free_ranges) \cup E
      /\ owners' = [b \in Bundle |-> IF b \in E THEN NoOwner ELSE owners[b]]
      /\ ref_cnt' = [ref_cnt EXCEPT ![o] = row]
  BY FreeBlocksFacts
<1>2. \A b : b \in E <=> /\ \E id \in S : b = bundle_id_for_block(o, id)
                         /\ \A id \in BlocksOf(o, b) : row[id] = 0
  BY DEF Emptied
<1>3. /\ TypeOK /\ FreeListSeparated /\ OwnedIffReferenced /\ LiveInBundles
  BY DEF IInv
<1>4. ref_cnt[o] \in [BlockId(o) -> {0, 1}] /\ owners \in [Bundle -> Owner \cup {NoOwner}]
  BY <1>3 DEF TypeOK
<1>5. row \in [BlockId(o) -> {0, 1}]
  BY <1>1, <1>4 DEF LeftAfter
<1>6. \A id \in BlockId(o) : row[id] = IF id \in S THEN 0 ELSE ref_cnt[o][id]
  BY <1>1 DEF LeftAfter
<1>. HIDE DEF E, row
<1>7. /\ ref_cnt'[o] = row
      /\ \A q \in Owner : q # o => ref_cnt'[q] = ref_cnt[q]
      /\ ref_cnt' \in [Owner -> UNION {[BlockId(q) -> {0, 1}] : q \in Owner}]
      /\ \A q \in Owner : ref_cnt'[q] \in [BlockId(q) -> {0, 1}]
  BY <1>1, <1>3, <1>5, RefCntType, Zenon
<1>8. TypeOK'
  <2>1. owners' \in [Bundle -> Owner \cup {NoOwner}]
    BY <1>1, <1>4
  <2>2. free_ranges' \subseteq Bundle \X Bundle
    BY <1>1 DEF Separated
  <2>. QED BY <1>7, <2>1, <2>2 DEF TypeOK
<1>9. FreeListSeparated'
  <2>1. FreeBundles(free_ranges) = {b \in Bundle : owners[b] = NoOwner}
    BY <1>3 DEF FreeListSeparated
  <2>2. FreeBundles(free_ranges') = {b \in Bundle : owners'[b] = NoOwner}
    BY <1>1, <2>1
  <2>. QED BY <1>1, <2>2 DEF FreeListSeparated
<1>10. ASSUME NEW b \in Bundle, NEW q \in Owner
       PROVE  owners'[b] = q <=> \E id \in BlocksOf(q, b) : ref_cnt'[q][id] > 0
  <2>0. owners[b] = q <=> \E id \in BlocksOf(q, b) : ref_cnt[q][id] > 0
    BY <1>3 DEF OwnedIffReferenced
  <2>1. CASE q # o
    <3>1. owners'[b] = q <=> owners[b] = q
      BY <1>1, <2>1 DEF Owner, NoOwner
    <3>. QED BY <1>7, <2>0, <2>1, <3>1
  <2>2. CASE q = o /\ b \in E
    <3>1. owners'[b] = NoOwner
      BY <1>1, <2>2
    <3>2. owners'[b] # o
      BY <3>1 DEF Owner, NoOwner
    <3>3. \A id \in BlocksOf(o, b) : ref_cnt'[o][id] = 0
      BY <1>2, <1>7, <2>2
    <3>. QED BY <2>2, <3>2, <3>3
  <2>3. CASE q = o /\ b \notin E
    <3>1. owners'[b] = owners[b]
      BY <1>1, <2>3
    <3>2. \A id \in BlocksOf(o, b) : id \in BlockId(o) /\ bundle_id_for_block(o, id) = b
      BY LayoutInverse
    <3>3. CASE \E id \in S : b = bundle_id_for_block(o, id)
      <4>1. PICK id \in BlocksOf(o, b) : row[id] # 0
        BY <1>2, <2>3, <3>3
      <4>2. row[id] = 1 /\ ref_cnt[o][id] = 1
        BY <1>4, <1>5, <1>6, <3>2, <4>1
      <4>3. ref_cnt'[o][id] > 0 /\ ref_cnt[o][id] > 0
        BY <1>7, <4>2
      <4>4. owners'[b] = q
        BY <2>0, <2>3, <3>1, <4>1, <4>3
      <4>5. \E j \in BlocksOf(q, b) : ref_cnt'[q][j] > 0
        BY <2>3, <4>1, <4>3
      <4>. QED BY <4>4, <4>5
    <3>4. CASE ~ \E id \in S : b = bundle_id_for_block(o, id)
      <4>1. \A id \in BlocksOf(o, b) : id \notin S
        BY <3>2, <3>4
      <4>2. \A id \in BlocksOf(o, b) : ref_cnt'[o][id] = ref_cnt[o][id]
        BY <1>6, <1>7, <3>2, <4>1
      <4>. QED BY <2>0, <2>3, <3>1, <4>2
    <3>. QED BY <3>3, <3>4
  <2>. QED BY <2>1, <2>2, <2>3
<1>11. LiveInBundles'
  <2>. SUFFICES ASSUME NEW q \in Owner, NEW id \in BlockId(q), ref_cnt'[q][id] > 0
                PROVE  \E b \in Bundle : id \in BlocksOf(q, b)
    BY DEF LiveInBundles
  <2>1. ref_cnt'[q][id] = ref_cnt[q][id]
    <3>1. CASE q # o
      BY <1>7, <3>1
    <3>2. CASE q = o
      BY <1>6, <1>7, <3>2
    <3>. QED BY <3>1, <3>2
  <2>. QED BY <1>3, <2>1 DEF LiveInBundles
<1>. QED BY <1>8, <1>9, <1>10, <1>11 DEF IInv, OwnedIffReferenced

\* Every step of the pool preserves the invariant.
LEMMA NextIInv == IInv /\ [Next]_vars => IInv'
<1>. SUFFICES ASSUME IInv, [Next]_vars PROVE IInv'
  OBVIOUS
<1>1. ASSUME NEW o \in Owner, NEW n \in 1..row_count(o), get_new_blocks(o, n)
      PROVE  IInv'
  <2>1. n \in Nat
    OBVIOUS
  <2>. QED BY <1>1, <2>1, NewBlocksIInv
<1>2. ASSUME NEW o \in Owner, NEW S \in (SUBSET Live(o)) \ {{}}, free_blocks(o, S)
      PROVE  IInv'
  BY <1>2, FreeBlocksIInv
<1>3. CASE UNCHANGED vars
  BY <1>3 DEF vars, IInv, TypeOK, FreeListSeparated, OwnedIffReferenced, LiveInBundles
<1>. QED BY <1>1, <1>2, <1>3 DEF Next

-----------------------------------------------------------------------------
(* The theorems                                                             *)

\* The inductive invariant holds in every reachable state.
THEOREM Invariance == Spec => []IInv
  BY InitIInv, NextIInv, PTL DEF Spec

\* Every state of the two logical pools has the types of the constructors.
THEOREM TypeCorrect == Spec => []TypeOK
<1>1. IInv => TypeOK
  BY DEF IInv
<1>. QED BY Invariance, <1>1, PTL

\* The allocator's free list is always the maximal runs of the unowned bundles.
THEOREM FreeListIsExact == Spec => []FreeListExact
<1>1. IInv => FreeListExact
  BY SeparatedIsMaximal DEF IInv, FreeListSeparated, FreeListExact
<1>. QED BY Invariance, <1>1, PTL

\* A bundle is owned exactly while a logical block of it is referenced.
THEOREM OwnershipFollowsReferences == Spec => []OwnedIffReferenced
<1>1. IInv => OwnedIffReferenced
  BY DEF IInv
<1>. QED BY Invariance, <1>1, PTL

\* No bundle ever backs a live latent block and a live indexer block at once.
THEOREM GroupsNeverAlias == Spec => []NoAliasing
<1>1. IInv => NoAliasing
  <2>. SUFFICES ASSUME IInv, NEW i \in Live("latent"), NEW j \in Live("indexer"),
                       bundle_id_for_block("latent", i) = bundle_id_for_block("indexer", j)
                PROVE  FALSE
    BY DEF NoAliasing
  <2>0. "latent" \in Owner /\ "indexer" \in Owner
    BY DEF Owner
  <2>1. PICK a \in Bundle : i \in BlocksOf("latent", a)
    BY <2>0 DEF IInv, LiveInBundles, Live
  <2>2. PICK b \in Bundle : j \in BlocksOf("indexer", b)
    BY <2>0 DEF IInv, LiveInBundles, Live
  <2>3. a = b
    BY <2>1, <2>2, LatentLayout, IndexerLayout
  <2>4. owners[a] = "latent"
    BY <2>0, <2>1 DEF IInv, OwnedIffReferenced, Live
  <2>5. owners[b] = "indexer"
    BY <2>0, <2>2 DEF IInv, OwnedIffReferenced, Live
  <2>. QED BY <2>3, <2>4, <2>5
<1>. QED BY Invariance, <1>1, PTL

\* The two logical pools over one allocator implement BundlePool: bundles move
\* between the groups only through the free list, and only their owner returns
\* them.
THEOREM Refinement == Spec => ImplementsBundlePool
<1>1. Init => Pool!Init
  BY DEF Init, Pool!Init
<1>2. IInv /\ [Next]_vars => [Pool!Next]_owners
  <2>. SUFFICES ASSUME IInv, [Next]_vars PROVE [Pool!Next]_owners
    OBVIOUS
  <2>1. ASSUME NEW o \in Owner, NEW n \in 1..row_count(o), get_new_blocks(o, n)
        PROVE  Pool!Next
    <3>1. n \in Nat
      OBVIOUS
    <3>2. /\ Chosen(o, n) \subseteq {b \in Bundle : owners[b] = NoOwner}
          /\ owners' = [b \in Bundle |-> IF b \in Chosen(o, n) THEN o ELSE owners[b]]
      BY <2>1, <3>1, NewBlocksFacts
    <3>3. Chosen(o, n) \in SUBSET Bundle /\ Pool!Acquire(o, Chosen(o, n))
      BY <3>2 DEF Pool!Acquire
    <3>. QED BY <3>3 DEF Pool!Next
  <2>2. ASSUME NEW o \in Owner, NEW S \in (SUBSET Live(o)) \ {{}}, free_blocks(o, S)
        PROVE  Pool!Next
    <3>1. /\ Emptied(o, S) \subseteq {b \in Bundle : owners[b] = o}
          /\ owners' = [b \in Bundle |-> IF b \in Emptied(o, S) THEN NoOwner ELSE owners[b]]
      BY <2>2, FreeBlocksFacts
    <3>2. Emptied(o, S) \in SUBSET Bundle /\ Pool!Release(o, Emptied(o, S))
      BY <3>1 DEF Pool!Release
    <3>. QED BY <3>2 DEF Pool!Next
  <2>3. CASE UNCHANGED vars
    BY <2>3 DEF vars
  <2>. QED BY <2>1, <2>2, <2>3, Zenon DEF Next
<1>. QED BY <1>1, <1>2, Invariance, PTL DEF Spec, Pool!Spec, ImplementsBundlePool
=============================================================================
