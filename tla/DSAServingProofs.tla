-------------------------- MODULE DSAServingProofs --------------------------
(***************************************************************************)
(* Admission and allocation in DSAKVCache agree: a request that             *)
(* has_enough_free_blocks admits gets its blocks, for every number of       *)
(* requests, pool, layout and schedule.  Tables are made of whole bundles,  *)
(* so the blocks that admission counts are the blocks that allocation takes.*)
(***************************************************************************)
EXTENDS DSAKVCacheProofs

-----------------------------------------------------------------------------
(* Admission and allocation agree.                                          *)

LEMMA RoundedToBundles ==
    ASSUME NEW n \in Nat
    PROVE  /\ Mult(_round_up_to_bundle(n)) /\ _round_down_to_bundle(n) \in Nat
           /\ Mult(_round_down_to_bundle(n)) /\ _round_down_to_bundle(n) <= n
<1>1. LatentPerBundle \in Nat \ {0}
  BY CacheAssumption
<1>2. cdiv(n, LatentPerBundle) \in Nat
  BY <1>1, CdivUp
<1>3. n \div LatentPerBundle \in Nat /\ _round_down_to_bundle(n) \in Nat /\ _round_down_to_bundle(n) <= n
  BY Division DEF _round_down_to_bundle
<1> QED BY <1>2, <1>3 DEF _round_up_to_bundle, _round_down_to_bundle, Mult

\* The rows of a compact table: all of them, or the scratch rows and a tail.
TailStart(p, force, rel) ==
    LET tail         == MaxOf(_round_down_to_bundle(p \div BlockSize), rel)
        final_prompt == _round_down_to_bundle(MaxOf(cdiv(p, BlockSize) - 1, 0))
    IN  MaxOf(scratch_end, IF force THEN MinOf(tail, final_prompt) ELSE tail)
RequiredEnd(n) == _round_up_to_bundle(cdiv(n, BlockSize))

LEMMA CompactParts ==
    ASSUME NEW p \in Nat, NEW n \in Nat, NEW main \in Nat, NEW force \in BOOLEAN, NEW rel \in Nat
    PROVE  /\ force \/ main > p =>
                 _compact_required_indices(p, n, main, force, rel) =
                    (0 .. scratch_end - 1) \cup (TailStart(p, force, rel) .. RequiredEnd(n) - 1)
           /\ ~force /\ main <= p =>
                 _compact_required_indices(p, n, main, force, rel) = 0 .. RequiredEnd(n) - 1
<1>1. main > p <=> ~(main <= p)
  OBVIOUS
<1> QED BY <1>1 DEF _compact_required_indices, TailStart, RequiredEnd

LEMMA ForcedParts ==
    ASSUME NEW p, NEW n, NEW main, NEW rel
    PROVE  _compact_required_indices(p, n, main, TRUE, rel) =
              (0 .. scratch_end - 1) \cup (TailStart(p, TRUE, rel) .. RequiredEnd(n) - 1)
BY DEF _compact_required_indices, TailStart, RequiredEnd

LEMMA ForcedPartsOf ==
    ASSUME NEW s
    PROVE  _compact_required_indices(s.total, s.need, s.main, TRUE, 0) =
              (0 .. scratch_end - 1) \cup (TailStart(s.total, TRUE, 0) .. RequiredEnd(s.need) - 1)
<1>1. PICK p, n, main : p = s.total /\ n = s.need /\ main = s.main
  BY Zenon
<1>2. _compact_required_indices(p, n, main, TRUE, 0) =
          (0 .. scratch_end - 1) \cup (TailStart(p, TRUE, 0) .. RequiredEnd(n) - 1)
  BY ForcedParts, Zenon
<1> QED BY <1>1, <1>2, Zenon

LEMMA PartsInBundles ==
    ASSUME NEW p \in Nat, NEW n \in Nat, NEW force \in BOOLEAN, NEW rel \in Nat, Mult(rel)
    PROVE  /\ scratch_end \in Nat /\ Mult(scratch_end)
           /\ TailStart(p, force, rel) \in Nat /\ Mult(TailStart(p, force, rel))
           /\ TailStart(p, force, rel) >= scratch_end
           /\ RequiredEnd(n) \in Nat /\ Mult(RequiredEnd(n)) /\ RequiredEnd(n) >= cdiv(n, BlockSize)
           /\ cdiv(n, BlockSize) \in Nat
<1> DEFINE low          == _round_down_to_bundle(p \div BlockSize)
           tail         == MaxOf(low, rel)
           final_prompt == _round_down_to_bundle(MaxOf(cdiv(p, BlockSize) - 1, 0))
           start        == IF force THEN MinOf(tail, final_prompt) ELSE tail
<1>1. BlockSize \in Nat \ {0} /\ Scratch \in Nat
  BY CacheAssumption
<1>2. scratch_end \in Nat /\ Mult(scratch_end)
  BY <1>1, RoundUp, RoundedToBundles DEF scratch_end
<1>3. low \in Nat /\ Mult(low)
  <2>1. p \div BlockSize \in Nat
    BY <1>1
  <2> QED BY <2>1, RoundedToBundles
<1>4. tail \in Nat /\ Mult(tail)
  BY <1>3 DEF MaxOf
<1>5. final_prompt \in Nat /\ Mult(final_prompt)
  <2>1. MaxOf(cdiv(p, BlockSize) - 1, 0) \in Nat
    BY <1>1, CdivUp DEF MaxOf
  <2> QED BY <2>1, RoundedToBundles
<1>6. start \in Nat /\ Mult(start)
  BY <1>4, <1>5 DEF MinOf
<1>7. cdiv(n, BlockSize) \in Nat
  BY <1>1, CdivUp
<1>8. RequiredEnd(n) \in Nat /\ Mult(RequiredEnd(n)) /\ cdiv(n, BlockSize) <= RequiredEnd(n)
  BY <1>7, RoundUp, RoundedToBundles DEF RequiredEnd
<1>9. TailStart(p, force, rel) = MaxOf(scratch_end, start)
  BY DEF TailStart
<1> HIDE DEF start
<1>10. MaxOf(scratch_end, start) \in Nat /\ Mult(MaxOf(scratch_end, start)) /\ MaxOf(scratch_end, start) >= scratch_end
  BY <1>2, <1>6 DEF MaxOf
<1> QED BY <1>2, <1>7, <1>8, <1>9, <1>10

LEMMA CompactWhole ==
    ASSUME NEW p \in Nat, NEW n \in Nat, NEW main \in Nat, NEW force \in BOOLEAN, NEW rel \in Nat,
           Mult(rel)
    PROVE  Whole(_compact_required_indices(p, n, main, force, rel))
<1>0. Mult(0)
  BY CacheAssumption DEF Mult
<1>1. /\ scratch_end \in Nat /\ Mult(scratch_end)
      /\ TailStart(p, force, rel) \in Nat /\ Mult(TailStart(p, force, rel))
      /\ RequiredEnd(n) \in Nat /\ Mult(RequiredEnd(n))
  BY PartsInBundles, Zenon
<1>2. Whole(0 .. scratch_end - 1)
  BY <1>0, <1>1, WholeInterval
<1>3. Whole(TailStart(p, force, rel) .. RequiredEnd(n) - 1)
  BY <1>1, WholeInterval
<1>4. Whole(0 .. RequiredEnd(n) - 1)
  BY <1>0, <1>1, WholeInterval
<1>5. Whole((0 .. scratch_end - 1) \cup (TailStart(p, force, rel) .. RequiredEnd(n) - 1))
  BY <1>2, <1>3, WholeUnion, Zenon
<1>6. CASE force \/ main > p
  <2>1. _compact_required_indices(p, n, main, force, rel) =
           (0 .. scratch_end - 1) \cup (TailStart(p, force, rel) .. RequiredEnd(n) - 1)
    BY <1>6, CompactParts
  <2> QED BY <1>5, <2>1
<1>7. CASE ~force /\ main <= p
  <2>1. _compact_required_indices(p, n, main, force, rel) = 0 .. RequiredEnd(n) - 1
    BY <1>7, CompactParts
  <2> QED BY <1>4, <2>1
<1> QED BY <1>6, <1>7

\* What has_enough_free_blocks needs to know of the request.
Admissible(r, s) ==
    /\ UsesCompact(r, s) => Whole(Rows(r)) /\ Mult(released[r])
    /\ StartsTable(r, s) => Rows(r) = {} /\ released[r] = 0

\* The rows a compact table is given fill bundles.
LEMMA MissingWhole ==
    ASSUME CacheTypes, NEW r \in Req, NEW s, SlotsOK(s), Admissible(r, s), UsesCompact(r, s)
    PROVE  /\ MissingAfterScratch(r, s) \in SUBSET Nat /\ IsFiniteSet(MissingAfterScratch(r, s))
           /\ Whole(MissingAfterScratch(r, s))
           /\ Cardinality(MissingAfterScratch(r, s)) \in Nat /\ Mult(Cardinality(MissingAfterScratch(r, s)))
<1> DEFINE M == MissingAfterScratch(r, s)
<1>0. released[r] \in Nat /\ Rows(r) \in SUBSET Nat
  BY DEF CacheTypes, Rows
<1>1. PICK N \in SUBSET Nat : \E p \in Nat, force \in BOOLEAN :
         /\ M = _compact_required_indices(p, s.need, s.main, force, released[r]) \ N
         /\ Whole(N) /\ Mult(released[r])
  <2>1. CASE s.load
    <3>1. Mult(0)
      BY CacheAssumption DEF Mult
    <3>2. scratch_end \in Nat /\ Mult(scratch_end)
      BY CacheAssumption, RoundUp, RoundedToBundles, Zenon DEF scratch_end
    <3>3. Whole(0 .. scratch_end - 1) /\ 0 .. scratch_end - 1 \in SUBSET Nat
      BY <3>1, <3>2, WholeInterval
    <3>4. Mult(released[r]) /\ Whole(Rows(r))
      BY Zenon DEF Admissible
    <3>5. Whole(ScratchRows(r, s)) /\ ScratchRows(r, s) \in SUBSET Nat
      <4>1. CASE StartsTable(r, s)
        BY <3>3, <4>1, Zenon DEF ScratchRows
      <4>2. CASE ~StartsTable(r, s)
        <5>1. ScratchRows(r, s) = {}
          BY <4>2, Zenon DEF ScratchRows
        <5> QED BY <5>1 DEF Whole
      <4> QED BY <4>1, <4>2, Zenon
    <3>6. PICK N : N = Rows(r) \cup ScratchRows(r, s)
      BY Zenon
    <3>7. Whole(N) /\ N \in SUBSET Nat
      BY <1>0, <3>4, <3>5, <3>6, WholeUnion
    <3>8. M = _compact_required_indices(s.total, s.need, s.main, TRUE, released[r]) \ N
      BY <2>1, <3>6, Zenon DEF MissingAfterScratch
    <3> QED BY <3>4, <3>7, <3>8, Zenon DEF SlotsOK
  <2>2. CASE ~s.load
    <3>1. prefix[r] # NoPrefix /\ prefix[r] \in Nat
      BY <2>2 DEF UsesCompact, CacheTypes
    <3>2. M = _compact_required_indices(prefix[r], s.need, s.main, FALSE, released[r]) \ Rows(r)
      BY <2>2 DEF MissingAfterScratch
    <3>3. Whole(Rows(r)) /\ Mult(released[r])
      BY Zenon DEF Admissible
    <3> QED BY <1>0, <3>1, <3>2, <3>3, Zenon
  <2> QED BY <2>1, <2>2
<1>2. PICK p \in Nat, force \in BOOLEAN :
         /\ M = _compact_required_indices(p, s.need, s.main, force, released[r]) \ N
         /\ Whole(N) /\ Mult(released[r])
  BY <1>1
<1> DEFINE R == _compact_required_indices(p, s.need, s.main, force, released[r])
<1>3. PICK K \in Nat : R \subseteq 0 .. K
  BY <1>0, CompactRows, Zenon DEF SlotsOK
<1>4. Whole(R)
  BY <1>0, <1>2, CompactWhole DEF SlotsOK
<1>5. R \in SUBSET Nat
  BY <1>3
<1>6. M \subseteq 0 .. K
  BY <1>2, <1>3
<1>7. M \in SUBSET Nat /\ IsFiniteSet(M) /\ Cardinality(M) \in Nat
  BY <1>6, FiniteRows
<1>8. Whole(M)
  <2> HIDE DEF M, R
  <2>1. M = R \ N
    BY <1>2 DEF R
  <2> QED BY <1>2, <1>4, <1>5, <2>1, WholeDifference
<1>9. Mult(Cardinality(M))
  BY <1>7, <1>8, WholeCardinality
<1> QED BY <1>7, <1>8, <1>9

LEMMA IntervalSize ==
    ASSUME NEW l \in Nat, NEW m \in Nat
    PROVE  IsFiniteSet(l .. l + m - 1) /\ Cardinality(l .. l + m - 1) = m /\ l .. l + m - 1 \in SUBSET Nat
<1>1. PICK h \in Int : h = l + m - 1
  OBVIOUS
<1>2. l \in Int
  OBVIOUS
<1>3. IsFiniteSet(l .. h) /\ Cardinality(l .. h) = IF l > h THEN 0 ELSE h - l + 1
  BY <1>2, FS_Interval
<1>4. (IF l > h THEN 0 ELSE h - l + 1) = m
  BY <1>1
<1>5. l .. h \in SUBSET Nat
  OBVIOUS
<1> QED BY <1>1, <1>3, <1>4, <1>5

LEMMA LaterStart ==
    ASSUME NEW u \in Nat, NEW v \in Nat, NEW e \in Nat, u <= v
    PROVE  v .. e - 1 \subseteq u .. e - 1
OBVIOUS

\* A load that finds blocks released asks for no more rows than the admission,
\* which takes none as released.
LEMMA LoadAsksLess ==
    ASSUME NEW p \in Nat, NEW n \in Nat, NEW main \in Nat, NEW rel \in Nat
    PROVE  _compact_required_indices(p, n, main, TRUE, rel) \subseteq _compact_required_indices(p, n, main, TRUE, 0)
<1> DEFINE low  == _round_down_to_bundle(p \div BlockSize)
           last == _round_down_to_bundle(MaxOf(cdiv(p, BlockSize) - 1, 0))
<1>1. BlockSize \in Nat \ {0} /\ Scratch \in Nat /\ scratch_end \in Nat
  BY CacheAssumption, RoundUp DEF scratch_end
<1>2. low \in Nat
  <2>1. p \div BlockSize \in Nat
    BY <1>1
  <2> QED BY <2>1, RoundedToBundles
<1>3. last \in Nat
  <2>1. MaxOf(cdiv(p, BlockSize) - 1, 0) \in Nat
    BY <1>1, CdivUp DEF MaxOf
  <2> QED BY <2>1, RoundedToBundles
<1>4. /\ TailStart(p, TRUE, rel) = MaxOf(scratch_end, MinOf(MaxOf(low, rel), last))
      /\ TailStart(p, TRUE, 0) = MaxOf(scratch_end, MinOf(MaxOf(low, 0), last))
  BY DEF TailStart
<1> HIDE DEF low, last
<1>5. PICK u \in Nat, v \in Nat : u = TailStart(p, TRUE, 0) /\ v = TailStart(p, TRUE, rel) /\ u <= v
  <2>1. PICK x \in Nat : x = MaxOf(low, 0) /\ x = low
    BY <1>2 DEF MaxOf
  <2>2. PICK y \in Nat : y = MaxOf(low, rel) /\ x <= y
    BY <1>2, <2>1 DEF MaxOf
  <2>3. PICK a \in Nat, b \in Nat : a = MinOf(x, last) /\ b = MinOf(y, last) /\ a <= b
    BY <1>3, <2>1, <2>2 DEF MinOf
  <2>4. MaxOf(scratch_end, a) \in Nat /\ MaxOf(scratch_end, b) \in Nat /\ MaxOf(scratch_end, a) <= MaxOf(scratch_end, b)
    BY <1>1, <2>3 DEF MaxOf
  <2> QED BY <1>4, <2>1, <2>2, <2>3, <2>4, Zenon
<1>6. RequiredEnd(n) \in Nat
  <2>1. cdiv(n, BlockSize) \in Nat
    BY <1>1, CdivUp
  <2> QED BY <2>1, RoundUp DEF RequiredEnd
<1>7. PICK e \in Nat : e = RequiredEnd(n)
  BY <1>6
<1>8. v .. e - 1 \subseteq u .. e - 1
  BY <1>5, <1>7, LaterStart, Zenon
<1>9. /\ _compact_required_indices(p, n, main, TRUE, rel) = (0 .. scratch_end - 1) \cup (v .. e - 1)
      /\ _compact_required_indices(p, n, main, TRUE, 0) = (0 .. scratch_end - 1) \cup (u .. e - 1)
  BY <1>5, <1>7, ForcedParts, Zenon
<1> QED BY <1>8, <1>9, Zenon

LEMMA CdivMonotone ==
    ASSUME NEW a \in Nat, NEW b \in Nat, a <= b
    PROVE  cdiv(a, LatentPerBundle) <= cdiv(b, LatentPerBundle)
<1> DEFINE d == LatentPerBundle
           x == cdiv(a, d)
           y == cdiv(b, d)
<1>1. d \in Nat \ {0} /\ x \in Nat /\ y \in Nat
  BY CacheAssumption, CdivUp
<1>2. x <= y
  BY <1>1 DEF cdiv
<1> QED BY <1>2

\* The bundles taken are the ones counted at admission.
LEMMA TakenAsCounted ==
    ASSUME CacheTypes, NEW r \in Req, NEW s, SlotsOK(s), Admissible(r, s)
    PROVE  /\ IsFiniteSet(NewLatent(r, s)) /\ Cardinality(NewLatent(r, s)) \in Nat
           /\ cdiv(latent_blocks_to_allocate(r, s), LatentPerBundle) \in Nat
           /\ Cardinality(NewLatent(r, s)) <= cdiv(latent_blocks_to_allocate(r, s), LatentPerBundle)
<1> DEFINE d == LatentPerBundle
           M == MissingAfterScratch(r, s)
<1>0. d \in Nat \ {0} /\ BlockSize \in Nat \ {0}
  BY CacheAssumption, Zenon
<1>1. CASE ~UsesCompact(r, s)
  <2> DEFINE more == MaxOf(cdiv(s.need, BlockSize) - latent_len[r], 0)
             c == cdiv(more, d)
             I == latent_len[r] .. latent_len[r] + _round_up_to_bundle(more) - 1
  <2>1. latent_len[r] \in Nat /\ more \in Nat
    <3>1. latent_len[r] \in Nat /\ cdiv(s.need, BlockSize) \in Nat
      BY <1>0, CdivUp DEF SlotsOK, CacheTypes
    <3> QED BY <3>1 DEF MaxOf
  <2>2. NewLatent(r, s) = InBundles(I) /\ latent_blocks_to_allocate(r, s) = more
    BY <1>1 DEF NewLatent, latent_blocks_to_allocate
  <2> HIDE DEF more
  <2>3. c \in Nat /\ _round_up_to_bundle(more) = c * d /\ c * d \in Nat
    BY <1>0, <2>1, CdivUp DEF _round_up_to_bundle
  <2>4. IsFiniteSet(I) /\ Cardinality(I) = c * d /\ I \in SUBSET Nat
    <3>1. I = latent_len[r] .. latent_len[r] + c * d - 1
      BY <2>3
    <3> HIDE DEF c, d, I
    <3> QED BY <2>1, <2>3, <3>1, IntervalSize, Zenon
  <2>5. cdiv(c * d + 0, d) = c + cdiv(0, d)
    BY <2>3, CdivMultiple
  <2>6. cdiv(0, d) = 0
    BY <1>0 DEF cdiv
  <2>7. cdiv(c * d, d) = c
    BY <2>3, <2>5, <2>6
  <2> QED BY <2>2, <2>3, <2>4, <2>7, InBundlesOf, Zenon
<1>2. CASE UsesCompact(r, s) /\ ~s.load
  <2>1. M \in SUBSET Nat /\ IsFiniteSet(M) /\ Cardinality(M) \in Nat
    BY <1>2, MissingWhole
  <2>2. NewLatent(r, s) = InBundles(M) /\ latent_blocks_to_allocate(r, s) = Cardinality(M)
    <3>1. NewLatent(r, s) = InBundles(M)
      BY <1>2, NoScratchRows, Zenon DEF StartsTable
    <3> QED BY <1>2, <3>1, Zenon DEF latent_blocks_to_allocate, MissingAtAdmission, MissingAfterScratch
  <2>3. cdiv(Cardinality(M), d) \in Nat
    BY <1>0, <2>1, CdivUp
  <2> QED BY <2>1, <2>2, <2>3, InBundlesOf
<1>3. CASE StartsTable(r, s)
  <2> DEFINE S == 0 .. scratch_end - 1
             t == TailStart(s.total, TRUE, 0)
             T == t .. RequiredEnd(s.need) - 1
  <2>0. UsesCompact(r, s) /\ Rows(r) = {} /\ released[r] = 0 /\ s.load /\ ScratchRows(r, s) = S
    BY <1>3, Zenon DEF UsesCompact, Admissible, StartsTable, ScratchRows
  <2>1. Mult(0)
    BY <1>0 DEF Mult
  <2>2. scratch_end \in Nat /\ Mult(scratch_end) /\ t \in Nat /\ t >= scratch_end
    BY <2>1, PartsInBundles, Zenon DEF SlotsOK
  <2>3. _compact_required_indices(s.total, s.need, s.main, TRUE, 0) = S \cup T
    BY ForcedParts, Zenon
  <2> HIDE DEF t
  <2>4. S \cap T = {}
    BY <2>2
  <2>5. M = T
    <3>0. M = (S \cup T) \ ({} \cup S)
      BY <2>0, <2>3, Zenon DEF MissingAfterScratch
    <3>1. M = (S \cup T) \ S
      BY <3>0, Zenon
    <3> HIDE DEF S, T, M
    <3> QED BY <2>4, <3>1
  <2>6. MissingAtAdmission(r, s) = S \cup T
    BY <2>0, <2>3, Zenon DEF MissingAtAdmission
  <2>7. M \in SUBSET Nat /\ IsFiniteSet(M) /\ Cardinality(M) \in Nat
    BY <2>0, MissingWhole
  <2>8. IsFiniteSet(S) /\ Cardinality(S) = scratch_end /\ S \in SUBSET Nat
    <3>1. IsFiniteSet(S) /\ Cardinality(S) = IF 0 > scratch_end - 1 THEN 0 ELSE scratch_end - 1 - 0 + 1
      BY <2>2, FS_Interval
    <3> QED BY <2>2, <3>1
  <2>9. latent_blocks_to_allocate(r, s) = scratch_end + Cardinality(M)
    <3>1. Cardinality(S \cup T) = Cardinality(S) + Cardinality(T) - Cardinality(S \cap T)
      BY <2>5, <2>7, <2>8, FS_Union, Zenon
    <3>2. Cardinality(S \cap T) = 0
      BY <2>4, FS_EmptySet
    <3>3. Cardinality(S \cup T) = scratch_end + Cardinality(M)
      BY <2>2, <2>5, <2>7, <2>8, <3>1, <3>2
    <3> QED BY <2>0, <2>6, <3>3 DEF latent_blocks_to_allocate
  <2>10. PICK c \in Nat : scratch_end = c * d
    BY <2>2 DEF Mult
  <2>11. cdiv(scratch_end + Cardinality(M), d) = c + cdiv(Cardinality(M), d)
    BY <2>7, <2>10, CdivMultiple
  <2>12. cdiv(scratch_end, d) = c
    <3>1. cdiv(c * d + 0, d) = c + cdiv(0, d)
      BY <2>10, CdivMultiple
    <3>2. cdiv(0, d) = 0
      BY <1>0 DEF cdiv
    <3>3. c * d + 0 = c * d
      BY <1>0
    <3> QED BY <2>10, <3>1, <3>2, <3>3
  <2>13. NewLatent(r, s) = InBundles(M) \cup InBundles(S)
    BY <2>0, Zenon DEF NewLatent
  <2>14. IsFiniteSet(InBundles(M)) /\ Cardinality(InBundles(M)) \in Nat
         /\ Cardinality(InBundles(M)) <= cdiv(Cardinality(M), d)
    BY <2>7, InBundlesOf
  <2>15. IsFiniteSet(InBundles(S)) /\ Cardinality(InBundles(S)) \in Nat /\ Cardinality(InBundles(S)) <= c
    BY <2>8, <2>12, InBundlesOf, Zenon
  <2>16. /\ IsFiniteSet(NewLatent(r, s)) /\ Cardinality(NewLatent(r, s)) \in Nat
         /\ Cardinality(NewLatent(r, s)) <= Cardinality(InBundles(M)) + Cardinality(InBundles(S))
    <3> DEFINE A == InBundles(M)
               B == InBundles(S)
    <3> HIDE DEF A, B
    <3>1. IsFiniteSet(A) /\ IsFiniteSet(B) /\ Cardinality(A) \in Nat /\ Cardinality(B) \in Nat
      BY <2>14, <2>15 DEF A, B
    <3>2. /\ IsFiniteSet(A \cup B)
          /\ Cardinality(A \cup B) = Cardinality(A) + Cardinality(B) - Cardinality(A \cap B)
      BY <3>1, FS_Union
    <3>3. IsFiniteSet(A \cap B) /\ Cardinality(A \cap B) \in Nat /\ Cardinality(A \cup B) \in Nat
      BY <3>1, <3>2, FS_Intersection, FS_CardinalityType, Zenon
    <3>4. Cardinality(A \cup B) <= Cardinality(A) + Cardinality(B)
      BY <3>1, <3>2, <3>3
    <3> QED BY <2>13, <3>2, <3>3, <3>4 DEF A, B
  <2>17. cdiv(Cardinality(M), d) \in Nat
    BY <1>0, <2>7, CdivUp
  <2>18. Cardinality(NewLatent(r, s)) <= c + cdiv(Cardinality(M), d)
    BY <2>14, <2>15, <2>16, <2>17
  <2> QED BY <2>9, <2>11, <2>16, <2>17, <2>18
<1>4. CASE s.load /\ ~StartsTable(r, s)
  <2> DEFINE A == MissingAtAdmission(r, s)
  <2>0. UsesCompact(r, s)
    BY <1>4 DEF UsesCompact
  <2>1. M \in SUBSET Nat /\ IsFiniteSet(M) /\ Cardinality(M) \in Nat
    BY <2>0, MissingWhole, Zenon
  <2>2. NewLatent(r, s) = InBundles(M) /\ latent_blocks_to_allocate(r, s) = Cardinality(A)
    BY <1>4, <2>0, NoScratchRows, Zenon DEF latent_blocks_to_allocate
  <2>3. M \subseteq A
    <3>1. _compact_required_indices(s.total, s.need, s.main, TRUE, released[r])
            \subseteq _compact_required_indices(s.total, s.need, s.main, TRUE, 0)
      BY LoadAsksLess, Zenon DEF SlotsOK, CacheTypes
    <3> QED BY <1>4, <3>1, Zenon DEF MissingAfterScratch, MissingAtAdmission
  <2>4. IsFiniteSet(A)
    <3>1. PICK K \in Nat : _compact_required_indices(s.total, s.need, s.main, TRUE, 0) \subseteq 0 .. K
      BY CompactRows, Zenon DEF SlotsOK
    <3>2. A \subseteq 0 .. K
      BY <1>4, <3>1, Zenon DEF MissingAtAdmission
    <3> QED BY <3>2, FiniteRows, Zenon
  <2>5. Cardinality(A) \in Nat /\ Cardinality(M) <= Cardinality(A)
    BY <2>3, <2>4, FS_Subset, FS_CardinalityType, Zenon
  <2>6. cdiv(Cardinality(M), d) \in Nat /\ cdiv(Cardinality(A), d) \in Nat
        /\ cdiv(Cardinality(M), d) <= cdiv(Cardinality(A), d)
    BY <1>0, <2>1, <2>5, CdivMonotone, CdivUp
  <2>7. IsFiniteSet(InBundles(M)) /\ Cardinality(InBundles(M)) \in Nat
        /\ Cardinality(InBundles(M)) <= cdiv(Cardinality(M), d)
    BY <2>1, InBundlesOf, Zenon
  <2>8. Cardinality(InBundles(M)) <= cdiv(Cardinality(A), d)
    BY <2>6, <2>7
  <2> QED BY <2>2, <2>6, <2>7, <2>8, Zenon
<1>5. UsesCompact(r, s) \/ ~UsesCompact(r, s)
  OBVIOUS
<1>6. s.load \/ ~s.load
  BY DEF SlotsOK
<1> QED BY <1>1, <1>2, <1>3, <1>4, <1>5, <1>6, Zenon

\* has_enough_free_blocks promises the blocks that allocate_slots then takes.
LEMMA AdmittedIsServed ==
    ASSUME CacheTypes, indexer \in [Req -> Nat], free_bundles \in Int,
           NEW r \in Req, NEW s, SlotsOK(s), Admissible(r, s), has_enough_free_blocks(r, s)
    PROVE  ~AllocationFails(r, s)
<1> DEFINE more == cdiv(indexer_blocks_to_allocate(r, s), IndexerPerBundle)
           a == cdiv(latent_blocks_to_allocate(r, s), LatentPerBundle)
           b == Cardinality(NewLatent(r, s))
<1>1. more \in Nat
  <2>1. BlockSize \in Nat \ {0} /\ IndexerPerBundle \in Nat \ {0}
    BY CacheAssumption
  <2>2. cdiv(s.need, BlockSize) \in Nat /\ indexer[r] * IndexerPerBundle \in Nat
    BY <2>1, CdivUp DEF SlotsOK
  <2>3. indexer_blocks_to_allocate(r, s) \in Nat
    BY <2>2 DEF indexer_blocks_to_allocate, MaxOf
  <2> QED BY <2>1, <2>3, CdivUp
<1>2. a \in Nat /\ b \in Nat /\ b <= a
  BY TakenAsCounted
<1>3. a + more <= free_bundles
  BY DEF has_enough_free_blocks
<1>4. ~(b + more > free_bundles)
  <2> HIDE DEF a, b, more
  <2> QED BY <1>1, <1>2, <1>3
<1>5. UsesCompact(r, s) => Cardinality(MissingAfterScratch(r, s)) % LatentPerBundle = 0
  BY MissingWhole, MultRemainder
<1> QED BY <1>4, <1>5 DEF AllocationFails

-----------------------------------------------------------------------------
(* Tables of whole bundles stay tables of whole bundles.                    *)

LEMMA NewTable ==
    ASSUME CacheTypes, NEW r \in Req, NEW s, SlotsOK(s), Admissible(r, s),
           s.load => s.need = s.total /\ s.total > 0,
           Whole(Rows(r)), Mult(latent_len[r])
    PROVE  Whole(Rows(r) \cup UNION NewLatent(r, s)) /\ Mult(NewLatentLen(r, s))
<1> DEFINE d == LatentPerBundle
           M == MissingAfterScratch(r, s)
           added == UNION NewLatent(r, s)
           len == NewLatentLen(r, s)
<1>0. d \in Nat \ {0} /\ BlockSize \in Nat \ {0} /\ Mult(0)
  BY CacheAssumption DEF Mult
<1>1. added \in SUBSET Nat
  <2>1. PICK K \in Nat : added \subseteq 0 .. K
    BY NewRows
  <2> QED BY <2>1, FiniteRows
<1>2. /\ len \in Nat /\ \A i \in added : i < len
      /\ \/ ~StartsTable(r, s) /\ len = latent_len[r]
         \/ StartsTable(r, s) /\ len = MaxOf(cdiv(s.total, BlockSize), scratch_end)
         \/ \E i \in added : len = i + 1
  BY NewLength
<1> HIDE DEF len
<1>3. Whole(added) /\ (\E i \in added : len = i + 1) => Mult(len)
  <2> SUFFICES ASSUME Whole(added), NEW i \in added, len = i + 1 PROVE Mult(len)
    OBVIOUS
  <2> HIDE DEF added
  <2>1. \A j \in added : j <= i
    BY <1>1, <1>2
  <2> QED BY <1>1, <2>1, WholeEnd
<1>4. CASE ~UsesCompact(r, s)
  <2> DEFINE more == MaxOf(cdiv(s.need, BlockSize) - latent_len[r], 0)
             up == _round_up_to_bundle(more)
             I == latent_len[r] .. latent_len[r] + up - 1
  <2>1. latent_len[r] \in Nat /\ more \in Nat
    <3>1. latent_len[r] \in Nat /\ cdiv(s.need, BlockSize) \in Nat
      BY <1>0, CdivUp DEF SlotsOK, CacheTypes
    <3> QED BY <3>1 DEF MaxOf
  <2>2. NewLatent(r, s) = InBundles(I)
    BY <1>4 DEF NewLatent
  <2> HIDE DEF more
  <2>3. up \in Nat /\ Mult(up)
    BY <2>1, RoundUp, RoundedToBundles
  <2>4. Mult(latent_len[r] + up) /\ latent_len[r] + up \in Nat
    <3>1. PICK x \in Nat : latent_len[r] = x * d
      BY DEF Mult
    <3>2. PICK y \in Nat : up = y * d
      BY <2>3 DEF Mult
    <3>3. latent_len[r] + up = (x + y) * d /\ x + y \in Nat
      BY <1>0, <3>1, <3>2
    <3> QED BY <2>1, <2>3, <3>3 DEF Mult
  <2>5. Whole(I)
    <3>1. PICK b \in Nat : b = latent_len[r] + up
      BY <2>4
    <3>2. Whole(latent_len[r] .. b - 1)
      BY <2>1, <2>4, <3>1, WholeInterval
    <3>3. I = latent_len[r] .. b - 1
      BY <2>1, <2>3, <3>1
    <3> HIDE DEF I
    <3> QED BY <3>2, <3>3
  <2>6. added = I
    <3>1. IsFiniteSet(I) /\ I \in SUBSET Nat
      BY <2>1, <2>3, IntervalSize, Zenon
    <3> QED BY <2>2, <3>1, InBundlesOf, Zenon
  <2>7. ~StartsTable(r, s)
    BY <1>4 DEF UsesCompact, StartsTable
  <2>8. Whole(added)
    BY <2>5, <2>6, Zenon
  <2> HIDE DEF added
  <2>9. Mult(len)
    BY <1>2, <1>3, <2>7, <2>8
  <2> QED BY <2>8, <2>9, WholeUnion DEF len, added
<1>5. CASE UsesCompact(r, s) /\ ~StartsTable(r, s)
  <2>1. M \in SUBSET Nat /\ IsFiniteSet(M) /\ Whole(M)
    BY <1>5, MissingWhole
  <2>2. NewLatent(r, s) = InBundles(M)
    BY <1>5, NoScratchRows, Zenon
  <2>3. Whole(added)
    BY <2>1, <2>2, InBundlesOf, Zenon
  <2> HIDE DEF added
  <2>4. Mult(len)
    BY <1>2, <1>3, <1>5, <2>3
  <2> QED BY <2>3, <2>4, WholeUnion DEF len, added
<1>6. CASE StartsTable(r, s)
  <2> DEFINE S == 0 .. scratch_end - 1
             t == TailStart(s.total, TRUE, 0)
             e == RequiredEnd(s.need)
             T == t .. e - 1
             k == cdiv(s.total, BlockSize)
  <2>0. /\ UsesCompact(r, s) /\ released[r] = 0 /\ s.need = s.total /\ s.total > 0
        /\ s.load /\ Rows(r) = {} /\ ScratchRows(r, s) = S
    BY <1>6, Zenon DEF UsesCompact, Admissible, StartsTable, ScratchRows
  <2>1. /\ scratch_end \in Nat /\ Mult(scratch_end) /\ t \in Nat /\ t >= scratch_end
        /\ e \in Nat /\ Mult(e) /\ e >= k /\ k \in Nat
    <3>1. scratch_end \in Nat /\ Mult(scratch_end) /\ t \in Nat /\ t >= scratch_end
      BY <1>0, PartsInBundles, Zenon DEF SlotsOK
    <3>2. e \in Nat /\ Mult(e) /\ e >= cdiv(s.need, BlockSize) /\ cdiv(s.need, BlockSize) \in Nat
      BY <1>0, PartsInBundles, Zenon DEF SlotsOK
    <3> QED BY <2>0, <3>1, <3>2, Zenon
  <2>2. M \in SUBSET Nat /\ IsFiniteSet(M) /\ Whole(M)
    BY <2>0, MissingWhole, Zenon
  <2>3. S \in SUBSET Nat /\ IsFiniteSet(S) /\ Whole(S)
    <3>1. IsFiniteSet(0 .. 0 + scratch_end - 1) /\ 0 .. 0 + scratch_end - 1 \in SUBSET Nat
      BY <2>1, IntervalSize
    <3>2. 0 .. 0 + scratch_end - 1 = S
      BY <2>1
    <3> QED BY <1>0, <2>1, <3>1, <3>2, WholeInterval
  <2>4. NewLatent(r, s) = InBundles(M) \cup InBundles(S)
    BY <2>0, Zenon DEF NewLatent
  <2>5. added = M \cup S
    <3>1. UNION InBundles(M) = M /\ UNION InBundles(S) = S
      BY <2>2, <2>3, InBundlesOf, Zenon
    <3> QED BY <2>4, <3>1, Zenon
  <2>6. Whole(added)
    <3> HIDE DEF M, S, added
    <3>1. Whole(M \cup S)
      BY <2>2, <2>3, WholeUnion
    <3> QED BY <2>5, <3>1
  <2>7. M = (S \cup T) \ S
    <3>1. _compact_required_indices(s.total, s.need, s.main, TRUE, 0) = S \cup T
      BY ForcedPartsOf, Zenon
    <3>2. M = (S \cup T) \ ({} \cup S)
      BY <2>0, <3>1, Zenon DEF MissingAfterScratch
    <3> QED BY <3>2, Zenon
  <2>8. Mult(len)
    <3>1. CASE \E i \in added : len = i + 1
      BY <1>3, <2>6, <3>1, Zenon
    <3>2. CASE len = MaxOf(k, scratch_end)
      <4>1. CASE k <= scratch_end
        <5>1. len = scratch_end
          BY <2>1, <3>2, <4>1 DEF MaxOf
        <5> QED BY <2>1, <5>1
      <4>2. CASE k > scratch_end
        <5>1. len = k
          BY <2>1, <3>2, <4>2 DEF MaxOf
        <5>2. t < e
          <6> DEFINE tail == MaxOf(_round_down_to_bundle(s.total \div BlockSize), 0)
                     last == _round_down_to_bundle(MaxOf(k - 1, 0))
          <6>1. t = MaxOf(scratch_end, MinOf(tail, last))
            BY DEF TailStart
          <6>2. MaxOf(k - 1, 0) = k - 1 /\ k - 1 \in Nat
            BY <2>1, <4>2 DEF MaxOf
          <6>3. last \in Nat /\ last <= k - 1
            BY <6>2, RoundedToBundles
          <6>4. tail \in Nat
            <7>1. s.total \div BlockSize \in Nat
              BY <1>0 DEF SlotsOK
            <7>2. _round_down_to_bundle(s.total \div BlockSize) \in Nat
              BY <7>1, RoundedToBundles
            <7> QED BY <7>2 DEF MaxOf
          <6> HIDE DEF tail, last, k, e, t
          <6>5. MinOf(tail, last) \in Nat /\ MinOf(tail, last) <= k - 1
            BY <2>1, <6>3, <6>4 DEF MinOf
          <6>6. t <= k - 1
            BY <2>1, <4>2, <6>1, <6>5 DEF MaxOf
          <6> QED BY <2>1, <6>6
        <5>3. e - 1 \in added
          <6>1. e - 1 \in T /\ e - 1 \notin S
            <7> HIDE DEF t, e
            <7> QED BY <2>1, <5>2
          <6> QED BY <2>5, <2>7, <6>1, Zenon
        <5>4. e - 1 < len
          BY <1>2, <5>3
        <5>5. len = e
          <6> HIDE DEF k, e
          <6> QED BY <2>1, <5>1, <5>4
        <5> QED BY <2>1, <5>5
      <4> QED BY <2>1, <4>1, <4>2
    <3> QED BY <1>2, <1>6, <3>1, <3>2
  <2> HIDE DEF added
  <2> QED BY <2>6, <2>8, WholeUnion DEF len, added
<1> QED BY <1>4, <1>5, <1>6, Zenon

-----------------------------------------------------------------------------
(* Every admitted request is served.                                        *)

\* Deployments in which compact tables, if there are any, consist of whole
\* bundles.
Deployment ==
    Hits # {} => /\ Scratch % LatentPerBundle = 0
                 /\ (Window \div BlockSize) % LatentPerBundle = 0

\* The last three lines: a table that was not started holds nothing, without
\* loads no table is compact, and with them every table is made of whole bundles.
ServeReq(r) ==
    /\ computed[r] <= tokens[r] /\ tokens[r] <= MaxTokens /\ prefix[r] <= tokens[r]
    /\ IsFiniteSet(latent[r])
    /\ latent_len[r] = 0 => Rows(r) = {} /\ released[r] = 0
    /\ Hits = {} => prefix[r] = NoPrefix
    /\ Hits # {} => Whole(Rows(r)) /\ Mult(latent_len[r]) /\ Mult(released[r])

ServeInv ==
    /\ CacheTypes /\ indexer \in [Req -> Nat] /\ free_bundles \in Int /\ ~failed
    /\ \A r \in Req : ServeReq(r)

LEMMA EmptyTable == Mult(0) /\ Whole({}) /\ UNION {} = {} /\ IsFiniteSet({}) /\ Cardinality({}) = 0
<1>1. Mult(0)
  BY CacheAssumption DEF Mult
<1> QED BY <1>1, FS_EmptySet DEF Whole

LEMMA ServeInvInit == Init => ServeInv
<1> SUFFICES ASSUME Init PROVE ServeInv
  OBVIOUS
<1>1. CacheTypes
  BY CacheAssumption DEF Init, CacheTypes, NoPrefix
<1>2. indexer \in [Req -> Nat] /\ free_bundles \in Int /\ ~failed
  BY CacheAssumption DEF Init
<1>3. ASSUME NEW r \in Req PROVE ServeReq(r)
  <2>1. /\ computed[r] = 0 /\ tokens[r] \in 1 .. MaxTokens /\ prefix[r] = -1 /\ latent[r] = {}
        /\ phase[r] = "waiting" /\ latent_len[r] = 0 /\ released[r] = 0
    BY CacheAssumption DEF Init, NoPrefix
  <2>2. computed[r] <= tokens[r] /\ tokens[r] <= MaxTokens /\ prefix[r] <= tokens[r]
    BY <2>1, CacheAssumption
  <2>3. Rows(r) = {}
    BY <2>1 DEF Rows
  <2> QED BY <2>1, <2>2, <2>3, EmptyTable, Zenon DEF ServeReq, NoPrefix
<1> QED BY <1>1, <1>2, <1>3 DEF ServeInv

LEMMA ServeOthers ==
    ASSUME ServeInv, NEW q \in Req,
           UNCHANGED <<phase[q], computed[q], tokens[q], latent[q], latent_len[q], prefix[q], released[q]>>
    PROVE  ServeReq(q)'
BY Zenon DEF ServeInv, ServeReq, Rows

LEMMA FreeServes ==
    ASSUME ServeInv, NEW r \in Req, Free(r), NEW ph \in {"waiting", "done"},
           phase' = [phase EXCEPT ![r] = ph], computed' = [computed EXCEPT ![r] = 0],
           UNCHANGED <<tokens, failed>>
    PROVE  ServeInv'
<1>0. CacheTypes /\ ServeReq(r) /\ indexer \in [Req -> Nat] /\ free_bundles \in Int /\ ~failed
  BY DEF ServeInv
<1>1. CacheTypes' /\ indexer' \in [Req -> Nat] /\ ~failed'
  BY <1>0 DEF CacheTypes, Free, NoPrefix
<1>2. free_bundles' \in Int
  <2>1. Cardinality(latent[r]) \in Nat
    BY <1>0, FS_CardinalityType, Zenon DEF ServeReq
  <2> QED BY <1>0, <2>1 DEF Free
<1>3. ServeReq(r)'
  <2>1. /\ phase'[r] = ph /\ computed'[r] = 0 /\ tokens'[r] = tokens[r] /\ tokens[r] \in Nat
        /\ latent'[r] = {} /\ latent_len'[r] = 0 /\ prefix'[r] = -1 /\ released'[r] = 0
    BY <1>0 DEF CacheTypes, Free, NoPrefix
  <2>2. Rows(r)' = {}
    BY <2>1, Zenon DEF Rows
  <2>3. computed'[r] <= tokens'[r] /\ tokens'[r] <= MaxTokens /\ prefix'[r] <= tokens'[r]
    BY <1>0, <2>1 DEF ServeReq
  <2> QED BY <2>1, <2>2, <2>3, EmptyTable, Zenon DEF ServeReq, NoPrefix
<1>4. ASSUME NEW q \in Req, q # r PROVE ServeReq(q)'
  BY <1>0, <1>4, ServeOthers, Zenon DEF CacheTypes, Free
<1> QED BY <1>1, <1>2, <1>3, <1>4 DEF ServeInv

LEMMA AllocateServes ==
    ASSUME ServeInv, NEW r \in Req, NEW s, SlotsOK(s), Admissible(r, s), has_enough_free_blocks(r, s),
           s.load => s.need = s.total /\ s.total > 0, Allocate(r, s)
    PROVE  /\ latent' = [latent EXCEPT ![r] = @ \cup NewLatent(r, s)]
           /\ latent_len' = [latent_len EXCEPT ![r] = NewLatentLen(r, s)]
           /\ s.load => prefix' = [prefix EXCEPT ![r] = s.total]
           /\ ~s.load => prefix' = prefix
           /\ UNCHANGED <<released, failed>>
           /\ indexer' \in [Req -> Nat] /\ free_bundles' \in Int
           /\ latent' \in [Req -> SUBSET SUBSET Nat] /\ latent_len' \in [Req -> Nat]
           /\ IsFiniteSet(latent'[r])
           /\ latent_len'[r] = 0 => Rows(r)' = {} /\ released'[r] = 0
           /\ Hits # {} => Whole(Rows(r)') /\ Mult(latent_len'[r])
<1> DEFINE more == cdiv(indexer_blocks_to_allocate(r, s), IndexerPerBundle)
<1>0. CacheTypes /\ ServeReq(r) /\ indexer \in [Req -> Nat] /\ free_bundles \in Int
  BY DEF ServeInv
<1>1. ~AllocationFails(r, s)
  BY <1>0, AdmittedIsServed
<1>2. /\ latent' = [latent EXCEPT ![r] = @ \cup NewLatent(r, s)]
      /\ latent_len' = [latent_len EXCEPT ![r] = NewLatentLen(r, s)]
      /\ indexer' = [indexer EXCEPT ![r] = @ + more]
      /\ prefix' = IF s.load THEN [prefix EXCEPT ![r] = s.total] ELSE prefix
      /\ free_bundles' = free_bundles - Cardinality(NewLatent(r, s)) - more
      /\ UNCHANGED <<released, failed>>
  BY <1>1, Zenon DEF Allocate
<1>3. more \in Nat
  <2>1. BlockSize \in Nat \ {0} /\ IndexerPerBundle \in Nat \ {0}
    BY CacheAssumption, Zenon
  <2>2. cdiv(s.need, BlockSize) \in Nat /\ indexer[r] * IndexerPerBundle \in Nat
    BY <1>0, <2>1, CdivUp DEF SlotsOK
  <2>3. indexer_blocks_to_allocate(r, s) \in Nat
    BY <2>2 DEF indexer_blocks_to_allocate, MaxOf
  <2> QED BY <2>1, <2>3, CdivUp
<1> HIDE DEF more
<1>4. IsFiniteSet(NewLatent(r, s)) /\ Cardinality(NewLatent(r, s)) \in Nat
  BY <1>0, TakenAsCounted
<1>5. indexer' \in [Req -> Nat] /\ free_bundles' \in Int
  BY <1>0, <1>2, <1>3, <1>4
<1>6. latent'[r] = latent[r] \cup NewLatent(r, s) /\ latent_len'[r] = NewLatentLen(r, s)
  BY <1>0, <1>2 DEF CacheTypes
<1>7. IsFiniteSet(latent'[r])
  <2>1. IsFiniteSet(latent[r])
    BY <1>0, Zenon DEF ServeReq
  <2>2. IsFiniteSet(latent[r] \cup NewLatent(r, s))
    BY <1>4, <2>1, FS_Union, Zenon
  <2> QED BY <1>6, <2>2, Zenon
<1>8. NewLatent(r, s) \subseteq SUBSET Nat /\ NewLatentLen(r, s) \in Nat
  <2>1. PICK K \in Nat : UNION NewLatent(r, s) \subseteq 0 .. K
    BY <1>0, NewRows
  <2>2. 0 .. K \subseteq Nat
    OBVIOUS
  <2>3. NewLatentLen(r, s) \in Nat
    BY <1>0, NewLength
  <2> QED BY <2>1, <2>2, <2>3
<1>9. latent' \in [Req -> SUBSET SUBSET Nat] /\ latent_len' \in [Req -> Nat]
  BY <1>0, <1>2, <1>8 DEF CacheTypes
<1>10. ASSUME Hits # {} PROVE Whole(Rows(r)') /\ Mult(latent_len'[r])
  <2>1. Whole(Rows(r)) /\ Mult(latent_len[r])
    BY <1>0, <1>10, Zenon DEF ServeReq
  <2>2. Whole(Rows(r) \cup UNION NewLatent(r, s)) /\ Mult(NewLatentLen(r, s))
    BY <1>0, <2>1, NewTable
  <2>3. Rows(r)' = Rows(r) \cup UNION NewLatent(r, s)
    BY <1>6, Zenon DEF Rows
  <2> QED BY <1>6, <2>2, <2>3, Zenon
<1>11. ASSUME latent_len'[r] = 0 PROVE Rows(r)' = {} /\ released'[r] = 0
  <2>1. /\ latent_len[r] \in Nat /\ NewLatentLen(r, s) = 0 /\ NewLatentLen(r, s) >= latent_len[r]
        /\ \A i \in UNION NewLatent(r, s) : i < NewLatentLen(r, s)
    BY <1>0, <1>6, <1>11, NewLength, Zenon DEF CacheTypes
  <2>2. latent_len[r] = 0
    BY <2>1
  <2>3. Rows(r) = {} /\ released[r] = 0
    BY <1>0, <2>2, Zenon DEF ServeReq
  <2>4. UNION NewLatent(r, s) = {}
    <3>1. \A i \in UNION NewLatent(r, s) : i \in Nat
      BY <1>8, Zenon
    <3>2. ASSUME NEW i \in UNION NewLatent(r, s) PROVE FALSE
      <4>1. i \in Nat /\ i < 0
        BY <2>1, <3>1, Zenon
      <4> QED BY <4>1
    <3> QED BY <3>2, Zenon
  <2>5. Rows(r)' = Rows(r) \cup UNION NewLatent(r, s)
    BY <1>6, Zenon DEF Rows
  <2> QED BY <1>2, <2>3, <2>4, <2>5, Zenon
<1> QED BY <1>2, <1>5, <1>7, <1>9, <1>10, <1>11, Zenon

LEMMA NewTokensFit ==
    ASSUME CacheTypes, NEW r \in Req, computed[r] <= tokens[r], NEW new \in NewTokens(r)
    PROVE  new \in Nat \ {0} /\ computed[r] + new <= tokens[r]
<1>1. computed[r] \in Nat /\ tokens[r] \in Nat
  BY DEF CacheTypes
<1>2. PICK b \in Nat \ {0} : new = MinOf(b, tokens[r] - computed[r]) /\ new # 0
  BY CacheAssumption DEF NewTokens
<1> QED BY <1>1, <1>2 DEF MinOf

LEMMA RunSlots ==
    ASSUME CacheTypes, NEW r \in Req, NEW new \in Nat
    PROVE  /\ SlotsOK(Slots(r, new, 0, FALSE)) /\ ~Slots(r, new, 0, FALSE).load
           /\ Slots(r, new, 0, FALSE).main = computed[r] + new
           /\ computed[r] + new <= MaxTokens => Slots(r, new, 0, FALSE).need >= computed[r] + new
<1>1. computed[r] \in Nat /\ Lookahead \in Nat /\ MaxTokens \in Nat
  BY CacheAssumption DEF CacheTypes
<1>2. /\ MinOf(computed[r] + new, MaxTokens) \in Nat /\ MinOf(computed[r] + new + Lookahead, MaxTokens) \in Nat
      /\ computed[r] + new \in Nat
  BY <1>1 DEF MinOf
<1>3. SlotsOK(Slots(r, new, 0, FALSE)) /\ ~Slots(r, new, 0, FALSE).load
  BY <1>1, <1>2 DEF Slots, SlotsOK, MinOf
<1>4. Slots(r, new, 0, FALSE).main = computed[r] + new
  BY <1>1 DEF Slots
<1>5. computed[r] + new <= MaxTokens => Slots(r, new, 0, FALSE).need >= computed[r] + new
  BY <1>1 DEF Slots, MinOf
<1> QED BY <1>3, <1>4, <1>5, Zenon

LEMMA RunServes ==
    ASSUME ServeInv, NEW r \in Req, NEW new \in NewTokens(r),
           has_enough_free_blocks(r, Slots(r, new, 0, FALSE)), Run(r, new)
    PROVE  ServeInv'
<1> DEFINE s == Slots(r, new, 0, FALSE)
<1>0. CacheTypes /\ ServeReq(r) /\ ~failed
  BY DEF ServeInv
<1>1. new \in Nat \ {0} /\ computed[r] + new <= tokens[r]
  BY <1>0, NewTokensFit, Zenon DEF ServeReq
<1>2. SlotsOK(s) /\ ~s.load
  BY <1>0, <1>1, RunSlots, Zenon
<1>3. Admissible(r, s)
  BY <1>0, <1>2, Zenon DEF Admissible, ServeReq, UsesCompact, StartsTable
<1>4. /\ Allocate(r, s) /\ phase' = [phase EXCEPT ![r] = "running"]
      /\ computed' = [computed EXCEPT ![r] = @ + new] /\ UNCHANGED tokens
  BY Zenon DEF Run
<1> HIDE DEF s
<1>5. /\ latent' = [latent EXCEPT ![r] = @ \cup NewLatent(r, s)]
      /\ latent_len' = [latent_len EXCEPT ![r] = NewLatentLen(r, s)]
      /\ UNCHANGED <<prefix, released, failed>>
      /\ indexer' \in [Req -> Nat] /\ free_bundles' \in Int
      /\ latent' \in [Req -> SUBSET SUBSET Nat] /\ latent_len' \in [Req -> Nat]
      /\ IsFiniteSet(latent'[r])
      /\ latent_len'[r] = 0 => Rows(r)' = {} /\ released'[r] = 0
      /\ Hits # {} => Whole(Rows(r)') /\ Mult(latent_len'[r])
  <2>1. has_enough_free_blocks(r, s)
    BY Zenon DEF s
  <2> QED BY <1>2, <1>3, <1>4, <2>1, AllocateServes, Zenon
<1>6. CacheTypes'
  <2>1. computed' \in [Req -> Nat]
    BY <1>0, <1>1, <1>4 DEF CacheTypes
  <2> QED BY <1>0, <1>4, <1>5, <2>1, Zenon DEF CacheTypes
<1>7. ServeReq(r)'
  <2>1. /\ phase'[r] = "running" /\ computed'[r] = computed[r] + new /\ tokens'[r] = tokens[r]
        /\ prefix'[r] = prefix[r] /\ released'[r] = released[r]
    BY <1>0, <1>4, <1>5 DEF CacheTypes
  <2> QED BY <1>0, <1>1, <1>5, <2>1, Zenon DEF ServeReq
<1>8. ASSUME NEW q \in Req, q # r PROVE ServeReq(q)'
  BY <1>0, <1>4, <1>5, <1>8, ServeOthers DEF CacheTypes
<1> QED BY <1>0, <1>5, <1>6, <1>7, <1>8 DEF ServeInv

LEMMA LoadServes ==
    ASSUME ServeInv, NEW r \in Req, ScheduleLoad(r)
    PROVE  ServeInv'
<1>0. /\ CacheTypes /\ ServeReq(r) /\ ~failed /\ phase[r] = "waiting" /\ computed[r] = 0
      /\ indexer \in [Req -> Nat] /\ free_bundles \in Int
  BY DEF ServeInv, ScheduleLoad
<1>1. PICK ext \in Lookup(r) \ {0} :
        LET s == Slots(r, 0, ext, TRUE)
        IN  IF has_enough_free_blocks(r, s)
            THEN /\ Allocate(r, s)
                 /\ phase' = [phase EXCEPT ![r] = "loading"]
                 /\ computed' = [computed EXCEPT ![r] = ext]
                 /\ UNCHANGED <<tokens, local_from, reached, saved>>
            ELSE /\ prefix' = [prefix EXCEPT ![r] = ext]
                 /\ UNCHANGED <<requests, latent, latent_len, indexer, released,
                                free_bundles, saved, failed>>
  BY Zenon DEF ScheduleLoad
<1> DEFINE s == Slots(r, 0, ext, TRUE)
<1>2. ext \in Nat \ {0} /\ ext <= tokens[r] /\ Hits # {}
  <2>1. CASE prefix[r] # NoPrefix /\ ext = prefix[r]
    <3>1. prefix[r] \in Nat \ {0} /\ prefix[r] <= tokens[r] /\ Hits # {}
      BY <1>0, <2>1 DEF CacheTypes, ServeReq
    <3> QED BY <2>1, <3>1
  <2>2. CASE ext \in Hits /\ ext <= tokens[r]
    <3>1. ext \in Nat \ {0}
      BY <2>2, CacheAssumption
    <3> QED BY <2>2, <3>1
  <2> QED BY <1>1, <2>1, <2>2 DEF Lookup
<1>3. SlotsOK(s) /\ s.load /\ s.total = ext /\ s.need = ext /\ s.total > 0
  <2>1. ext <= MaxTokens /\ MaxTokens \in Nat
    <3>1. tokens[r] \in Nat /\ tokens[r] <= MaxTokens
      BY <1>0, Zenon DEF ServeReq, CacheTypes
    <3>2. MaxTokens \in Nat
      BY CacheAssumption, Zenon
    <3> QED BY <1>2, <3>1, <3>2
  <2>2. s.total = ext /\ s.need = ext /\ s.main = ext
    BY <1>0, <1>2, <2>1 DEF Slots, MinOf
  <2>3. s.load /\ s.load \in BOOLEAN
    BY DEF Slots
  <2> HIDE DEF s
  <2> QED BY <1>2, <2>2, <2>3 DEF SlotsOK
<1> HIDE DEF s
<1>4. Admissible(r, s)
  <2>1. Whole(Rows(r)) /\ Mult(released[r])
    BY <1>0, <1>2, Zenon DEF ServeReq
  <2> QED BY <1>0, <2>1, Zenon DEF Admissible, ServeReq, StartsTable
<1>5. CASE ~has_enough_free_blocks(r, s)
  <2>1. /\ prefix' = [prefix EXCEPT ![r] = ext]
        /\ UNCHANGED <<phase, computed, tokens, latent, latent_len, released, indexer, free_bundles, failed>>
    BY <1>1, <1>5 DEF requests, s
  <2>2. CacheTypes'
    BY <1>0, <1>2, <2>1 DEF CacheTypes
  <2>3. prefix'[r] = ext
    BY <1>0, <2>1 DEF CacheTypes
  <2>4. ServeReq(r)'
    BY <1>0, <1>2, <2>1, <2>3 DEF ServeReq, Rows
  <2>5. ASSUME NEW q \in Req, q # r PROVE ServeReq(q)'
    BY <1>0, <2>1, <2>5, ServeOthers DEF CacheTypes
  <2> QED BY <1>0, <2>1, <2>2, <2>4, <2>5, Zenon DEF ServeInv
<1>6. CASE has_enough_free_blocks(r, s)
  <2>1. /\ Allocate(r, s) /\ phase' = [phase EXCEPT ![r] = "loading"]
        /\ computed' = [computed EXCEPT ![r] = ext] /\ UNCHANGED tokens
    BY <1>1, <1>6, Zenon DEF s
  <2>2. /\ latent' = [latent EXCEPT ![r] = @ \cup NewLatent(r, s)]
        /\ latent_len' = [latent_len EXCEPT ![r] = NewLatentLen(r, s)]
        /\ prefix' = [prefix EXCEPT ![r] = ext]
        /\ UNCHANGED <<released, failed>>
        /\ indexer' \in [Req -> Nat] /\ free_bundles' \in Int
        /\ latent' \in [Req -> SUBSET SUBSET Nat] /\ latent_len' \in [Req -> Nat]
        /\ IsFiniteSet(latent'[r])
        /\ latent_len'[r] = 0 => Rows(r)' = {} /\ released'[r] = 0
        /\ Whole(Rows(r)') /\ Mult(latent_len'[r])
    <3>1. s.load => s.need = s.total /\ s.total > 0
      BY <1>3, Zenon
    <3>2. /\ latent' = [latent EXCEPT ![r] = @ \cup NewLatent(r, s)]
          /\ latent_len' = [latent_len EXCEPT ![r] = NewLatentLen(r, s)]
          /\ s.load => prefix' = [prefix EXCEPT ![r] = s.total]
          /\ UNCHANGED <<released, failed>>
          /\ indexer' \in [Req -> Nat] /\ free_bundles' \in Int
          /\ latent' \in [Req -> SUBSET SUBSET Nat] /\ latent_len' \in [Req -> Nat]
          /\ IsFiniteSet(latent'[r])
          /\ latent_len'[r] = 0 => Rows(r)' = {} /\ released'[r] = 0
          /\ Hits # {} => Whole(Rows(r)') /\ Mult(latent_len'[r])
      BY <1>3, <1>4, <1>6, <2>1, <3>1, AllocateServes, Zenon
    <3> QED BY <1>2, <1>3, <3>2, Zenon
  <2>3. CacheTypes'
    <3>1. /\ phase' \in [Req -> {"waiting", "loading", "running", "done"}]
          /\ computed' \in [Req -> Nat] /\ tokens' \in [Req -> Nat \ {0}]
      BY <1>0, <1>2, <2>1, Zenon DEF CacheTypes
    <3>2. prefix' \in [Req -> {NoPrefix} \cup (Nat \ {0})] /\ released' \in [Req -> Nat]
      <4>1. prefix' = [prefix EXCEPT ![r] = ext] /\ released' = released
        BY <2>2, Zenon
      <4>2. prefix \in [Req -> {NoPrefix} \cup (Nat \ {0})] /\ released \in [Req -> Nat]
        BY <1>0, Zenon DEF CacheTypes
      <4>3. ext \in {NoPrefix} \cup (Nat \ {0})
        BY <1>2, Zenon
      <4> QED BY <4>1, <4>2, <4>3, Zenon
    <3> QED BY <2>2, <3>1, <3>2, Zenon DEF CacheTypes
  <2>4. ServeReq(r)'
    <3>1. /\ phase'[r] = "loading" /\ computed'[r] = ext /\ tokens'[r] = tokens[r]
          /\ prefix'[r] = ext /\ released'[r] = released[r]
      BY <1>0, <2>1, <2>2 DEF CacheTypes
    <3> QED BY <1>0, <1>2, <2>2, <3>1 DEF ServeReq
  <2>5. ASSUME NEW q \in Req, q # r PROVE ServeReq(q)'
    BY <1>0, <2>1, <2>2, <2>5, ServeOthers, Zenon DEF CacheTypes
  <2> QED BY <1>0, <2>2, <2>3, <2>4, <2>5, Zenon DEF ServeInv
<1> QED BY <1>5, <1>6

LEMMA DivisionExact ==
    ASSUME NEW n \in Nat, NEW d \in Nat \ {0}, n % d = 0
    PROVE  n \div d \in Nat /\ n = (n \div d) * d
<1> DEFINE q == n \div d
           m == n % d
<1>1. q \in Nat /\ m \in 0..(d - 1)
  OBVIOUS
<1>2. n = d * q + m
  BY <1>1
<1>3. q * d = d * q /\ q * d \in Nat
  BY <1>1
<1>4. m = 0
  OBVIOUS
<1> HIDE DEF q, m
<1>5. n = q * d
  BY <1>1, <1>2, <1>3, <1>4
<1> QED BY <1>1, <1>5 DEF q

\* A window is a number of whole bundles; so is what a completed save releases.
LEMMA SavedEnd ==
    ASSUME Deployment, CacheTypes, Hits # {}, NEW r \in Req, NEW e \in Saves, Mult(latent_len[r])
    PROVE  Mult(Scratch) /\ Mult(MinOf(e \div BlockSize, latent_len[r]))
<1> DEFINE d == LatentPerBundle
           w == Window \div BlockSize
<1>1. d \in Nat \ {0} /\ BlockSize \in Nat \ {0} /\ Window \in Nat \ {0} /\ Scratch \in Nat /\ MaxTokens \in Nat
  BY CacheAssumption
<1>2. \A n \in Nat : n % d = 0 => Mult(n)
  <2> SUFFICES ASSUME NEW n \in Nat, n % d = 0 PROVE Mult(n)
    OBVIOUS
  <2>1. n \div d \in Nat /\ n = (n \div d) * d
    BY <1>1, DivisionExact
  <2> QED BY <2>1 DEF Mult
<1>3. Mult(Scratch)
  BY <1>1, <1>2 DEF Deployment
<1>4. w \in Nat /\ Mult(w)
  BY <1>1, <1>2 DEF Deployment
<1>5. Window = w * BlockSize
  <2>1. Window % BlockSize = 0
    BY CacheAssumption
  <2> QED BY <1>1, <2>1, DivisionExact
<1>6. PICK k \in Nat : e = k * Window
  <2>1. PICK k \in 1 .. MaxTokens \div Window : e = k * Window
    BY DEF Saves
  <2> QED BY <1>1, <2>1
<1> HIDE DEF w
<1>7. e = (k * w) * BlockSize /\ k * w \in Nat
  BY <1>1, <1>4, <1>5, <1>6
<1>8. e \div BlockSize = k * w
  <2>1. \A n \in Nat, m \in Nat \ {0} : (n * m) \div m = n
    OBVIOUS
  <2> QED BY <1>1, <1>7, <2>1
<1>9. Mult(k * w)
  <2>1. PICK x \in Nat : w = x * d
    BY <1>4 DEF Mult
  <2>2. k * w = (k * x) * d /\ k * x \in Nat
    BY <1>1, <2>1
  <2> QED BY <2>2 DEF Mult
<1> QED BY <1>3, <1>8, <1>9 DEF MinOf

LEMMA SavedRows ==
    ASSUME NEW r \in Req, NEW gone
    PROVE  UNION {b \ gone : b \in latent[r] \ Emptied(r, gone)} = Rows(r) \ gone
<1> DEFINE left == {b \ gone : b \in latent[r] \ Emptied(r, gone)}
<1>1. UNION left \subseteq Rows(r) \ gone
  BY DEF Rows
<1>2. ASSUME NEW i \in Rows(r) \ gone PROVE i \in UNION left
  <2>1. PICK b \in latent[r] : i \in b
    BY DEF Rows
  <2>2. b \notin Emptied(r, gone)
    BY <2>1 DEF Emptied
  <2>3. b \ gone \in left /\ i \in b \ gone
    BY <2>1, <2>2
  <2> QED BY <2>3
<1> QED BY <1>1, <1>2

LEMMA WindowServes ==
    ASSUME Deployment, ServeInv, NEW r \in Req, NEW e \in Saves, WindowSaved(r, e)
    PROVE  ServeInv'
<1> DEFINE end  == MinOf(e \div BlockSize, latent_len[r])
           gone == release_start .. end - 1
           left == {b \ gone : b \in latent[r] \ Emptied(r, gone)}
<1>0. CacheTypes /\ ServeReq(r) /\ indexer \in [Req -> Nat] /\ free_bundles \in Int /\ ~failed
  BY DEF ServeInv
<1>1. end \in Nat /\ Scratch \in Nat
  <2>1. BlockSize \in Nat \ {0} /\ Window \in Nat /\ MaxTokens \in Nat /\ Scratch \in Nat /\ Window # 0
    BY CacheAssumption
  <2>2. e \in Nat
    <3>1. PICK w \in 1 .. MaxTokens \div Window : e = w * Window
      BY DEF Saves
    <3> QED BY <2>1, <3>1
  <2>3. e \div BlockSize \in Nat /\ latent_len[r] \in Nat
    BY <1>0, <2>1, <2>2 DEF CacheTypes
  <2> QED BY <2>1, <2>3 DEF MinOf
<1>2. /\ latent' = [latent EXCEPT ![r] = left]
      /\ released' = IF prefix[r] = NoPrefix \/ latent_len[r] = 0 THEN released
                     ELSE [released EXCEPT ![r] = MaxOf(@, end)]
      /\ free_bundles' = free_bundles + Returned(r, gone)
      /\ UNCHANGED <<phase, computed, tokens, latent_len, indexer, prefix, failed>>
  BY Zenon DEF WindowSaved, requests
<1>3. Hits # {} => Mult(Scratch) /\ Mult(end)
  BY <1>0, SavedEnd, Zenon DEF ServeReq
<1> HIDE DEF end
<1>4. left \in SUBSET SUBSET Nat
  BY <1>0 DEF CacheTypes
<1>5. CacheTypes'
  <2>1. released' \in [Req -> Nat]
    BY <1>0, <1>1, <1>2, Zenon DEF CacheTypes, MaxOf
  <2>2. latent' \in [Req -> SUBSET SUBSET Nat]
    BY <1>0, <1>2, <1>4, Zenon DEF CacheTypes
  <2> QED BY <1>0, <1>2, <2>1, <2>2, Zenon DEF CacheTypes
<1>6. IsFiniteSet(latent[r]) /\ IsFiniteSet(latent[r] \ Emptied(r, gone)) /\ IsFiniteSet(Emptied(r, gone))
  <2>1. IsFiniteSet(latent[r])
    BY <1>0, Zenon DEF ServeReq
  <2>2. latent[r] \ Emptied(r, gone) \subseteq latent[r] /\ Emptied(r, gone) \subseteq latent[r]
    BY Zenon DEF Emptied
  <2> QED BY <2>1, <2>2, FS_Subset, Zenon
<1>7. free_bundles' \in Int
  <2>1. Cardinality(Emptied(r, gone)) \in Nat
    BY <1>6, FS_CardinalityType, Zenon
  <2> QED BY <1>0, <1>2, <2>1 DEF Returned
<1>8. IsFiniteSet(left)
  <2> DEFINE B == latent[r] \ Emptied(r, gone)
  <2>1. [b \in B |-> b \ gone] \in Surjection(B, left)
    BY Zenon DEF Surjection
  <2>2. IsFiniteSet(B)
    BY <1>6, Zenon
  <2> HIDE DEF B
  <2> QED BY <2>1, <2>2, FS_Surjection, Zenon
<1>9. ServeReq(r)'
  <2>1. latent'[r] = left
    BY <1>0, <1>2, Zenon DEF CacheTypes
  <2>2. Rows(r)' = Rows(r) \ gone
    BY <2>1, SavedRows, Zenon DEF Rows
  <2>3. released'[r] = released[r] \/ (released'[r] = MaxOf(released[r], end) /\ latent_len[r] # 0)
    BY <1>0, <1>2, Zenon DEF CacheTypes
  <2>4. Hits # {} => Whole(Rows(r)') /\ Mult(latent_len'[r]) /\ Mult(released'[r])
    <3> SUFFICES ASSUME Hits # {} PROVE Whole(Rows(r)') /\ Mult(latent_len'[r]) /\ Mult(released'[r])
      BY Zenon
    <3>1. Whole(Rows(r)) /\ Mult(latent_len[r]) /\ Mult(released[r]) /\ Rows(r) \in SUBSET Nat
      BY <1>0 DEF ServeReq, Rows, CacheTypes
    <3>2. Whole(gone) /\ gone \in SUBSET Nat
      <4>1. Whole(Scratch .. end - 1)
        BY <1>1, <1>3, WholeInterval
      <4> QED BY <1>1, <4>1 DEF release_start
    <3>3. Whole(Rows(r) \ gone)
      <4> HIDE DEF gone
      <4> QED BY <3>1, <3>2, WholeDifference, Zenon
    <3>4. Mult(released'[r])
      BY <1>3, <2>3, <3>1, Zenon DEF MaxOf
    <3> QED BY <1>2, <2>2, <3>1, <3>3, <3>4, Zenon
  <2>5. latent_len'[r] = 0 => Rows(r)' = {} /\ released'[r] = 0
    BY <1>0, <1>2, <2>2, <2>3, Zenon DEF ServeReq
  <2> QED BY <1>0, <1>2, <1>8, <2>1, <2>4, <2>5, Zenon DEF ServeReq
<1>10. ASSUME NEW q \in Req, q # r PROVE ServeReq(q)'
  BY <1>0, <1>2, <1>10, ServeOthers, Zenon DEF CacheTypes
<1> QED BY <1>0, <1>2, <1>5, <1>7, <1>9, <1>10, Zenon DEF ServeInv

LEMMA ServeInvNext ==
    ASSUME Deployment, ServeInv, [Next]_vars
    PROVE  ServeInv'
<1>0. /\ CacheTypes /\ \A r \in Req : ServeReq(r)
      /\ indexer \in [Req -> Nat] /\ free_bundles \in Int /\ ~failed
  BY DEF ServeInv
<1>1. CASE UNCHANGED vars
  <2>1. UNCHANGED <<phase, computed, tokens, latent, latent_len, prefix, released, indexer, free_bundles, failed>>
    BY <1>1 DEF vars, requests, tables
  <2> QED BY <1>0, <2>1, Zenon DEF ServeInv, CacheTypes, ServeReq, Rows
<1>2. CASE Next
  <2>1. ASSUME NEW r \in Req, ScheduleWaiting(r) PROVE ServeInv'
    BY <2>1, RunServes, Zenon DEF ScheduleWaiting
  <2>2. ASSUME NEW r \in Req, ScheduleLoad(r) PROVE ServeInv'
    BY <2>2, LoadServes
  <2>3. ASSUME NEW r \in Req, ScheduleRunning(r) PROVE ServeInv'
    <3>1. CASE \E new \in NewTokens(r) : has_enough_free_blocks(r, Slots(r, new, 0, FALSE)) /\ Run(r, new)
      BY <3>1, RunServes, Zenon
    <3>2. CASE \E v \in Req : Preempt(v)
      <4>1. PICK v \in Req : Preempt(v)
        BY <3>2
      <4> QED BY <4>1, FreeServes, Zenon DEF Preempt
    <3> QED BY <2>3, <3>1, <3>2, Zenon DEF ScheduleRunning
  <2>4. ASSUME NEW r \in Req, OutputToken(r) PROVE ServeInv'
    <3>1. /\ tokens' = [tokens EXCEPT ![r] = @ + 1] /\ phase[r] = "running" /\ tokens[r] < MaxTokens
          /\ UNCHANGED <<phase, computed, latent, latent_len, prefix, released, indexer, free_bundles, failed>>
      BY <2>4, Zenon DEF OutputToken, tables
    <3>2. CacheTypes'
      BY <1>0, <3>1 DEF CacheTypes
    <3>3. ServeReq(r)'
      <4>1. /\ tokens'[r] = tokens[r] + 1 /\ tokens[r] \in Nat /\ computed[r] \in Nat /\ MaxTokens \in Nat
            /\ (prefix[r] \in Nat \/ prefix[r] = -1)
        BY <1>0, <3>1, CacheAssumption, Zenon DEF CacheTypes, NoPrefix
      <4>2. computed[r] <= tokens[r] + 1 /\ prefix[r] <= tokens[r] + 1 /\ tokens[r] + 1 <= MaxTokens
        BY <1>0, <3>1, <4>1 DEF ServeReq
      <4> QED BY <1>0, <3>1, <4>1, <4>2, Zenon DEF ServeReq, Rows
    <3>4. ASSUME NEW q \in Req, q # r PROVE ServeReq(q)'
      BY <1>0, <3>1, <3>4, ServeOthers DEF CacheTypes
    <3> QED BY <1>0, <3>1, <3>2, <3>3, <3>4 DEF ServeInv
  <2>5. ASSUME NEW r \in Req, LoadSucceeds(r) PROVE ServeInv'
    <3> DEFINE valid == IF computed[r] = tokens[r] THEN tokens[r] - 1 ELSE computed[r]
    <3>1. /\ computed' = [computed EXCEPT ![r] = valid] /\ phase' = [phase EXCEPT ![r] = "waiting"]
          /\ phase[r] = "loading"
          /\ UNCHANGED <<tokens, latent, latent_len, prefix, released, indexer, free_bundles, failed>>
      BY <2>5 DEF LoadSucceeds, tables
    <3>2. valid \in Nat /\ valid <= tokens[r]
      BY <1>0, <3>1 DEF CacheTypes, ServeReq
    <3> HIDE DEF valid
    <3>3. CacheTypes'
      BY <1>0, <3>1, <3>2 DEF CacheTypes
    <3>4. ServeReq(r)'
      <4>1. computed'[r] = valid /\ phase'[r] = "waiting"
        BY <1>0, <3>1 DEF CacheTypes
      <4> QED BY <1>0, <3>1, <3>2, <4>1, Zenon DEF ServeReq, Rows
    <3>5. ASSUME NEW q \in Req, q # r PROVE ServeReq(q)'
      BY <1>0, <3>1, <3>5, ServeOthers DEF CacheTypes
    <3> QED BY <1>0, <3>1, <3>3, <3>4, <3>5 DEF ServeInv
  <2>6. ASSUME NEW r \in Req, LoadFails(r) PROVE ServeInv'
    BY <2>6, FreeServes, Zenon DEF LoadFails
  <2>7. ASSUME NEW r \in Req, Finish(r) PROVE ServeInv'
    BY <2>7, FreeServes, Zenon DEF Finish
  <2>8. ASSUME NEW r \in Req, NEW e \in Saves, WindowSaved(r, e) PROVE ServeInv'
    BY <2>8, WindowServes
  <2> QED BY <1>2, <2>1, <2>2, <2>3, <2>4, <2>5, <2>6, <2>7, <2>8 DEF Next
<1> QED BY <1>1, <1>2

\* A request that has_enough_free_blocks admits gets its blocks: the two phases
\* of allocate_slots over two groups with bundles of different sizes neither run
\* out of bundles nor fail `len(new_blocks) == len(missing)`.  For every number of
\* requests, pool, layout and schedule, with lookups that may change their
\* answer; where loads happen, the scratch blocks and the window must fill
\* bundles.
THEOREM AdmittedAreServed == Deployment => (Spec => []AdmittedRequestsAreServed)
<1> SUFFICES ASSUME Deployment PROVE Spec => []AdmittedRequestsAreServed
  OBVIOUS
<1>1. ServeInv /\ [Next]_vars => ServeInv'
  BY ServeInvNext
<1>2. ServeInv => AdmittedRequestsAreServed
  BY DEF ServeInv, AdmittedRequestsAreServed
<1> QED BY <1>1, <1>2, ServeInvInit, PTL DEF Spec

=============================================================================
