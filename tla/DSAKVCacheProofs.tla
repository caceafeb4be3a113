-------------------------- MODULE DSAKVCacheProofs --------------------------
(***************************************************************************)
(* Proofs about DSAKVCache for every number of requests, every layout and   *)
(* every window: the bundles an allocation adds, the scratch prefix, and the  *)
(* conservation of the bundles.                                              *)
(***************************************************************************)
EXTENDS DSAKVCache, FiniteSetTheorems, WellFoundedInduction, TLAPS

\* A nonempty set of naturals has a least element.
LEMMA LeastElement ==
    ASSUME NEW T, T \subseteq Nat, T # {}
    PROVE  \E m \in T : \A k \in T : m <= k
<1>1. PICK m \in T : \A k \in T : ~(<<k, m>> \in OpToRel(<, Nat))
  BY NatLessThanWellFounded, WFMin, Zenon
<1>2. ASSUME NEW k \in T PROVE m <= k
  <2>1. ~(<<k, m>> \in {ss \in Nat \X Nat : ss[1] < ss[2]})
    BY <1>1 DEF OpToRel
  <2>2. k \in Nat /\ m \in Nat
    OBVIOUS
  <2>3. ~(k < m)
    BY <2>1, <2>2
  <2>. QED BY <2>2, <2>3
<1>. QED BY <1>2

\* A nonempty set of naturals with an upper bound has a greatest element.
LEMMA GreatestElement ==
    ASSUME NEW T, T \subseteq Nat, T # {}, NEW c \in Nat, \A k \in T : k <= c
    PROVE  \E m \in T : \A k \in T : k <= m
<1>. DEFINE U == {u \in Nat : \E k \in T : u = c - k}
<1>1. U \subseteq Nat /\ U # {}
  <2>1. PICK k \in T : TRUE
    BY Zenon
  <2>2. c - k \in U
    BY <2>1
  <2>. QED BY <2>2, Zenon
<1>2. PICK u \in U : \A v \in U : u <= v
  BY <1>1, LeastElement, Zenon
<1>3. PICK m \in T : u = c - m
  OBVIOUS
<1>4. \A k \in T : c - m <= c - k
  <2>. TAKE k \in T
  <2>1. c - k \in U
    OBVIOUS
  <2>. QED BY <1>2, <1>3, <2>1
<1>5. \A k \in T : k <= m
  BY <1>4
<1>. QED BY <1>5

LEMMA CdivUp ==
    ASSUME NEW n \in Nat, NEW d \in Nat \ {0}
    PROVE  cdiv(n, d) \in Nat /\ n <= cdiv(n, d) * d /\ (n > 0 => cdiv(n, d) > 0)
<1> DEFINE q == (n + d - 1) \div d
           m == (n + d - 1) % d
<1>1. n + d - 1 \in Nat /\ q \in Nat /\ m \in 0..(d - 1)
  OBVIOUS
<1>2. n + d - 1 = d * q + m
  BY <1>1
<1>3. q * d = d * q /\ q * d \in Nat
  BY <1>1
<1> HIDE DEF q, m
<1>4. n <= q * d
  BY <1>1, <1>2, <1>3
<1>5. n > 0 => q > 0
  <2> SUFFICES ASSUME n > 0, q = 0 PROVE FALSE
    BY <1>1
  <2>1. q * d = 0
    OBVIOUS
  <2> QED BY <1>4, <2>1
<1> QED BY <1>1, <1>4, <1>5 DEF cdiv, q

LEMMA RoundUp ==
    ASSUME NEW n \in Nat
    PROVE  _round_up_to_bundle(n) \in Nat /\ n <= _round_up_to_bundle(n)
<1>1. LatentPerBundle \in Nat \ {0}
  BY CacheAssumption
<1>2. cdiv(n, LatentPerBundle) \in Nat /\ n <= cdiv(n, LatentPerBundle) * LatentPerBundle
  BY <1>1, CdivUp
<1> QED BY <1>1, <1>2 DEF _round_up_to_bundle

\* InBundles deals out exactly the rows it is given; for an interval all of them.
LEMMA InBundlesWithin ==
    ASSUME NEW M
    PROVE  UNION InBundles(M) \subseteq M
BY Zenon DEF InBundles

LEMMA InBundlesCover ==
    ASSUME NEW n \in Nat
    PROVE  0 .. n - 1 \subseteq UNION InBundles(0 .. n - 1)
<1> SUFFICES ASSUME NEW i \in 0 .. n - 1 PROVE i \in UNION InBundles(0 .. n - 1)
  OBVIOUS
<1> DEFINE M == 0 .. n - 1
           L == LatentPerBundle
           rank(k) == Cardinality({j \in M : j < k})
           q == i \div L
<1>1. L \in Nat \ {0} /\ n \in Nat \ {0}
  BY CacheAssumption
<1>2. Cardinality(M) = n
  <2>1. Cardinality(M) = IF 0 > n - 1 THEN 0 ELSE n - 1 - 0 + 1
    BY FS_Interval
  <2> QED BY <1>1, <2>1
<1>3. rank(i) = i
  <2>1. {j \in M : j < i} = 0 .. i - 1
    OBVIOUS
  <2>2. Cardinality(0 .. i - 1) = IF 0 > i - 1 THEN 0 ELSE i - 1 - 0 + 1
    BY FS_Interval
  <2>3. Cardinality(0 .. i - 1) = i
    BY <2>2
  <2> QED BY <2>1, <2>3, Zenon
<1>4. q \in 0 .. cdiv(n, L) - 1
  <2>1. q \in Nat /\ q * L <= i
    BY <1>1, Z3
  <2>2. cdiv(n, L) \in Nat /\ n <= cdiv(n, L) * L
    BY <1>1, CdivUp
  <2> DEFINE c == cdiv(n, L)
  <2> HIDE DEF q, c
  <2>3. q < c
    <3> SUFFICES ASSUME c <= q PROVE FALSE
      BY <2>1, <2>2 DEF c
    <3>1. c * L <= q * L
      BY <1>1, <2>1, <2>2, Z3 DEF c
    <3>2. c * L \in Nat /\ q * L \in Nat
      BY <1>1, <2>1, <2>2 DEF c
    <3> QED BY <2>1, <2>2, <3>1, <3>2 DEF c
  <2> QED BY <2>1, <2>2, <2>3 DEF c
<1>5. i \in {k \in M : rank(k) \div L = q}
  BY <1>3
<1>6. {k \in M : rank(k) \div L = q} \in InBundles(M)
  BY <1>2, <1>4 DEF InBundles
<1> QED BY <1>5, <1>6, Zenon

-----------------------------------------------------------------------------
(* The bundles that an allocation adds.                                     *)

CacheTypes ==
    /\ phase \in [Req -> {"waiting", "loading", "running", "done"}]
    /\ computed \in [Req -> Nat] /\ tokens \in [Req -> Nat \ {0}]
    /\ latent \in [Req -> SUBSET SUBSET Nat] /\ latent_len \in [Req -> Nat]
    /\ prefix \in [Req -> {NoPrefix} \cup (Nat \ {0})] /\ released \in [Req -> Nat]

\* The values that allocate_slots works with.
SlotsOK(s) == s.need \in Nat /\ s.main \in Nat /\ s.total \in Nat /\ s.load \in BOOLEAN

LEMMA CompactRows ==
    ASSUME NEW p \in Nat, NEW n \in Nat, NEW main \in Nat, NEW force \in BOOLEAN, NEW rel \in Nat
    PROVE  \E K \in Nat : _compact_required_indices(p, n, main, force, rel) \subseteq 0 .. K
<1> DEFINE required     == _round_up_to_bundle(cdiv(n, BlockSize))
           tail         == MaxOf(_round_down_to_bundle(p \div BlockSize), rel)
           final_prompt == _round_down_to_bundle(MaxOf(cdiv(p, BlockSize) - 1, 0))
           tail_start   == IF force THEN MinOf(tail, final_prompt) ELSE tail
<1>1. BlockSize \in Nat \ {0} /\ LatentPerBundle \in Nat \ {0} /\ Scratch \in Nat
  BY CacheAssumption
<1>2. required \in Nat
  BY <1>1, CdivUp, RoundUp
<1>3. scratch_end \in Nat
  BY <1>1, RoundUp DEF scratch_end
<1>4. \A k \in Nat : _round_down_to_bundle(k) \in Nat
  BY <1>1 DEF _round_down_to_bundle
<1>5. tail \in Nat
  BY <1>1, <1>4 DEF MaxOf
<1>6. final_prompt \in Nat
  <2>1. MaxOf(cdiv(p, BlockSize) - 1, 0) \in Nat
    BY <1>1, CdivUp DEF MaxOf
  <2> QED BY <1>4, <2>1
<1>7. tail_start \in Nat
  BY <1>5, <1>6 DEF MinOf
<1> HIDE DEF required, tail_start
<1>8. MaxOf(scratch_end, tail_start) \in Nat
  BY <1>3, <1>7 DEF MaxOf
<1>9. required + scratch_end \in Nat
  BY <1>2, <1>3
<1>10. _compact_required_indices(p, n, main, force, rel) \subseteq 0 .. required + scratch_end
  <2>1. _compact_required_indices(p, n, main, force, rel) =
            IF ~force /\ main <= p THEN 0 .. required - 1
            ELSE (0 .. scratch_end - 1) \cup (MaxOf(scratch_end, tail_start) .. required - 1)
    BY DEF _compact_required_indices, required, tail_start
  <2> QED BY <1>2, <1>3, <1>8, <2>1
<1> QED BY <1>9, <1>10

LEMMA NewRows ==
    ASSUME CacheTypes, NEW r \in Req, NEW s, SlotsOK(s)
    PROVE  \E K \in Nat : UNION NewLatent(r, s) \subseteq 0 .. K
<1>0. BlockSize \in Nat \ {0} /\ Scratch \in Nat /\ scratch_end \in Nat
  BY CacheAssumption, RoundUp DEF scratch_end
<1>1. CASE UsesCompact(r, s)
  <2>1. PICK K \in Nat : MissingAfterScratch(r, s) \subseteq 0 .. K
    <3>1. CASE s.load
      <4>1. PICK K \in Nat : _compact_required_indices(s.total, s.need, s.main, TRUE, released[r]) \subseteq 0 .. K
        BY CompactRows, Zenon DEF SlotsOK, CacheTypes
      <4> QED BY <3>1, <4>1, Zenon DEF MissingAfterScratch
    <3>2. CASE ~s.load
      <4>1. prefix[r] \in Nat
        BY <1>1, <3>2 DEF UsesCompact, CacheTypes
      <4>2. PICK K \in Nat : _compact_required_indices(prefix[r], s.need, s.main, FALSE, released[r]) \subseteq 0 .. K
        BY <4>1, CompactRows, Zenon DEF SlotsOK, CacheTypes
      <4> QED BY <3>2, <4>2, Zenon DEF MissingAfterScratch
    <3> QED BY <3>1, <3>2
  <2>2. UNION NewLatent(r, s) \subseteq MissingAfterScratch(r, s) \cup (0 .. scratch_end - 1)
    <3>1. UNION InBundles(MissingAfterScratch(r, s)) \subseteq MissingAfterScratch(r, s)
      BY InBundlesWithin
    <3>2. UNION InBundles(ScratchRows(r, s)) \subseteq ScratchRows(r, s)
      BY InBundlesWithin, Zenon
    <3>3. ScratchRows(r, s) \subseteq 0 .. scratch_end - 1
      BY Zenon DEF ScratchRows
    <3>4. NewLatent(r, s) = InBundles(MissingAfterScratch(r, s)) \cup InBundles(ScratchRows(r, s))
      BY <1>1, Zenon DEF NewLatent
    <3> QED BY <3>1, <3>2, <3>3, <3>4, Zenon
  <2>3. K + scratch_end \in Nat /\ MissingAfterScratch(r, s) \cup (0 .. scratch_end - 1) \subseteq 0 .. K + scratch_end
    BY <1>0, <2>1
  <2> QED BY <2>2, <2>3
<1>2. CASE ~UsesCompact(r, s)
  <2> DEFINE more == MaxOf(cdiv(s.need, BlockSize) - latent_len[r], 0)
             up   == _round_up_to_bundle(more)
  <2>1. latent_len[r] \in Nat /\ up \in Nat
    <3>1. latent_len[r] \in Nat /\ cdiv(s.need, BlockSize) \in Nat
      BY <1>0, CdivUp DEF SlotsOK, CacheTypes
    <3>2. more \in Nat
      BY <3>1 DEF MaxOf
    <3> QED BY <3>1, <3>2, RoundUp
  <2>2. NewLatent(r, s) = InBundles(latent_len[r] .. latent_len[r] + up - 1)
    BY <1>2 DEF NewLatent
  <2>3. UNION NewLatent(r, s) \subseteq latent_len[r] .. latent_len[r] + up - 1
    BY <2>2, InBundlesWithin, Zenon
  <2>4. latent_len[r] + up \in Nat /\ latent_len[r] .. latent_len[r] + up - 1 \subseteq 0 .. latent_len[r] + up
    BY <2>1
  <2> QED BY <2>3, <2>4
<1> QED BY <1>1, <1>2

\* The table becomes long enough for what it had, for the loaded tokens and for
\* every new row.
LEMMA NewLength ==
    ASSUME CacheTypes, NEW r \in Req, NEW s, SlotsOK(s)
    PROVE  /\ NewLatentLen(r, s) \in Nat
           /\ NewLatentLen(r, s) >= latent_len[r]
           /\ s.load /\ s.total > 0 => NewLatentLen(r, s) > 0
           /\ \A i \in UNION NewLatent(r, s) : i < NewLatentLen(r, s)
           /\ StartsTable(r, s) => NewLatentLen(r, s) >= MaxOf(cdiv(s.total, BlockSize), scratch_end)
           /\ \/ ~StartsTable(r, s) /\ NewLatentLen(r, s) = latent_len[r]
              \/ StartsTable(r, s) /\ NewLatentLen(r, s) = MaxOf(cdiv(s.total, BlockSize), scratch_end)
              \/ \E i \in UNION NewLatent(r, s) : NewLatentLen(r, s) = i + 1
<1> DEFINE added == UNION NewLatent(r, s)
           table == IF StartsTable(r, s) THEN MaxOf(cdiv(s.total, BlockSize), scratch_end) ELSE latent_len[r]
           N == {table} \cup {i + 1 : i \in added}
<1>1. PICK K \in Nat : added \subseteq 0 .. K
  BY NewRows
<1>2. cdiv(s.total, BlockSize) \in Nat /\ (s.total > 0 => cdiv(s.total, BlockSize) > 0) /\ scratch_end \in Nat
  BY CdivUp, CacheAssumption, RoundUp, Zenon DEF SlotsOK, scratch_end
<1>3. table \in Nat /\ table >= latent_len[r] /\ latent_len[r] \in Nat /\ (s.load /\ s.total > 0 => table > 0)
  BY <1>2 DEF MaxOf, CacheTypes, SlotsOK, StartsTable
<1> HIDE DEF added, table
<1>4. \E n \in N : n >= table /\ \A i \in added : i < n
  <2>1. N \subseteq Nat /\ N # {} /\ K + 1 + table \in Nat /\ \A n \in N : n <= K + 1 + table
    BY <1>1, <1>3
  <2>2. PICK n \in N : \A k \in N : k <= n
    BY <2>1, GreatestElement, Zenon
  <2>3. \A i \in added : i + 1 <= n /\ i \in Nat
    BY <1>1, <2>2
  <2>4. n \in Nat /\ table <= n
    BY <2>1, <2>2
  <2> QED BY <1>3, <2>2, <2>3, <2>4
<1>5. NewLatentLen(r, s) = CHOOSE n \in N : n >= table /\ \A i \in added : i < n
  BY DEF NewLatentLen, added, table
<1>6. /\ NewLatentLen(r, s) \in N /\ NewLatentLen(r, s) >= table
      /\ \A i \in added : i < NewLatentLen(r, s)
  BY <1>4, <1>5
<1>7. N \subseteq Nat
  BY <1>1, <1>3
<1>8. NewLatentLen(r, s) = table \/ \E i \in added : NewLatentLen(r, s) = i + 1
  BY <1>6
<1>9. /\ StartsTable(r, s) => table = MaxOf(cdiv(s.total, BlockSize), scratch_end)
      /\ ~StartsTable(r, s) => table = latent_len[r]
  BY DEF table
<1>10. /\ NewLatentLen(r, s) \in Nat /\ (s.load /\ s.total > 0 => NewLatentLen(r, s) > 0)
       /\ NewLatentLen(r, s) >= latent_len[r]
  BY <1>3, <1>6, <1>7
<1>11. StartsTable(r, s) \/ ~StartsTable(r, s)
  OBVIOUS
<1> QED BY <1>6, <1>8, <1>9, <1>10, <1>11 DEF added

-----------------------------------------------------------------------------
(* The scratch prefix.                                                      *)

\* What is true of one request.  The last four lines say when a request can hold
\* rows: a compact table is started only by a load, which takes the scratch rows.
ReqInv(r) ==
    /\ computed[r] <= tokens[r] /\ prefix[r] <= tokens[r]
    /\ prefix[r] # NoPrefix /\ latent_len[r] > 0 => 0 .. Scratch - 1 \subseteq Rows(r)
    /\ ~failed =>
        /\ phase[r] = "waiting" /\ prefix[r] = NoPrefix => latent_len[r] = 0
        /\ phase[r] = "waiting" /\ computed[r] > 0 => latent_len[r] > 0
        /\ phase[r] = "loading" => prefix[r] # NoPrefix /\ latent_len[r] > 0 /\ computed[r] > 0
        /\ phase[r] = "running" /\ prefix[r] # NoPrefix => latent_len[r] > 0

ScratchInv == CacheTypes /\ \A r \in Req : ReqInv(r)

LEMMA ScratchInvInit == Init => ScratchInv
<1> SUFFICES ASSUME Init PROVE ScratchInv
  OBVIOUS
<1>1. CacheTypes
  BY CacheAssumption DEF Init, CacheTypes, NoPrefix
<1>2. ASSUME NEW r \in Req PROVE ReqInv(r)
  BY CacheAssumption DEF Init, ReqInv, NoPrefix
<1> QED BY <1>1, <1>2 DEF ScratchInv

\* A step of one request does not disturb the others.
LEMMA Others ==
    ASSUME ScratchInv, ~failed, NEW q \in Req,
           UNCHANGED <<phase[q], computed[q], tokens[q], latent[q], latent_len[q], prefix[q]>>
    PROVE  ReqInv(q)'
BY DEF ScratchInv, ReqInv, Rows

LEMMA RunKeeps ==
    ASSUME ScratchInv, ~failed, NEW r \in Req, NEW new \in NewTokens(r), Run(r, new),
           phase[r] \in {"waiting", "running"}, prefix[r] # NoPrefix => latent_len[r] > 0
    PROVE  ScratchInv'
<1> DEFINE s == Slots(r, new, 0, FALSE)
<1>0. CacheTypes /\ ReqInv(r)
  BY DEF ScratchInv
<1>1. new \in Nat \ {0} /\ computed[r] + new <= tokens[r]
  <2>1. computed[r] \in Nat /\ tokens[r] \in Nat /\ computed[r] <= tokens[r]
    BY <1>0 DEF CacheTypes, ReqInv
  <2>2. PICK b \in Nat \ {0} : new = MinOf(b, tokens[r] - computed[r]) /\ new # 0
    BY CacheAssumption DEF NewTokens
  <2> QED BY <2>1, <2>2 DEF MinOf
<1>2. SlotsOK(s) /\ ~s.load
  <2>1. computed[r] \in Nat /\ Lookahead \in Nat /\ MaxTokens \in Nat
    BY <1>0, CacheAssumption DEF CacheTypes
  <2>2. computed[r] + new \in Nat /\ MinOf(computed[r] + new + Lookahead, MaxTokens) \in Nat
    BY <1>1, <2>1 DEF MinOf
  <2> QED BY <1>1, <2>1, <2>2 DEF Slots, SlotsOK, MinOf
<1> HIDE DEF s
<1>3. /\ phase' = [phase EXCEPT ![r] = "running"]
      /\ computed' = [computed EXCEPT ![r] = @ + new]
      /\ UNCHANGED tokens /\ Allocate(r, s)
  BY Zenon DEF Run, s
<1>4. CASE AllocationFails(r, s)
  <2>1. failed' /\ UNCHANGED <<latent, latent_len, prefix, released>>
    BY <1>3, <1>4 DEF Allocate, tables
  <2>2. CacheTypes'
    BY <1>0, <1>1, <1>3, <2>1 DEF CacheTypes
  <2>3. ReqInv(r)'
    BY <1>0, <1>1, <1>3, <2>1 DEF ReqInv, Rows, CacheTypes
  <2>4. ASSUME NEW q \in Req, q # r PROVE ReqInv(q)'
    BY <1>0, <1>3, <2>1, <2>4, Others DEF CacheTypes
  <2> QED BY <2>2, <2>3, <2>4 DEF ScratchInv
<1>5. CASE ~AllocationFails(r, s)
  <2>1. /\ latent' = [latent EXCEPT ![r] = @ \cup NewLatent(r, s)]
        /\ latent_len' = [latent_len EXCEPT ![r] = NewLatentLen(r, s)]
        /\ UNCHANGED <<prefix, released, failed>>
    BY <1>2, <1>3, <1>5 DEF Allocate
  <2>2. NewLatentLen(r, s) \in Nat /\ NewLatentLen(r, s) >= latent_len[r]
    BY <1>0, <1>2, NewLength
  <2>3. NewLatent(r, s) \subseteq SUBSET Nat
    <3>1. PICK K \in Nat : UNION NewLatent(r, s) \subseteq 0 .. K
      BY <1>0, <1>2, NewRows
    <3>2. 0 .. K \subseteq Nat
      OBVIOUS
    <3> QED BY <3>1, <3>2
  <2>4. CacheTypes'
    <3>1. latent' \in [Req -> SUBSET SUBSET Nat]
      BY <1>0, <2>1, <2>3 DEF CacheTypes
    <3>2. computed' \in [Req -> Nat]
      BY <1>0, <1>1, <1>3 DEF CacheTypes
    <3> QED BY <1>0, <1>3, <2>1, <2>2, <3>1, <3>2 DEF CacheTypes
  <2>5. ReqInv(r)'
    <3>1. /\ phase'[r] = "running" /\ computed'[r] = computed[r] + new /\ tokens'[r] = tokens[r]
          /\ prefix'[r] = prefix[r] /\ latent_len'[r] >= latent_len[r] /\ latent_len[r] \in Nat
          /\ latent_len'[r] \in Nat /\ latent'[r] = latent[r] \cup NewLatent(r, s)
      BY <1>0, <1>3, <2>1, <2>2 DEF CacheTypes
    <3>2. Rows(r) \subseteq Rows(r)'
      BY <3>1 DEF Rows
    <3>3. prefix[r] # NoPrefix => latent_len'[r] > 0 /\ 0 .. Scratch - 1 \subseteq Rows(r)
      <4>1. latent_len[r] > 0 => latent_len'[r] > 0
        <5>1. latent_len[r] \in Nat /\ latent_len'[r] \in Nat /\ latent_len'[r] >= latent_len[r]
          BY <3>1
        <5> QED BY <5>1
      <4>2. latent_len[r] > 0 /\ prefix[r] # NoPrefix => 0 .. Scratch - 1 \subseteq Rows(r)
        BY <1>0 DEF ReqInv
      <4> QED BY <4>1, <4>2
    <3> QED BY <1>0, <1>1, <3>1, <3>2, <3>3 DEF ReqInv
  <2>6. ASSUME NEW q \in Req, q # r PROVE ReqInv(q)'
    BY <1>0, <1>3, <2>1, <2>6, Others DEF CacheTypes
  <2> QED BY <2>4, <2>5, <2>6 DEF ScratchInv
<1> QED BY <1>4, <1>5

\* free forgets the table and its marker.
LEMMA FreeKeeps ==
    ASSUME ScratchInv, ~failed, NEW r \in Req, Free(r), NEW ph \in {"waiting", "done"},
           phase' = [phase EXCEPT ![r] = ph], computed' = [computed EXCEPT ![r] = 0],
           UNCHANGED tokens
    PROVE  ScratchInv'
<1>0. CacheTypes
  BY DEF ScratchInv
<1>1. CacheTypes'
  BY <1>0 DEF CacheTypes, Free, NoPrefix
<1>2. ReqInv(r)'
  BY <1>0 DEF CacheTypes, Free, NoPrefix, ReqInv
<1>3. ASSUME NEW q \in Req, q # r PROVE ReqInv(q)'
  BY <1>0, <1>3, Others DEF CacheTypes, Free
<1> QED BY <1>1, <1>2, <1>3 DEF ScratchInv

\* A load takes the scratch rows; a refusal leaves only the marker.
LEMMA LoadKeeps ==
    ASSUME LookupStable, ScratchInv, ~failed, NEW r \in Req, ScheduleLoad(r)
    PROVE  ScratchInv'
<1>0. CacheTypes /\ ReqInv(r) /\ phase[r] = "waiting" /\ computed[r] = 0
  BY DEF ScratchInv, ScheduleLoad
<1>1. PICK ext \in Lookup(r) \ {0} :
        LET s == Slots(r, 0, ext, TRUE)
        IN  IF has_enough_free_blocks(r, s)
            THEN /\ Allocate(r, s)
                 /\ phase' = [phase EXCEPT ![r] = "loading"]
                 /\ computed' = [computed EXCEPT ![r] = ext]
                 /\ UNCHANGED <<tokens, local_from, reached, saved>>
            ELSE /\ prefix' = [prefix EXCEPT ![r] = ext]
                 /\ UNCHANGED <<requests, latent, latent_len, indexer, released,
                                free_bundles, saved, failed>>
  BY Zenon DEF ScheduleLoad
<1> DEFINE s == Slots(r, 0, ext, TRUE)
<1>2. ext \in Nat \ {0} /\ ext <= tokens[r]
  <2>1. CASE prefix[r] # NoPrefix
    BY <1>0, <1>1, <2>1 DEF Lookup, CacheTypes, ReqInv
  <2>2. CASE prefix[r] = NoPrefix
    BY <1>1, <2>2, CacheAssumption DEF Lookup
  <2> QED BY <2>1, <2>2
<1>3. SlotsOK(s) /\ s.load /\ s.total = ext
  <2>1. Lookahead \in Nat /\ MaxTokens \in Nat
    BY CacheAssumption
  <2> QED BY <1>0, <1>2, <2>1 DEF Slots, SlotsOK, MinOf
<1>4. CASE ~has_enough_free_blocks(r, s)
  <2>1. /\ prefix' = [prefix EXCEPT ![r] = ext]
        /\ UNCHANGED <<phase, computed, tokens, latent, latent_len, released, failed>>
    BY <1>1, <1>4 DEF requests
  <2>2. CacheTypes'
    BY <1>0, <1>2, <2>1 DEF CacheTypes
  <2>3. ReqInv(r)'
    <3>1. prefix'[r] = ext
      BY <1>0, <2>1 DEF CacheTypes
    <3>2. CASE prefix[r] # NoPrefix
      <4>1. ext = prefix[r]
        BY <1>1, <3>2 DEF Lookup
      <4> QED BY <1>0, <2>1, <3>1, <4>1 DEF ReqInv, Rows
    <3>3. CASE prefix[r] = NoPrefix
      <4>1. latent_len[r] = 0
        BY <1>0, <3>3 DEF ReqInv
      <4> QED BY <1>0, <1>2, <2>1, <3>1, <4>1 DEF ReqInv, NoPrefix
    <3> QED BY <3>2, <3>3
  <2>4. ASSUME NEW q \in Req, q # r PROVE ReqInv(q)'
    BY <1>0, <2>1, <2>4, Others DEF CacheTypes
  <2> QED BY <2>2, <2>3, <2>4 DEF ScratchInv
<1>5. CASE has_enough_free_blocks(r, s)
  <2>0. /\ phase' = [phase EXCEPT ![r] = "loading"]
        /\ computed' = [computed EXCEPT ![r] = ext]
        /\ UNCHANGED tokens /\ Allocate(r, s)
    BY <1>1, <1>5, Zenon
  <2>1. CASE AllocationFails(r, s)
    <3>1. failed' /\ UNCHANGED <<latent, latent_len, prefix, released>>
      BY <2>0, <2>1 DEF Allocate, tables
    <3>2. CacheTypes'
      BY <1>0, <1>2, <2>0, <3>1 DEF CacheTypes
    <3>3. ReqInv(r)'
      BY <1>0, <1>2, <2>0, <3>1 DEF ReqInv, Rows, CacheTypes
    <3>4. ASSUME NEW q \in Req, q # r PROVE ReqInv(q)'
      BY <1>0, <2>0, <3>1, <3>4, Others DEF CacheTypes
    <3> QED BY <3>2, <3>3, <3>4 DEF ScratchInv
  <2>2. CASE ~AllocationFails(r, s)
    <3> HIDE DEF s
    <3>1. /\ latent' = [latent EXCEPT ![r] = @ \cup NewLatent(r, s)]
          /\ latent_len' = [latent_len EXCEPT ![r] = NewLatentLen(r, s)]
          /\ prefix' = [prefix EXCEPT ![r] = ext]
          /\ UNCHANGED <<released, failed>>
      BY <1>3, <2>0, <2>2 DEF Allocate
    <3>2. NewLatentLen(r, s) \in Nat /\ NewLatentLen(r, s) > 0
      BY <1>0, <1>2, <1>3, NewLength
    <3>3. NewLatent(r, s) \subseteq SUBSET Nat
      <4>1. PICK K \in Nat : UNION NewLatent(r, s) \subseteq 0 .. K
        BY <1>0, <1>3, NewRows
      <4>2. 0 .. K \subseteq Nat
        OBVIOUS
      <4> QED BY <4>1, <4>2
    <3>4. CacheTypes'
      <4>1. latent' \in [Req -> SUBSET SUBSET Nat]
        BY <1>0, <3>1, <3>3 DEF CacheTypes
      <4> QED BY <1>0, <1>2, <2>0, <3>1, <3>2, <4>1 DEF CacheTypes
    <3>5. ReqInv(r)'
      <4>1. /\ phase'[r] = "loading" /\ computed'[r] = ext /\ tokens'[r] = tokens[r] /\ prefix'[r] = ext
            /\ latent_len'[r] > 0 /\ latent'[r] = latent[r] \cup NewLatent(r, s)
        BY <1>0, <2>0, <3>1, <3>2 DEF CacheTypes
      <4>3. Scratch \in Nat /\ scratch_end \in Nat /\ Scratch <= scratch_end
        BY CacheAssumption, RoundUp DEF scratch_end
      <4>4. 0 .. scratch_end - 1 \subseteq UNION InBundles(0 .. scratch_end - 1)
        BY <4>3, InBundlesCover
      <4>5. 0 .. Scratch - 1 \subseteq 0 .. scratch_end - 1
        BY <4>3
      <4>6. 0 .. Scratch - 1 \subseteq Rows(r)'
        <5>1. CASE latent_len[r] = 0
          <6>1. InBundles(0 .. scratch_end - 1) \subseteq NewLatent(r, s)
            BY <1>3, <5>1, Zenon DEF NewLatent, UsesCompact, ScratchRows, StartsTable
          <6> QED BY <4>1, <4>4, <4>5, <6>1 DEF Rows
        <5>2. CASE latent_len[r] # 0
          <6>1. latent_len[r] > 0
            BY <1>0, <5>2 DEF CacheTypes
          <6>2. 0 .. Scratch - 1 \subseteq Rows(r)
            BY <1>0, <5>2, <6>1 DEF ReqInv
          <6> QED BY <4>1, <6>2 DEF Rows
        <5> QED BY <5>1, <5>2
      <4>7. ext <= tokens'[r] /\ ext # NoPrefix /\ ext > 0
        BY <1>2, <4>1 DEF NoPrefix
      <4> QED BY <4>1, <4>6, <4>7, Zenon DEF ReqInv
    <3>6. ASSUME NEW q \in Req, q # r PROVE ReqInv(q)'
      BY <1>0, <2>0, <3>1, <3>6, Others DEF CacheTypes
    <3> QED BY <3>4, <3>5, <3>6 DEF ScratchInv
  <2> QED BY <2>1, <2>2, Zenon
<1> QED BY <1>4, <1>5, Zenon

LEMMA BeforeRelease ==
    ASSUME NEW first \in Nat, NEW end \in Nat, NEW i \in 0 .. first - 1
    PROVE  i \notin first .. end - 1
OBVIOUS

\* A completed save releases no row before release_start.
LEMMA WindowSavedKeeps ==
    ASSUME ScratchInv, ~failed, NEW r \in Req, NEW e \in Saves, WindowSaved(r, e)
    PROVE  ScratchInv'
<1> DEFINE end  == MinOf(e \div BlockSize, latent_len[r])
           gone == release_start .. end - 1
           left == {b \ gone : b \in latent[r] \ Emptied(r, gone)}
<1>0. CacheTypes /\ ReqInv(r)
  BY DEF ScratchInv
<1>1. end \in Nat /\ Scratch \in Nat
  <2>1. BlockSize \in Nat \ {0} /\ Window \in Nat /\ MaxTokens \in Nat /\ Scratch \in Nat /\ Window # 0
    BY CacheAssumption
  <2>2. e \in Nat
    <3>1. PICK w \in 1 .. MaxTokens \div Window : e = w * Window
      BY DEF Saves
    <3> QED BY <2>1, <3>1
  <2>3. e \div BlockSize \in Nat /\ latent_len[r] \in Nat
    BY <1>0, <2>1, <2>2 DEF CacheTypes
  <2> QED BY <2>1, <2>3 DEF MinOf
<1>2. /\ latent' = [latent EXCEPT ![r] = left]
      /\ released' = IF prefix[r] = NoPrefix \/ latent_len[r] = 0 THEN released
                     ELSE [released EXCEPT ![r] = MaxOf(@, end)]
      /\ UNCHANGED <<phase, computed, tokens, latent_len, prefix, failed>>
  BY DEF WindowSaved, requests
<1> HIDE DEF end
<1>3. left \in SUBSET SUBSET Nat
  BY <1>0 DEF CacheTypes
<1>4. CacheTypes'
  <2>1. released' \in [Req -> Nat]
    BY <1>0, <1>1, <1>2 DEF CacheTypes, MaxOf
  <2>2. latent' \in [Req -> SUBSET SUBSET Nat]
    BY <1>0, <1>2, <1>3, Zenon DEF CacheTypes
  <2> QED BY <1>0, <1>2, <2>1, <2>2 DEF CacheTypes
<1>5. ASSUME NEW i \in Rows(r), i \in 0 .. Scratch - 1 PROVE i \in UNION left
  <2>1. PICK b \in latent[r] : i \in b
    BY Zenon DEF Rows
  <2>2. i \notin gone
    BY <1>1, <1>5, BeforeRelease, Zenon DEF release_start
  <2>3. b \notin Emptied(r, gone)
    BY <2>1, <2>2, Zenon DEF Emptied
  <2>4. b \ gone \in left /\ i \in b \ gone
    BY <2>1, <2>2, <2>3, Zenon
  <2> QED BY <2>4, Zenon
<1>6. ReqInv(r)'
  <2>1. latent'[r] = left
    BY <1>0, <1>2 DEF CacheTypes
  <2>2. 0 .. Scratch - 1 \subseteq Rows(r) => 0 .. Scratch - 1 \subseteq Rows(r)'
    BY <1>5, <2>1 DEF Rows
  <2> QED BY <1>0, <1>2, <2>2, Zenon DEF ReqInv
<1>7. ASSUME NEW q \in Req, q # r PROVE ReqInv(q)'
  BY <1>0, <1>2, <1>7, Others DEF CacheTypes
<1> QED BY <1>4, <1>6, <1>7 DEF ScratchInv

LEMMA ScratchInvNext ==
    ASSUME LookupStable, ScratchInv, [Next]_vars
    PROVE  ScratchInv'
<1>0. CacheTypes /\ \A r \in Req : ReqInv(r)
  BY DEF ScratchInv
<1>1. CASE UNCHANGED vars
  <2>1. UNCHANGED <<phase, computed, tokens, latent, latent_len, prefix, released, failed>>
    BY <1>1 DEF vars, requests, tables
  <2> QED BY <1>0, <2>1 DEF ScratchInv, CacheTypes, ReqInv, Rows
<1>2. CASE Next
  <2>0. ~failed
    BY <1>2 DEF Next
  <2>1. ASSUME NEW r \in Req, ScheduleWaiting(r) PROVE ScratchInv'
    <3>1. PICK new \in NewTokens(r) : Run(r, new)
      BY <2>1 DEF ScheduleWaiting
    <3>2. phase[r] = "waiting" /\ (computed[r] = 0 => 0 \in Lookup(r))
      BY <2>1 DEF ScheduleWaiting
    <3>3. prefix[r] # NoPrefix => latent_len[r] > 0
      <4> SUFFICES ASSUME prefix[r] # NoPrefix PROVE latent_len[r] > 0
        OBVIOUS
      <4>1. 0 \notin Lookup(r)
        BY <1>0 DEF Lookup, CacheTypes
      <4>2. computed[r] > 0
        BY <1>0, <3>2, <4>1 DEF CacheTypes
      <4> QED BY <1>0, <2>0, <3>2, <4>2 DEF ReqInv
    <3> QED BY <2>0, <3>1, <3>2, <3>3, RunKeeps
  <2>2. ASSUME NEW r \in Req, ScheduleLoad(r) PROVE ScratchInv'
    BY <2>0, <2>2, LoadKeeps
  <2>3. ASSUME NEW r \in Req, ScheduleRunning(r) PROVE ScratchInv'
    <3>1. phase[r] = "running" /\ (prefix[r] # NoPrefix => latent_len[r] > 0)
      BY <1>0, <2>0, <2>3 DEF ScheduleRunning, ReqInv
    <3>2. CASE \E new \in NewTokens(r) : Run(r, new)
      BY <2>0, <3>1, <3>2, RunKeeps
    <3>3. CASE \E v \in Req : Preempt(v)
      <4>1. PICK v \in Req : Preempt(v)
        BY <3>3
      <4> QED BY <2>0, <4>1, FreeKeeps, Zenon DEF Preempt
    <3> QED BY <2>3, <3>2, <3>3, Zenon DEF ScheduleRunning
  <2>4. ASSUME NEW r \in Req, OutputToken(r) PROVE ScratchInv'
    <3>1. /\ tokens' = [tokens EXCEPT ![r] = @ + 1]
          /\ UNCHANGED <<phase, computed, latent, latent_len, prefix, released, failed>>
      BY <2>4 DEF OutputToken, tables
    <3>2. CacheTypes'
      BY <1>0, <3>1 DEF CacheTypes
    <3>3. ReqInv(r)'
      <4>1. tokens'[r] = tokens[r] + 1 /\ tokens[r] \in Nat /\ computed[r] \in Nat
            /\ (prefix[r] \in Nat \/ prefix[r] = NoPrefix)
        BY <1>0, <3>1 DEF CacheTypes
      <4>2. computed[r] <= tokens[r] + 1 /\ prefix[r] <= tokens[r] + 1
        BY <1>0, <4>1 DEF ReqInv, NoPrefix
      <4> QED BY <1>0, <3>1, <4>1, <4>2 DEF ReqInv, Rows
    <3>4. ASSUME NEW q \in Req, q # r PROVE ReqInv(q)'
      BY <1>0, <2>0, <3>1, <3>4, Others DEF CacheTypes
    <3> QED BY <3>2, <3>3, <3>4 DEF ScratchInv
  <2>5. ASSUME NEW r \in Req, LoadSucceeds(r) PROVE ScratchInv'
    <3> DEFINE valid == IF computed[r] = tokens[r] THEN tokens[r] - 1 ELSE computed[r]
    <3>1. /\ computed' = [computed EXCEPT ![r] = valid] /\ phase' = [phase EXCEPT ![r] = "waiting"]
          /\ phase[r] = "loading"
          /\ UNCHANGED <<tokens, latent, latent_len, prefix, released, failed>>
      BY <2>5 DEF LoadSucceeds, tables
    <3>2. valid \in Nat /\ valid <= tokens[r]
      BY <1>0 DEF CacheTypes, ReqInv
    <3> HIDE DEF valid
    <3>3. CacheTypes'
      BY <1>0, <3>1, <3>2 DEF CacheTypes
    <3>4. ReqInv(r)'
      BY <1>0, <2>0, <3>1, <3>2 DEF CacheTypes, ReqInv, Rows
    <3>5. ASSUME NEW q \in Req, q # r PROVE ReqInv(q)'
      BY <1>0, <2>0, <3>1, <3>5, Others DEF CacheTypes
    <3> QED BY <3>3, <3>4, <3>5 DEF ScratchInv
  <2>6. ASSUME NEW r \in Req, LoadFails(r) PROVE ScratchInv'
    BY <2>0, <2>6, FreeKeeps, Zenon DEF LoadFails
  <2>7. ASSUME NEW r \in Req, Finish(r) PROVE ScratchInv'
    BY <2>0, <2>7, FreeKeeps, Zenon DEF Finish
  <2>8. ASSUME NEW r \in Req, NEW e \in Saves, WindowSaved(r, e) PROVE ScratchInv'
    BY <2>0, <2>8, WindowSavedKeeps
  <2> QED BY <1>2, <2>1, <2>2, <2>3, <2>4, <2>5, <2>6, <2>7, <2>8 DEF Next
<1> QED BY <1>1, <1>2

\* remove_saved_decode_window_blocks never takes a scratch row from a compact
\* table, and every compact table has its scratch rows from its first row on:
\* for every layout, window, prompt and schedule, with late saves, refused
\* admissions, failed loads and preemptions, as long as a lookup that matched
\* matches again when the request is tried again.
THEOREM ScratchIsKept == LookupStable => (Spec => []ScratchStays)
<1> SUFFICES ASSUME LookupStable PROVE Spec => []ScratchStays
  OBVIOUS
<1>1. ScratchInv /\ [Next]_vars => ScratchInv'
  BY ScratchInvNext
<1>2. ScratchInv => ScratchStays
  BY DEF ScratchInv, ReqInv, ScratchStays
<1> QED BY <1>1, <1>2, ScratchInvInit, PTL DEF Spec

-----------------------------------------------------------------------------
(* Whole bundles of rows.                                                   *)

\* A number of rows that fills bundles, and a set of rows that does.
Mult(n) == \E c \in Nat : n = c * LatentPerBundle
Whole(M) ==
    \A i \in M : \A k \in 0 .. LatentPerBundle - 1 : (i \div LatentPerBundle) * LatentPerBundle + k \in M

LEMMA Division ==
    ASSUME NEW i \in Nat
    PROVE  /\ i \div LatentPerBundle \in Nat /\ (i \div LatentPerBundle) * LatentPerBundle \in Nat
           /\ (i \div LatentPerBundle) * LatentPerBundle <= i
           /\ i < (i \div LatentPerBundle) * LatentPerBundle + LatentPerBundle
<1> DEFINE d == LatentPerBundle
           q == i \div d
           m == i % d
<1>1. d \in Nat \ {0}
  BY CacheAssumption
<1>2. q \in Nat /\ m \in 0..(d - 1)
  BY <1>1
<1>3. i = d * q + m
  BY <1>1, <1>2
<1>4. q * d = d * q /\ q * d \in Nat
  BY <1>1, <1>2
<1> HIDE DEF q, m, d
<1>5. q * d <= i /\ i < q * d + d
  BY <1>1, <1>2, <1>3, <1>4
<1> QED BY <1>2, <1>4, <1>5 DEF q, d

LEMMA NextMultiple ==
    ASSUME NEW a \in Nat, NEW b \in Nat, a < b
    PROVE  a * LatentPerBundle + LatentPerBundle <= b * LatentPerBundle
<1>1. LatentPerBundle \in Nat \ {0}
  BY CacheAssumption
<1>2. PICK x \in Nat : b = a + 1 + x
  <2>1. b - a - 1 \in Nat /\ b = a + 1 + (b - a - 1)
    OBVIOUS
  <2> QED BY <2>1
<1>3. b * LatentPerBundle = a * LatentPerBundle + LatentPerBundle + x * LatentPerBundle
  BY <1>1, <1>2
<1>4. a * LatentPerBundle \in Nat /\ x * LatentPerBundle \in Nat
  BY <1>1
<1> QED BY <1>1, <1>3, <1>4

LEMMA Quotient ==
    ASSUME NEW c \in Nat, NEW k \in 0 .. LatentPerBundle - 1
    PROVE  /\ c * LatentPerBundle \in Nat /\ c * LatentPerBundle + k \in Nat
           /\ (c * LatentPerBundle + k) \div LatentPerBundle = c
<1> DEFINE d == LatentPerBundle
           i == c * d + k
           q == i \div d
<1>1. d \in Nat \ {0}
  BY CacheAssumption
<1>2. c * d \in Nat /\ i \in Nat
  BY <1>1
<1>3. q \in Nat /\ q * d \in Nat /\ q * d <= i /\ i < q * d + d
  BY <1>2, Division
<1>4. ~(q < c)
  <2> SUFFICES ASSUME q < c PROVE FALSE
    OBVIOUS
  <2>1. q * d + d <= c * d
    BY <1>3, NextMultiple
  <2> HIDE DEF q
  <2> QED BY <1>1, <1>2, <1>3, <2>1
<1>5. ~(c < q)
  <2> SUFFICES ASSUME c < q PROVE FALSE
    OBVIOUS
  <2>1. c * d + d <= q * d
    BY <1>3, NextMultiple
  <2> HIDE DEF q
  <2> QED BY <1>1, <1>2, <1>3, <2>1
<1>6. q = c
  <2> HIDE DEF q
  <2> QED BY <1>3, <1>4, <1>5
<1> QED BY <1>2, <1>6

LEMMA CdivMultiple ==
    ASSUME NEW c \in Nat, NEW m \in Nat
    PROVE  cdiv(c * LatentPerBundle + m, LatentPerBundle) = c + cdiv(m, LatentPerBundle)
<1> DEFINE d == LatentPerBundle
           x == m + d - 1
           q == x \div d
           k == x - q * d
<1>1. d \in Nat \ {0} /\ x \in Nat
  BY CacheAssumption
<1>2. q \in Nat /\ q * d \in Nat /\ q * d <= x /\ x < q * d + d
  BY <1>1, Division
<1>3. k \in 0 .. d - 1 /\ x = q * d + k
  <2> HIDE DEF q, x
  <2> QED BY <1>1, <1>2
<1>4. c * d \in Nat /\ (c + q) * d = c * d + q * d /\ c + q \in Nat
  BY <1>1, <1>2
<1>5. c * d + m + d - 1 = (c + q) * d + k
  <2>1. c * d + m + d - 1 = c * d + x
    BY <1>1, <1>4
  <2> HIDE DEF q, x, k
  <2> QED BY <1>1, <1>2, <1>3, <1>4, <2>1
<1>6. (c * d + m + d - 1) \div d = c + q
  BY <1>3, <1>4, <1>5, Quotient
<1> QED BY <1>6 DEF cdiv

LEMMA WholeInterval ==
    ASSUME NEW a \in Nat, NEW b \in Nat, Mult(a), Mult(b)
    PROVE  Whole(a .. b - 1)
<1> DEFINE d == LatentPerBundle
<1>1. PICK x \in Nat : a = x * d
  BY DEF Mult
<1>2. PICK y \in Nat : b = y * d
  BY DEF Mult
<1>3. SUFFICES ASSUME NEW i \in a .. b - 1, NEW k \in 0 .. d - 1
               PROVE  (i \div d) * d + k \in a .. b - 1
  BY DEF Whole
<1> DEFINE q == i \div d
<1>4. d \in Nat \ {0} /\ i \in Nat
  BY CacheAssumption
<1>5. q \in Nat /\ q * d \in Nat /\ q * d <= i /\ i < q * d + d
  BY <1>4, Division
<1> HIDE DEF q
<1>6. x <= q
  <2> SUFFICES ASSUME q < x PROVE FALSE
    BY <1>5
  <2>1. q * d + d <= x * d
    BY <1>5, NextMultiple
  <2> QED BY <1>1, <1>4, <1>5, <2>1
<1>7. q < y
  <2> SUFFICES ASSUME y <= q PROVE FALSE
    BY <1>5
  <2>1. y * d <= q * d
    <3>1. CASE y = q
      BY <1>4, <1>5, <3>1
    <3>2. CASE y < q
      <4>1. y * d + d <= q * d /\ y * d \in Nat
        BY <1>4, <1>5, <3>2, NextMultiple
      <4> QED BY <1>4, <1>5, <4>1
    <3> QED BY <1>5, <3>1, <3>2
  <2> QED BY <1>2, <1>4, <1>5, <2>1
<1>8. a <= q * d
  <2>1. CASE x = q
    BY <1>1, <1>4, <1>5, <2>1
  <2>2. CASE x < q
    <3>1. x * d + d <= q * d
      BY <1>5, <2>2, NextMultiple
    <3> QED BY <1>1, <1>4, <1>5, <3>1
  <2> QED BY <1>5, <1>6, <2>1, <2>2
<1>9. q * d + d <= b
  BY <1>2, <1>5, <1>7, NextMultiple
<1>10. q * d + k \in a .. b - 1
  BY <1>4, <1>5, <1>8, <1>9
<1> QED BY <1>10 DEF q

\* A row of another number of the same bundle.
LEMMA SameBundle ==
    ASSUME NEW i \in Nat, NEW k \in 0 .. LatentPerBundle - 1,
           NEW j, j = (i \div LatentPerBundle) * LatentPerBundle + k
    PROVE  /\ j \in Nat /\ j \div LatentPerBundle = i \div LatentPerBundle
           /\ \E l \in 0 .. LatentPerBundle - 1 :
                 i = (j \div LatentPerBundle) * LatentPerBundle + l
<1> DEFINE d == LatentPerBundle
           q == i \div d
<1>1. d \in Nat \ {0}
  BY CacheAssumption
<1>2. q \in Nat /\ q * d \in Nat /\ q * d <= i /\ i < q * d + d
  BY Division
<1>3. j \in Nat /\ j \div d = q
  BY <1>2, Quotient
<1>4. i - q * d \in 0 .. d - 1 /\ i = q * d + (i - q * d)
  <2> HIDE DEF q
  <2> QED BY <1>1, <1>2
<1> QED BY <1>3, <1>4

LEMMA WholeUnion ==
    ASSUME NEW M, NEW N, Whole(M), Whole(N)
    PROVE  Whole(M \cup N)
BY DEF Whole

LEMMA WholeDifference ==
    ASSUME NEW M \in SUBSET Nat, NEW N \in SUBSET Nat, Whole(M), Whole(N)
    PROVE  Whole(M \ N)
<1> SUFFICES ASSUME NEW i \in M \ N, NEW k \in 0 .. LatentPerBundle - 1, NEW j,
                    j = (i \div LatentPerBundle) * LatentPerBundle + k
             PROVE  j \in M \ N
  BY DEF Whole
<1>1. j \in M /\ i \in Nat
  BY DEF Whole
<1>2. PICK l \in 0 .. LatentPerBundle - 1 : i = (j \div LatentPerBundle) * LatentPerBundle + l
  BY <1>1, SameBundle
<1>3. j \notin N
  BY <1>2 DEF Whole
<1> QED BY <1>1, <1>3

\* Whole bundles end where a bundle ends.
LEMMA WholeEnd ==
    ASSUME NEW M \in SUBSET Nat, Whole(M), NEW i \in M, \A j \in M : j <= i
    PROVE  Mult(i + 1)
<1> DEFINE d == LatentPerBundle
           q == i \div d
<1>1. d \in Nat \ {0} /\ i \in Nat
  BY CacheAssumption
<1>2. q \in Nat /\ q * d \in Nat /\ q * d <= i /\ i < q * d + d
  BY <1>1, Division
<1>3. d - 1 \in 0 .. d - 1
  BY <1>1
<1>4. q * d + (d - 1) \in M
  BY <1>3 DEF Whole
<1>5. q * d + (d - 1) <= i
  BY <1>4, Zenon
<1> HIDE DEF q
<1>6. i + 1 = q * d + d
  BY <1>1, <1>2, <1>5
<1>7. (q + 1) * d = q * d + d /\ q + 1 \in Nat
  BY <1>1, <1>2
<1> QED BY <1>6, <1>7 DEF Mult

\* Whole bundles have a number of rows that fills bundles: the rows are the pairs
\* of a bundle and a place in it.
LEMMA WholeCardinality ==
    ASSUME NEW M \in SUBSET Nat, IsFiniteSet(M), Whole(M)
    PROVE  Mult(Cardinality(M))
<1> DEFINE d == LatentPerBundle
           C == {i \div d : i \in M}
           P == C \X (0 .. d - 1)
           f == [p \in P |-> p[1] * d + p[2]]
<1>1. d \in Nat \ {0}
  BY CacheAssumption
<1>2. IsFiniteSet(C)
  <2>1. [i \in M |-> i \div d] \in Surjection(M, C)
    BY DEF Surjection
  <2> QED BY <2>1, FS_Surjection
<1>3. IsFiniteSet(0 .. d - 1) /\ Cardinality(0 .. d - 1) = d
  <2>1. IsFiniteSet(0 .. d - 1) /\ Cardinality(0 .. d - 1) = IF 0 > d - 1 THEN 0 ELSE d - 1 - 0 + 1
    BY <1>1, FS_Interval
  <2> QED BY <1>1, <2>1
<1>4. IsFiniteSet(P) /\ Cardinality(P) = Cardinality(C) * d
  BY <1>2, <1>3, FS_Product, Zenon
<1>5. C \subseteq Nat
  BY Division
<1>6. f \in Injection(P, M)
  <2>1. \A p \in P : f[p] \in M
    <3> SUFFICES ASSUME NEW i \in M, NEW k \in 0 .. d - 1 PROVE (i \div d) * d + k \in M
      OBVIOUS
    <3> QED BY DEF Whole
  <2>2. \A p, q \in P : f[p] = f[q] => p = q
    <3> SUFFICES ASSUME NEW c1 \in C, NEW k1 \in 0 .. d - 1, NEW c2 \in C, NEW k2 \in 0 .. d - 1,
                        c1 * d + k1 = c2 * d + k2
                 PROVE  <<c1, k1>> = <<c2, k2>>
      OBVIOUS
    <3>1. c1 = c2
      <4>1. (c1 * d + k1) \div d = c1 /\ (c2 * d + k2) \div d = c2
        BY <1>5, Quotient, Zenon
      <4> QED BY <4>1
    <3>2. c1 * d \in Nat
      BY <1>1, <1>5
    <3>3. k1 = k2
      BY <1>1, <3>1, <3>2
    <3> QED BY <3>1, <3>3
  <2> QED BY <2>1, <2>2, Zenon DEF Injection, IsInjective
<1>7. f \in Surjection(P, M)
  <2>1. \A i \in M : \E p \in P : f[p] = i
    <3> SUFFICES ASSUME NEW i \in M PROVE \E p \in P : f[p] = i
      OBVIOUS
    <3>1. (i \div d) * d \in Nat /\ (i \div d) * d <= i /\ i < (i \div d) * d + d
      BY Division
    <3> DEFINE q == i \div d
    <3>2. i - q * d \in 0 .. d - 1 /\ i = q * d + (i - q * d)
      <4>1. q * d \in Nat /\ q * d <= i /\ i < q * d + d /\ i \in Nat
        BY <3>1
      <4> HIDE DEF q
      <4> QED BY <1>1, <4>1
    <3>3. q \in C
      OBVIOUS
    <3>4. <<q, i - q * d>> \in P /\ f[<<q, i - q * d>>] = i
      BY <3>2, <3>3
    <3> QED BY <3>4
  <2> QED BY <1>6, <2>1 DEF Surjection, Injection
<1>8. f \in Bijection(P, M)
  BY <1>6, <1>7 DEF Bijection
<1>9. Cardinality(M) = Cardinality(P)
  BY <1>4, <1>8, FS_Bijection DEF ExistsBijection
<1>10. Cardinality(C) \in Nat
  BY <1>2, FS_CardinalityType
<1> QED BY <1>4, <1>9, <1>10, Zenon DEF Mult

LEMMA MultRemainder ==
    ASSUME NEW n, Mult(n)
    PROVE  n \in Nat /\ n % LatentPerBundle = 0
<1>1. PICK c \in Nat : n = c * LatentPerBundle
  BY DEF Mult
<1>2. LatentPerBundle \in Nat \ {0}
  BY CacheAssumption
<1> QED BY <1>1, <1>2

-----------------------------------------------------------------------------
(* InBundles of any rows.                                                   *)

LEMMA InBundlesOf ==
    ASSUME NEW M \in SUBSET Nat, IsFiniteSet(M)
    PROVE  /\ UNION InBundles(M) = M /\ IsFiniteSet(InBundles(M))
           /\ Cardinality(InBundles(M)) \in Nat
           /\ Cardinality(InBundles(M)) <= cdiv(Cardinality(M), LatentPerBundle)
<1> DEFINE d == LatentPerBundle
           n == Cardinality(M)
           c == cdiv(n, d)
           rank(k) == Cardinality({j \in M : j < k})
           part(g) == {k \in M : rank(k) \div d = g}
<1>1. d \in Nat \ {0} /\ n \in Nat
  BY CacheAssumption, FS_CardinalityType
<1>2. c \in Nat /\ n <= c * d
  BY <1>1, CdivUp
<1>3. InBundles(M) = {part(g) : g \in 0 .. c - 1}
  BY DEF InBundles
<1>4. IsFiniteSet(0 .. c - 1) /\ Cardinality(0 .. c - 1) = c
  <2>1. IsFiniteSet(0 .. c - 1) /\ Cardinality(0 .. c - 1) = IF 0 > c - 1 THEN 0 ELSE c - 1 - 0 + 1
    BY <1>2, FS_Interval
  <2> HIDE DEF c
  <2> QED BY <1>2, <2>1
<1>5. IsFiniteSet(InBundles(M)) /\ Cardinality(InBundles(M)) <= c
  <2>1. [g \in 0 .. c - 1 |-> part(g)] \in Surjection(0 .. c - 1, InBundles(M))
    BY <1>3, Zenon DEF Surjection
  <2> QED BY <1>4, <2>1, FS_Surjection
<1>6. M \subseteq UNION InBundles(M)
  <2> SUFFICES ASSUME NEW i \in M PROVE i \in UNION InBundles(M)
    OBVIOUS
  <2> DEFINE S == {j \in M : j < i}
             q == rank(i) \div d
  <2>1. S \subseteq M /\ i \notin S
    OBVIOUS
  <2>2. rank(i) \in Nat /\ rank(i) < n
    <3>1. IsFiniteSet(S) /\ Cardinality(S) \in Nat
      BY <2>1, FS_Subset, FS_CardinalityType
    <3>2. Cardinality(S) < Cardinality(M)
      BY <2>1, FS_Subset, FS_CardinalityType
    <3> QED BY <3>1, <3>2
  <2>3. q \in Nat /\ q * d <= rank(i) /\ q * d \in Nat
    BY <2>2, Division
  <2>4. q < c
    <3> HIDE DEF q, c, n
    <3> SUFFICES ASSUME c <= q PROVE FALSE
      BY <1>2, <2>3
    <3>1. c * d <= q * d
      <4>1. CASE c = q
        BY <2>3, <4>1
      <4>2. CASE c < q
        <5>1. c * d + d <= q * d /\ c * d \in Nat
          BY <1>1, <1>2, <2>3, <4>2, NextMultiple
        <5> QED BY <1>1, <2>3, <5>1
      <4> QED BY <1>2, <2>3, <4>1, <4>2
    <3>2. c * d \in Nat
      BY <1>1, <1>2
    <3> QED BY <1>1, <1>2, <2>2, <2>3, <3>1, <3>2
  <2>5. q \in 0 .. c - 1
    <3> HIDE DEF q, c
    <3> QED BY <1>2, <2>3, <2>4
  <2>6. i \in part(q) /\ part(q) \in InBundles(M)
    BY <1>3, <2>5, Zenon
  <2> QED BY <2>6, Zenon
<1>7. UNION InBundles(M) = M
  BY <1>6, InBundlesWithin, Zenon
<1> QED BY <1>5, <1>7, FS_CardinalityType

\* A finite set of rows.
LEMMA FiniteRows ==
    ASSUME NEW K \in Nat, NEW M, M \subseteq 0 .. K
    PROVE  M \in SUBSET Nat /\ IsFiniteSet(M) /\ Cardinality(M) \in Nat
<1>1. IsFiniteSet(0 .. K)
  BY FS_Interval
<1>2. IsFiniteSet(M)
  BY <1>1, FS_Subset, Zenon
<1> QED BY <1>2, FS_CardinalityType

-----------------------------------------------------------------------------
(* Bundles are conserved.                                                   *)

\* The place of a row among the rows of a set.
Rank(M, i) == Cardinality({j \in M : j < i})

\* The rows of a set can be counted off: every rank below its size is taken.
LEMMA RankTaken ==
    ASSUME NEW K \in Nat, NEW M, M \subseteq 0 .. K, NEW k \in Nat, k < Cardinality(M)
    PROVE  \E i \in M : Rank(M, i) = k
<1> DEFINE below(i) == {j \in M : j < i}
           rank(i)  == Cardinality(below(i))
           T        == {i \in M : rank(i) >= k}
<1>1. M \in SUBSET Nat /\ IsFiniteSet(M) /\ Cardinality(M) \in Nat
  BY FiniteRows, Zenon
<1>2. ASSUME NEW i \in M PROVE IsFiniteSet(below(i)) /\ rank(i) \in Nat
  <2>1. below(i) \in SUBSET M
    OBVIOUS
  <2> QED BY <1>1, <2>1, FS_Subset, FS_CardinalityType
<1>3. M # {} /\ \A j \in M : j \in Nat /\ j <= K
  BY <1>1, FS_EmptySet
<1>4. PICK g \in M : \A j \in M : j <= g
  BY <1>1, <1>3, GreatestElement, Zenon
<1>5. ASSUME NEW A, IsFiniteSet(A), NEW x \in A PROVE Cardinality(A \ {x}) = Cardinality(A) - 1
  BY <1>5, FS_RemoveElement, Zenon
<1>6. g \in T
  <2>1. below(g) = M \ {g}
    <3>1. \A j \in M : j < g <=> j # g
      BY <1>3, <1>4
    <3> QED BY <3>1, Zenon
  <2>2. rank(g) = Cardinality(M) - 1
    BY <1>1, <1>5, <2>1, Zenon
  <2>3. rank(g) >= k
    BY <1>1, <2>2
  <2> QED BY <2>3, Zenon
<1> HIDE DEF rank
<1>7. PICK i \in T : \A j \in T : i <= j
  <2>1. T \subseteq Nat /\ T # {}
    BY <1>3, <1>6, Zenon
  <2> QED BY <2>1, LeastElement, Zenon
<1>8. i \in M /\ i \in Nat /\ rank(i) \in Nat /\ rank(i) >= k
  BY <1>2, <1>3, <1>7, Zenon
<1>9. rank(i) = k
  <2> SUFFICES ASSUME rank(i) > k PROVE FALSE
    BY <1>8
  <2>1. below(i) # {}
    <3>1. rank(i) # 0
      BY <1>8
    <3> QED BY <3>1, FS_EmptySet, Zenon DEF rank
  <2>2. below(i) \subseteq Nat /\ \A j \in below(i) : j <= K
    BY <1>3, Zenon
  <2>3. PICK j \in below(i) : \A l \in below(i) : l <= j
    BY <2>1, <2>2, GreatestElement, Zenon
  <2>4. j \in M /\ j < i /\ j \in Nat
    BY <1>3
  <2>5. below(j) = below(i) \ {j}
    <3>1. \A l \in M : l < i => l <= j
      BY <2>3, Zenon
    <3>2. \A l \in M : l < j <=> l < i /\ l # j
      BY <1>3, <1>8, <2>4, <3>1
    <3> QED BY <3>2, Zenon
  <2>6. rank(j) = rank(i) - 1
    BY <1>2, <1>5, <1>8, <2>5, Zenon DEF rank
  <2>7. rank(j) >= k
    BY <1>8, <2>6
  <2>8. i <= j
    BY <1>7, <2>4, <2>7, Zenon
  <2> QED BY <1>8, <2>4, <2>8
<1> QED BY <1>8, <1>9, Zenon DEF rank, Rank

\* The bundles dealt out hold a row each, and no two the same one.
Apart(B) == {} \notin B /\ \A b \in B : \A c \in B : b # c => b \cap c = {}

LEMMA DealtApart ==
    ASSUME NEW K \in Nat, NEW M, M \subseteq 0 .. K
    PROVE  Apart(InBundles(M)) /\ IsFiniteSet(InBundles(M)) /\ UNION InBundles(M) = M
<1> DEFINE d == LatentPerBundle
           n == Cardinality(M)
           c == cdiv(n, d)
           rank(k) == Cardinality({j \in M : j < k})
           part(g) == {k \in M : rank(k) \div d = g}
<1>1. d \in Nat \ {0} /\ n \in Nat /\ M \in SUBSET Nat /\ IsFiniteSet(M)
  BY CacheAssumption, FiniteRows, Zenon
<1>2. InBundles(M) = {part(g) : g \in 0 .. c - 1}
  BY DEF InBundles
<1>3. ASSUME NEW g \in 0 .. c - 1 PROVE part(g) # {}
  <2>1. c \in Nat /\ c * d \in Nat /\ c * d <= n + d - 1
    <3>1. n + d - 1 \in Nat
      BY <1>1
    <3>2. PICK x \in Nat : x = n + d - 1
      BY <3>1
    <3>3. x \div d \in Nat /\ (x \div d) * d \in Nat /\ (x \div d) * d <= x
      BY <3>2, Division
    <3> QED BY <3>2, <3>3 DEF cdiv
  <2> HIDE DEF c
  <2>2. g \in Nat /\ g < c
    BY <1>3, <2>1
  <2>3. g * d + d <= c * d /\ g * d \in Nat
    BY <1>1, <2>1, <2>2, NextMultiple
  <2>4. g * d < n
    BY <1>1, <2>1, <2>3
  <2>5. PICK i \in M : rank(i) = g * d
    <3>1. PICK k \in Nat : k = g * d
      BY <2>3, Zenon
    <3>2. k < Cardinality(M)
      BY <2>4, <3>1, Zenon
    <3>3. \E i \in M : Rank(M, i) = k
      BY <3>2, RankTaken, Zenon
    <3> QED BY <3>1, <3>3, Zenon DEF Rank
  <2>6. (g * d) \div d = g
    <3>1. 0 \in 0 .. d - 1
      BY <1>1
    <3>2. (g * d + 0) \div d = g
      BY <2>2, <3>1, Quotient
    <3>3. g * d + 0 = g * d
      BY <2>3
    <3> QED BY <3>2, <3>3
  <2> QED BY <2>5, <2>6
<1>4. \A g, h \in 0 .. c - 1 : part(g) # part(h) => part(g) \cap part(h) = {}
  OBVIOUS
<1>5. Apart(InBundles(M))
  <2> HIDE DEF part, c
  <2> QED BY <1>2, <1>3, <1>4 DEF Apart
<1> QED BY <1>1, <1>5, InBundlesOf, Zenon

LEMMA ApartUnion ==
    ASSUME NEW B, NEW C, Apart(B), Apart(C), (UNION B) \cap (UNION C) = {}
    PROVE  Apart(B \cup C) /\ B \cap C = {}
<1>1. ASSUME NEW b \in B, NEW c \in C PROVE b \cap c = {}
  <2> SUFFICES ASSUME NEW x \in b, x \in c PROVE FALSE
    BY Zenon
  <2>1. x \in UNION B /\ x \in UNION C
    BY Zenon
  <2> QED BY <2>1, Zenon
<1>2. ASSUME NEW b \in B, b \in C PROVE FALSE
  <2>1. b = {}
    BY <1>1, <1>2, Zenon
  <2> QED BY <2>1 DEF Apart
<1> QED BY <1>1, <1>2 DEF Apart

\* A load that finds a table takes no scratch rows, and neither does a run.
LEMMA NoScratchRows ==
    ASSUME NEW r, NEW s, ~StartsTable(r, s), UsesCompact(r, s)
    PROVE  NewLatent(r, s) = InBundles(MissingAfterScratch(r, s))
<1>1. ScratchRows(r, s) = {}
  BY Zenon DEF ScratchRows
<1>2. Apart(InBundles({})) /\ UNION InBundles({}) = {}
  <2>1. {} \subseteq 0 .. 0 /\ 0 \in Nat
    OBVIOUS
  <2> QED BY <2>1, DealtApart, Zenon
<1>3. InBundles({}) = {}
  <2>1. ASSUME NEW b \in InBundles({}) PROVE FALSE
    <3>1. b = {}
      BY <1>2, Zenon
    <3> QED BY <1>2, <3>1 DEF Apart
  <2> QED BY <2>1, Zenon
<1> QED BY <1>1, <1>3, Zenon DEF NewLatent

\* What an allocation adds lies apart from the table, and in itself.
LEMMA NewApart ==
    ASSUME CacheTypes, NEW r \in Req, NEW s, SlotsOK(s), Rows(r) \subseteq 0 .. latent_len[r] - 1
    PROVE  /\ Apart(NewLatent(r, s)) /\ IsFiniteSet(NewLatent(r, s))
           /\ (UNION NewLatent(r, s)) \cap Rows(r) = {}
<1>0. BlockSize \in Nat \ {0} /\ Scratch \in Nat /\ scratch_end \in Nat /\ released[r] \in Nat /\ latent_len[r] \in Nat
  BY CacheAssumption, RoundUp DEF scratch_end, CacheTypes
<1>1. CASE s.load
  <2> DEFINE R == _compact_required_indices(s.total, s.need, s.main, TRUE, released[r])
             S == ScratchRows(r, s)
             M == R \ (Rows(r) \cup S)
  <2>1. NewLatent(r, s) = InBundles(M) \cup InBundles(S)
    BY <1>1 DEF NewLatent, UsesCompact, MissingAfterScratch
  <2>2. PICK K \in Nat : R \subseteq 0 .. K
    BY <1>0, CompactRows, Zenon DEF SlotsOK
  <2>3. M \subseteq 0 .. K
    BY <2>2, Zenon
  <2>4. S \subseteq 0 .. scratch_end
    BY <1>0 DEF ScratchRows
  <2>5. M \cap S = {} /\ M \cap Rows(r) = {}
    BY Zenon
  <2>51. S \cap Rows(r) = {}
    <3>1. CASE latent_len[r] = 0
      <4>1. Rows(r) = {}
        BY <3>1
      <4> QED BY <4>1, Zenon
    <3>2. CASE latent_len[r] # 0
      BY <3>2, Zenon DEF ScratchRows, StartsTable
    <3> QED BY <3>1, <3>2, Zenon
  <2> HIDE DEF R, S, M
  <2>6. Apart(InBundles(M)) /\ IsFiniteSet(InBundles(M)) /\ UNION InBundles(M) = M
    BY <2>3, DealtApart, Zenon
  <2>7. Apart(InBundles(S)) /\ IsFiniteSet(InBundles(S)) /\ UNION InBundles(S) = S
    BY <1>0, <2>4, DealtApart, Zenon
  <2>8. Apart(NewLatent(r, s))
    <3>1. (UNION InBundles(M)) \cap (UNION InBundles(S)) = {}
      BY <2>5, <2>6, <2>7, Zenon
    <3>2. Apart(InBundles(M) \cup InBundles(S))
      BY <2>6, <2>7, <3>1, ApartUnion, Zenon
    <3> QED BY <2>1, <3>2, Zenon
  <2>9. UNION NewLatent(r, s) = M \cup S
    BY <2>1, <2>6, <2>7, Zenon
  <2>10. (UNION NewLatent(r, s)) \cap Rows(r) = {}
    BY <2>5, <2>51, <2>9, Zenon
  <2>11. IsFiniteSet(InBundles(M) \cup InBundles(S))
    BY <2>6, <2>7, FS_Union, Zenon
  <2>12. IsFiniteSet(NewLatent(r, s))
    BY <2>1, <2>11, Zenon
  <2> QED BY <2>8, <2>10, <2>12, Zenon
<1>2. CASE ~s.load /\ prefix[r] # NoPrefix
  <2> DEFINE R == _compact_required_indices(prefix[r], s.need, s.main, FALSE, released[r])
             M == R \ Rows(r)
  <2>1. NewLatent(r, s) = InBundles(M)
    <3>1. ~StartsTable(r, s) /\ UsesCompact(r, s) /\ MissingAfterScratch(r, s) = M
      BY <1>2, Zenon DEF StartsTable, UsesCompact, MissingAfterScratch
    <3> QED BY <3>1, NoScratchRows, Zenon
  <2>2. prefix[r] \in Nat
    BY <1>2 DEF CacheTypes
  <2>3. PICK K \in Nat : R \subseteq 0 .. K
    BY <1>0, <2>2, CompactRows, Zenon DEF SlotsOK
  <2>4. M \subseteq 0 .. K /\ M \cap Rows(r) = {}
    BY <2>3, Zenon
  <2> HIDE DEF R, M
  <2>5. Apart(InBundles(M)) /\ IsFiniteSet(InBundles(M)) /\ UNION InBundles(M) = M
    BY <2>4, DealtApart, Zenon
  <2> QED BY <2>1, <2>4, <2>5, Zenon
<1>3. CASE ~s.load /\ prefix[r] = NoPrefix
  <2> DEFINE more == MaxOf(cdiv(s.need, BlockSize) - latent_len[r], 0)
             up   == _round_up_to_bundle(more)
  <2>1. up \in Nat
    <3>1. cdiv(s.need, BlockSize) \in Nat
      BY <1>0, CdivUp DEF SlotsOK
    <3>2. more \in Nat
      BY <1>0, <3>1 DEF MaxOf
    <3> QED BY <3>2, RoundUp
  <2>2. NewLatent(r, s) = InBundles(latent_len[r] .. latent_len[r] + up - 1)
    BY <1>3 DEF NewLatent, UsesCompact
  <2> HIDE DEF up
  <2>3. PICK M : M = latent_len[r] .. latent_len[r] + up - 1
    OBVIOUS
  <2>4. M \subseteq 0 .. latent_len[r] + up /\ latent_len[r] + up \in Nat /\ M \cap (0 .. latent_len[r] - 1) = {}
    BY <1>0, <2>1, <2>3
  <2>5. PICK K \in Nat : K = latent_len[r] + up
    BY <2>4
  <2>6. Apart(InBundles(M)) /\ IsFiniteSet(InBundles(M)) /\ UNION InBundles(M) = M
    BY <2>4, <2>5, DealtApart, Zenon
  <2>7. M \cap Rows(r) = {}
    BY <2>4, Zenon
  <2> QED BY <2>2, <2>3, <2>6, <2>7, Zenon
<1> QED BY <1>1, <1>2, <1>3, Zenon

\* A request's bundles are counted by its two tables.
Owned(r, L, n) == {<<r, "latent", b>> : b \in L} \cup {<<r, "indexer", k>> : k \in 1 .. n}

LEMMA OwnedCount ==
    ASSUME NEW r, NEW L, IsFiniteSet(L), NEW n \in Nat
    PROVE  /\ IsFiniteSet(Owned(r, L, n))
           /\ Cardinality(Owned(r, L, n)) = Cardinality(L) + n
           /\ \A e \in Owned(r, L, n) : e[1] = r
<1> DEFINE A == {<<r, "latent", b>> : b \in L}
           C == {<<r, "indexer", k>> : k \in 1 .. n}
           f == [b \in L |-> <<r, "latent", b>>]
           g == [k \in 1 .. n |-> <<r, "indexer", k>>]
<1>1. IsFiniteSet(A) /\ Cardinality(A) = Cardinality(L)
  <2>1. f \in Bijection(L, A)
    BY Zenon DEF Bijection, Injection, IsInjective, Surjection
  <2>2. ExistsBijection(L, A)
    BY <2>1, Zenon DEF ExistsBijection
  <2> QED BY <2>2, FS_Bijection, Zenon
<1>2. IsFiniteSet(C) /\ Cardinality(C) = n
  <2>1. g \in Bijection(1 .. n, C)
    BY Zenon DEF Bijection, Injection, IsInjective, Surjection
  <2>2. ExistsBijection(1 .. n, C)
    BY <2>1, Zenon DEF ExistsBijection
  <2>3. IsFiniteSet(1 .. n) /\ Cardinality(1 .. n) = n
    <3>1. IsFiniteSet(1 .. n) /\ Cardinality(1 .. n) = IF 1 > n THEN 0 ELSE n - 1 + 1
      BY FS_Interval
    <3> QED BY <3>1
  <2> QED BY <2>2, <2>3, FS_Bijection, Zenon
<1>3. A \cap C = {}
  OBVIOUS
<1>4. \A e \in A \cup C : e[1] = r
  OBVIOUS
<1>5. Owned(r, L, n) = A \cup C
  BY Zenon DEF Owned
<1> HIDE DEF A, C
<1>6. IsFiniteSet(A \cup C) /\ Cardinality(A \cup C) = Cardinality(A) + Cardinality(C) - Cardinality(A \cap C)
  BY <1>1, <1>2, FS_Union, Zenon
<1>7. Cardinality(A \cap C) = 0
  BY <1>3, FS_EmptySet, Zenon
<1>8. Cardinality(L) \in Nat
  BY FS_CardinalityType
<1>9. Cardinality(A \cup C) = Cardinality(L) + n
  BY <1>1, <1>2, <1>6, <1>7, <1>8
<1> QED BY <1>4, <1>5, <1>6, <1>9, Zenon

Held == UNION {BundlesOf(r) : r \in Req}

\* When one request changes, the bundles held change by what it holds.
LEMMA HeldChange ==
    ASSUME NEW r \in Req, IsFiniteSet(Held), NEW n \in Nat, NEW m \in Nat, NEW L, NEW R,
           IsFiniteSet(L), IsFiniteSet(R),
           BundlesOf(r) = Owned(r, L, n), BundlesOf(r)' = Owned(r, R, m),
           \A q \in Req : \A e \in BundlesOf(q) : e[1] = q,
           \A q \in Req : q # r => BundlesOf(q)' = BundlesOf(q)
    PROVE  /\ IsFiniteSet(Held')
           /\ Cardinality(Held') + Cardinality(L) + n = Cardinality(Held) + Cardinality(R) + m
<1> DEFINE Rest == UNION {BundlesOf(q) : q \in Req \ {r}}
<1>1. Held = Rest \cup BundlesOf(r)
  BY Zenon DEF Held
<1>2. Held' = Rest \cup BundlesOf(r)'
  <2>1. Held' = UNION {BundlesOf(q)' : q \in Req}
    BY Zenon DEF Held
  <2>2. \A q \in Req \ {r} : BundlesOf(q)' = BundlesOf(q)
    OBVIOUS
  <2> QED BY <2>1, <2>2, Zenon
<1>3. \A e \in Rest : e[1] # r
  <2> SUFFICES ASSUME NEW q \in Req \ {r}, NEW e \in BundlesOf(q) PROVE e[1] # r
    BY Zenon
  <2> QED OBVIOUS
<1> HIDE DEF Rest
<1>4. /\ IsFiniteSet(Owned(r, L, n)) /\ Cardinality(Owned(r, L, n)) = Cardinality(L) + n
      /\ \A e \in Owned(r, L, n) : e[1] = r
  BY OwnedCount, Zenon
<1>5. /\ IsFiniteSet(Owned(r, R, m)) /\ Cardinality(Owned(r, R, m)) = Cardinality(R) + m
      /\ \A e \in Owned(r, R, m) : e[1] = r
  BY OwnedCount, Zenon
<1>6. Rest \cap Owned(r, L, n) = {} /\ Rest \cap Owned(r, R, m) = {}
  BY <1>3, <1>4, <1>5, Zenon
<1>7. IsFiniteSet(Rest)
  <2>1. Rest \in SUBSET Held
    BY <1>1, Zenon
  <2> QED BY <2>1, FS_Subset, Zenon
<1>8. ASSUME NEW O, IsFiniteSet(O), Rest \cap O = {}
      PROVE  IsFiniteSet(Rest \cup O) /\ Cardinality(Rest \cup O) = Cardinality(Rest) + Cardinality(O)
  <2>1. IsFiniteSet(Rest \cup O) /\ Cardinality(Rest \cup O) = Cardinality(Rest) + Cardinality(O) - Cardinality(Rest \cap O)
    BY <1>7, <1>8, FS_Union, Zenon
  <2>2. Cardinality(Rest \cap O) = 0
    BY <1>8, FS_EmptySet, Zenon
  <2>3. Cardinality(Rest) \in Nat /\ Cardinality(O) \in Nat
    BY <1>7, <1>8, FS_CardinalityType
  <2> QED BY <2>1, <2>2, <2>3
<1>9. Cardinality(Held) = Cardinality(Rest) + (Cardinality(L) + n)
  BY <1>1, <1>4, <1>6, <1>8, Zenon
<1>10. IsFiniteSet(Held') /\ Cardinality(Held') = Cardinality(Rest) + (Cardinality(R) + m)
  BY <1>2, <1>5, <1>6, <1>8, Zenon
<1>11. Cardinality(Rest) \in Nat /\ Cardinality(L) \in Nat /\ Cardinality(R) \in Nat
  BY <1>7, FS_CardinalityType
<1> QED BY <1>9, <1>10, <1>11

\* The bundles of B that lose all their rows when the rows of gone go, and what
\* is then left of the others.
Lost(B, gone) == {b \in B : b \subseteq gone}
LeftOver(B, gone) == {b \ gone : b \in B \ Lost(B, gone)}

\* Taking rows out of bundles that lie apart leaves one bundle for each that is
\* not emptied.
LEMMA RowsTakenOut ==
    ASSUME NEW B, IsFiniteSet(B), Apart(B), NEW gone, NEW E, E = Lost(B, gone),
           NEW left, left = LeftOver(B, gone)
    PROVE  /\ IsFiniteSet(left) /\ Apart(left) /\ UNION left \subseteq UNION B
           /\ Cardinality(left) + Cardinality(E) = Cardinality(B)
           /\ Cardinality(left) \in Nat /\ Cardinality(E) \in Nat
<1>0. E = {b \in B : b \subseteq gone} /\ left = {b \ gone : b \in B \ E}
  BY Zenon DEF Lost, LeftOver
<1> DEFINE K == B \ E
           f == [b \in K |-> b \ gone]
<1>1. \A b \in K : \E x \in b : x \notin gone
  BY <1>0, Zenon
<1>2. \A b \in K : \A c \in K : b # c => b \cap c = {}
  BY Zenon DEF Apart
<1>3. ASSUME NEW b \in K, NEW c \in K, b \ gone = c \ gone PROVE b = c
  <2>1. PICK x \in b : x \notin gone
    BY <1>1
  <2>2. x \in c
    BY <1>3, <2>1, Zenon
  <2> QED BY <1>2, <2>1, <2>2, Zenon
<1>4. left = {b \ gone : b \in K}
  BY <1>0, Zenon
<1>5. \A e \in left : \E b \in K : e = b \ gone
  BY <1>4, Zenon
<1>6. Apart(left) /\ UNION left \subseteq UNION B
  <2>1. {} \notin left
    BY <1>1, <1>5, Zenon
  <2>2. ASSUME NEW d \in left, NEW e \in left, d # e PROVE d \cap e = {}
    <3>1. PICK b \in K : d = b \ gone
      BY <1>5
    <3>2. PICK c \in K : e = c \ gone
      BY <1>5
    <3>3. b \cap c = {}
      BY <1>2, <2>2, <3>1, <3>2, Zenon
    <3> QED BY <3>1, <3>2, <3>3
  <2>3. ASSUME NEW d \in left, NEW x \in d PROVE x \in UNION B
    <3>1. PICK b \in K : d = b \ gone
      BY <1>5
    <3>2. b \in B /\ x \in b
      BY <3>1, Zenon
    <3> QED BY <3>2, Zenon
  <2> QED BY <2>1, <2>2, <2>3, Zenon DEF Apart
<1>7. IsFiniteSet(K) /\ IsFiniteSet(E) /\ Cardinality(K) + Cardinality(E) = Cardinality(B)
      /\ Cardinality(K) \in Nat /\ Cardinality(E) \in Nat
  <2>1. K \in SUBSET B /\ E \in SUBSET B
    BY <1>0, Zenon
  <2>2. IsFiniteSet(K) /\ IsFiniteSet(E)
    BY <2>1, FS_Subset, Zenon
  <2>3. Cardinality(K) = Cardinality(B) - Cardinality(B \cap E)
    BY FS_Difference, Zenon
  <2>4. B \cap E = E
    BY <2>1, Zenon
  <2>5. Cardinality(K) \in Nat /\ Cardinality(E) \in Nat /\ Cardinality(B) \in Nat
    BY <2>2, FS_CardinalityType
  <2>6. Cardinality(K) = Cardinality(B) - Cardinality(E)
    BY <2>3, <2>4, Zenon
  <2> HIDE DEF K
  <2> QED BY <2>2, <2>5, <2>6
<1>8. ExistsBijection(K, left)
  <2> HIDE DEF K
  <2>1. f \in Injection(K, left)
    BY <1>3, <1>4 DEF Injection, IsInjective
  <2>2. f \in Surjection(K, left)
    BY <1>4, <1>5, Zenon DEF Surjection
  <2> QED BY <2>1, <2>2, Zenon DEF ExistsBijection, Bijection
<1>9. IsFiniteSet(left) /\ Cardinality(left) = Cardinality(K)
  BY <1>7, <1>8, FS_Bijection, Zenon
<1> QED BY <1>6, <1>7, <1>9, Zenon

\* The bundles of a table lie apart, so that no two allocations count one bundle
\* and a release counts each bundle it empties once.  A table grows only by rows
\* that are new to it: an allocation asks for rows the table has not, and a load
\* takes the scratch rows only when it starts the table.
KeepReq(r) ==
    /\ computed[r] <= tokens[r] /\ prefix[r] <= tokens[r]
    /\ IsFiniteSet(latent[r]) /\ Apart(latent[r]) /\ Rows(r) \subseteq 0 .. latent_len[r] - 1
KeepInv ==
    /\ CacheTypes /\ indexer \in [Req -> Nat] /\ free_bundles \in Int
    /\ IsFiniteSet(Held) /\ free_bundles + Cardinality(Held) = Capacity
    /\ \A r \in Req : KeepReq(r)

LEMMA KeepInvInit == Init => KeepInv
<1> SUFFICES ASSUME Init PROVE KeepInv
  OBVIOUS
<1>1. CacheTypes
  BY CacheAssumption DEF Init, CacheTypes, NoPrefix
<1>2. indexer \in [Req -> Nat] /\ free_bundles = Capacity /\ Capacity \in Nat
  BY CacheAssumption DEF Init
<1>3. Held = {}
  <2>1. ASSUME NEW r \in Req PROVE BundlesOf(r) = {}
    <3>1. latent[r] = {} /\ indexer[r] = 0
      BY DEF Init
    <3> QED BY <3>1 DEF BundlesOf
  <2> QED BY <2>1, Zenon DEF Held
<1>4. IsFiniteSet(Held) /\ Cardinality(Held) = 0
  BY <1>3, FS_EmptySet, Zenon
<1>5. ASSUME NEW r \in Req PROVE KeepReq(r)
  <2>1. /\ latent[r] = {} /\ latent_len[r] = 0 /\ computed[r] = 0 /\ prefix[r] = -1 /\ tokens[r] \in Nat
        /\ phase[r] = "waiting"
    BY CacheAssumption DEF Init, NoPrefix
  <2>2. IsFiniteSet(latent[r]) /\ Apart(latent[r]) /\ Rows(r) = {}
    BY <2>1, FS_EmptySet, Zenon DEF Apart, Rows
  <2> QED BY <2>1, <2>2 DEF KeepReq
<1> QED BY <1>1, <1>2, <1>4, <1>5 DEF KeepInv

\* Bundles that change hands.
LEMMA Balance ==
    ASSUME NEW f \in Int, NEW g \in Int, NEW h \in Nat, NEW k \in Nat,
           NEW l \in Nat, NEW n \in Nat, NEW a \in Nat, NEW m \in Nat,
           f + h = Capacity, k + l + n = h + a + m, g + a + m = f + l + n
    PROVE  g + k = Capacity
<1>1. g + (a + m) = f + (l + n) /\ k + (l + n) = h + (a + m)
  OBVIOUS
<1> QED BY <1>1

LEMMA HandOver ==
    ASSUME NEW f \in Int, NEW a \in Nat, NEW m \in Nat, NEW l \in Nat, NEW n \in Nat
    PROVE  (f - a - m) + (l + a) + (n + m) = f + l + n /\ f - a - m \in Int
OBVIOUS

LEMMA IndexerNeeds ==
    ASSUME NEW i \in Nat, NEW d \in Nat, NEW p \in Nat \ {0}
    PROVE  MaxOf(d - i * p, 0) \in Nat
<1>1. PICK k \in Nat : k = i * p
  OBVIOUS
<1> QED BY <1>1 DEF MaxOf

\* What a step leaves alone.
OthersKept(r) ==
    \A q \in Req : q # r => UNCHANGED <<phase[q], computed[q], tokens[q], latent[q],
                                        latent_len[q], prefix[q], indexer[q]>>

\* A step of one request that hands its bundles over one for one.
LEMMA KeepStep ==
    ASSUME KeepInv, ~failed, NEW r \in Req, CacheTypes', indexer' \in [Req -> Nat],
           free_bundles' \in Int, KeepReq(r)',
           OthersKept(r),
           free_bundles' + Cardinality(latent'[r]) + indexer'[r]
               = free_bundles + Cardinality(latent[r]) + indexer[r]
    PROVE  KeepInv'
<1>0. /\ indexer \in [Req -> Nat] /\ free_bundles \in Int /\ IsFiniteSet(Held)
      /\ free_bundles + Cardinality(Held) = Capacity /\ \A q \in Req : KeepReq(q)
  BY Zenon DEF KeepInv
<1>1. ASSUME NEW q \in Req, q # r PROVE KeepReq(q)' /\ BundlesOf(q)' = BundlesOf(q)
  <2>1. UNCHANGED <<phase[q], computed[q], tokens[q], latent[q], latent_len[q], prefix[q], indexer[q]>>
    BY <1>1 DEF OthersKept
  <2>2. BundlesOf(q)' = BundlesOf(q)
    BY <2>1, Zenon DEF BundlesOf
  <2>3. KeepReq(q)'
    BY <1>0, <2>1, Zenon DEF KeepReq, Rows
  <2> QED BY <2>2, <2>3, Zenon
<1>2. PICK L : L = latent[r]
  BY Zenon
<1>3. PICK R : R = latent'[r]
  BY Zenon
<1>4. PICK n \in Nat : n = indexer[r]
  BY <1>0, Zenon
<1>5. PICK m \in Nat : m = indexer'[r]
  OBVIOUS
<1>6. IsFiniteSet(L) /\ IsFiniteSet(R)
  BY <1>0, <1>2, <1>3, Zenon DEF KeepReq
<1>7. BundlesOf(r) = Owned(r, L, n) /\ BundlesOf(r)' = Owned(r, R, m)
  BY <1>2, <1>3, <1>4, <1>5, Zenon DEF BundlesOf, Owned
<1>8. \A q \in Req : \A e \in BundlesOf(q) : e[1] = q
  BY DEF BundlesOf
<1>9a. IsFiniteSet(Held) /\ \A q \in Req : q # r => BundlesOf(q)' = BundlesOf(q)
  BY <1>0, <1>1, Zenon
<1>9. IsFiniteSet(Held') /\ Cardinality(Held') + Cardinality(L) + n = Cardinality(Held) + Cardinality(R) + m
  BY <1>6, <1>7, <1>8, <1>9a, HeldChange
<1>10. free_bundles' + Cardinality(R) + m = free_bundles + Cardinality(L) + n
  BY <1>2, <1>3, <1>4, <1>5, Zenon
<1>11. /\ Cardinality(L) \in Nat /\ Cardinality(R) \in Nat
       /\ Cardinality(Held) \in Nat /\ Cardinality(Held') \in Nat
  BY <1>0, <1>6, <1>9, FS_CardinalityType, Zenon
<1>12. free_bundles' + Cardinality(Held') = Capacity
  <2>1. PICK f \in Int, g \in Int : f = free_bundles /\ g = free_bundles'
    BY <1>0, Zenon
  <2>2. PICK h \in Nat, k \in Nat, l \in Nat, a \in Nat :
            h = Cardinality(Held) /\ k = Cardinality(Held') /\ l = Cardinality(L) /\ a = Cardinality(R)
    BY <1>11, Zenon
  <2>3. f + h = Capacity /\ k + l + n = h + a + m /\ g + a + m = f + l + n
    BY <1>0, <1>9, <1>10, <2>1, <2>2, Zenon
  <2>4. g + k = Capacity
    BY <2>3, Balance
  <2> QED BY <2>1, <2>2, <2>4, Zenon
<1> QED BY <1>1, <1>9, <1>12, Zenon DEF KeepInv

\* allocate_slots, for a run or for a load: what it takes from the pool it puts
\* in the two tables.
LEMMA AllocateKeepsBundles ==
    ASSUME KeepInv, ~failed, NEW r \in Req, NEW s, SlotsOK(s), Allocate(r, s),
           NEW ph \in {"loading", "running"}, NEW c \in Nat, c <= tokens[r],
           s.load => s.total = c /\ c > 0,
           phase' = [phase EXCEPT ![r] = ph], computed' = [computed EXCEPT ![r] = c],
           UNCHANGED tokens
    PROVE  KeepInv'
<1>0. /\ CacheTypes /\ indexer \in [Req -> Nat] /\ free_bundles \in Int /\ KeepReq(r)
      /\ indexer[r] \in Nat
  BY Zenon DEF KeepInv
<1>1. CASE AllocationFails(r, s)
  <2>1. failed' /\ UNCHANGED <<latent, latent_len, prefix, released, indexer, free_bundles>>
    BY <1>1, Zenon DEF Allocate, tables
  <2>2. CacheTypes'
    BY <1>0, <2>1, Zenon DEF CacheTypes
  <2>3. KeepReq(r)'
    <3>1. computed'[r] = c /\ tokens'[r] = tokens[r]
      BY <1>0, Zenon DEF CacheTypes
    <3> QED BY <1>0, <2>1, <3>1, Zenon DEF KeepReq, Rows
  <2>4. OthersKept(r)
    BY <1>0, <2>1, Zenon DEF CacheTypes, OthersKept
  <2>5. free_bundles' + Cardinality(latent'[r]) + indexer'[r]
            = free_bundles + Cardinality(latent[r]) + indexer[r]
    BY <2>1, Zenon
  <2>6. indexer' \in [Req -> Nat] /\ free_bundles' \in Int
    BY <1>0, <2>1, Zenon
  <2> QED BY <2>2, <2>3, <2>4, <2>5, <2>6, KeepStep, Zenon
<1>2. CASE ~AllocationFails(r, s)
  <2>0. PICK more : more = cdiv(indexer_blocks_to_allocate(r, s), IndexerPerBundle)
    BY Zenon
  <2>1. /\ latent' = [latent EXCEPT ![r] = @ \cup NewLatent(r, s)]
        /\ latent_len' = [latent_len EXCEPT ![r] = NewLatentLen(r, s)]
        /\ indexer' = [indexer EXCEPT ![r] = @ + more]
        /\ prefix' = IF s.load THEN [prefix EXCEPT ![r] = s.total] ELSE prefix
        /\ free_bundles' = free_bundles - Cardinality(NewLatent(r, s)) - more
        /\ released' = released /\ failed' = failed
    BY <1>2, <2>0 DEF Allocate
  <2>2. more \in Nat
    <3>1. BlockSize \in Nat \ {0} /\ IndexerPerBundle \in Nat \ {0} /\ s.need \in Nat
      BY CacheAssumption DEF SlotsOK
    <3>2. cdiv(s.need, BlockSize) \in Nat
      BY <3>1, CdivUp, Zenon
    <3>4. indexer_blocks_to_allocate(r, s) \in Nat
      BY <1>0, <3>1, <3>2, IndexerNeeds, Zenon DEF indexer_blocks_to_allocate
    <3> QED BY <2>0, <3>1, <3>4, CdivUp, Zenon
  <2>3. PICK A : A = NewLatent(r, s)
    BY Zenon
  <2>4. PICK L : L = latent[r]
    OBVIOUS
  <2>5. /\ IsFiniteSet(L) /\ Apart(L) /\ Rows(r) = UNION L
        /\ UNION L \subseteq 0 .. latent_len[r] - 1
    BY <1>0, <2>4, Zenon DEF KeepReq, Rows
  <2>6. Apart(A) /\ IsFiniteSet(A) /\ (UNION A) \cap (UNION L) = {}
    BY <1>0, <2>3, <2>5, NewApart, Zenon
  <2>7. Apart(L \cup A) /\ L \cap A = {}
    <3>1. (UNION L) \cap (UNION A) = {}
      BY <2>6, Zenon
    <3> QED BY <2>5, <2>6, <3>1, ApartUnion, Zenon
  <2>8. /\ IsFiniteSet(L \cup A)
        /\ Cardinality(L \cup A) = Cardinality(L) + Cardinality(A)
        /\ Cardinality(L) \in Nat /\ Cardinality(A) \in Nat
    <3>1. IsFiniteSet(L \cup A) /\ Cardinality(L \cup A) = Cardinality(L) + Cardinality(A) - Cardinality(L \cap A)
      BY <2>5, <2>6, FS_Union, Zenon
    <3>2. Cardinality(L \cap A) = 0
      BY <2>7, FS_EmptySet, Zenon
    <3>3. Cardinality(L) \in Nat /\ Cardinality(A) \in Nat
      BY <2>5, <2>6, FS_CardinalityType
    <3>4. Cardinality(L \cup A) = Cardinality(L) + Cardinality(A) - 0
      BY <3>1, <3>2, Zenon
    <3> QED BY <3>1, <3>3, <3>4
  <2>9. PICK len \in Nat : /\ len = NewLatentLen(r, s) /\ len >= latent_len[r]
                           /\ \A i \in UNION A : i < len
    <3>1. /\ NewLatentLen(r, s) \in Nat /\ NewLatentLen(r, s) >= latent_len[r]
          /\ \A i \in UNION NewLatent(r, s) : i < NewLatentLen(r, s)
      BY <1>0, NewLength, Zenon
    <3> QED BY <2>3, <3>1, Zenon
  <2>10. UNION A \subseteq Nat
    <3>1. PICK K \in Nat : UNION NewLatent(r, s) \subseteq 0 .. K
      BY <1>0, NewRows, Zenon
    <3>2. 0 .. K \subseteq Nat
      OBVIOUS
    <3> QED BY <2>3, <3>1, <3>2, Zenon
  <2>11. UNION (L \cup A) \subseteq 0 .. len - 1
    <3>1. UNION L \subseteq 0 .. len - 1
      <4>0. latent_len[r] \in Nat /\ len >= latent_len[r]
        BY <1>0, <2>9, Zenon DEF CacheTypes
      <4>1. latent_len[r] \in Nat /\ latent_len[r] <= len
        BY <4>0
      <4>2. 0 .. latent_len[r] - 1 \subseteq 0 .. len - 1
        BY <4>1
      <4> QED BY <2>5, <4>2, Zenon
    <3>2. ASSUME NEW i \in UNION A PROVE i \in 0 .. len - 1
      <4>1. i \in Nat /\ i < len
        BY <2>9, <2>10, <3>2, Zenon
      <4> QED BY <4>1
    <3> QED BY <3>1, <3>2, Zenon
  <2>12. /\ latent'[r] = L \cup A /\ latent_len'[r] = len /\ indexer'[r] = indexer[r] + more
         /\ phase'[r] = ph /\ computed'[r] = c /\ tokens'[r] = tokens[r]
         /\ free_bundles' = free_bundles - Cardinality(A) - more
    BY <1>0, <2>1, <2>3, <2>4, <2>9, Zenon DEF CacheTypes
  <2>13. CacheTypes'
    <3>1. latent' \in [Req -> SUBSET SUBSET Nat]
      <4>1. A \in SUBSET SUBSET Nat
        BY <2>10, Zenon
      <4> QED BY <1>0, <2>1, <2>3, <4>1 DEF CacheTypes
    <3>2. prefix' \in [Req -> {NoPrefix} \cup (Nat \ {0})]
      BY <1>0, <2>1 DEF CacheTypes
    <3>3. latent_len' \in [Req -> Nat] /\ computed' \in [Req -> Nat] /\ released' \in [Req -> Nat] 
          /\ tokens' \in [Req -> Nat \ {0}] /\ phase' \in [Req -> {"waiting", "loading", "running", "done"}]
      BY <1>0, <2>1, <2>9 DEF CacheTypes
    <3> QED BY <3>1, <3>2, <3>3, Zenon DEF CacheTypes
  <2>14. KeepReq(r)'
    <3>1. prefix'[r] <= tokens[r]
      <4>1. CASE s.load
        BY <1>0, <2>1, <4>1 DEF CacheTypes
      <4>2. CASE ~s.load
        <5>1. prefix'[r] = prefix[r]
          BY <2>1, <4>2
        <5> QED BY <1>0, <5>1, Zenon DEF KeepReq
      <4> QED BY <4>1, <4>2, Zenon
    <3> QED BY <2>7, <2>8, <2>11, <2>12, <3>1, Zenon DEF KeepReq, Rows
  <2>15. OthersKept(r)
    BY <1>0, <2>1, Zenon DEF CacheTypes, OthersKept
  <2>16. free_bundles' + Cardinality(latent'[r]) + indexer'[r]
             = free_bundles + Cardinality(latent[r]) + indexer[r]
    <3>1. Cardinality(latent'[r]) = Cardinality(L) + Cardinality(A)
      BY <2>8, <2>12, Zenon
    <3>2. Cardinality(latent[r]) = Cardinality(L)
      BY <2>4, Zenon
    <3>3. free_bundles' = free_bundles - Cardinality(A) - more /\ indexer'[r] = indexer[r] + more
      BY <2>12, Zenon
    <3>4. (free_bundles - Cardinality(A) - more) + (Cardinality(L) + Cardinality(A)) + (indexer[r] + more)
              = free_bundles + Cardinality(L) + indexer[r]
      <4>1. /\ free_bundles \in Int /\ Cardinality(A) \in Nat /\ more \in Nat
            /\ Cardinality(L) \in Nat /\ indexer[r] \in Nat
        BY <1>0, <2>2, <2>8, Zenon
      <4> QED BY <4>1, HandOver
    <3> QED BY <3>1, <3>2, <3>3, <3>4, Zenon
  <2>17. indexer' \in [Req -> Nat] /\ free_bundles' \in Int
    <3>1. indexer' \in [Req -> Nat]
      BY <1>0, <2>1, <2>2
    <3>2. free_bundles - Cardinality(A) - more \in Int
      BY <1>0, <2>2, <2>8, HandOver, Zenon
    <3> QED BY <2>12, <3>1, <3>2, Zenon
  <2> QED BY <2>13, <2>14, <2>15, <2>16, <2>17, KeepStep, Zenon
<1> QED BY <1>1, <1>2, Zenon

LEMMA FreeKeepsBundles ==
    ASSUME KeepInv, ~failed, NEW r \in Req, Free(r), NEW ph \in {"waiting", "done"},
           phase' = [phase EXCEPT ![r] = ph], computed' = [computed EXCEPT ![r] = 0],
           UNCHANGED tokens
    PROVE  KeepInv'
<1>0. /\ CacheTypes /\ indexer \in [Req -> Nat] /\ free_bundles \in Int /\ IsFiniteSet(latent[r])
      /\ indexer[r] \in Nat
  BY Zenon DEF KeepInv, KeepReq
<1>1. CacheTypes'
  BY <1>0, Zenon DEF CacheTypes, Free, NoPrefix
<1>2. /\ latent'[r] = {} /\ indexer'[r] = 0 /\ latent_len'[r] = 0 /\ prefix'[r] = -1
      /\ computed'[r] = 0 /\ phase'[r] # "loading" /\ tokens'[r] \in Nat
      /\ free_bundles' = free_bundles + Cardinality(latent[r]) + indexer[r]
  BY <1>0, Zenon DEF CacheTypes, Free, NoPrefix
<1>3. KeepReq(r)'
  <2>1. IsFiniteSet(latent'[r]) /\ Apart(latent'[r]) /\ Rows(r)' = {}
    BY <1>2, FS_EmptySet, Zenon DEF Apart, Rows
  <2>2. computed'[r] <= tokens'[r] /\ prefix'[r] <= tokens'[r]
    BY <1>2
  <2>3. Rows(r)' \subseteq 0 .. latent_len'[r] - 1
    BY <2>1, Zenon
  <2> QED BY <2>1, <2>2, <2>3, Zenon DEF KeepReq
<1>4. OthersKept(r)
  BY <1>0, Zenon DEF CacheTypes, Free, OthersKept
<1>5. Cardinality(latent[r]) \in Nat /\ Cardinality(latent'[r]) = 0
  <2>1. Cardinality(latent'[r]) = 0
    BY <1>2, FS_EmptySet, Zenon
  <2> QED BY <1>0, <2>1, FS_CardinalityType
<1>6. free_bundles' + Cardinality(latent'[r]) + indexer'[r]
          = free_bundles + Cardinality(latent[r]) + indexer[r]
  <2>1. /\ free_bundles' = free_bundles + Cardinality(latent[r]) + indexer[r] /\ indexer'[r] = 0
        /\ free_bundles \in Int /\ indexer[r] \in Nat
    BY <1>0, <1>2, Zenon
  <2> QED BY <1>5, <2>1
<1>7. indexer' \in [Req -> Nat] /\ free_bundles' \in Int
  <2>1. indexer' \in [Req -> Nat]
    BY <1>0, Zenon DEF Free
  <2>2. free_bundles' = free_bundles + Cardinality(latent[r]) + indexer[r]
    BY <1>2, Zenon
  <2>3. free_bundles \in Int /\ indexer[r] \in Nat
    BY <1>0, Zenon
  <2> QED BY <1>5, <2>1, <2>2, <2>3
<1> QED BY <1>1, <1>3, <1>4, <1>6, <1>7, KeepStep, Zenon

\* A completed save returns the bundles it empties and thins out the others.
LEMMA WindowSavedKeepsBundles ==
    ASSUME KeepInv, ~failed, NEW r \in Req, NEW e \in Saves, WindowSaved(r, e)
    PROVE  KeepInv'
<1> DEFINE end  == MinOf(e \div BlockSize, latent_len[r])
<1>0. /\ CacheTypes /\ indexer \in [Req -> Nat] /\ free_bundles \in Int /\ KeepReq(r)
      /\ indexer[r] \in Nat
  BY DEF KeepInv
<1>1. end \in Nat
  <2>1. BlockSize \in Nat \ {0} /\ Window \in Nat /\ MaxTokens \in Nat /\ Window # 0
    BY CacheAssumption
  <2>2. e \in Nat
    <3>1. PICK w \in 1 .. MaxTokens \div Window : e = w * Window
      BY DEF Saves
    <3> QED BY <2>1, <3>1
  <2>3. e \div BlockSize \in Nat /\ latent_len[r] \in Nat
    BY <1>0, <2>1, <2>2 DEF CacheTypes
  <2> QED BY <2>1, <2>3 DEF MinOf
<1>2. PICK gone : gone = release_start .. end - 1
  OBVIOUS
<1>3. PICK L : L = latent[r]
  OBVIOUS
<1>4. PICK E : E = Lost(L, gone)
  OBVIOUS
<1>5. PICK left : left = LeftOver(L, gone)
  BY Zenon
<1>6. /\ latent' = [latent EXCEPT ![r] = left]
      /\ released' = IF prefix[r] = NoPrefix \/ latent_len[r] = 0 THEN released
                     ELSE [released EXCEPT ![r] = MaxOf(@, end)]
      /\ free_bundles' = free_bundles + Cardinality(E)
      /\ UNCHANGED <<phase, computed, tokens, latent_len, prefix, indexer, failed>>
  BY <1>2, <1>3, <1>4, <1>5 DEF WindowSaved, requests, Returned, Emptied, Lost, LeftOver
<1> HIDE DEF end
<1>7. IsFiniteSet(L) /\ Apart(L)
  BY <1>0, <1>3, Zenon DEF KeepReq
<1>8. /\ IsFiniteSet(left) /\ Apart(left) /\ UNION left \subseteq UNION L
      /\ Cardinality(left) + Cardinality(E) = Cardinality(L)
      /\ Cardinality(left) \in Nat /\ Cardinality(E) \in Nat
  BY <1>4, <1>5, <1>7, RowsTakenOut, Zenon
<1>9. CacheTypes'
  <2>1. released' \in [Req -> Nat]
    BY <1>0, <1>1, <1>6 DEF CacheTypes, MaxOf
  <2>2. left \in SUBSET SUBSET Nat
    <3>1. UNION L \subseteq Nat
      BY <1>0, <1>3 DEF CacheTypes
    <3> QED BY <1>8, <3>1, Zenon
  <2>3. latent' \in [Req -> SUBSET SUBSET Nat]
    BY <1>0, <1>6, <2>2, Zenon DEF CacheTypes
  <2> QED BY <1>0, <1>6, <2>1, <2>3, Zenon DEF CacheTypes
<1>10. latent'[r] = left
  BY <1>0, <1>6 DEF CacheTypes
<1>11. KeepReq(r)'
  <2>1. Rows(r)' \subseteq Rows(r)
    BY <1>3, <1>8, <1>10, Zenon DEF Rows
  <2>2. latent[r] = {} => latent'[r] = {}
    BY <1>3, <1>5, <1>10, Zenon DEF LeftOver
  <2> QED BY <1>0, <1>6, <1>8, <1>10, <2>1, <2>2, Zenon DEF KeepReq
<1>12. OthersKept(r)
  BY <1>0, <1>6, Zenon DEF CacheTypes, OthersKept
<1>13. free_bundles' + Cardinality(latent'[r]) + indexer'[r]
           = free_bundles + Cardinality(latent[r]) + indexer[r]
  <2>1. /\ Cardinality(latent'[r]) = Cardinality(left) /\ Cardinality(latent[r]) = Cardinality(L)
        /\ indexer'[r] = indexer[r]
    BY <1>3, <1>6, <1>10, Zenon
  <2>2. /\ free_bundles' = free_bundles + Cardinality(E)
        /\ Cardinality(left) + Cardinality(E) = Cardinality(L)
        /\ free_bundles \in Int /\ indexer[r] \in Nat
        /\ Cardinality(left) \in Nat /\ Cardinality(E) \in Nat
    BY <1>0, <1>6, <1>8, Zenon
  <2> QED BY <2>1, <2>2
<1>14. indexer' \in [Req -> Nat] /\ free_bundles' \in Int
  <2>1. indexer' = indexer /\ free_bundles' = free_bundles + Cardinality(E)
    BY <1>6, Zenon
  <2>2. indexer \in [Req -> Nat] /\ free_bundles \in Int /\ Cardinality(E) \in Nat
    BY <1>0, <1>8, Zenon
  <2> QED BY <2>1, <2>2
<1> QED BY <1>9, <1>11, <1>12, <1>13, <1>14, KeepStep

LEMMA RunKeepsBundles ==
    ASSUME KeepInv, ~failed, NEW r \in Req, NEW new \in NewTokens(r), Run(r, new)
    PROVE  KeepInv'
<1>0. CacheTypes /\ KeepReq(r)
  BY DEF KeepInv
<1>1. new \in Nat \ {0} /\ computed[r] + new <= tokens[r]
  <2>1. computed[r] \in Nat /\ tokens[r] \in Nat /\ computed[r] <= tokens[r]
    BY <1>0 DEF CacheTypes, KeepReq
  <2>2. PICK b \in Nat \ {0} : new = MinOf(b, tokens[r] - computed[r]) /\ new # 0
    BY CacheAssumption DEF NewTokens
  <2> QED BY <2>1, <2>2 DEF MinOf
<1>2. PICK s : s = Slots(r, new, 0, FALSE)
  BY Zenon
<1>3. SlotsOK(s) /\ ~s.load
  <2>1. computed[r] \in Nat /\ Lookahead \in Nat /\ MaxTokens \in Nat
    BY <1>0, CacheAssumption, Zenon DEF CacheTypes
  <2>2. computed[r] + new \in Nat /\ MinOf(computed[r] + new + Lookahead, MaxTokens) \in Nat
    BY <1>1, <2>1 DEF MinOf
  <2> QED BY <1>1, <1>2, <2>1, <2>2 DEF Slots, SlotsOK, MinOf
<1>4. PICK c \in Nat : c = computed[r] + new
  BY <1>0, <1>1 DEF CacheTypes
<1>5. /\ phase' = [phase EXCEPT ![r] = "running"] /\ computed' = [computed EXCEPT ![r] = c]
      /\ UNCHANGED tokens /\ Allocate(r, s) /\ c <= tokens[r]
  BY <1>1, <1>2, <1>4, Zenon DEF Run
<1>6. PICK ph \in {"loading", "running"} : ph = "running"
  OBVIOUS
<1>7. phase' = [phase EXCEPT ![r] = ph] /\ ph # "loading"
  BY <1>5, <1>6
<1> QED BY <1>3, <1>5, <1>7, AllocateKeepsBundles, Zenon

LEMMA LoadKeepsBundles ==
    ASSUME KeepInv, ~failed, NEW r \in Req, ScheduleLoad(r)
    PROVE  KeepInv'
<1>0. /\ CacheTypes /\ KeepReq(r) /\ phase[r] = "waiting" /\ computed[r] = 0
      /\ indexer \in [Req -> Nat] /\ free_bundles \in Int
  BY DEF KeepInv, ScheduleLoad
<1>1. PICK ext \in Lookup(r) \ {0} :
        LET s == Slots(r, 0, ext, TRUE)
        IN  IF has_enough_free_blocks(r, s)
            THEN /\ Allocate(r, s)
                 /\ phase' = [phase EXCEPT ![r] = "loading"]
                 /\ computed' = [computed EXCEPT ![r] = ext]
                 /\ UNCHANGED <<tokens, local_from, reached, saved>>
            ELSE /\ prefix' = [prefix EXCEPT ![r] = ext]
                 /\ UNCHANGED <<requests, latent, latent_len, indexer, released,
                                free_bundles, saved, failed>>
  BY Zenon DEF ScheduleLoad
<1>2. ext \in Nat \ {0} /\ ext <= tokens[r]
  <2>1. CASE LookupStable /\ prefix[r] # NoPrefix
    <3>1. ext = prefix[r] /\ prefix[r] \in Nat \ {0}
      BY <1>0, <1>1, <2>1 DEF Lookup, CacheTypes
    <3> QED BY <1>0, <3>1, Zenon DEF KeepReq
  <2>2. CASE ~(LookupStable /\ prefix[r] # NoPrefix)
    <3>1. ext \in Hits /\ ext <= tokens[r]
      BY <1>1, <2>2 DEF Lookup
    <3> QED BY <3>1, CacheAssumption
  <2> QED BY <2>1, <2>2, Zenon
<1>3. PICK s : s = Slots(r, 0, ext, TRUE)
  BY Zenon
<1>4. SlotsOK(s) /\ s.load /\ s.total = ext
  <2>1. Lookahead \in Nat /\ MaxTokens \in Nat
    BY CacheAssumption, Zenon
  <2> QED BY <1>0, <1>2, <1>3, <2>1 DEF Slots, SlotsOK, MinOf
<1>5. CASE ~has_enough_free_blocks(r, s)
  <2>1. /\ prefix' = [prefix EXCEPT ![r] = ext]
        /\ UNCHANGED <<phase, computed, tokens, latent, latent_len, released, failed, indexer, free_bundles>>
    BY <1>1, <1>3, <1>5, Zenon DEF requests
  <2>2. CacheTypes'
    BY <1>0, <1>2, <2>1 DEF CacheTypes
  <2>3. KeepReq(r)'
    <3>1. prefix'[r] = ext
      BY <1>0, <2>1, Zenon DEF CacheTypes
    <3> QED BY <1>0, <1>2, <2>1, <3>1, Zenon DEF KeepReq, Rows
  <2>4. OthersKept(r)
    BY <1>0, <2>1 DEF CacheTypes, OthersKept
  <2>5. /\ indexer' \in [Req -> Nat] /\ free_bundles' \in Int
        /\ free_bundles' + Cardinality(latent'[r]) + indexer'[r]
               = free_bundles + Cardinality(latent[r]) + indexer[r]
    BY <1>0, <2>1, Zenon
  <2> QED BY <2>2, <2>3, <2>4, <2>5, KeepStep, Zenon
<1>6. CASE has_enough_free_blocks(r, s)
  <2>1. /\ phase' = [phase EXCEPT ![r] = "loading"] /\ computed' = [computed EXCEPT ![r] = ext]
        /\ UNCHANGED tokens /\ Allocate(r, s)
    BY <1>1, <1>3, <1>6, Zenon
  <2>2. PICK ph \in {"loading", "running"} : ph = "loading"
    OBVIOUS
  <2>3. phase' = [phase EXCEPT ![r] = ph]
    BY <2>1, <2>2, Zenon
  <2>4. ext \in Nat /\ ext > 0 /\ ext <= tokens[r]
    BY <1>2
  <2> QED BY <1>4, <2>1, <2>3, <2>4, AllocateKeepsBundles, Zenon
<1> QED BY <1>5, <1>6, Zenon

LEMMA KeepInvNext ==
    ASSUME KeepInv, [Next]_vars
    PROVE  KeepInv'
<1>0. CacheTypes /\ indexer \in [Req -> Nat] /\ free_bundles \in Int /\ \A r \in Req : KeepReq(r)
  BY DEF KeepInv
<1>1. CASE UNCHANGED vars
  <2>1. UNCHANGED <<phase, computed, tokens, latent, latent_len, prefix, released, failed, indexer, free_bundles>>
    BY <1>1 DEF vars, requests, tables
  <2>2. Held' = Held
    <3>1. \A q \in Req : BundlesOf(q)' = BundlesOf(q)
      BY <2>1, Zenon DEF BundlesOf
    <3> QED BY <3>1, Zenon DEF Held
  <2> QED BY <2>1, <2>2, Zenon DEF KeepInv, CacheTypes, KeepReq, Rows
<1>2. CASE Next
  <2>0. ~failed
    BY <1>2 DEF Next
  <2>1. ASSUME NEW r \in Req, ScheduleWaiting(r) PROVE KeepInv'
    <3>1. PICK new \in NewTokens(r) : Run(r, new)
      BY <2>1, Zenon DEF ScheduleWaiting
    <3> QED BY <2>0, <3>1, RunKeepsBundles, Zenon
  <2>2. ASSUME NEW r \in Req, ScheduleLoad(r) PROVE KeepInv'
    BY <2>0, <2>2, LoadKeepsBundles, Zenon
  <2>3. ASSUME NEW r \in Req, ScheduleRunning(r) PROVE KeepInv'
    <3>1. CASE \E new \in NewTokens(r) : Run(r, new)
      BY <2>0, <3>1, RunKeepsBundles, Zenon
    <3>2. CASE \E v \in Req : Preempt(v)
      <4>1. PICK v \in Req : Preempt(v)
        BY <3>2, Zenon
      <4> QED BY <2>0, <4>1, FreeKeepsBundles, Zenon DEF Preempt
    <3> QED BY <2>3, <3>1, <3>2, Zenon DEF ScheduleRunning
  <2>4. ASSUME NEW r \in Req, OutputToken(r) PROVE KeepInv'
    <3>1. /\ tokens' = [tokens EXCEPT ![r] = @ + 1] /\ phase[r] = "running"
          /\ UNCHANGED <<phase, computed, latent, latent_len, prefix, released, failed, indexer, free_bundles>>
      BY <2>4, Zenon DEF OutputToken, tables
    <3>2. CacheTypes'
      BY <1>0, <3>1 DEF CacheTypes
    <3>3. KeepReq(r)'
      <4>1. /\ tokens'[r] = tokens[r] + 1 /\ tokens[r] \in Nat /\ computed[r] \in Nat
            /\ (prefix[r] \in Nat \/ prefix[r] = NoPrefix)
        BY <1>0, <3>1, Zenon DEF CacheTypes
      <4>2. computed[r] <= tokens[r] + 1 /\ prefix[r] <= tokens[r] + 1
        BY <1>0, <4>1 DEF KeepReq, NoPrefix
      <4> QED BY <1>0, <3>1, <4>1, <4>2, Zenon DEF KeepReq, Rows
    <3>4. OthersKept(r)
      BY <1>0, <3>1, Zenon DEF CacheTypes, OthersKept
    <3>5. /\ indexer' \in [Req -> Nat] /\ free_bundles' \in Int
          /\ free_bundles' + Cardinality(latent'[r]) + indexer'[r]
                 = free_bundles + Cardinality(latent[r]) + indexer[r]
      BY <1>0, <3>1, Zenon
    <3> QED BY <2>0, <3>2, <3>3, <3>4, <3>5, KeepStep, Zenon
  <2>5. ASSUME NEW r \in Req, LoadSucceeds(r) PROVE KeepInv'
    <3>1. PICK valid : valid = IF computed[r] = tokens[r] THEN tokens[r] - 1 ELSE computed[r]
      OBVIOUS
    <3>2. /\ computed' = [computed EXCEPT ![r] = valid] /\ phase' = [phase EXCEPT ![r] = "waiting"]
          /\ phase[r] = "loading"
          /\ UNCHANGED <<tokens, latent, latent_len, prefix, released, failed, indexer, free_bundles>>
      BY <2>5, <3>1, Zenon DEF LoadSucceeds, tables
    <3>3. valid \in Nat /\ valid <= tokens[r]
      <4>1. computed[r] \in Nat /\ tokens[r] \in Nat \ {0} /\ computed[r] <= tokens[r]
        BY <1>0, <2>0, <3>2, Zenon DEF CacheTypes, KeepReq
      <4> QED BY <3>1, <4>1
    <3>4. CacheTypes'
      BY <1>0, <3>2, <3>3 DEF CacheTypes
    <3>5. KeepReq(r)'
      <4>1. computed'[r] = valid /\ phase'[r] = "waiting" /\ "waiting" # "loading"
        BY <1>0, <3>2, Zenon DEF CacheTypes
      <4> QED BY <1>0, <3>2, <3>3, <4>1, Zenon DEF KeepReq, Rows
    <3>6. OthersKept(r)
      BY <1>0, <3>2 DEF CacheTypes, OthersKept
    <3>7. /\ indexer' \in [Req -> Nat] /\ free_bundles' \in Int
          /\ free_bundles' + Cardinality(latent'[r]) + indexer'[r]
                 = free_bundles + Cardinality(latent[r]) + indexer[r]
      BY <1>0, <3>2, Zenon
    <3> QED BY <2>0, <3>4, <3>5, <3>6, <3>7, KeepStep
  <2>6. ASSUME NEW r \in Req, LoadFails(r) PROVE KeepInv'
    BY <2>0, <2>6, FreeKeepsBundles, Zenon DEF LoadFails
  <2>7. ASSUME NEW r \in Req, Finish(r) PROVE KeepInv'
    BY <2>0, <2>7, FreeKeepsBundles, Zenon DEF Finish
  <2>8. ASSUME NEW r \in Req, NEW e \in Saves, WindowSaved(r, e) PROVE KeepInv'
    BY <2>0, <2>8, WindowSavedKeepsBundles, Zenon
  <2> QED BY <1>2, <2>1, <2>2, <2>3, <2>4, <2>5, <2>6, <2>7, <2>8, Zenon DEF Next
<1> QED BY <1>1, <1>2, Zenon

\* Every bundle of the shared pool is free or backs rows of exactly one table,
\* for every pool, layout, window, prompt and schedule: allocate_slots, free and
\* remove_saved_decode_window_blocks, late or repeated, lose no bundle and return
\* none twice, also when a window empties a part of a bundle, when an allocation
\* is refused, and up to the step in which one fails.  Lookups need not be stable
\* and windows need not fall on bundle boundaries.
THEOREM BundlesAreConserved == Spec => []BundlesConserved
<1>1. KeepInv /\ [Next]_vars => KeepInv'
  BY KeepInvNext, Zenon
<1>2. KeepInv => BundlesConserved
  BY Zenon DEF KeepInv, BundlesConserved, Held
<1> QED BY <1>1, <1>2, KeepInvInit, PTL DEF Spec

=============================================================================
