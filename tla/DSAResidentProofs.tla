------------------------- MODULE DSAResidentProofs --------------------------
(***************************************************************************)
(* Every token a request has computed and not yet saved has its latent row in*)
(* the table, for every number of requests, pool, layout and schedule.     *)
(***************************************************************************)
EXTENDS DSAServingProofs

(* Every computed token has a resident row.                                 *)

LEMMA TimesBlock ==
    ASSUME NEW a \in Nat, NEW b \in Nat, a <= b
    PROVE  a * BlockSize \in Nat /\ b * BlockSize \in Nat /\ a * BlockSize <= b * BlockSize
<1>1. BlockSize \in Nat \ {0}
  BY CacheAssumption
<1>2. PICK x \in Nat : b = a + x
  <2>1. b - a \in Nat /\ b = a + (b - a)
    OBVIOUS
  <2> QED BY <2>1
<1>3. b * BlockSize = a * BlockSize + x * BlockSize
  BY <1>1, <1>2
<1>4. a * BlockSize \in Nat /\ x * BlockSize \in Nat /\ b * BlockSize \in Nat
  BY <1>1
<1> QED BY <1>3, <1>4

\* The row of a token, its first token and the one after its last.
LEMMA TokenRow ==
    ASSUME NEW t \in Nat
    PROVE  /\ t \div BlockSize \in Nat /\ (t \div BlockSize) * BlockSize \in Nat
           /\ (t \div BlockSize) * BlockSize <= t
           /\ (t \div BlockSize + 1) * BlockSize \in Nat /\ t < (t \div BlockSize + 1) * BlockSize
<1> DEFINE d == BlockSize
           q == t \div d
           m == t % d
<1>1. d \in Nat \ {0}
  BY CacheAssumption
<1>2. q \in Nat /\ m \in 0..(d - 1)
  BY <1>1
<1>3. t = d * q + m
  BY <1>1, <1>2
<1>4. q * d = d * q /\ q * d \in Nat /\ (q + 1) * d = q * d + d
  BY <1>1, <1>2
<1> HIDE DEF q, m, d
<1>5. q * d <= t /\ t < (q + 1) * d /\ (q + 1) * d \in Nat
  BY <1>1, <1>2, <1>3, <1>4
<1> QED BY <1>2, <1>4, <1>5 DEF q, d

LEMMA RowOrder ==
    ASSUME NEW t \in Nat, NEW p \in Nat, p <= t
    PROVE  p \div BlockSize <= t \div BlockSize
<1> DEFINE a == t \div BlockSize
           b == p \div BlockSize
<1>1. /\ a \in Nat /\ t < (a + 1) * BlockSize /\ (a + 1) * BlockSize \in Nat
      /\ b \in Nat /\ b * BlockSize <= p /\ b * BlockSize \in Nat
  BY TokenRow
<1> HIDE DEF a, b
<1>2. a + 1 <= b => (a + 1) * BlockSize <= b * BlockSize
  BY <1>1, TimesBlock
<1>3. b <= a
  BY <1>1, <1>2
<1> QED BY <1>3 DEF a, b

LEMMA RowBefore ==
    ASSUME NEW t \in Nat, NEW n \in Nat, t < n
    PROVE  t \div BlockSize < cdiv(n, BlockSize)
<1> DEFINE a == t \div BlockSize
           c == cdiv(n, BlockSize)
<1>1. a \in Nat /\ a * BlockSize <= t /\ a * BlockSize \in Nat
  BY TokenRow
<1>2. c \in Nat /\ n <= c * BlockSize
  BY CdivUp, CacheAssumption, Zenon
<1> HIDE DEF a, c
<1>3. c <= a => c * BlockSize <= a * BlockSize /\ c * BlockSize \in Nat
  BY <1>1, <1>2, TimesBlock
<1>4. a < c
  BY <1>1, <1>2, <1>3
<1> QED BY <1>4 DEF a, c

\* A save that covers a row covers its tokens.
LEMMA RowSaved ==
    ASSUME NEW t \in Nat, NEW k \in Nat, NEW n \in Nat, t \div BlockSize < k, k * BlockSize <= n
    PROVE  t < n
<1> DEFINE a == t \div BlockSize
<1>1. a \in Nat /\ t < (a + 1) * BlockSize /\ (a + 1) * BlockSize \in Nat
  BY TokenRow
<1> HIDE DEF a
<1>2. a + 1 <= k
  BY <1>1 DEF a
<1>3. (a + 1) * BlockSize <= k * BlockSize /\ k * BlockSize \in Nat
  BY <1>1, <1>2, TimesBlock
<1> QED BY <1>1, <1>3

\* A table without a marker lacks only rows that a save has covered; a request
\* that waits has nothing of its own; only a load leaves one waiting with tokens
\* computed; and a request with a marker either is past its prefix or has all of
\* its tokens in it.
ResidentReq(r) ==
    /\ released[r] * BlockSize <= saved[r]
    /\ prefix[r] = NoPrefix =>
          \A i \in 0 .. latent_len[r] - 1 : i \in Rows(r) \/ (i + 1) * BlockSize <= saved[r]
    /\ phase[r] = "waiting" => local_from[r] = computed[r]
    /\ phase[r] = "loading" => local_from[r] = 0 /\ prefix[r] = computed[r]
    /\ phase[r] = "waiting" /\ computed[r] > 0 => prefix[r] # NoPrefix
    /\ prefix[r] # NoPrefix /\ (phase[r] = "running" \/ (phase[r] = "waiting" /\ computed[r] > 0)) =>
          computed[r] >= prefix[r] \/ tokens[r] <= prefix[r]
    /\ phase[r] = "running" =>
          \A t \in local_from[r] .. computed[r] - 1 : t \div BlockSize \in Rows(r) \/ t < saved[r]

ResidentInv ==
    /\ saved \in [Req -> Nat] /\ local_from \in [Req -> Nat]
    /\ \A r \in Req : ResidentReq(r)

LEMMA ResidentInvInit == Init => ResidentInv
<1> SUFFICES ASSUME Init PROVE ResidentInv
  OBVIOUS
<1>1. ASSUME NEW r \in Req PROVE ResidentReq(r)
  <2>1. /\ computed[r] = 0 /\ prefix[r] = NoPrefix /\ phase[r] = "waiting" /\ latent_len[r] = 0
        /\ released[r] = 0 /\ saved[r] = 0 /\ local_from[r] = 0
    BY DEF Init
  <2>2. released[r] * BlockSize <= saved[r]
    BY <2>1, CacheAssumption
  <2> QED BY <2>1, <2>2 DEF ResidentReq
<1> QED BY <1>1 DEF Init, ResidentInv

LEMMA ResidentOthers ==
    ASSUME ResidentInv, NEW q \in Req,
           UNCHANGED <<phase[q], computed[q], tokens[q], latent[q], latent_len[q], prefix[q], released[q],
                       saved[q], local_from[q]>>
    PROVE  ResidentReq(q)'
BY Zenon DEF ResidentInv, ResidentReq, Rows

LEMMA FreeResident ==
    ASSUME ServeInv, ResidentInv, NEW r \in Req, Free(r), NEW ph \in {"waiting", "done"},
           phase' = [phase EXCEPT ![r] = ph], computed' = [computed EXCEPT ![r] = 0],
           local_from' = [local_from EXCEPT ![r] = 0], UNCHANGED <<tokens, saved>>
    PROVE  ResidentInv'
<1>0. CacheTypes /\ saved \in [Req -> Nat] /\ local_from \in [Req -> Nat]
  BY DEF ServeInv, ResidentInv
<1>1. saved' \in [Req -> Nat] /\ local_from' \in [Req -> Nat]
  BY <1>0
<1>2. ResidentReq(r)'
  <2>1. /\ phase'[r] = ph /\ computed'[r] = 0 /\ latent_len'[r] = 0 /\ prefix'[r] = NoPrefix
        /\ released'[r] = 0 /\ local_from'[r] = 0 /\ saved'[r] \in Nat
    BY <1>0 DEF CacheTypes, Free
  <2>2. released'[r] * BlockSize <= saved'[r]
    BY <2>1, CacheAssumption
  <2> QED BY <2>1, <2>2 DEF ResidentReq
<1>3. ASSUME NEW q \in Req, q # r PROVE ResidentReq(q)'
  BY <1>0, <1>3, ResidentOthers, Zenon DEF CacheTypes, Free
<1> QED BY <1>1, <1>2, <1>3 DEF ResidentInv

\* Without a marker the table grows by whole bundles, up to the tokens it needs.
LEMMA BaseGrows ==
    ASSUME CacheTypes, NEW r \in Req, NEW s, SlotsOK(s), ~s.load, prefix[r] = NoPrefix
    PROVE  /\ NewLatentLen(r, s) \in Nat /\ cdiv(s.need, BlockSize) <= NewLatentLen(r, s)
           /\ \A i \in 0 .. NewLatentLen(r, s) - 1 : i < latent_len[r] \/ i \in UNION NewLatent(r, s)
<1> DEFINE len  == latent_len[r]
           c    == cdiv(s.need, BlockSize)
           more == MaxOf(c - len, 0)
           up   == _round_up_to_bundle(more)
           added == UNION NewLatent(r, s)
           new  == NewLatentLen(r, s)
<1>1. len \in Nat /\ c \in Nat
  BY CacheAssumption, CdivUp, Zenon DEF SlotsOK, CacheTypes
<1>2. more \in Nat /\ len + more >= c /\ (more = 0 \/ more >= 1)
  <2> HIDE DEF c, len
  <2> QED BY <1>1 DEF MaxOf
<1>3. up \in Nat /\ more <= up
  BY <1>2, RoundUp, Zenon
<1>4. NewLatent(r, s) = InBundles(len .. len + up - 1)
  BY Zenon DEF NewLatent, UsesCompact
<1>5. IsFiniteSet(len .. len + up - 1) /\ len .. len + up - 1 \in SUBSET Nat
  BY <1>1, <1>3, IntervalSize, Zenon
<1>6. added = len .. len + up - 1
  BY <1>4, <1>5, InBundlesOf, Zenon
<1>7. /\ new \in Nat /\ new >= len /\ \A i \in added : i < new
      /\ new = len \/ \E i \in added : new = i + 1
  BY NewLength, Zenon DEF StartsTable
<1> HIDE DEF len, c, more, up, added, new
<1>8. c <= new
  <2>1. CASE up = 0
    BY <1>1, <1>2, <1>3, <1>7, <2>1
  <2>2. CASE up > 0
    <3>1. len + up - 1 \in added
      BY <1>1, <1>3, <1>6, <2>2
    <3>2. len + up - 1 < new
      BY <1>7, <3>1
    <3> QED BY <1>1, <1>2, <1>3, <1>7, <3>2
  <2> QED BY <1>3, <2>1, <2>2
<1>9. ASSUME NEW i \in 0 .. new - 1 PROVE i < len \/ i \in added
  <2>1. CASE new = len
    BY <1>1, <1>7, <2>1
  <2>2. CASE \E j \in added : new = j + 1
    <3>1. PICK j \in len .. len + up - 1 : new = j + 1
      BY <1>6, <2>2
    <3> QED BY <1>1, <1>3, <1>6, <1>7, <3>1
  <2> QED BY <1>7, <2>1, <2>2
<1> QED BY <1>7, <1>8, <1>9, Zenon DEF len, c, added, new

\* With a marker the table gets the rows that are required.
LEMMA CompactGrows ==
    ASSUME CacheTypes, NEW r \in Req, NEW s, SlotsOK(s), ~s.load, prefix[r] # NoPrefix
    PROVE  _compact_required_indices(prefix[r], s.need, s.main, FALSE, released[r])
              \subseteq Rows(r) \cup UNION NewLatent(r, s)
<1> DEFINE R == _compact_required_indices(prefix[r], s.need, s.main, FALSE, released[r])
           M == R \ Rows(r)
<1>1. prefix[r] \in Nat /\ released[r] \in Nat
  BY DEF CacheTypes
<1>2. PICK K \in Nat : R \subseteq 0 .. K
  BY <1>1, CompactRows, Zenon DEF SlotsOK
<1>3. M \subseteq 0 .. K
  BY <1>2, Zenon
<1>4. M \in SUBSET Nat /\ IsFiniteSet(M)
  BY <1>3, FiniteRows, Zenon
<1>5. NewLatent(r, s) = InBundles(M)
  <2>1. ~StartsTable(r, s) /\ UsesCompact(r, s) /\ MissingAfterScratch(r, s) = M
    BY Zenon DEF StartsTable, UsesCompact, MissingAfterScratch
  <2> QED BY <2>1, NoScratchRows, Zenon
<1> HIDE DEF R
<1>6. UNION NewLatent(r, s) = M
  BY <1>4, <1>5, InBundlesOf, Zenon
<1>7. R \subseteq Rows(r) \cup UNION NewLatent(r, s)
  BY <1>6
<1> QED BY <1>7, Zenon DEF R

\* A token that is computed now has its row: the tail starts at the bundle that
\* the prefix ends in, or at rows whose tokens a save has covered.
LEMMA CompactHasRow ==
    ASSUME NEW p \in Nat, NEW n \in Nat, NEW main \in Nat, NEW rel \in Nat, NEW t \in Nat, NEW done \in Nat,
           t < main, main <= n, main <= p \/ p <= t, rel * BlockSize <= done
    PROVE  t \div BlockSize \in _compact_required_indices(p, n, main, FALSE, rel) \/ t < done
<1> DEFINE row == t \div BlockSize
           low == _round_down_to_bundle(p \div BlockSize)
<1>1. row \in Nat /\ row < cdiv(n, BlockSize) /\ cdiv(n, BlockSize) \in Nat
  <2>1. t < n
    OBVIOUS
  <2>2. row < cdiv(n, BlockSize)
    BY <2>1, RowBefore
  <2>3. row \in Nat
    BY TokenRow
  <2>4. cdiv(n, BlockSize) \in Nat
    BY CdivUp, CacheAssumption
  <2> QED BY <2>2, <2>3, <2>4
<1>2. RequiredEnd(n) \in Nat /\ cdiv(n, BlockSize) <= RequiredEnd(n)
  BY <1>1, RoundUp DEF RequiredEnd
<1>3. row \in 0 .. RequiredEnd(n) - 1
  <2> HIDE DEF row
  <2> QED BY <1>1, <1>2
<1>4. CASE main <= p
  <2>1. _compact_required_indices(p, n, main, FALSE, rel) = 0 .. RequiredEnd(n) - 1
    BY <1>4 DEF _compact_required_indices, RequiredEnd
  <2> QED BY <1>3, <2>1, Zenon
<1>5. CASE ~(main <= p)
  <2>1. _compact_required_indices(p, n, main, FALSE, rel) =
          (0 .. scratch_end - 1) \cup (MaxOf(scratch_end, MaxOf(low, rel)) .. RequiredEnd(n) - 1)
    BY <1>5 DEF _compact_required_indices, RequiredEnd
  <2>2. p <= t
    BY <1>5
  <2>3. p \div BlockSize \in Nat /\ p \div BlockSize <= row
    BY <2>2, TokenRow, RowOrder, Zenon
  <2>4. low \in Nat /\ low <= p \div BlockSize
    BY <2>3, RoundedToBundles
  <2>5. scratch_end \in Nat
    BY CacheAssumption, RoundUp DEF scratch_end
  <2>6. low <= row
    <3>1. PICK b \in Nat : b = p \div BlockSize
      BY <2>3
    <3> HIDE DEF low, row
    <3> QED BY <1>1, <2>3, <2>4, <3>1
  <2>7. row < rel => t < done
    BY RowSaved
  <2> HIDE DEF row, low
  <2>8. row >= rel => row \in (0 .. scratch_end - 1) \cup (MaxOf(scratch_end, MaxOf(low, rel)) .. RequiredEnd(n) - 1)
    <3> SUFFICES ASSUME row >= rel, row >= scratch_end
                 PROVE  row \in MaxOf(scratch_end, MaxOf(low, rel)) .. RequiredEnd(n) - 1
      BY <1>1, <2>5
    <3>1. MaxOf(scratch_end, MaxOf(low, rel)) \in Nat /\ MaxOf(scratch_end, MaxOf(low, rel)) <= row
      BY <1>1, <2>4, <2>5, <2>6 DEF MaxOf
    <3> QED BY <1>2, <1>3, <3>1
  <2>9. row < rel \/ row >= rel
    BY <1>1
  <2> QED BY <2>1, <2>7, <2>8, <2>9, Zenon DEF row
<1> QED BY <1>4, <1>5, Zenon

LEMMA RunResident ==
    ASSUME ServeInv, ResidentInv, NEW r \in Req, NEW new \in NewTokens(r),
           phase[r] = "running" \/ (phase[r] = "waiting" /\ (computed[r] > 0 \/ prefix[r] = NoPrefix)),
           has_enough_free_blocks(r, Slots(r, new, 0, FALSE)), Run(r, new)
    PROVE  ResidentInv'
<1> DEFINE s == Slots(r, new, 0, FALSE)
<1>0. /\ CacheTypes /\ ServeReq(r) /\ ~failed /\ ResidentReq(r)
      /\ saved \in [Req -> Nat] /\ local_from \in [Req -> Nat]
  BY Zenon DEF ServeInv, ResidentInv
<1>1. new \in Nat \ {0} /\ computed[r] + new <= tokens[r]
  BY <1>0, NewTokensFit, Zenon DEF ServeReq
<1>2. SlotsOK(s) /\ ~s.load /\ s.main = computed[r] + new /\ s.main <= s.need
  <2>1. computed[r] + new <= MaxTokens
    BY <1>0, <1>1, CacheAssumption DEF ServeReq, CacheTypes
  <2>2. s.need >= computed[r] + new /\ s.main = computed[r] + new /\ SlotsOK(s) /\ ~s.load
    BY <1>0, <1>1, <2>1, RunSlots, Zenon
  <2> HIDE DEF s
  <2> QED BY <2>2, Zenon DEF SlotsOK
<1>3. Admissible(r, s)
  BY <1>0, <1>2, Zenon DEF Admissible, ServeReq, UsesCompact, StartsTable
<1>4. /\ Allocate(r, s) /\ phase' = [phase EXCEPT ![r] = "running"]
      /\ computed' = [computed EXCEPT ![r] = @ + new] /\ UNCHANGED <<tokens, local_from, saved>>
  BY Zenon DEF Run
<1>5. has_enough_free_blocks(r, s)
  BY Zenon
<1> HIDE DEF s
<1>6. /\ latent' = [latent EXCEPT ![r] = @ \cup NewLatent(r, s)]
      /\ latent_len' = [latent_len EXCEPT ![r] = NewLatentLen(r, s)]
      /\ UNCHANGED <<prefix, released>>
  BY <1>2, <1>3, <1>4, <1>5, AllocateServes, Zenon
<1>7. /\ phase'[r] = "running" /\ computed'[r] = computed[r] + new /\ latent'[r] = latent[r] \cup NewLatent(r, s)
      /\ latent_len'[r] = NewLatentLen(r, s)
  BY <1>0, <1>4, <1>6, Zenon DEF CacheTypes
<1>8. Rows(r)' = Rows(r) \cup UNION NewLatent(r, s)
  BY <1>7, Zenon DEF Rows
<1>9. /\ computed[r] \in Nat /\ tokens[r] \in Nat /\ saved[r] \in Nat /\ local_from[r] \in Nat
      /\ released[r] \in Nat /\ latent_len[r] \in Nat
  BY <1>0 DEF CacheTypes
<1>10. prefix[r] = NoPrefix =>
          \A i \in 0 .. latent_len'[r] - 1 : i \in Rows(r)' \/ (i + 1) * BlockSize <= saved[r]
  <2> SUFFICES ASSUME prefix[r] = NoPrefix, NEW i \in 0 .. latent_len'[r] - 1
               PROVE  i \in Rows(r)' \/ (i + 1) * BlockSize <= saved[r]
    BY Zenon
  <2>1. i < latent_len[r] \/ i \in UNION NewLatent(r, s)
    BY <1>0, <1>2, <1>7, BaseGrows, Zenon
  <2>2. i < latent_len[r] => i \in Rows(r) \/ (i + 1) * BlockSize <= saved[r]
    BY <1>0, <1>9 DEF ResidentReq
  <2> QED BY <1>8, <2>1, <2>2, Zenon
<1>11. prefix[r] # NoPrefix => computed'[r] >= prefix[r] \/ tokens[r] <= prefix[r]
  <2> SUFFICES ASSUME prefix[r] # NoPrefix PROVE computed'[r] >= prefix[r] \/ tokens[r] <= prefix[r]
    BY Zenon
  <2>1. computed[r] >= prefix[r] \/ tokens[r] <= prefix[r]
    BY <1>0, Zenon DEF ResidentReq
  <2>2. prefix[r] \in Nat
    BY <1>0 DEF CacheTypes
  <2> QED BY <1>1, <1>7, <1>9, <2>1, <2>2
<1>12. ASSUME NEW t \in local_from[r] .. computed'[r] - 1
       PROVE  t \div BlockSize \in Rows(r)' \/ t < saved[r]
  <2>0. t \in Nat /\ t < computed[r] + new
    BY <1>1, <1>7, <1>9, <1>12
  <2>1. CASE t < computed[r]
    <3>1. phase[r] = "running"
      BY <1>0, <1>9, <1>12, <2>1 DEF ResidentReq
    <3>2. t \div BlockSize \in Rows(r) \/ t < saved[r]
      BY <1>0, <1>9, <1>12, <2>0, <2>1, <3>1 DEF ResidentReq
    <3> QED BY <1>8, <3>2, Zenon
  <2>2. CASE t >= computed[r] /\ prefix[r] = NoPrefix
    <3>1. s.need \in Nat /\ t < s.need
      BY <1>1, <1>2, <1>9, <2>0 DEF SlotsOK
    <3>2. t \div BlockSize < cdiv(s.need, BlockSize) /\ t \div BlockSize \in Nat /\ cdiv(s.need, BlockSize) \in Nat
      BY <2>0, <3>1, RowBefore, TokenRow, CdivUp, CacheAssumption, Zenon
    <3>3. NewLatentLen(r, s) \in Nat /\ cdiv(s.need, BlockSize) <= NewLatentLen(r, s)
      BY <1>0, <1>2, <2>2, BaseGrows, Zenon
    <3>4. PICK i \in Nat : i = t \div BlockSize
      BY <3>2, Zenon
    <3>5. i \in 0 .. latent_len'[r] - 1
      BY <1>7, <3>2, <3>3, <3>4
    <3>6. i \in Rows(r)' \/ (i + 1) * BlockSize <= saved[r]
      BY <1>10, <2>2, <3>5, Zenon
    <3>7. (i + 1) * BlockSize <= saved[r] => t < saved[r]
      <4>1. t \div BlockSize < i + 1 /\ i + 1 \in Nat
        BY <3>4
      <4> QED BY <1>9, <2>0, <4>1, RowSaved, Zenon
    <3> QED BY <3>4, <3>6, <3>7, Zenon
  <2>3. CASE t >= computed[r] /\ prefix[r] # NoPrefix
    <3>1. prefix[r] \in Nat /\ s.need \in Nat /\ s.main \in Nat /\ t < s.main
      BY <1>0, <1>2, <2>0, <2>3 DEF CacheTypes, SlotsOK
    <3>2. computed[r] >= prefix[r] \/ tokens[r] <= prefix[r]
      BY <1>0, <2>3, Zenon DEF ResidentReq
    <3>3. s.main <= prefix[r] \/ prefix[r] <= t
      BY <1>1, <1>2, <1>9, <2>0, <2>3, <3>1, <3>2
    <3>4. released[r] * BlockSize <= saved[r]
      BY <1>0, Zenon DEF ResidentReq
    <3>5. \/ t \div BlockSize \in _compact_required_indices(prefix[r], s.need, s.main, FALSE, released[r])
          \/ t < saved[r]
      BY <1>2, <1>9, <2>0, <3>1, <3>3, <3>4, CompactHasRow, Zenon
    <3>6. _compact_required_indices(prefix[r], s.need, s.main, FALSE, released[r])
              \subseteq Rows(r) \cup UNION NewLatent(r, s)
      BY <1>0, <1>2, <2>3, CompactGrows, Zenon
    <3> QED BY <1>8, <3>5, <3>6, Zenon
  <2> QED BY <1>9, <2>0, <2>1, <2>2, <2>3
<1>13. ResidentReq(r)'
  <2>1. released[r] * BlockSize <= saved[r]
    BY <1>0, Zenon DEF ResidentReq
  <2> QED BY <1>4, <1>6, <1>7, <1>10, <1>11, <1>12, <2>1, Zenon DEF ResidentReq
<1>14. ASSUME NEW q \in Req, q # r PROVE ResidentReq(q)'
  BY <1>0, <1>4, <1>6, <1>14, ResidentOthers DEF CacheTypes
<1> QED BY <1>0, <1>4, <1>13, <1>14 DEF ResidentInv

LEMMA LoadResident ==
    ASSUME LookupStable, ServeInv, ResidentInv, NEW r \in Req, ScheduleLoad(r)
    PROVE  ResidentInv'
<1>0. /\ CacheTypes /\ ServeReq(r) /\ ~failed /\ phase[r] = "waiting" /\ computed[r] = 0
      /\ ResidentReq(r) /\ saved \in [Req -> Nat] /\ local_from \in [Req -> Nat]
  BY DEF ServeInv, ResidentInv, ScheduleLoad
<1>1. local_from[r] = 0 /\ released[r] * BlockSize <= saved[r]
  BY <1>0, Zenon DEF ResidentReq
<1>2. PICK ext \in Lookup(r) \ {0} :
        LET s == Slots(r, 0, ext, TRUE)
        IN  IF has_enough_free_blocks(r, s)
            THEN /\ Allocate(r, s)
                 /\ phase' = [phase EXCEPT ![r] = "loading"]
                 /\ computed' = [computed EXCEPT ![r] = ext]
                 /\ UNCHANGED <<tokens, local_from, reached, saved>>
            ELSE /\ prefix' = [prefix EXCEPT ![r] = ext]
                 /\ UNCHANGED <<requests, latent, latent_len, indexer, released,
                                free_bundles, saved, failed>>
  BY Zenon DEF ScheduleLoad
<1> DEFINE s == Slots(r, 0, ext, TRUE)
<1>3. ext \in Nat \ {0} /\ ext <= tokens[r] /\ Hits # {}
  <2>1. CASE prefix[r] # NoPrefix /\ ext = prefix[r]
    <3>1. prefix[r] \in Nat \ {0} /\ prefix[r] <= tokens[r] /\ Hits # {}
      BY <1>0, <2>1 DEF CacheTypes, ServeReq
    <3> QED BY <2>1, <3>1
  <2>2. CASE ext \in Hits /\ ext <= tokens[r]
    <3>1. ext \in Nat \ {0}
      BY <2>2, CacheAssumption
    <3> QED BY <2>2, <3>1
  <2> QED BY <1>2, <2>1, <2>2 DEF Lookup
<1>4. SlotsOK(s) /\ s.load /\ s.total = ext /\ s.need = ext /\ s.total > 0
  <2>1. ext <= MaxTokens /\ MaxTokens \in Nat
    BY <1>0, <1>3, CacheAssumption DEF ServeReq, CacheTypes
  <2>2. s.total = ext /\ s.need = ext /\ s.main = ext
    BY <1>0, <1>3, <2>1 DEF Slots, MinOf
  <2>3. s.load /\ s.load \in BOOLEAN
    BY DEF Slots
  <2> HIDE DEF s
  <2> QED BY <1>3, <2>2, <2>3 DEF SlotsOK
<1> HIDE DEF s
<1>5. Admissible(r, s)
  <2>1. Whole(Rows(r)) /\ Mult(released[r])
    BY <1>0, <1>3, Zenon DEF ServeReq
  <2> QED BY <1>0, <2>1, Zenon DEF Admissible, ServeReq, StartsTable
<1>6. ext # NoPrefix
  BY <1>3 DEF NoPrefix
<1>7. CASE ~has_enough_free_blocks(r, s)
  <2>1. /\ prefix' = [prefix EXCEPT ![r] = ext]
        /\ UNCHANGED <<phase, computed, tokens, local_from, latent, latent_len, released, saved>>
    BY <1>2, <1>7 DEF requests, s
  <2>2. prefix'[r] = ext
    BY <1>0, <2>1 DEF CacheTypes
  <2>3. ResidentReq(r)'
    BY <1>0, <1>1, <1>6, <2>1, <2>2 DEF ResidentReq, Rows
  <2>4. ASSUME NEW q \in Req, q # r PROVE ResidentReq(q)'
    BY <1>0, <2>1, <2>4, ResidentOthers DEF CacheTypes
  <2> QED BY <1>0, <2>1, <2>3, <2>4, Zenon DEF ResidentInv
<1>8. CASE has_enough_free_blocks(r, s)
  <2>1. /\ Allocate(r, s) /\ phase' = [phase EXCEPT ![r] = "loading"]
        /\ computed' = [computed EXCEPT ![r] = ext] /\ UNCHANGED <<tokens, local_from, saved>>
    BY <1>2, <1>8, Zenon DEF s
  <2>2. /\ latent' = [latent EXCEPT ![r] = @ \cup NewLatent(r, s)]
        /\ latent_len' = [latent_len EXCEPT ![r] = NewLatentLen(r, s)]
        /\ prefix' = [prefix EXCEPT ![r] = ext]
        /\ UNCHANGED released
    BY <1>4, <1>5, <1>8, <2>1, AllocateServes
  <2>3. /\ phase'[r] = "loading" /\ computed'[r] = ext /\ prefix'[r] = ext
        /\ released'[r] = released[r] /\ local_from'[r] = 0 /\ saved'[r] = saved[r]
    BY <1>0, <1>1, <2>1, <2>2 DEF CacheTypes
  <2>4. ResidentReq(r)'
    BY <1>1, <1>6, <2>3, Zenon DEF ResidentReq
  <2>5. ASSUME NEW q \in Req, q # r PROVE ResidentReq(q)'
    BY <1>0, <2>1, <2>2, <2>5, ResidentOthers, Zenon DEF CacheTypes
  <2> QED BY <1>0, <2>1, <2>4, <2>5 DEF ResidentInv
<1> QED BY <1>7, <1>8

LEMMA WindowResident ==
    ASSUME ServeInv, ResidentInv, NEW r \in Req, NEW e \in Saves, WindowSaved(r, e)
    PROVE  ResidentInv'
<1> DEFINE end  == MinOf(e \div BlockSize, latent_len[r])
           gone == release_start .. end - 1
           top  == MaxOf(saved[r], e)
<1>0. /\ CacheTypes /\ ResidentReq(r) /\ saved \in [Req -> Nat] /\ local_from \in [Req -> Nat]
  BY DEF ServeInv, ResidentInv
<1>1. e \in Nat /\ Scratch \in Nat
  <2>1. PICK w \in 1 .. MaxTokens \div Window : e = w * Window
    BY DEF Saves
  <2>2. Window \in Nat \ {0} /\ MaxTokens \in Nat /\ Scratch \in Nat
    BY CacheAssumption
  <2>3. w \in Nat
    BY <2>1, <2>2
  <2> QED BY <2>1, <2>2, <2>3
<1>2. end \in Nat /\ end * BlockSize <= e
  <2>1. e \div BlockSize \in Nat /\ (e \div BlockSize) * BlockSize <= e
    BY <1>1, TokenRow
  <2>2. PICK b \in Nat : b = e \div BlockSize
    BY <2>1
  <2>3. latent_len[r] \in Nat
    BY <1>0 DEF CacheTypes
  <2>4. end \in Nat /\ end <= b
    BY <2>2, <2>3 DEF MinOf
  <2> HIDE DEF end
  <2>5. end * BlockSize <= b * BlockSize /\ end * BlockSize \in Nat /\ b * BlockSize \in Nat
    BY <2>2, <2>4, TimesBlock
  <2> QED BY <1>1, <2>1, <2>2, <2>4, <2>5
<1>3. /\ latent' = [latent EXCEPT ![r] = {b \ gone : b \in latent[r] \ Emptied(r, gone)}]
      /\ released' = IF prefix[r] = NoPrefix \/ latent_len[r] = 0 THEN released
                     ELSE [released EXCEPT ![r] = MaxOf(@, end)]
      /\ saved' = [saved EXCEPT ![r] = top]
      /\ UNCHANGED <<phase, computed, tokens, local_from, latent_len, prefix>>
  BY Zenon DEF WindowSaved, requests
<1> HIDE DEF end
<1>4. saved[r] \in Nat /\ released[r] \in Nat /\ local_from[r] \in Nat /\ computed[r] \in Nat /\ latent_len[r] \in Nat
  BY <1>0 DEF CacheTypes
<1>5. top \in Nat /\ saved[r] <= top /\ e <= top
  BY <1>1, <1>4 DEF MaxOf
<1>6. saved'[r] = top /\ (released'[r] = released[r] \/ released'[r] = MaxOf(released[r], end))
  BY <1>0, <1>3, Zenon DEF CacheTypes
<1> HIDE DEF top
<1>7. Rows(r)' = Rows(r) \ gone
  <2>1. latent'[r] = {b \ gone : b \in latent[r] \ Emptied(r, gone)}
    BY <1>0, <1>3, Zenon DEF CacheTypes
  <2> QED BY <2>1, SavedRows, Zenon DEF Rows
<1>8. released'[r] * BlockSize <= top
  <2>1. released[r] * BlockSize \in Nat /\ end * BlockSize \in Nat /\ released[r] * BlockSize <= saved[r]
    BY <1>0, <1>2, <1>4, TimesBlock DEF ResidentReq
  <2>2. released[r] * BlockSize <= top /\ end * BlockSize <= top
    BY <1>1, <1>2, <1>4, <1>5, <2>1
  <2> QED BY <1>6, <2>2 DEF MaxOf
<1>9. ASSUME NEW i \in gone PROVE i \in Nat /\ (i + 1) * BlockSize <= top
  <2>1. i \in Nat /\ i + 1 <= end
    BY <1>1, <1>2 DEF release_start
  <2>2. (i + 1) * BlockSize <= end * BlockSize /\ (i + 1) * BlockSize \in Nat /\ end * BlockSize \in Nat
    BY <1>2, <2>1, TimesBlock
  <2> QED BY <1>1, <1>2, <1>5, <2>1, <2>2
<1> HIDE DEF gone
<1>10. prefix[r] = NoPrefix =>
          \A i \in 0 .. latent_len[r] - 1 : i \in Rows(r)' \/ (i + 1) * BlockSize <= top
  <2> SUFFICES ASSUME prefix[r] = NoPrefix, NEW i \in 0 .. latent_len[r] - 1
               PROVE  i \in Rows(r)' \/ (i + 1) * BlockSize <= top
    OBVIOUS
  <2>1. i \in Rows(r) \/ (i + 1) * BlockSize <= saved[r]
    BY <1>0, Zenon DEF ResidentReq
  <2>2. (i + 1) * BlockSize <= saved[r] => (i + 1) * BlockSize <= top
    <3>1. i \in Nat /\ i + 1 \in Nat
      BY <1>4
    <3>2. (i + 1) * BlockSize \in Nat
      BY <3>1, TimesBlock
    <3> QED BY <1>4, <1>5, <3>2
  <2> QED BY <1>7, <1>9, <2>1, <2>2
<1>11. ASSUME phase[r] = "running", NEW t \in local_from[r] .. computed[r] - 1
       PROVE  t \div BlockSize \in Rows(r)' \/ t < top
  <2>1. t \in Nat
    BY <1>4, <1>11
  <2>2. t \div BlockSize \in Rows(r) \/ t < saved[r]
    BY <1>0, <1>11, Zenon DEF ResidentReq
  <2>3. t < saved[r] => t < top
    BY <1>4, <1>5, <2>1
  <2>4. t \div BlockSize \in gone => t < top
    <3> SUFFICES ASSUME t \div BlockSize \in gone PROVE t < top
      OBVIOUS
    <3>1. PICK i \in gone : i = t \div BlockSize
      OBVIOUS
    <3>2. i \in Nat /\ (i + 1) * BlockSize <= top
      BY <1>9
    <3>3. t \div BlockSize < i + 1 /\ i + 1 \in Nat
      BY <3>1, <3>2
    <3> QED BY <1>5, <2>1, <3>2, <3>3, RowSaved
  <2> QED BY <1>7, <2>2, <2>3, <2>4
<1>12. ResidentReq(r)'
  BY <1>0, <1>3, <1>6, <1>8, <1>10, <1>11, Zenon DEF ResidentReq
<1>13. ASSUME NEW q \in Req, q # r PROVE ResidentReq(q)'
  BY <1>0, <1>3, <1>13, ResidentOthers, Zenon DEF CacheTypes
<1>14. saved' \in [Req -> Nat] /\ local_from' \in [Req -> Nat]
  BY <1>0, <1>3, <1>5
<1> QED BY <1>12, <1>13, <1>14 DEF ResidentInv

LEMMA ResidentInvNext ==
    ASSUME LookupStable, ServeInv, ResidentInv, [Next]_vars
    PROVE  ResidentInv'
<1>0. /\ CacheTypes /\ \A r \in Req : ServeReq(r) /\ ResidentReq(r)
      /\ saved \in [Req -> Nat] /\ local_from \in [Req -> Nat]
  BY DEF ServeInv, ResidentInv
<1>1. CASE UNCHANGED vars
  <2>1. UNCHANGED <<phase, computed, tokens, latent, latent_len, prefix, released, saved, local_from>>
    BY <1>1 DEF vars, requests, tables
  <2> QED BY <1>0, <2>1, Zenon DEF ResidentInv, ResidentReq, Rows
<1>2. CASE Next
  <2>1. ASSUME NEW r \in Req, ScheduleWaiting(r) PROVE ResidentInv'
    <3>1. PICK new \in NewTokens(r) : has_enough_free_blocks(r, Slots(r, new, 0, FALSE)) /\ Run(r, new)
      BY <2>1, Zenon DEF ScheduleWaiting
    <3>2. computed[r] > 0 \/ prefix[r] = NoPrefix
      <4> SUFFICES ASSUME computed[r] = 0, prefix[r] # NoPrefix PROVE FALSE
        BY <1>0 DEF CacheTypes
      <4>1. 0 \in Lookup(r)
        BY <2>1, Zenon DEF ScheduleWaiting
      <4>2. prefix[r] = 0
        BY <4>1, Zenon DEF Lookup
      <4> QED BY <1>0, <4>2 DEF CacheTypes, NoPrefix
    <3>3. phase[r] = "waiting"
      BY <2>1, Zenon DEF ScheduleWaiting
    <3> QED BY <3>1, <3>2, <3>3, RunResident, Zenon
  <2>2. ASSUME NEW r \in Req, ScheduleLoad(r) PROVE ResidentInv'
    BY <2>2, LoadResident
  <2>3. ASSUME NEW r \in Req, ScheduleRunning(r) PROVE ResidentInv'
    <3>1. CASE \E new \in NewTokens(r) : has_enough_free_blocks(r, Slots(r, new, 0, FALSE)) /\ Run(r, new)
      <4>1. phase[r] = "running"
        BY <2>3 DEF ScheduleRunning
      <4> QED BY <3>1, <4>1, RunResident, Zenon
    <3>2. CASE \E v \in Req : Preempt(v)
      <4>1. PICK v \in Req : Preempt(v)
        BY <3>2
      <4> QED BY <4>1, FreeResident, Zenon DEF Preempt
    <3> QED BY <2>3, <3>1, <3>2, Zenon DEF ScheduleRunning
  <2>4. ASSUME NEW r \in Req, OutputToken(r) PROVE ResidentInv'
    <3>1. /\ tokens' = [tokens EXCEPT ![r] = @ + 1] /\ phase[r] = "running" /\ computed[r] = tokens[r]
          /\ UNCHANGED <<phase, computed, local_from, latent, latent_len, prefix, released, saved>>
      BY <2>4, Zenon DEF OutputToken, tables
    <3>2. ResidentReq(r)'
      <4>1. computed[r] >= prefix[r]
        BY <1>0, <3>1, Zenon DEF ServeReq, CacheTypes, NoPrefix
      <4> QED BY <1>0, <3>1, <4>1, Zenon DEF ResidentReq, Rows
    <3>3. ASSUME NEW q \in Req, q # r PROVE ResidentReq(q)'
      BY <1>0, <3>1, <3>3, ResidentOthers, Zenon DEF CacheTypes
    <3> QED BY <1>0, <3>1, <3>2, <3>3, Zenon DEF ResidentInv
  <2>5. ASSUME NEW r \in Req, LoadSucceeds(r) PROVE ResidentInv'
    <3> DEFINE valid == IF computed[r] = tokens[r] THEN tokens[r] - 1 ELSE computed[r]
    <3>1. /\ computed' = [computed EXCEPT ![r] = valid] /\ phase' = [phase EXCEPT ![r] = "waiting"]
          /\ local_from' = [local_from EXCEPT ![r] = valid] /\ phase[r] = "loading"
          /\ UNCHANGED <<tokens, latent, latent_len, prefix, released, saved>>
      BY <2>5, Zenon DEF LoadSucceeds, tables
    <3>2. /\ prefix[r] = computed[r] /\ computed[r] <= tokens[r]
          /\ computed[r] \in Nat /\ tokens[r] \in Nat \ {0}
      BY <1>0, <3>1, Zenon DEF CacheTypes, ServeReq, ResidentReq
    <3>3. valid \in Nat /\ (valid >= prefix[r] \/ tokens[r] <= prefix[r]) /\ prefix[r] # NoPrefix
      BY <3>2 DEF NoPrefix
    <3> HIDE DEF valid
    <3>4. ResidentReq(r)'
      <4>1. computed'[r] = valid /\ phase'[r] = "waiting" /\ local_from'[r] = valid
        BY <1>0, <3>1 DEF CacheTypes
      <4> QED BY <1>0, <3>1, <3>3, <4>1, Zenon DEF ResidentReq
    <3>5. ASSUME NEW q \in Req, q # r PROVE ResidentReq(q)'
      BY <1>0, <3>1, <3>5, ResidentOthers, Zenon DEF CacheTypes
    <3>6. local_from' \in [Req -> Nat]
      BY <1>0, <3>1, <3>3, Zenon
    <3> QED BY <1>0, <3>1, <3>4, <3>5, <3>6 DEF ResidentInv
  <2>6. ASSUME NEW r \in Req, LoadFails(r) PROVE ResidentInv'
    <3>1. local_from' = [local_from EXCEPT ![r] = 0]
      <4>1. phase[r] = "loading" /\ UNCHANGED local_from
        BY <2>6 DEF LoadFails
      <4>2. local_from[r] = 0
        BY <1>0, <4>1, Zenon DEF ResidentReq
      <4> QED BY <1>0, <4>1, <4>2
    <3> QED BY <2>6, <3>1, FreeResident, Zenon DEF LoadFails
  <2>7. ASSUME NEW r \in Req, Finish(r) PROVE ResidentInv'
    BY <2>7, FreeResident, Zenon DEF Finish
  <2>8. ASSUME NEW r \in Req, NEW e \in Saves, WindowSaved(r, e) PROVE ResidentInv'
    BY <2>8, WindowResident
  <2> QED BY <1>2, <2>1, <2>2, <2>3, <2>4, <2>5, <2>6, <2>7, <2>8 DEF Next
<1> QED BY <1>1, <1>2

\* The latent KV of every token computed here is in a resident row until a save
\* that covers it has completed, whatever windows are released, late saves
\* included, and whoever is preempted and loaded again: for every number of
\* requests, pool, layout and schedule, if a lookup that matched matches again
\* and, where loads happen, the scratch blocks and the window fill bundles.
THEOREM ComputedAreResident == LookupStable /\ Deployment => (Spec => []ComputedRowsResident)
<1> SUFFICES ASSUME LookupStable, Deployment PROVE Spec => []ComputedRowsResident
  OBVIOUS
<1>1. ServeInv /\ [Next]_vars => ServeInv'
  BY ServeInvNext
<1>2. ServeInv /\ ResidentInv /\ [Next]_vars => ResidentInv'
  BY ResidentInvNext
<1>3. ResidentInv => ComputedRowsResident
  BY Zenon DEF ResidentInv, ResidentReq, ComputedRowsResident
<1> QED BY <1>1, <1>2, <1>3, ServeInvInit, ResidentInvInit, PTL DEF Spec

=============================================================================
