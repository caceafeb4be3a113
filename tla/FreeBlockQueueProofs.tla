------------------------ MODULE FreeBlockQueueProofs ------------------------
(***************************************************************************)
(* Proofs about FreeBlockQueue for every number of blocks: the links, the   *)
(* counter and the order of the blocks, and the refinement of FreeBlockList.*)
(***************************************************************************)
EXTENDS FreeBlockQueue, WellFoundedInduction, TLAPS

\* A nonempty set of naturals has a least element.
LEMMA LeastElement ==
    ASSUME NEW T, T \subseteq Nat, T # {}
    PROVE  \E m \in T : \A k \in T : m <= k
<1>1. PICK m \in T : \A k \in T : ~(<<k, m>> \in OpToRel(<, Nat))
  BY NatLessThanWellFounded, WFMin, Zenon
<1>2. ASSUME NEW k \in T PROVE m <= k
  <2>1. ~(<<k, m>> \in {ss \in Nat \X Nat : ss[1] < ss[2]})
    BY <1>1, Zenon DEF OpToRel
  <2>2. k \in Nat /\ m \in Nat
    BY Zenon
  <2>3. ~(k < m)
    BY <2>1, <2>2, Zenon
  <2>. QED BY <2>2, <2>3
<1>. QED BY <1>2, Zenon

-----------------------------------------------------------------------------
(* The walk along the links.                                                *)

\* A function that is defined from its predecessor exists.
Iterate(N, h, n, f) == f = [i \in 0 .. n |-> IF i = 0 THEN h ELSE N[f[i - 1]]]

LEMMA Iterates ==
    ASSUME NEW N, NEW h, NEW n \in Nat
    PROVE  \E f : Iterate(N, h, n, f)
<1> USE DEF Iterate
<1> DEFINE T == {m \in Nat : ~ \E f : f = [i \in 0 .. m |-> IF i = 0 THEN h ELSE N[f[i - 1]]]}
<1> SUFFICES ASSUME n \in T PROVE FALSE
  BY Zenon
<1>1. PICK m \in T : \A k \in T : m <= k
  <2>1. T \subseteq Nat /\ T # {}
    BY Zenon
  <2> QED BY <2>1, LeastElement, Zenon
<1>2. CASE m = 0
  <2> DEFINE f == [i \in 0 .. 0 |-> h]
  <2>1. f = [i \in 0 .. 0 |-> IF i = 0 THEN h ELSE N[f[i - 1]]]
    OBVIOUS
  <2> QED BY <1>2, <2>1, Zenon
<1>3. CASE m # 0
  <2>0. m \in Nat /\ \A k \in T : m <= k
    BY <1>1, Zenon
  <2>1. m - 1 \in Nat /\ m - 1 \notin T
    <3>1. m - 1 \in Nat /\ ~(m <= m - 1)
      BY <1>3, <2>0
    <3> HIDE DEF T
    <3> QED BY <2>0, <3>1, Zenon
  <2>2. PICK g : g = [i \in 0 .. m - 1 |-> IF i = 0 THEN h ELSE N[g[i - 1]]]
    BY <2>1, Zenon
  <2> DEFINE f == [i \in 0 .. m |-> IF i = m THEN N[g[m - 1]] ELSE g[i]]
  <2>3. ASSUME NEW i \in 0 .. m PROVE f[i] = IF i = 0 THEN h ELSE N[f[i - 1]]
    <3>1. CASE i = m
      <4>1. i # 0 /\ i - 1 \in 0 .. m /\ i - 1 # m /\ f[i - 1] = g[i - 1] /\ f[i] = N[g[m - 1]]
        BY <1>3, <3>1
      <4> QED BY <3>1, <4>1, Zenon
    <3>2. CASE i # m
      <4>1. i \in 0 .. m - 1 /\ f[i] = g[i]
        BY <3>2
      <4>2. g[i] = IF i = 0 THEN h ELSE N[g[i - 1]]
        BY <2>2, <4>1, Zenon
      <4>3. i # 0 => i - 1 \in 0 .. m /\ i - 1 # m /\ f[i - 1] = g[i - 1]
        BY <4>1
      <4> QED BY <4>1, <4>2, <4>3, Zenon
    <3> QED BY <3>1, <3>2, Zenon
  <2> HIDE DEF f
  <2>4. f = [i \in 0 .. m |-> IF i = 0 THEN h ELSE N[f[i - 1]]]
    <3>1. f = [i \in 0 .. m |-> f[i]]
      BY Zenon DEF f
    <3> QED BY <2>3, <3>1, Zenon
  <2> QED BY <2>4, Zenon
<1> QED BY <1>2, <1>3, Zenon

\* The nodes of a queue q in their order, with its two ends.
At(q, i) == IF i = 0 THEN HEAD ELSE IF i = Len(q) + 1 THEN TAIL ELSE q[i]

Distinct(q) == q \in Seq(Block) /\ \A i, j \in 1 .. Len(q) : q[i] = q[j] => i = j

Chained(N, q) == \A i \in 0 .. Len(q) : N[At(q, i)] = At(q, i + 1)

LEMMA AtNodes ==
    ASSUME NumBlocks \in Nat, NEW q, Distinct(q)
    PROVE  /\ Len(q) \in Nat
           /\ \A i \in 1 .. Len(q) : At(q, i) = q[i] /\ q[i] \in Block /\ q[i] # HEAD /\ q[i] # TAIL
           /\ At(q, 0) = HEAD /\ At(q, Len(q) + 1) = TAIL
           /\ \A i \in 0 .. Len(q) + 1 : At(q, i) \in Node
           /\ \A i, j \in 0 .. Len(q) + 1 : At(q, i) = At(q, j) => i = j
<1>1. Len(q) \in Nat /\ \A i \in 1 .. Len(q) : q[i] \in Block
  BY DEF Distinct
<1>2. HEAD = 0 /\ TAIL = NumBlocks + 1 /\ HEAD # TAIL /\ \A b \in Block : b \in Node /\ b # HEAD /\ b # TAIL
  BY DEF HEAD, TAIL, Node, Block
<1>3. HEAD \in Node /\ TAIL \in Node
  BY DEF HEAD, TAIL, Node
<1>4. \A i \in 1 .. Len(q) : At(q, i) = q[i] /\ q[i] \in Block /\ q[i] # HEAD /\ q[i] # TAIL
  BY <1>1, <1>2 DEF At
<1>5. At(q, 0) = HEAD /\ At(q, Len(q) + 1) = TAIL
  BY <1>1 DEF At
<1>6. ASSUME NEW i \in 0 .. Len(q) + 1 PROVE i = 0 \/ i = Len(q) + 1 \/ i \in 1 .. Len(q)
  BY <1>1
<1>7. \A i \in 0 .. Len(q) + 1 : At(q, i) \in Node
  BY <1>2, <1>3, <1>4, <1>5, <1>6, Zenon
<1>8. ASSUME NEW i \in 0 .. Len(q) + 1, NEW j \in 0 .. Len(q) + 1, At(q, i) = At(q, j) PROVE i = j
  BY <1>2, <1>4, <1>5, <1>6, <1>8, Zenon DEF Distinct
<1> QED BY <1>1, <1>4, <1>5, <1>7, <1>8, Zenon

\* What a walk along the links N sees.
WalkIn(N, n) ==
    LET hop[i \in 0..n] == IF i = 0 THEN HEAD ELSE N[hop[i - 1]]
    IN  [i \in 1..n |-> hop[i]]

LEMMA WalkAlong ==
    ASSUME NumBlocks \in Nat, NEW N, NEW q, Distinct(q), Chained(N, q), NEW n \in 0 .. Len(q) + 1
    PROVE  WalkIn(N, n) = [i \in 1 .. n |-> At(q, i)]
<1> DEFINE E(f) == f = [i \in 0 .. n |-> IF i = 0 THEN HEAD ELSE N[f[i - 1]]]
           hop == CHOOSE f : E(f)
<1>0. n \in Nat /\ Len(q) \in Nat
  BY AtNodes
<1>1. E(hop)
  <2>1. \E f : Iterate(N, HEAD, n, f)
    BY <1>0, Iterates, Zenon
  <2>2. \E f : E(f)
    BY <2>1, Zenon DEF Iterate
  <2> QED BY <2>2, Zenon
<1> HIDE DEF hop
<1>2. ASSUME NEW i \in 0 .. n PROVE hop[i] = At(q, i)
  <2> DEFINE T == {m \in 0 .. n : hop[m] # At(q, m)}
  <2> SUFFICES ASSUME i \in T PROVE FALSE
    BY Zenon
  <2>1. PICK m \in T : \A k \in T : m <= k
    <3>1. T \subseteq Nat /\ T # {}
      BY <1>0
    <3> QED BY <3>1, LeastElement, Zenon
  <2>2. m # 0
    BY <1>0, <1>1, AtNodes, Zenon
  <2>3. m - 1 \in 0 .. n /\ m - 1 \notin T
    BY <1>0, <2>1, <2>2
  <2>4. hop[m] = N[hop[m - 1]] /\ hop[m - 1] = At(q, m - 1)
    BY <1>1, <2>2, <2>3, Zenon
  <2>5. m - 1 \in 0 .. Len(q) /\ m - 1 + 1 = m
    BY <1>0, <2>2
  <2>6. N[At(q, m - 1)] = At(q, m)
    BY <2>5, Zenon DEF Chained
  <2> QED BY <2>4, <2>6, Zenon
<1>3. WalkIn(N, n) = [i \in 1 .. n |-> hop[i]]
  BY Zenon DEF WalkIn, hop
<1>4. \A i \in 1 .. n : hop[i] = At(q, i)
  BY <1>0, <1>2
<1> QED BY <1>3, <1>4, Zenon

-----------------------------------------------------------------------------
(* The links as a queue.                                                    *)

LengthIn(N) ==
    CHOOSE n \in 0..NumBlocks :
        /\ N[WalkIn(N, n + 1)[n + 1]] = None
        /\ \A k \in 0..(n - 1) : N[WalkIn(N, k + 1)[k + 1]] # None

In(b, q) == \E i \in 1 .. Len(q) : q[i] = b

\* The links N and P and the counter c hold the blocks of q, in that order, and
\* no other block has a link.
IsQueue(N, P, c, q) ==
    /\ N \in [Node -> Node \cup {None}]
    /\ P \in [Node -> Node \cup {None}]
    /\ Distinct(q)
    /\ c = Len(q)
    /\ Chained(N, q)
    /\ \A i \in 0 .. Len(q) : P[At(q, i + 1)] = At(q, i)
    /\ N[TAIL] = None /\ P[HEAD] = None
    /\ \A b \in Block : ~In(b, q) => N[b] = None /\ P[b] = None

\* A set of n naturals 1 .. n has no room for more than n distinct values.
Crowds(N, n, f) ==
    n > N /\ f \in [1 .. n -> 1 .. N] /\ \A i, j \in 1 .. n : f[i] = f[j] => i = j

LEMMA NoCrowd ==
    ASSUME NEW n0 \in Nat, NEW N0 \in Nat, NEW f0, Crowds(N0, n0, f0)
    PROVE  FALSE
<1> DEFINE T == {N \in Nat : \E n \in Nat : \E f : Crowds(N, n, f)}
<1>1. PICK N \in T : \A k \in T : N <= k
  <2>1. T \subseteq Nat /\ T # {}
    BY Zenon
  <2> QED BY <2>1, LeastElement, Zenon
<1>2. N \in Nat
  BY Zenon
<1>3. PICK n \in Nat : \E f : Crowds(N, n, f)
  BY Zenon
<1>4. PICK f : Crowds(N, n, f)
  BY <1>3, Zenon
<1>5. /\ n > N /\ f \in [1 .. n -> 1 .. N]
      /\ \A i, j \in 1 .. n : f[i] = f[j] => i = j
  BY <1>4, Zenon DEF Crowds
<1>6. N # 0 /\ N - 1 \in Nat /\ n - 1 \in Nat /\ n - 1 > N - 1
  <2>1. 1 \in 1 .. n
    BY <1>2, <1>5
  <2>2. f[1] \in 1 .. N
    BY <1>5, <2>1, Zenon
  <2> QED BY <1>2, <1>5, <2>2
<1> HIDE DEF T
<1>7. ASSUME NEW g, g \in [1 .. n - 1 -> 1 .. N - 1], \A i, j \in 1 .. n - 1 : g[i] = g[j] => i = j PROVE FALSE
  <2>1. Crowds(N - 1, n - 1, g)
    BY <1>6, <1>7, Zenon DEF Crowds
  <2>2. N - 1 \in T
    BY <1>6, <2>1, Zenon DEF T
  <2> QED BY <1>1, <1>2, <2>2
<1>8. CASE \E k \in 1 .. n : f[k] = N
  <2>1. PICK k \in 1 .. n : f[k] = N
    BY <1>8, Zenon
  <2> DEFINE h(i) == IF i < k THEN i ELSE i + 1
             g == [i \in 1 .. n - 1 |-> f[h(i)]]
  <2>2. ASSUME NEW i \in 1 .. n - 1 PROVE h(i) \in 1 .. n /\ h(i) # k
    OBVIOUS
  <2>3. ASSUME NEW i \in 1 .. n - 1, NEW j \in 1 .. n - 1, h(i) = h(j) PROVE i = j
    BY <2>3
  <2> HIDE DEF h
  <2>4. ASSUME NEW i \in 1 .. n - 1 PROVE g[i] \in 1 .. N - 1
    <3>1. f[h(i)] \in 1 .. N /\ f[h(i)] # N
      BY <1>5, <2>1, <2>2, Zenon
    <3> QED BY <1>2, <3>1
  <2>5. g \in [1 .. n - 1 -> 1 .. N - 1]
    BY <2>4, Zenon
  <2>6. \A i, j \in 1 .. n - 1 : g[i] = g[j] => i = j
    BY <1>5, <2>2, <2>3, Zenon
  <2> QED BY <1>7, <2>5, <2>6, Zenon
<1>9. CASE ~ \E k \in 1 .. n : f[k] = N
  <2> DEFINE g == [i \in 1 .. n - 1 |-> f[i]]
  <2>1. ASSUME NEW i \in 1 .. n - 1 PROVE i \in 1 .. n /\ g[i] = f[i] /\ g[i] \in 1 .. N - 1
    <3>1. i \in 1 .. n
      OBVIOUS
    <3>2. f[i] \in 1 .. N /\ f[i] # N
      BY <1>5, <1>9, <3>1, Zenon
    <3> QED BY <1>2, <3>1, <3>2
  <2>2. g \in [1 .. n - 1 -> 1 .. N - 1]
    BY <2>1, Zenon
  <2>3. \A i, j \in 1 .. n - 1 : g[i] = g[j] => i = j
    BY <1>5, <2>1, Zenon
  <2> QED BY <1>7, <2>2, <2>3, Zenon
<1> QED BY <1>8, <1>9, Zenon

LEMMA DistinctLength ==
    ASSUME NumBlocks \in Nat, NEW q, Distinct(q)
    PROVE  Len(q) <= NumBlocks
<1>1. /\ Len(q) \in Nat /\ q \in [1 .. Len(q) -> 1 .. NumBlocks]
      /\ \A i, j \in 1 .. Len(q) : q[i] = q[j] => i = j
  BY DEF Distinct, Block
<1>2. Len(q) > NumBlocks => Crowds(NumBlocks, Len(q), q)
  BY <1>1, Zenon DEF Crowds
<1> QED BY <1>1, <1>2, NoCrowd

LEMMA LengthAlong ==
    ASSUME NumBlocks \in Nat, NEW N, NEW P, NEW c, NEW q, IsQueue(N, P, c, q)
    PROVE  LengthIn(N) = Len(q) /\ WalkIn(N, LengthIn(N)) = q
<1> DEFINE Ends(n) == N[WalkIn(N, n + 1)[n + 1]] = None
           Stop(n) == Ends(n) /\ \A k \in 0 .. n - 1 : ~Ends(k)
<1>1. Distinct(q) /\ Chained(N, q) /\ N[TAIL] = None /\ Len(q) \in Nat /\ Len(q) \in 0 .. NumBlocks
  <2>1. Distinct(q) /\ Chained(N, q) /\ N[TAIL] = None
    BY Zenon DEF IsQueue
  <2> QED BY <2>1, AtNodes, DistinctLength
<1>2. ASSUME NEW n \in 0 .. Len(q) PROVE Ends(n) <=> n = Len(q)
  <2>1. n + 1 \in 0 .. Len(q) + 1 /\ n + 1 \in 1 .. n + 1
    BY <1>1
  <2>2. WalkIn(N, n + 1) = [i \in 1 .. n + 1 |-> At(q, i)]
    BY <1>1, <2>1, WalkAlong
  <2>3. WalkIn(N, n + 1)[n + 1] = At(q, n + 1)
    BY <2>1, <2>2, Zenon
  <2>4. CASE n = Len(q)
    BY <1>1, <2>3, <2>4, AtNodes, Zenon
  <2>5. CASE n # Len(q)
    <3>1. n + 1 \in 0 .. Len(q) /\ n + 1 + 1 \in 0 .. Len(q) + 1
      BY <1>1, <2>5
    <3>2. N[At(q, n + 1)] = At(q, n + 1 + 1) /\ At(q, n + 1 + 1) \in Node
      BY <1>1, <3>1, AtNodes, Zenon DEF Chained
    <3>3. None \notin Node
      BY DEF None, Node, HEAD, TAIL
    <3> QED BY <2>3, <2>5, <3>2, <3>3, Zenon
  <2> QED BY <2>4, <2>5, Zenon
<1> HIDE DEF Ends
<1>3. Stop(Len(q))
  <2>1. Ends(Len(q)) /\ Len(q) \in 0 .. Len(q)
    BY <1>1, <1>2
  <2>2. \A k \in 0 .. Len(q) - 1 : k \in 0 .. Len(q) /\ k # Len(q)
    BY <1>1
  <2> QED BY <1>2, <2>1, <2>2, Zenon
<1>4. ASSUME NEW n \in 0 .. NumBlocks, Stop(n) PROVE n = Len(q)
  <2>1. CASE n > Len(q)
    <3>1. Len(q) \in 0 .. n - 1 /\ Len(q) \in 0 .. Len(q)
      BY <1>1, <2>1
    <3>2. Ends(Len(q))
      BY <1>2, <3>1, Zenon
    <3> QED BY <1>4, <3>1, <3>2, Zenon
  <2>2. CASE ~(n > Len(q))
    <3>1. n \in 0 .. Len(q)
      BY <1>1, <2>2
    <3> QED BY <1>2, <1>4, <3>1, Zenon
  <2> QED BY <2>1, <2>2, Zenon
<1>5. LengthIn(N) = CHOOSE n \in 0 .. NumBlocks : Stop(n)
  BY Zenon DEF LengthIn, Ends
<1> HIDE DEF Stop
<1>6. LengthIn(N) = Len(q)
  BY <1>1, <1>3, <1>4, <1>5, Zenon
<1>7. WalkIn(N, Len(q)) = [i \in 1 .. Len(q) |-> At(q, i)]
  <2>1. Len(q) \in 0 .. Len(q) + 1
    BY <1>1
  <2> QED BY <1>1, <2>1, WalkAlong
<1>8. q = [i \in 1 .. Len(q) |-> q[i]]
  BY <1>1 DEF Distinct
<1>9. \A i \in 1 .. Len(q) : At(q, i) = q[i]
  BY <1>1, AtNodes, Zenon
<1> QED BY <1>6, <1>7, <1>8, <1>9, Zenon

LEMMA Concat ==
    ASSUME NEW S, NEW a \in Seq(S), NEW b \in Seq(S)
    PROVE  /\ a \o b \in Seq(S) /\ Len(a \o b) = Len(a) + Len(b)
           /\ \A i \in 1 .. Len(a) + Len(b) : (a \o b)[i] = IF i <= Len(a) THEN a[i] ELSE b[i - Len(a)]
OBVIOUS

LEMMA Slice ==
    ASSUME NEW S, NEW q \in Seq(S), NEW m \in Nat, NEW n \in Nat,
           m >= 1, n <= Len(q), m <= n + 1
    PROVE  /\ SubSeq(q, m, n) \in Seq(S) /\ Len(SubSeq(q, m, n)) = n - m + 1
           /\ \A i \in 1 .. n - m + 1 : SubSeq(q, m, n)[i] = q[m + i - 1]
OBVIOUS

\* The sequence q without its k-th element.
Without(q, k) == SubSeq(q, 1, k - 1) \o SubSeq(q, k + 1, Len(q))

\* Two assignments to the links of a list.
Relink(N, a, b, d, none) == [N EXCEPT ![a] = b, ![d] = none]

LinksOver(D, none) == [D -> D \cup {none}]

Relinked(D, N, M, a, b, d, none) ==
    /\ M \in LinksOver(D, none)
    /\ \A x \in D : M[x] = IF x = d THEN none ELSE IF x = a THEN b ELSE N[x]

LEMMA TwoLinks ==
    ASSUME NEW D, NEW none, NEW N \in LinksOver(D, none), NEW a \in D, NEW b \in D, NEW d \in D
    PROVE  Relinked(D, N, Relink(N, a, b, d, none), a, b, d, none)
<1>1. PICK f : f = [N EXCEPT ![a] = b]
  BY Zenon
<1>2. f \in [D -> D \cup {none}] /\ \A x \in D : f[x] = IF x = a THEN b ELSE N[x]
  BY <1>1, Zenon DEF LinksOver
<1>3. PICK M : M = Relink(N, a, b, d, none)
  BY Zenon
<1>4. M = [f EXCEPT ![d] = none]
  BY <1>1, <1>3, Zenon DEF Relink
<1>5. M \in [D -> D \cup {none}] /\ \A x \in D : M[x] = IF x = d THEN none ELSE f[x]
  BY <1>2, <1>4, Zenon
<1> QED BY <1>2, <1>3, <1>5, Zenon DEF Relinked, LinksOver

\* Taking the k-th block out joins its two neighbours.
LEMMA DropLinks ==
    ASSUME NumBlocks \in Nat, NEW N, NEW P, NEW c, NEW q, IsQueue(N, P, c, q),
           NEW k \in 1 .. Len(q), NEW M, NEW Q,
           M = Relink(N, P[q[k]], N[q[k]], q[k], None),
           Q = Relink(P, N[q[k]], P[q[k]], q[k], None)
    PROVE  IsQueue(M, Q, c - 1, Without(q, k))
<1> DEFINE L == Len(q)
           r == Without(q, k)
<1>0. /\ N \in [Node -> Node \cup {None}] /\ P \in [Node -> Node \cup {None}]
      /\ Distinct(q) /\ c = L /\ N[TAIL] = None /\ P[HEAD] = None
      /\ \A b \in Block : ~In(b, q) => N[b] = None /\ P[b] = None
  BY Zenon DEF IsQueue
<1>1. \A i \in 0 .. L : N[At(q, i)] = At(q, i + 1) /\ P[At(q, i + 1)] = At(q, i)
  BY Zenon DEF IsQueue, Chained
<1>2. L \in Nat /\ k \in 1 .. L /\ q \in Seq(Block) /\ \A i \in 1 .. L : q[i] \in Block
  BY <1>0 DEF Distinct
<1>3. /\ \A i \in 1 .. L : At(q, i) = q[i]
      /\ At(q, 0) = HEAD /\ At(q, L + 1) = TAIL
      /\ \A i \in 0 .. L + 1 : At(q, i) \in Node
  BY <1>0, AtNodes, Zenon
<1>4. \A i, j \in 0 .. L + 1 : At(q, i) = At(q, j) => i = j
  BY <1>0, AtNodes, Zenon
<1>5. /\ r \in Seq(Block) /\ Len(r) = L - 1
      /\ \A i \in 1 .. L - 1 : r[i] = IF i < k THEN q[i] ELSE q[i + 1]
  <2>1. PICK a : a = SubSeq(q, 1, k - 1)
    BY Zenon
  <2>2. PICK b : b = SubSeq(q, k + 1, L)
    BY Zenon
  <2>3. a \in Seq(Block) /\ Len(a) = k - 1 /\ \A i \in 1 .. k - 1 : a[i] = q[i]
    <3>1. k - 1 \in Nat /\ 1 \in Nat /\ 1 >= 1 /\ k - 1 <= Len(q) /\ 1 <= k - 1 + 1
      BY <1>2
    <3>2. /\ a \in Seq(Block) /\ Len(a) = k - 1 - 1 + 1
          /\ \A i \in 1 .. k - 1 - 1 + 1 : a[i] = q[1 + i - 1]
      BY <1>2, <2>1, <3>1, Slice
    <3>3. k - 1 - 1 + 1 = k - 1 /\ \A i \in 1 .. k - 1 : 1 + i - 1 = i
      BY <1>2
    <3> QED BY <3>2, <3>3, Zenon
  <2>4. b \in Seq(Block) /\ Len(b) = L - k /\ \A i \in 1 .. L - k : b[i] = q[k + i]
    <3>1. k + 1 \in Nat /\ L \in Nat /\ k + 1 >= 1 /\ L <= Len(q) /\ k + 1 <= L + 1
      BY <1>2
    <3>2. /\ b \in Seq(Block) /\ Len(b) = L - (k + 1) + 1
          /\ \A i \in 1 .. L - (k + 1) + 1 : b[i] = q[k + 1 + i - 1]
      BY <1>2, <2>2, <3>1, Slice, Zenon
    <3>3. L - (k + 1) + 1 = L - k /\ \A i \in 1 .. L - k : k + 1 + i - 1 = k + i
      BY <1>2
    <3> QED BY <3>2, <3>3, Zenon
  <2>5. r = a \o b
    BY <2>1, <2>2, Zenon DEF Without
  <2> HIDE DEF r
  <2>6. /\ r \in Seq(Block) /\ Len(r) = (k - 1) + (L - k)
        /\ \A i \in 1 .. (k - 1) + (L - k) : r[i] = IF i <= k - 1 THEN a[i] ELSE b[i - (k - 1)]
    <3>1. /\ a \o b \in Seq(Block) /\ Len(a \o b) = Len(a) + Len(b)
          /\ \A i \in 1 .. Len(a) + Len(b) : (a \o b)[i] = IF i <= Len(a) THEN a[i] ELSE b[i - Len(a)]
      BY <2>3, <2>4, Concat, Zenon
    <3> QED BY <2>3, <2>4, <2>5, <3>1, Zenon
  <2>7. (k - 1) + (L - k) = L - 1
    BY <1>2
  <2>8. ASSUME NEW i \in 1 .. L - 1 PROVE r[i] = IF i < k THEN q[i] ELSE q[i + 1]
    <3>1. r[i] = IF i <= k - 1 THEN a[i] ELSE b[i - (k - 1)]
      BY <2>6, <2>7, Zenon
    <3>2. CASE i < k
      BY <1>2, <2>3, <3>1, <3>2
    <3>3. CASE ~(i < k)
      <4>1. i - (k - 1) \in 1 .. L - k /\ k + (i - (k - 1)) = i + 1 /\ ~(i <= k - 1)
        BY <1>2, <3>3
      <4> QED BY <2>4, <3>1, <3>3, <4>1, Zenon
    <3> QED BY <3>2, <3>3, Zenon
  <2> QED BY <2>6, <2>7, <2>8, Zenon
<1> HIDE DEF r
<1>6. Distinct(r)
  <2>1. \A i, j \in 1 .. L : q[i] = q[j] => i = j
    BY <1>0, Zenon DEF Distinct
  <2>2. ASSUME NEW i \in 1 .. Len(r), NEW j \in 1 .. Len(r), r[i] = r[j] PROVE i = j
    <3>1. i \in 1 .. L /\ j \in 1 .. L /\ i + 1 \in 1 .. L /\ j + 1 \in 1 .. L
      BY <1>2, <1>5
    <3> QED BY <1>2, <1>5, <2>1, <2>2, <3>1
  <2> QED BY <1>5, <2>2, Zenon DEF Distinct
<1>7. ASSUME NEW i \in 0 .. L PROVE At(r, i) = IF i < k THEN At(q, i) ELSE At(q, i + 1)
  <2>1. CASE i = 0
    BY <1>2, <1>3, <2>1 DEF At
  <2>2. CASE i = L
    BY <1>2, <1>3, <1>5, <2>2 DEF At
  <2>3. CASE i # 0 /\ i # L
    <3>1. i \in 1 .. L - 1 /\ i \in 1 .. L /\ i + 1 \in 1 .. L
      BY <1>2, <2>3
    <3>2. At(r, i) = r[i]
      BY <1>2, <1>5, <2>3 DEF At
    <3> QED BY <1>3, <1>5, <3>1, <3>2, Zenon
  <2> QED BY <2>1, <2>2, <2>3, Zenon
<1>8. /\ q[k] = At(q, k) /\ P[q[k]] = At(q, k - 1) /\ N[q[k]] = At(q, k + 1)
      /\ k - 1 \in 0 .. L /\ k \in 0 .. L /\ k + 1 \in 0 .. L + 1 /\ k - 1 + 1 = k
  BY <1>1, <1>2, <1>3
<1>8a. k - 1 \in 0 .. L + 1 /\ k \in 0 .. L + 1 /\ k + 1 \in 0 .. L + 1
  BY <1>2
<1>9. /\ M \in [Node -> Node \cup {None}] /\ Q \in [Node -> Node \cup {None}]
      /\ \A x \in Node : M[x] = IF x = At(q, k) THEN None ELSE IF x = At(q, k - 1) THEN At(q, k + 1) ELSE N[x]
      /\ \A x \in Node : Q[x] = IF x = At(q, k) THEN None ELSE IF x = At(q, k + 1) THEN At(q, k - 1) ELSE P[x]
  <2>1. At(q, k - 1) \in Node /\ At(q, k + 1) \in Node /\ At(q, k) \in Node
    BY <1>2, <1>3
  <2>2. N \in LinksOver(Node, None) /\ P \in LinksOver(Node, None)
    BY <1>0, Zenon DEF LinksOver
  <2>3. /\ M = Relink(N, At(q, k - 1), At(q, k + 1), At(q, k), None)
        /\ Q = Relink(P, At(q, k + 1), At(q, k - 1), At(q, k), None)
    BY <1>8, Zenon
  <2>4. Relinked(Node, N, M, At(q, k - 1), At(q, k + 1), At(q, k), None)
    BY <2>1, <2>2, <2>3, TwoLinks, Zenon
  <2>5. Relinked(Node, P, Q, At(q, k + 1), At(q, k - 1), At(q, k), None)
    BY <2>1, <2>2, <2>3, TwoLinks, Zenon
  <2> QED BY <2>4, <2>5, Zenon DEF Relinked, LinksOver
<1>10. ASSUME NEW i \in 0 .. Len(r) PROVE M[At(r, i)] = At(r, i + 1) /\ Q[At(r, i + 1)] = At(r, i)
  <2>0. /\ i \in 0 .. L - 1 /\ i \in 0 .. L /\ i + 1 \in 0 .. L
        /\ i \in 0 .. L + 1 /\ i + 1 \in 0 .. L + 1 /\ i + 1 + 1 \in 0 .. L + 1
    BY <1>2, <1>5
  <2>1. CASE i < k - 1
    <3>1. At(r, i) = At(q, i) /\ At(r, i + 1) = At(q, i + 1)
      BY <1>2, <1>7, <2>0, <2>1
    <3>a. i # k /\ i # k - 1 /\ i + 1 # k /\ i + 1 # k + 1
      BY <1>2, <2>0, <2>1
    <3>2. At(q, i) # At(q, k) /\ At(q, i) # At(q, k - 1) /\ At(q, i + 1) # At(q, k) /\ At(q, i + 1) # At(q, k + 1)
      BY <1>4, <1>8a, <2>0, <3>a, Zenon
    <3>3. M[At(q, i)] = N[At(q, i)] /\ Q[At(q, i + 1)] = P[At(q, i + 1)]
      BY <1>3, <1>9, <2>0, <3>2, Zenon
    <3> QED BY <1>1, <2>0, <3>1, <3>3, Zenon
  <2>2. CASE i = k - 1
    <3>1. At(r, i) = At(q, k - 1) /\ At(r, i + 1) = At(q, k + 1)
      BY <1>2, <1>7, <2>0, <2>2
    <3>2. At(q, k - 1) # At(q, k) /\ At(q, k + 1) # At(q, k) /\ At(q, k - 1) \in Node /\ At(q, k + 1) \in Node
      BY <1>2, <1>3, <1>4, <1>8
    <3> QED BY <1>9, <3>1, <3>2, Zenon
  <2>3. CASE i > k - 1
    <3>1. At(r, i) = At(q, i + 1) /\ At(r, i + 1) = At(q, i + 1 + 1)
      BY <1>2, <1>7, <2>0, <2>3
    <3>a. i + 1 # k /\ i + 1 # k - 1 /\ i + 1 + 1 # k /\ i + 1 + 1 # k + 1
      BY <1>2, <2>0, <2>3
    <3>2. At(q, i + 1) # At(q, k) /\ At(q, i + 1) # At(q, k - 1) /\ At(q, i + 1 + 1) # At(q, k) /\ At(q, i + 1 + 1) # At(q, k + 1)
      BY <1>4, <1>8a, <2>0, <3>a, Zenon
    <3>3. M[At(q, i + 1)] = N[At(q, i + 1)] /\ Q[At(q, i + 1 + 1)] = P[At(q, i + 1 + 1)]
      BY <1>3, <1>9, <2>0, <3>2, Zenon
    <3> QED BY <1>1, <2>0, <3>1, <3>3, Zenon
  <2> QED BY <1>2, <2>0, <2>1, <2>2, <2>3
<1>11. M[TAIL] = None /\ Q[HEAD] = None
  <2>1. TAIL = At(q, L + 1) /\ HEAD = At(q, 0) /\ L + 1 \in 0 .. L + 1 /\ 0 \in 0 .. L + 1 /\ k - 1 # L + 1 /\ k + 1 # 0
    BY <1>2, <1>3
  <2>2. TAIL # At(q, k - 1) /\ HEAD # At(q, k + 1) /\ TAIL \in Node /\ HEAD \in Node
    BY <1>3, <1>4, <1>8a, <2>1, Zenon
  <2>3. M[TAIL] = N[TAIL] \/ M[TAIL] = None
    BY <1>9, <2>2, Zenon
  <2>4. Q[HEAD] = P[HEAD] \/ Q[HEAD] = None
    BY <1>9, <2>2, Zenon
  <2> QED BY <1>0, <2>3, <2>4, Zenon
<1>12. ASSUME NEW b \in Block, ~In(b, r) PROVE M[b] = None /\ Q[b] = None
  <2>0. b \in Node /\ b # HEAD /\ b # TAIL
    BY DEF Node, Block, HEAD, TAIL
  <2>1. CASE b = q[k]
    BY <1>8, <1>9, <2>0, <2>1, Zenon
  <2>2. CASE b # q[k]
    <3>1. ASSUME NEW i \in 1 .. L, q[i] = b PROVE FALSE
      <4>1. i # k
        BY <2>2, <3>1, Zenon
      <4>2. PICK j : j = IF i < k THEN i ELSE i - 1
        BY Zenon
      <4>3. j \in 1 .. L - 1 /\ (j < k => j = i) /\ (~(j < k) => j + 1 = i)
        BY <1>2, <4>1, <4>2
      <4>4. r[j] = b
        BY <1>5, <3>1, <4>3, Zenon
      <4> QED BY <1>5, <1>12, <4>3, <4>4, Zenon DEF In
    <3>2. N[b] = None /\ P[b] = None
      BY <1>0, <3>1, Zenon DEF In
    <3>3. ASSUME NEW i \in 0 .. L + 1, b = At(q, i) PROVE FALSE
      <4>1. i \in 1 .. L
        BY <1>2, <1>3, <2>0, <3>3
      <4> QED BY <1>3, <3>1, <3>3, <4>1, Zenon
    <3>4. b # At(q, k - 1) /\ b # At(q, k + 1) /\ b # At(q, k)
      <4>1. k - 1 \in 0 .. L + 1 /\ k + 1 \in 0 .. L + 1 /\ k \in 0 .. L + 1
        BY <1>2
      <4> QED BY <3>3, <4>1, Zenon
    <3> QED BY <1>9, <2>0, <3>2, <3>4, Zenon
  <2> QED BY <2>1, <2>2, Zenon
<1>13. c - 1 = Len(r)
  BY <1>0, <1>2, <1>5, Zenon
<1> QED
  <2>1. Chained(M, r) /\ \A i \in 0 .. Len(r) : Q[At(r, i + 1)] = At(r, i)
    BY <1>10, Zenon DEF Chained
  <2>2. IsQueue(M, Q, c - 1, r)
    BY <1>6, <1>9, <1>11, <1>12, <1>13, <2>1, Zenon DEF IsQueue
  <2> QED BY <2>2, Zenon DEF r

LEMMA QueueFacts ==
    ASSUME NumBlocks \in Nat, NEW N, NEW P, NEW c, NEW q, IsQueue(N, P, c, q)
    PROVE  /\ N \in [Node -> Node \cup {None}] /\ P \in [Node -> Node \cup {None}]
           /\ Distinct(q) /\ q \in Seq(Block) /\ Len(q) \in Nat /\ c = Len(q)
           /\ \A i \in 1 .. Len(q) : q[i] \in Block /\ At(q, i) = q[i]
           /\ At(q, 0) = HEAD /\ At(q, Len(q) + 1) = TAIL
           /\ \A i \in 0 .. Len(q) + 1 : At(q, i) \in Node
           /\ \A i, j \in 0 .. Len(q) + 1 : At(q, i) = At(q, j) => i = j
           /\ \A i \in 0 .. Len(q) : N[At(q, i)] = At(q, i + 1) /\ P[At(q, i + 1)] = At(q, i)
           /\ N[TAIL] = None /\ P[HEAD] = None
           /\ \A b \in Block : ~In(b, q) => N[b] = None /\ P[b] = None
<1>1. /\ N \in [Node -> Node \cup {None}] /\ P \in [Node -> Node \cup {None}]
      /\ Distinct(q) /\ c = Len(q) /\ N[TAIL] = None /\ P[HEAD] = None
      /\ \A b \in Block : ~In(b, q) => N[b] = None /\ P[b] = None
  BY Zenon DEF IsQueue
<1>2. \A i \in 0 .. Len(q) : N[At(q, i)] = At(q, i + 1) /\ P[At(q, i + 1)] = At(q, i)
  BY Zenon DEF IsQueue, Chained
<1>3. q \in Seq(Block)
  BY <1>1, Zenon DEF Distinct
<1> QED BY <1>1, <1>2, <1>3, AtNodes, Zenon

\* A block is no end of the queue, and lies in the queue when it is one of its nodes.
LEMMA BlockIsInside ==
    ASSUME NumBlocks \in Nat, NEW q, Distinct(q), NEW b \in Block
    PROVE  /\ b \in Node /\ b # HEAD /\ b # TAIL
           /\ \A i \in 0 .. Len(q) + 1 : At(q, i) = b => i \in 1 .. Len(q) /\ q[i] = b /\ In(b, q)
<1>1. b \in Node /\ b # HEAD /\ b # TAIL
  BY DEF Node, Block, HEAD, TAIL
<1>2. ASSUME NEW i \in 0 .. Len(q) + 1, At(q, i) = b PROVE i \in 1 .. Len(q) /\ q[i] = b
  BY <1>1, <1>2, AtNodes
<1> QED BY <1>1, <1>2, Zenon DEF In

\* Taking n blocks off the front leaves the block after them as the first one.
PoppedLinks(M, Q, N, P, q, n) ==
    /\ \A x \in Node : M[x] = IF x = HEAD THEN At(q, n + 1)
                              ELSE IF \E i \in 1 .. n : q[i] = x THEN None ELSE N[x]
    /\ \A x \in Node : Q[x] = IF x = At(q, n + 1) THEN HEAD
                              ELSE IF \E i \in 1 .. n : q[i] = x THEN None ELSE P[x]

LEMMA PopLinks ==
    ASSUME NumBlocks \in Nat, NEW N, NEW P, NEW c, NEW q, IsQueue(N, P, c, q),
           NEW n \in 1 .. Len(q),
           NEW M \in [Node -> Node \cup {None}], NEW Q \in [Node -> Node \cup {None}],
           PoppedLinks(M, Q, N, P, q, n)
    PROVE  IsQueue(M, Q, c - n, SubSeq(q, n + 1, Len(q)))
<1> DEFINE L == Len(q)
           r == SubSeq(q, n + 1, Len(q))
           Popped(x) == \E i \in 1 .. n : q[i] = x
<1>0. /\ Distinct(q) /\ q \in Seq(Block) /\ L \in Nat /\ c = L
      /\ \A i \in 1 .. L : q[i] \in Block /\ At(q, i) = q[i]
      /\ At(q, 0) = HEAD /\ At(q, L + 1) = TAIL
      /\ \A i \in 0 .. L + 1 : At(q, i) \in Node
      /\ N[TAIL] = None /\ P[HEAD] = None
  BY QueueFacts
<1>1. \A i \in 0 .. L : N[At(q, i)] = At(q, i + 1) /\ P[At(q, i + 1)] = At(q, i)
  BY QueueFacts
<1>2. \A i, j \in 0 .. L + 1 : At(q, i) = At(q, j) => i = j
  BY QueueFacts
<1>3. \A b \in Block : ~In(b, q) => N[b] = None /\ P[b] = None
  BY QueueFacts
<1>4. L \in Nat /\ n \in Nat /\ n <= L /\ n >= 1 /\ n + 1 \in 0 .. L + 1 /\ 0 \in 0 .. L + 1
  BY <1>0
<1>5. r \in Seq(Block) /\ Len(r) = L - n /\ \A i \in 1 .. L - n : r[i] = q[n + i]
  <2>1. n + 1 \in Nat /\ L \in Nat /\ n + 1 >= 1 /\ L <= Len(q) /\ n + 1 <= L + 1
    BY <1>4
  <2>2. /\ r \in Seq(Block) /\ Len(r) = L - (n + 1) + 1
        /\ \A i \in 1 .. L - (n + 1) + 1 : r[i] = q[n + 1 + i - 1]
    BY <1>0, <2>1, Slice
  <2> HIDE DEF r
  <2>3. L - (n + 1) + 1 = L - n
    BY <1>4
  <2>4. ASSUME NEW i \in 1 .. L - n PROVE n + 1 + i - 1 = n + i
    <3>1. i \in Int
      BY <1>4
    <3> QED BY <1>4, <3>1
  <2> QED BY <2>2, <2>3, <2>4, Zenon
<1> HIDE DEF r
<1>5a. Len(r) = L - n
  BY <1>5, Zenon
<1>6. Distinct(r)
  <2>1. \A i, j \in 1 .. L : q[i] = q[j] => i = j
    BY <1>0, Zenon DEF Distinct
  <2>2. ASSUME NEW i \in 1 .. Len(r), NEW j \in 1 .. Len(r), r[i] = r[j] PROVE i = j
    <3>1. n + i \in 1 .. L /\ n + j \in 1 .. L /\ i \in 1 .. L - n /\ j \in 1 .. L - n
      BY <1>4, <1>5a
    <3>2. q[n + i] = q[n + j]
      BY <1>5, <2>2, <3>1, Zenon
    <3>3. n + i = n + j
      BY <2>1, <3>1, <3>2, Zenon
    <3> QED BY <1>4, <3>3
  <2> QED BY <1>5, <2>2, Zenon DEF Distinct
<1>7. At(r, 0) = HEAD
  BY Zenon DEF At
<1>8. ASSUME NEW i \in 1 .. L - n + 1 PROVE At(r, i) = At(q, n + i)
  <2>1. CASE i = L - n + 1
    BY <1>0, <1>4, <1>5, <2>1 DEF At
  <2>2. CASE i # L - n + 1
    <3>1. i \in 1 .. L - n /\ n + i \in 1 .. L /\ i # 0 /\ i # Len(r) + 1
      BY <1>4, <1>5a, <2>2
    <3>2. At(r, i) = r[i]
      BY <3>1, Zenon DEF At
    <3> QED BY <1>0, <1>5, <3>1, <3>2, Zenon
  <2> QED BY <2>1, <2>2, Zenon
<1>9. ASSUME NEW i \in 0 .. L + 1, i = 0 \/ i > n PROVE ~Popped(At(q, i))
  <2> SUFFICES ASSUME NEW j \in 1 .. n, q[j] = At(q, i) PROVE FALSE
    BY Zenon
  <2>1. j \in 1 .. L /\ j \in 0 .. L + 1 /\ j # i
    BY <1>0, <1>4, <1>9
  <2>2. At(q, j) = q[j]
    BY <1>0, <2>1, Zenon
  <2> QED BY <1>2, <2>1, <2>2
<1> HIDE DEF Popped
<1>10. /\ \A x \in Node : M[x] = IF x = HEAD THEN At(q, n + 1) ELSE IF Popped(x) THEN None ELSE N[x]
       /\ \A x \in Node : Q[x] = IF x = At(q, n + 1) THEN HEAD ELSE IF Popped(x) THEN None ELSE P[x]
  BY Zenon DEF Popped, PoppedLinks
<1>11. ASSUME NEW i \in 0 .. Len(r) PROVE M[At(r, i)] = At(r, i + 1) /\ Q[At(r, i + 1)] = At(r, i)
  <2>1. CASE i = 0
    <3>1. i + 1 = 1 /\ 1 \in 1 .. L - n + 1
      BY <1>4, <2>1
    <3>2. At(r, i) = HEAD /\ At(r, i + 1) = At(q, n + 1)
      BY <1>7, <1>8, <2>1, <3>1, Zenon
    <3>3. HEAD \in Node /\ At(q, n + 1) \in Node
      BY <1>0, <1>4, Zenon
    <3> QED BY <1>10, <3>2, <3>3, Zenon
  <2>2. CASE i # 0
    <3>0. i \in Nat \ {0} /\ i <= L - n
      BY <1>4, <1>5a, <2>2
    <3>1. /\ i \in 1 .. L - n + 1 /\ i + 1 \in 1 .. L - n + 1 /\ n + (i + 1) = n + i + 1
          /\ n + i \in 0 .. L /\ n + i \in 0 .. L + 1 /\ n + i + 1 \in 0 .. L + 1
          /\ n + i # 0 /\ n + i + 1 # n + 1 /\ n + i > n /\ n + i + 1 > n
      <4>1. i \in 1 .. L - n + 1 /\ i + 1 \in 1 .. L - n + 1 /\ n + (i + 1) = n + i + 1
        BY <1>4, <3>0
      <4>2. n + i \in 0 .. L /\ n + i \in 0 .. L + 1 /\ n + i + 1 \in 0 .. L + 1
        BY <1>4, <3>0
      <4>3. n + i # 0 /\ n + i + 1 # n + 1 /\ n + i > n /\ n + i + 1 > n
        BY <1>4, <3>0
      <4> QED BY <4>1, <4>2, <4>3, Zenon
    <3>2. At(r, i) = At(q, n + i) /\ At(r, i + 1) = At(q, n + i + 1)
      BY <1>8, <3>1, Zenon
    <3>3. At(q, n + i) # HEAD /\ At(q, n + i + 1) # At(q, n + 1)
      BY <1>0, <1>2, <1>4, <3>1, Zenon
    <3>4. ~Popped(At(q, n + i)) /\ ~Popped(At(q, n + i + 1))
      BY <1>9, <3>1, Zenon
    <3>5. At(q, n + i) \in Node /\ At(q, n + i + 1) \in Node
      BY <1>0, <3>1, Zenon
    <3>6. M[At(q, n + i)] = N[At(q, n + i)] /\ Q[At(q, n + i + 1)] = P[At(q, n + i + 1)]
      BY <1>10, <3>3, <3>4, <3>5, Zenon
    <3> QED BY <1>1, <3>1, <3>2, <3>6, Zenon
  <2> QED BY <2>1, <2>2, Zenon
<1>12. M[TAIL] = None /\ Q[HEAD] = None
  <2>1. L + 1 \in 0 .. L + 1 /\ L + 1 > n /\ L + 1 # 0 /\ n + 1 # 0
    BY <1>4
  <2>2. ~Popped(TAIL) /\ ~Popped(HEAD) /\ TAIL \in Node /\ HEAD \in Node
    BY <1>0, <1>4, <1>9, <2>1, Zenon
  <2>3. TAIL # HEAD /\ HEAD # At(q, n + 1)
    BY <1>0, <1>2, <1>4, <2>1, Zenon
  <2> QED BY <1>0, <1>10, <2>2, <2>3, Zenon
<1>13. ASSUME NEW b \in Block, ~In(b, r) PROVE M[b] = None /\ Q[b] = None
  <2>0. b \in Node /\ b # HEAD
    BY <1>0, BlockIsInside, Zenon
  <2>1. b # At(q, n + 1)
    <3> SUFFICES ASSUME b = At(q, n + 1) PROVE FALSE
      BY Zenon
    <3>1. n + 1 \in 1 .. L /\ q[n + 1] = b
      BY <1>0, <1>4, BlockIsInside, Zenon
    <3>2. 1 \in 1 .. Len(r) /\ r[1] = b
      BY <1>0, <1>4, <1>5, <3>1
    <3> QED BY <1>13, <3>2, Zenon DEF In
  <2>2. CASE Popped(b)
    BY <1>10, <2>0, <2>1, <2>2, Zenon
  <2>3. CASE ~Popped(b)
    <3>1. ~In(b, q)
      <4> SUFFICES ASSUME NEW i \in 1 .. L, q[i] = b PROVE FALSE
        BY Zenon DEF In
      <4>1. ~(i \in 1 .. n)
        BY <2>3, Zenon DEF Popped
      <4>2. i - n \in 1 .. L - n /\ n + (i - n) = i
        BY <1>4, <4>1
      <4>3. r[i - n] = b /\ i - n \in 1 .. Len(r)
        BY <1>5, <4>2, Zenon
      <4> QED BY <1>13, <4>3, Zenon DEF In
    <3> QED BY <1>3, <1>10, <2>0, <2>1, <2>3, <3>1, Zenon
  <2> QED BY <2>2, <2>3, Zenon
<1>14. c - n = Len(r)
  BY <1>0, <1>5, Zenon
<1> QED
  <2>1. Chained(M, r) /\ \A i \in 0 .. Len(r) : Q[At(r, i + 1)] = At(r, i)
    BY <1>11, Zenon DEF Chained
  <2>2. IsQueue(M, Q, c - n, r)
    BY <1>6, <1>12, <1>13, <1>14, <2>1, Zenon DEF IsQueue
  <2> QED BY <2>2, Zenon DEF r

\* The nodes of a queue to which other blocks are appended.
Behind(q, s, r) == \A i \in 1 .. Len(s) : At(r, Len(q) + i) = s[i]

LEMMA Joined ==
    ASSUME NumBlocks \in Nat, NEW q, Distinct(q), NEW s, Distinct(s),
           \A j \in 1 .. Len(s) : ~In(s[j], q),
           NEW r, r = q \o s
    PROVE  /\ Distinct(r) /\ Len(q) \in Nat /\ Len(s) \in Nat /\ Len(r) = Len(q) + Len(s)
           /\ \A i \in 0 .. Len(q) : At(r, i) = At(q, i)
           /\ Behind(q, s, r)
           /\ \A b \in Block : In(b, q) => In(b, r)
<1>1. /\ q \in Seq(Block) /\ s \in Seq(Block) /\ Len(q) \in Nat /\ Len(s) \in Nat
      /\ \A i, j \in 1 .. Len(q) : q[i] = q[j] => i = j
      /\ \A i, j \in 1 .. Len(s) : s[i] = s[j] => i = j
  BY DEF Distinct
<1>2. /\ r \in Seq(Block) /\ Len(r) = Len(q) + Len(s)
      /\ \A i \in 1 .. Len(q) + Len(s) : r[i] = IF i <= Len(q) THEN q[i] ELSE s[i - Len(q)]
  BY <1>1, Concat
<1>3. \A i \in 1 .. Len(q) : i \in 1 .. Len(r) /\ r[i] = q[i]
  BY <1>1, <1>2
<1>4. ASSUME NEW i \in 1 .. Len(s) PROVE Len(q) + i \in 1 .. Len(r) /\ r[Len(q) + i] = s[i]
  <2>1. Len(q) + i \in 1 .. Len(r) /\ ~(Len(q) + i <= Len(q)) /\ Len(q) + i - Len(q) = i
    BY <1>1, <1>2
  <2> QED BY <1>2, <2>1
<1>5. ASSUME NEW i \in 1 .. Len(r) PROVE i \in 1 .. Len(q) \/ \E j \in 1 .. Len(s) : i = Len(q) + j
  <2>1. CASE i <= Len(q)
    BY <1>1, <2>1
  <2>2. CASE ~(i <= Len(q))
    <3>1. i - Len(q) \in 1 .. Len(s) /\ i = Len(q) + (i - Len(q))
      BY <1>1, <1>2, <2>2
    <3> QED BY <3>1, Zenon
  <2> QED BY <2>1, <2>2, Zenon
<1>6. ASSUME NEW i \in 1 .. Len(q), NEW j \in 1 .. Len(s) PROVE q[i] # s[j]
  BY Zenon DEF In
<1>7. ASSUME NEW i \in 1 .. Len(r), NEW j \in 1 .. Len(r), r[i] = r[j] PROVE i = j
  <2>1. CASE i \in 1 .. Len(q) /\ j \in 1 .. Len(q)
    BY <1>1, <1>3, <1>7, <2>1, Zenon
  <2>2. CASE i \in 1 .. Len(q) /\ j \notin 1 .. Len(q)
    BY <1>3, <1>4, <1>5, <1>6, <1>7, <2>2
  <2>3. CASE i \notin 1 .. Len(q) /\ j \in 1 .. Len(q)
    BY <1>3, <1>4, <1>5, <1>6, <1>7, <2>3
  <2>4. CASE i \notin 1 .. Len(q) /\ j \notin 1 .. Len(q)
    <3>1. PICK k \in 1 .. Len(s) : i = Len(q) + k
      BY <1>5, <2>4, Zenon
    <3>2. PICK l \in 1 .. Len(s) : j = Len(q) + l
      BY <1>5, <2>4, Zenon
    <3>3. s[k] = s[l]
      BY <1>4, <1>7, <3>1, <3>2, Zenon
    <3> QED BY <1>1, <3>1, <3>2, <3>3, Zenon
  <2> QED BY <2>1, <2>2, <2>3, <2>4, Zenon
<1>8. Distinct(r)
  BY <1>2, <1>7, Zenon DEF Distinct
<1>9. ASSUME NEW i \in 0 .. Len(q) PROVE At(r, i) = At(q, i)
  <2>1. CASE i = 0
    BY <2>1, Zenon DEF At
  <2>2. CASE i # 0
    <3>1. i \in 1 .. Len(q) /\ i # Len(q) + 1 /\ i # Len(r) + 1
      BY <1>1, <1>2, <2>2
    <3> QED BY <1>3, <2>2, <3>1, Zenon DEF At
  <2> QED BY <2>1, <2>2, Zenon
<1>10. ASSUME NEW i \in 1 .. Len(s) PROVE At(r, Len(q) + i) = s[i]
  <2>1. Len(q) + i # 0 /\ Len(q) + i # Len(r) + 1
    BY <1>1, <1>2
  <2> QED BY <1>4, <2>1, Zenon DEF At
<1>11. ASSUME NEW b \in Block, In(b, q) PROVE In(b, r)
  BY <1>3, <1>11, Zenon DEF In
<1>12. Behind(q, s, r)
  BY <1>10, Zenon DEF Behind
<1> QED BY <1>1, <1>2, <1>8, <1>9, <1>11, <1>12, Zenon

\* Appending blocks links the last block, the new ones and the tail.
Spliced(N, P, M, Q, q, s, r) ==
    /\ M \in [Node -> Node \cup {None}] /\ Q \in [Node -> Node \cup {None}]
    /\ \A i \in 0 .. Len(s) : /\ M[At(r, Len(q) + i)] = At(r, Len(q) + i + 1)
                              /\ Q[At(r, Len(q) + i + 1)] = At(r, Len(q) + i)
    /\ \A x \in Node : (\A i \in 0 .. Len(s) : x # At(r, Len(q) + i)) => M[x] = N[x]
    /\ \A x \in Node : (\A i \in 0 .. Len(s) : x # At(r, Len(q) + i + 1)) => Q[x] = P[x]

LEMMA AppendLinks ==
    ASSUME NumBlocks \in Nat, NEW N, NEW P, NEW c, NEW q, IsQueue(N, P, c, q),
           NEW s, Distinct(s), \A j \in 1 .. Len(s) : ~In(s[j], q), NEW r, r = q \o s,
           NEW M, NEW Q, Spliced(N, P, M, Q, q, s, r)
    PROVE  IsQueue(M, Q, c + Len(s), r)
<1> DEFINE L == Len(q)
<1>s. /\ M \in [Node -> Node \cup {None}] /\ Q \in [Node -> Node \cup {None}]
      /\ \A i \in 0 .. Len(s) : /\ M[At(r, L + i)] = At(r, L + i + 1)
                                /\ Q[At(r, L + i + 1)] = At(r, L + i)
  BY Zenon DEF Spliced
<1>t. /\ \A x \in Node : (\A i \in 0 .. Len(s) : x # At(r, L + i)) => M[x] = N[x]
      /\ \A x \in Node : (\A i \in 0 .. Len(s) : x # At(r, L + i + 1)) => Q[x] = P[x]
  BY Zenon DEF Spliced
<1>0. /\ Distinct(q) /\ c = L /\ L \in Nat /\ N[TAIL] = None /\ P[HEAD] = None
  BY QueueFacts, Zenon
<1>1. \A i \in 0 .. L : N[At(q, i)] = At(q, i + 1) /\ P[At(q, i + 1)] = At(q, i)
  BY QueueFacts
<1>2. \A b \in Block : ~In(b, q) => N[b] = None /\ P[b] = None
  BY QueueFacts
<1>3. Distinct(r) /\ Len(s) \in Nat /\ Len(r) = L + Len(s)
  BY <1>0, Joined, Zenon
<1>4. \A i \in 0 .. L : At(r, i) = At(q, i)
  BY <1>0, Joined, Zenon
<1>5. \A b \in Block : In(b, q) => In(b, r)
  BY <1>0, Joined, Zenon
<1>6. /\ At(r, 0) = HEAD /\ At(r, Len(r) + 1) = TAIL
      /\ \A i \in 0 .. Len(r) + 1 : At(r, i) \in Node
  BY <1>3, AtNodes, Zenon
<1>7. \A i, j \in 0 .. Len(r) + 1 : At(r, i) = At(r, j) => i = j
  BY <1>3, AtNodes, Zenon
<1>8. ASSUME NEW j \in 0 .. Len(r) + 1 PROVE
        /\ j < L \/ j = Len(r) + 1 => \A i \in 0 .. Len(s) : At(r, j) # At(r, L + i)
        /\ j <= L => \A i \in 0 .. Len(s) : At(r, j) # At(r, L + i + 1)
  <2>1. ASSUME NEW i \in 0 .. Len(s), j < L \/ j = Len(r) + 1 PROVE At(r, j) # At(r, L + i)
    <3>1. L + i \in 0 .. Len(r) + 1 /\ L + i # j
      BY <1>0, <1>3, <2>1
    <3> QED BY <1>7, <3>1, Zenon
  <2>2. ASSUME NEW i \in 0 .. Len(s), j <= L PROVE At(r, j) # At(r, L + i + 1)
    <3>1. L + i + 1 \in 0 .. Len(r) + 1 /\ L + i + 1 # j
      BY <1>0, <1>3, <2>2
    <3> QED BY <1>7, <3>1, Zenon
  <2> QED BY <2>1, <2>2, Zenon
<1>9. ASSUME NEW i \in 0 .. Len(r) PROVE M[At(r, i)] = At(r, i + 1) /\ Q[At(r, i + 1)] = At(r, i)
  <2>1. CASE i < L
    <3>1. i \in 0 .. L /\ i + 1 \in 0 .. L /\ i \in 0 .. Len(r) + 1 /\ i + 1 \in 0 .. Len(r) + 1 /\ i + 1 <= L
      BY <1>0, <1>3, <2>1
    <3>2. At(r, i) = At(q, i) /\ At(r, i + 1) = At(q, i + 1)
      BY <1>4, <3>1, Zenon
    <3>3. At(r, i) \in Node /\ At(r, i + 1) \in Node
      BY <1>6, <3>1, Zenon
    <3>4. M[At(r, i)] = N[At(r, i)]
      BY <1>8, <1>t, <2>1, <3>1, <3>3, Zenon
    <3>5. Q[At(r, i + 1)] = P[At(r, i + 1)]
      BY <1>8, <1>t, <3>1, <3>3, Zenon
    <3> QED BY <1>1, <3>1, <3>2, <3>4, <3>5, Zenon
  <2>2. CASE ~(i < L)
    <3>1. i - L \in 0 .. Len(s) /\ L + (i - L) = i
      BY <1>0, <1>3, <2>2
    <3> QED BY <1>s, <3>1, Zenon
  <2> QED BY <2>1, <2>2, Zenon
<1>10. M[TAIL] = None /\ Q[HEAD] = None
  <2>1. Len(r) + 1 \in 0 .. Len(r) + 1 /\ 0 \in 0 .. Len(r) + 1 /\ 0 <= L
    BY <1>0, <1>3
  <2>2. TAIL \in Node /\ HEAD \in Node
    BY <1>6, <2>1, Zenon
  <2>3. M[TAIL] = N[TAIL]
    BY <1>6, <1>8, <1>t, <2>1, <2>2, Zenon
  <2>4. Q[HEAD] = P[HEAD]
    BY <1>6, <1>8, <1>t, <2>1, <2>2, Zenon
  <2> QED BY <1>0, <2>3, <2>4, Zenon
<1>11. ASSUME NEW b \in Block, ~In(b, r) PROVE M[b] = None /\ Q[b] = None
  <2>1. b \in Node /\ \A i \in 0 .. Len(r) + 1 : At(r, i) # b
    BY <1>3, <1>11, BlockIsInside, Zenon
  <2>2. \A i \in 0 .. Len(s) : b # At(r, L + i) /\ b # At(r, L + i + 1)
    <3>1. \A i \in 0 .. Len(s) : L + i \in 0 .. Len(r) + 1 /\ L + i + 1 \in 0 .. Len(r) + 1
      BY <1>0, <1>3
    <3> QED BY <2>1, <3>1, Zenon
  <2>3. M[b] = N[b] /\ Q[b] = P[b]
    BY <1>t, <2>1, <2>2, Zenon
  <2> QED BY <1>2, <1>5, <1>11, <2>3, Zenon
<1>12. c + Len(s) = Len(r)
  BY <1>0, <1>3, Zenon
<1> QED
  <2>1. Chained(M, r) /\ \A i \in 0 .. Len(r) : Q[At(r, i + 1)] = At(r, i)
    BY <1>9, Zenon DEF Chained
  <2> QED BY <1>3, <1>10, <1>11, <1>12, <1>s, <2>1, Zenon DEF IsQueue

-----------------------------------------------------------------------------
(* What the operations do to the queue.                                     *)

Holds(q) == IsQueue(next_free_block, prev_free_block, num_free_blocks, q)

LEMMA WalkIs ==
    /\ \A n : Walk(n) = WalkIn(next_free_block, n)
    /\ WalkLength = LengthIn(next_free_block)
    /\ get_all_free_blocks = WalkIn(next_free_block, LengthIn(next_free_block))
<1>1. \A n : Walk(n) = WalkIn(next_free_block, n)
  BY Zenon DEF Walk, WalkIn
<1>2. WalkLength = LengthIn(next_free_block)
  BY Zenon DEF WalkLength, LengthIn, Walk, WalkIn
<1> QED BY <1>1, <1>2, Zenon DEF get_all_free_blocks

LEMMA WalkIsNext ==
    get_all_free_blocks' = WalkIn(next_free_block', LengthIn(next_free_block'))
BY Zenon DEF get_all_free_blocks, WalkLength, LengthIn, Walk, WalkIn

LEMMA Content ==
    ASSUME NumBlocks \in Nat, NEW q, Holds(q)
    PROVE  get_all_free_blocks = q /\ WalkLength = Len(q)
<1>1. IsQueue(next_free_block, prev_free_block, num_free_blocks, q)
  BY Zenon DEF Holds
<1> QED BY <1>1, WalkIs, LengthAlong, Zenon

LEMMA ContentNext ==
    ASSUME NumBlocks \in Nat, NEW q, Holds(q)'
    PROVE  get_all_free_blocks' = q
<1>1. IsQueue(next_free_block', prev_free_block', num_free_blocks', q)
  BY Zenon DEF Holds
<1> QED BY <1>1, WalkIsNext, LengthAlong, Zenon

LEMMA LinkedIsIn ==
    ASSUME NumBlocks \in Nat, NEW q, Holds(q), NEW b \in Block
    PROVE  Linked(b) <=> In(b, q)
<1> DEFINE N == next_free_block
           P == prev_free_block
<1>0. IsQueue(N, P, num_free_blocks, q)
  BY Zenon DEF Holds
<1> HIDE DEF N, P
<1>1. None \notin Node
  BY DEF None, Node, HEAD, TAIL
<1>2. CASE In(b, q)
  <2>1. PICK i \in 1 .. Len(q) : q[i] = b
    BY <1>2, Zenon DEF In
  <2>2. Len(q) \in Nat
    BY <1>0, QueueFacts, Zenon
  <2>3. i \in 0 .. Len(q) /\ i - 1 \in 0 .. Len(q) /\ i - 1 + 1 = i /\ i + 1 \in 0 .. Len(q) + 1 /\ i - 1 \in 0 .. Len(q) + 1
    BY <2>2
  <2>4. N[b] = At(q, i + 1) /\ P[b] = At(q, i - 1)
    <3>1. At(q, i) = b
      BY <1>0, <2>1, QueueFacts
    <3>2. N[At(q, i)] = At(q, i + 1)
      BY <1>0, <2>3, QueueFacts
    <3>3. P[At(q, i)] = At(q, i - 1)
      BY <1>0, <2>3, QueueFacts
    <3> QED BY <3>1, <3>2, <3>3, Zenon
  <2>5. At(q, i + 1) \in Node /\ At(q, i - 1) \in Node
    BY <1>0, <2>3, QueueFacts, Zenon
  <2> QED BY <1>1, <1>2, <2>4, <2>5, Zenon DEF Linked, N, P
<1>3. CASE ~In(b, q)
  <2>1. N[b] = None
    BY <1>0, <1>3, QueueFacts
  <2> QED BY <1>3, <2>1, Zenon DEF Linked, N
<1> QED BY <1>2, <1>3, Zenon

LEMMA TakeOne ==
    ASSUME NumBlocks \in Nat, NEW q, Holds(q), popleft
    PROVE  \E n \in 1 .. Len(q) : io' = <<"take", SubSeq(q, 1, n)>> /\ Holds(SubSeq(q, n + 1, Len(q)))'
<1>1. PICK N : N = next_free_block
  BY Zenon
<1>2. PICK P : P = prev_free_block
  BY Zenon
<1>3. PICK first : first = N[HEAD]
  BY Zenon
<1>4. PICK second : second = N[first]
  BY Zenon
<1>5. /\ first # TAIL
      /\ next_free_block' = Relink(N, HEAD, second, first, None)
      /\ prev_free_block' = Relink(P, second, HEAD, first, None)
      /\ num_free_blocks' = num_free_blocks - 1
      /\ io' = <<"take", <<first>>>>
  BY <1>1, <1>2, <1>3, <1>4, Zenon DEF popleft, Relink
<1>6. IsQueue(N, P, num_free_blocks, q)
  BY <1>1, <1>2, Zenon DEF Holds
<1>7. /\ Len(q) \in Nat /\ q \in Seq(Block)
      /\ At(q, 0) = HEAD /\ At(q, Len(q) + 1) = TAIL
      /\ \A i \in 1 .. Len(q) : At(q, i) = q[i]
  BY <1>6, QueueFacts
<1>8. 0 \in 0 .. Len(q) /\ 0 + 1 = 1
  BY <1>7
<1>9. first = At(q, 1) /\ P[At(q, 1)] = HEAD
  BY <1>3, <1>6, <1>7, <1>8, QueueFacts
<1>10. 1 \in 1 .. Len(q)
  BY <1>5, <1>7, <1>9
<1>11. first = q[1] /\ P[q[1]] = HEAD /\ second = N[q[1]]
  BY <1>4, <1>7, <1>9, <1>10, Zenon
<1>12. /\ next_free_block' = Relink(N, P[q[1]], N[q[1]], q[1], None)
       /\ prev_free_block' = Relink(P, N[q[1]], P[q[1]], q[1], None)
  BY <1>5, <1>11, Zenon
<1>13. IsQueue(next_free_block', prev_free_block', num_free_blocks - 1, Without(q, 1))
  BY <1>6, <1>10, <1>12, DropLinks, Zenon
<1>14. Without(q, 1) = SubSeq(q, 1 + 1, Len(q)) /\ SubSeq(q, 1, 1) = <<q[1]>>
  <2>1. 1 - 1 = 0 /\ SubSeq(q, 1, 0) = <<>>
    BY <1>7
  <2>2. 1 + 1 \in Nat /\ 1 + 1 >= 1 /\ Len(q) <= Len(q) /\ 1 + 1 <= Len(q) + 1
    BY <1>7, <1>10
  <2>3. SubSeq(q, 1 + 1, Len(q)) \in Seq(Block)
    BY <1>7, <2>2, Slice, Zenon
  <2>4. <<>> \o SubSeq(q, 1 + 1, Len(q)) = SubSeq(q, 1 + 1, Len(q))
    BY <2>3
  <2>5. SubSeq(q, 1, 1) = <<q[1]>>
    <3>1. PICK t : t = SubSeq(q, 1, 1)
      BY Zenon
    <3>2. 1 \in Nat /\ 1 >= 1 /\ 1 <= Len(q) /\ 1 <= 1 + 1 /\ 1 - 1 + 1 = 1 /\ 1 \in 1 .. 1 - 1 + 1 /\ 1 + 1 - 1 = 1
      BY <1>7, <1>10
    <3>3. t \in Seq(Block) /\ Len(t) = 1 - 1 + 1 /\ t[1] = q[1 + 1 - 1]
      <4>1. /\ SubSeq(q, 1, 1) \in Seq(Block) /\ Len(SubSeq(q, 1, 1)) = 1 - 1 + 1
            /\ \A i \in 1 .. 1 - 1 + 1 : SubSeq(q, 1, 1)[i] = q[1 + i - 1]
        BY <1>7, <3>2, Slice
      <4> QED BY <3>1, <3>2, <4>1, Zenon
    <3>4. t \in Seq(Block) /\ Len(t) = 1 /\ t[1] = q[1]
      BY <3>2, <3>3, Zenon
    <3>5. t = <<q[1]>>
      BY <3>4
    <3> QED BY <3>1, <3>5, Zenon
  <2> QED BY <2>1, <2>4, <2>5, Zenon DEF Without
<1>15. Holds(SubSeq(q, 1 + 1, Len(q)))'
  BY <1>5, <1>13, <1>14, Zenon DEF Holds
<1>16. io' = <<"take", SubSeq(q, 1, 1)>>
  BY <1>5, <1>11, <1>14, Zenon
<1> QED BY <1>10, <1>15, <1>16, Zenon

LEMMA TakeMany ==
    ASSUME NumBlocks \in Nat, NEW q, Holds(q), NEW n, popleft_n(n)
    PROVE  n \in 1 .. Len(q) /\ io' = <<"take", SubSeq(q, 1, n)>> /\ Holds(SubSeq(q, n + 1, Len(q)))'
<1>1. PICK N : N = next_free_block
  BY Zenon
<1>2. PICK P : P = prev_free_block
  BY Zenon
<1>3. IsQueue(N, P, num_free_blocks, q)
  BY <1>1, <1>2, Zenon DEF Holds
<1>4. /\ N \in [Node -> Node \cup {None}] /\ P \in [Node -> Node \cup {None}]
      /\ Distinct(q) /\ q \in Seq(Block) /\ Len(q) \in Nat /\ num_free_blocks = Len(q)
      /\ \A i \in 1 .. Len(q) : At(q, i) = q[i]
      /\ \A i \in 0 .. Len(q) + 1 : At(q, i) \in Node
  BY <1>3, QueueFacts
<1>5. Chained(N, q)
  BY <1>3, Zenon DEF IsQueue
<1>6. n \in 1 .. Len(q)
  BY <1>4, Zenon DEF popleft_n
<1>7. n \in 0 .. Len(q) + 1 /\ n + 1 \in 0 .. Len(q) + 1 /\ n + 1 \in 1 .. n + 1
  BY <1>4, <1>6
<1>8. Walk(n) = [i \in 1 .. n |-> At(q, i)]
  BY <1>1, <1>4, <1>5, <1>7, WalkIs, WalkAlong
<1>9. Walk(n + 1)[n + 1] = At(q, n + 1)
  <2>1. PICK m : m = n + 1
    BY Zenon
  <2>2. Walk(m) = [i \in 1 .. m |-> At(q, i)]
    <3>1. Walk(m) = WalkIn(N, m)
      BY <1>1, WalkIs, Zenon
    <3>2. m \in 0 .. Len(q) + 1
      BY <1>7, <2>1, Zenon
    <3>3. WalkIn(N, m) = [i \in 1 .. m |-> At(q, i)]
      BY <1>4, <1>5, <3>2, WalkAlong
    <3> QED BY <3>1, <3>3, Zenon
  <2> QED BY <1>7, <2>1, <2>2, Zenon
<1>10. \A i \in 1 .. n : At(q, i) = q[i]
  BY <1>4, <1>6
<1>11. Walk(n) = SubSeq(q, 1, n)
  <2>1. Walk(n) = [i \in 1 .. n |-> q[i]]
    BY <1>8, <1>10, Zenon
  <2> QED BY <1>4, <1>6, <2>1
<1>12. \A x : x \in Range(Walk(n)) <=> \E i \in 1 .. n : q[i] = x
  <2>1. DOMAIN Walk(n) = 1 .. n /\ \A i \in 1 .. n : Walk(n)[i] = q[i]
    BY <1>8, <1>10, Zenon
  <2> QED BY <2>1, Zenon DEF Range
<1>13. PICK curr : curr = At(q, n + 1)
  BY Zenon
<1>14. PICK popped : popped = Range(Walk(n))
  BY Zenon
<1>15. /\ next_free_block' = [x \in Node |-> IF x = HEAD THEN curr
                                             ELSE IF x \in popped THEN None ELSE N[x]]
       /\ prev_free_block' = [x \in Node |-> IF x = curr THEN HEAD
                                             ELSE IF x \in popped THEN None ELSE P[x]]
       /\ num_free_blocks' = num_free_blocks - n
       /\ io' = <<"take", Walk(n)>>
  BY <1>1, <1>2, <1>9, <1>13, <1>14, Zenon DEF popleft_n
<1>16. curr \in Node /\ HEAD \in Node
  <2>1. HEAD \in Node
    BY DEF HEAD, Node, TAIL
  <2> QED BY <1>4, <1>7, <1>13, <2>1, Zenon
<1>17. PICK M : M = next_free_block'
  BY Zenon
<1>18. PICK Q : Q = prev_free_block'
  BY Zenon
<1>19. M \in [Node -> Node \cup {None}] /\ Q \in [Node -> Node \cup {None}]
  BY <1>4, <1>15, <1>16, <1>17, <1>18, Zenon
<1>20. \A x \in Node : M[x] = IF x = HEAD THEN At(q, n + 1)
                              ELSE IF \E i \in 1 .. n : q[i] = x THEN None ELSE N[x]
  BY <1>12, <1>13, <1>14, <1>15, <1>17, Zenon
<1>21. \A x \in Node : Q[x] = IF x = At(q, n + 1) THEN HEAD
                              ELSE IF \E i \in 1 .. n : q[i] = x THEN None ELSE P[x]
  BY <1>12, <1>13, <1>14, <1>15, <1>18, Zenon
<1>22. IsQueue(M, Q, num_free_blocks - n, SubSeq(q, n + 1, Len(q)))
  <2>1. PoppedLinks(M, Q, N, P, q, n)
    BY <1>20, <1>21, Zenon DEF PoppedLinks
  <2> QED BY <1>3, <1>6, <1>19, <2>1, PopLinks, Zenon
<1> QED BY <1>6, <1>11, <1>15, <1>17, <1>18, <1>22, Zenon DEF Holds

LEMMA DropOne ==
    ASSUME NumBlocks \in Nat, NEW q, Holds(q), NEW b \in Block, remove(b)
    PROVE  \E i \in 1 .. Len(q) : io' = <<"drop", <<q[i]>>>> /\ Holds(Without(q, i))'
<1>1. PICK N : N = next_free_block
  BY Zenon
<1>2. PICK P : P = prev_free_block
  BY Zenon
<1>3. IsQueue(N, P, num_free_blocks, q)
  BY <1>1, <1>2, Zenon DEF Holds
<1>4. PICK i \in 1 .. Len(q) : q[i] = b
  BY LinkedIsIn, Zenon DEF remove, In
<1>5. /\ next_free_block' = Relink(N, P[b], N[b], b, None)
      /\ prev_free_block' = Relink(P, N[b], P[b], b, None)
      /\ num_free_blocks' = num_free_blocks - 1
      /\ io' = <<"drop", <<b>>>>
  BY <1>1, <1>2, Zenon DEF remove, Relink
<1>6. /\ next_free_block' = Relink(N, P[q[i]], N[q[i]], q[i], None)
      /\ prev_free_block' = Relink(P, N[q[i]], P[q[i]], q[i], None)
  BY <1>4, <1>5, Zenon
<1>7. IsQueue(next_free_block', prev_free_block', num_free_blocks - 1, Without(q, i))
  BY <1>3, <1>6, DropLinks, Zenon
<1>8. Holds(Without(q, i))'
  BY <1>5, <1>7, Zenon DEF Holds
<1> QED BY <1>4, <1>5, <1>8, Zenon

LEMMA PutOne ==
    ASSUME NumBlocks \in Nat, NEW q, Holds(q), NEW b \in Outside, append(b)
    PROVE  \E s : /\ Distinct(s) /\ \A j \in 1 .. Len(s) : ~In(s[j], q)
                  /\ io' = <<"put", s>> /\ Holds(q \o s)'
<1>1. PICK N : N = next_free_block
  BY Zenon
<1>2. PICK P : P = prev_free_block
  BY Zenon
<1>3. IsQueue(N, P, num_free_blocks, q)
  BY <1>1, <1>2, Zenon DEF Holds
<1>4. PICK s : s = <<b>>
  BY Zenon
<1>5. b \in Block /\ ~In(b, q)
  BY LinkedIsIn, Zenon DEF Outside
<1>6. Len(s) = 1 /\ s[1] = b /\ Distinct(s) /\ \A j \in 1 .. Len(s) : ~In(s[j], q)
  BY <1>4, <1>5 DEF Distinct
<1>7. PICK r : r = q \o s
  BY Zenon
<1>8. PICK L : L = Len(q)
  BY Zenon
<1>9. /\ N \in [Node -> Node \cup {None}] /\ P \in [Node -> Node \cup {None}]
      /\ Distinct(q) /\ L \in Nat /\ At(q, L + 1) = TAIL /\ At(q, L) \in Node
      /\ P[At(q, L + 1)] = At(q, L)
  <2>1. Len(q) \in Nat
    BY <1>3, QueueFacts, Zenon
  <2>2. L \in 0 .. Len(q) /\ L \in 0 .. Len(q) + 1
    BY <1>8, <2>1
  <2> QED BY <1>3, <1>8, <2>1, <2>2, QueueFacts
<1>10. PICK last : last = At(q, L)
  BY Zenon
<1>11. Distinct(r) /\ Len(r) = L + 1 /\ At(r, L) = last /\ At(r, L + 1) = b
  <2>1. Distinct(r) /\ Len(r) = Len(q) + Len(s)
    BY <1>6, <1>7, <1>9, Joined, Zenon
  <2>2. \A i \in 0 .. Len(q) : At(r, i) = At(q, i)
    BY <1>6, <1>7, <1>9, Joined, Zenon
  <2>3. Behind(q, s, r)
    BY <1>6, <1>7, <1>9, Joined, Zenon
  <2> QED BY <1>6, <1>8, <1>9, <1>10, <2>1, <2>2, <2>3 DEF Behind
<1>12. /\ At(r, L + 1 + 1) = TAIL /\ TAIL \in Node
       /\ \A i, j \in 0 .. Len(r) + 1 : At(r, i) = At(r, j) => i = j
  <2>1. L + 1 + 1 \in 0 .. Len(r) + 1 /\ L + 1 + 1 = Len(r) + 1
    BY <1>9, <1>11
  <2> QED BY <1>11, <2>1, AtNodes, Zenon
<1>13. last # b /\ b # TAIL /\ b \in Node /\ last \in Node
  <2>1. L \in 0 .. Len(r) + 1 /\ L + 1 \in 0 .. Len(r) + 1 /\ L # L + 1
    BY <1>9, <1>11
  <2>2. b # TAIL /\ b \in Node
    BY <1>5, <1>9, BlockIsInside, Zenon
  <2> QED BY <1>9, <1>10, <1>11, <1>12, <2>1, <2>2, Zenon
<1>14. PICK M : M = next_free_block'
  BY Zenon
<1>15. PICK Q : Q = prev_free_block'
  BY Zenon
<1>16. /\ M = [N EXCEPT ![last] = b, ![b] = TAIL]
       /\ Q = [P EXCEPT ![b] = last, ![TAIL] = b]
       /\ num_free_blocks' = num_free_blocks + 1 /\ io' = <<"put", s>>
  <2>1. prev_free_block[TAIL] = last
    BY <1>2, <1>9, <1>10, Zenon
  <2> QED BY <1>1, <1>2, <1>4, <1>14, <1>15, <2>1, Zenon DEF append
<1>17. /\ M \in [Node -> Node \cup {None}] /\ M[last] = b /\ M[b] = TAIL
       /\ \A x \in Node : x # last /\ x # b => M[x] = N[x]
  BY <1>9, <1>12, <1>13, <1>16, Zenon
<1>18. /\ Q \in [Node -> Node \cup {None}] /\ Q[b] = last /\ Q[TAIL] = b
       /\ \A x \in Node : x # b /\ x # TAIL => Q[x] = P[x]
  BY <1>9, <1>12, <1>13, <1>16, Zenon
<1>19. 0 \in 0 .. Len(s) /\ 1 \in 0 .. Len(s) /\ L + 0 = L /\ L + 0 + 1 = L + 1 /\ \A i \in 0 .. Len(s) : i = 0 \/ i = 1
  BY <1>6, <1>9
<1>20. \A i \in 0 .. Len(s) : /\ M[At(r, Len(q) + i)] = At(r, Len(q) + i + 1)
                              /\ Q[At(r, Len(q) + i + 1)] = At(r, Len(q) + i)
  BY <1>8, <1>11, <1>12, <1>17, <1>18, <1>19, Zenon
<1>21. \A x \in Node : (\A i \in 0 .. Len(s) : x # At(r, Len(q) + i)) => M[x] = N[x]
  BY <1>8, <1>11, <1>17, <1>19, Zenon
<1>22. \A x \in Node : (\A i \in 0 .. Len(s) : x # At(r, Len(q) + i + 1)) => Q[x] = P[x]
  BY <1>8, <1>11, <1>12, <1>18, <1>19, Zenon
<1>23. IsQueue(M, Q, num_free_blocks + Len(s), r)
  <2>1. Spliced(N, P, M, Q, q, s, r)
    BY <1>17, <1>18, <1>20, <1>21, <1>22, Zenon DEF Spliced
  <2> QED BY <1>3, <1>6, <1>7, <2>1, AppendLinks, Zenon
<1>24. Holds(q \o s)'
  BY <1>6, <1>7, <1>14, <1>15, <1>16, <1>23, Zenon DEF Holds
<1> QED BY <1>6, <1>16, <1>24, Zenon

LEMMA PutMany ==
    ASSUME NumBlocks \in Nat, NEW q, Holds(q), NEW n \in Nat, NEW s \in Injection(1 .. n, Outside), append_n(s)
    PROVE  /\ Distinct(s) /\ \A j \in 1 .. Len(s) : ~In(s[j], q)
           /\ io' = <<"put", s>> /\ Holds(q \o s)'
<1>1. PICK N : N = next_free_block
  BY Zenon
<1>2. PICK P : P = prev_free_block
  BY Zenon
<1>3. IsQueue(N, P, num_free_blocks, q)
  BY <1>1, <1>2, Zenon DEF Holds
<1>4. Distinct(s) /\ s \in Seq(Outside) /\ Len(s) \in Nat
  <2>1. Outside \subseteq Block
    BY Zenon DEF Outside
  <2>2. s \in [1 .. n -> Outside] /\ \A i, j \in 1 .. n : s[i] = s[j] => i = j
    BY Zenon DEF Injection, IsInjective
  <2>3. s \in Seq(Outside) /\ s \in Seq(Block) /\ Len(s) = n
    BY <2>1, <2>2
  <2> QED BY <2>2, <2>3, Zenon DEF Distinct
<1>5. \A j \in 1 .. Len(s) : s[j] \in Block /\ ~In(s[j], q)
  <2>1. \A b \in Outside : b \in Block /\ ~In(b, q)
    BY LinkedIsIn, Zenon DEF Outside
  <2> QED BY <1>4, <2>1
<1>7. PICK r : r = q \o s
  BY Zenon
<1>8. PICK L : L = Len(q)
  BY Zenon
<1>9. /\ N \in [Node -> Node \cup {None}] /\ P \in [Node -> Node \cup {None}]
      /\ Distinct(q) /\ L \in Nat /\ P[TAIL] = At(q, L) /\ At(q, L) \in Node
  <2>1. Len(q) \in Nat
    BY <1>3, QueueFacts, Zenon
  <2>2. L \in 0 .. Len(q) /\ L \in 0 .. Len(q) + 1
    BY <1>8, <2>1
  <2>3. At(q, Len(q) + 1) = TAIL /\ P[At(q, Len(q) + 1)] = At(q, Len(q))
    <3>1. Len(q) \in 0 .. Len(q)
      BY <2>1
    <3>2. \A i \in 0 .. Len(q) : P[At(q, i + 1)] = At(q, i)
      BY <1>3, QueueFacts
    <3>3. At(q, Len(q) + 1) = TAIL
      BY <1>3, QueueFacts
    <3> QED BY <3>1, <3>2, <3>3, Zenon
  <2> QED BY <1>3, <1>8, <2>1, <2>2, <2>3, QueueFacts, Zenon
<1>10. PICK S : S = Len(s)
  BY Zenon
<1>11. Distinct(r) /\ Len(r) = L + S /\ S \in Nat
  BY <1>4, <1>5, <1>7, <1>8, <1>9, <1>10, Joined, Zenon
<1>12. At(r, L) = At(q, L) /\ \A i \in 1 .. S : At(r, L + i) = s[i]
  <2>1. L \in 0 .. Len(q)
    BY <1>8, <1>9
  <2>2. \A j \in 1 .. Len(s) : ~In(s[j], q)
    BY <1>5, Zenon
  <2>3. Behind(q, s, r)
    BY <1>4, <1>7, <1>9, <2>2, Joined, Zenon
  <2>4. \A i \in 0 .. Len(q) : At(r, i) = At(q, i)
    BY <1>4, <1>7, <1>9, <2>2, Joined, Zenon
  <2> QED BY <1>8, <1>10, <2>1, <2>3, <2>4, Zenon DEF Behind
<1>13. /\ At(r, L + S + 1) = TAIL
       /\ \A i, j \in 0 .. L + S + 1 : At(r, i) = At(r, j) => i = j
       /\ \A i \in 0 .. L + S + 1 : At(r, i) \in Node
  BY <1>11, AtNodes, Zenon
<1> DEFINE chain == <<prev_free_block[TAIL]>> \o s \o <<TAIL>>
           pos(x) == CHOOSE i \in 1 .. Len(chain) : chain[i] = x
<1>14. chain = <<prev_free_block[TAIL]>> \o s \o <<TAIL>>
  BY Zenon
<1>18. PICK M : M = next_free_block'
  BY Zenon
<1>19. PICK Q : Q = prev_free_block'
  BY Zenon
<1>20. /\ M = [x \in Node |-> IF x \in Range(chain) \ {TAIL} THEN chain[pos(x) + 1] ELSE N[x]]
       /\ Q = [x \in Node |-> IF x \in Range(Tail(chain)) THEN chain[pos(x) - 1] ELSE P[x]]
       /\ num_free_blocks' = num_free_blocks + Len(s) /\ io' = <<"put", s>>
  <2>1. /\ next_free_block' = [x \in Node |-> IF x \in Range(chain) \ {TAIL}
                                               THEN chain[pos(x) + 1] ELSE next_free_block[x]]
        /\ prev_free_block' = [x \in Node |-> IF x \in Range(Tail(chain))
                                               THEN chain[pos(x) - 1] ELSE prev_free_block[x]]
        /\ num_free_blocks' = num_free_blocks + Len(s) /\ io' = <<"put", s>>
    BY Zenon DEF append_n
  <2> HIDE DEF chain, pos
  <2> QED BY <1>1, <1>2, <1>18, <1>19, <2>1, Zenon
<1> HIDE DEF chain
<1>15. /\ chain \in Seq(Node) /\ Len(chain) = S + 2 /\ chain[S + 2] = TAIL
       /\ \A i \in 1 .. S + 2 : chain[i] = At(r, L + (i - 1))
  <2>1. PICK last : last = At(q, L)
    BY Zenon
  <2>2. last \in Node /\ TAIL \in Node /\ s \in Seq(Node) /\ Len(s) = S
    <3>1. Block \subseteq Node /\ TAIL \in Node
      BY DEF Block, Node, HEAD, TAIL
    <3>2. s \in Seq(Block)
      BY <1>4, Zenon DEF Distinct
    <3> QED BY <1>9, <1>10, <2>1, <3>1, <3>2
  <2>3. PICK a : a = <<last>> \o s
    BY Zenon
  <2>4. a \in Seq(Node) /\ Len(a) = S + 1 /\ a[1] = last /\ \A i \in 2 .. S + 1 : a[i] = s[i - 1]
    BY <1>11, <2>2, <2>3
  <2>5. chain = a \o <<TAIL>>
    BY <1>2, <1>9, <1>14, <2>1, <2>3, Zenon
  <2>6. /\ chain \in Seq(Node) /\ Len(chain) = S + 2 /\ chain[S + 2] = TAIL
        /\ \A i \in 1 .. S + 1 : chain[i] = a[i]
    BY <1>11, <2>2, <2>4, <2>5
  <2>7. ASSUME NEW i \in 1 .. S + 2 PROVE chain[i] = At(r, L + (i - 1))
    <3>1. CASE i = 1
      <4>1. L + (i - 1) = L /\ i \in 1 .. S + 1
        BY <1>9, <1>11, <3>1
      <4> QED BY <1>12, <2>1, <2>4, <2>6, <3>1, <4>1, Zenon
    <3>2. CASE i = S + 2
      <4>1. L + (i - 1) = L + S + 1
        BY <1>9, <1>11, <3>2
      <4> QED BY <1>13, <2>6, <3>2, <4>1, Zenon
    <3>3. CASE i # 1 /\ i # S + 2
      <4>1. i \in 2 .. S + 1 /\ i \in 1 .. S + 1 /\ i - 1 \in 1 .. S
        BY <1>11, <3>3
      <4> QED BY <1>12, <2>4, <2>6, <4>1, Zenon
    <3> QED BY <3>1, <3>2, <3>3, Zenon
  <2> QED BY <2>6, <2>7, Zenon
<1>16. \A i, j \in 1 .. S + 2 : chain[i] = chain[j] => i = j
  <2> SUFFICES ASSUME NEW i \in 1 .. S + 2, NEW j \in 1 .. S + 2, chain[i] = chain[j] PROVE i = j
    BY Zenon
  <2>1. L + (i - 1) \in 0 .. L + S + 1 /\ L + (j - 1) \in 0 .. L + S + 1
    BY <1>9, <1>11
  <2>2. L + (i - 1) = L + (j - 1)
    BY <1>13, <1>15, <2>1, Zenon
  <2> QED BY <1>9, <1>11, <2>2
<1>17. \A i \in 1 .. S + 2 : pos(chain[i]) = i
  BY <1>15, <1>16, Zenon DEF pos
<1> HIDE DEF pos
<1>21. \A x : x \in Range(chain) \ {TAIL} <=> \E i \in 1 .. S + 1 : x = chain[i]
  <2>1. DOMAIN chain = 1 .. S + 2 /\ S + 2 \in 1 .. S + 2
    BY <1>11, <1>15
  <2>2. chain[S + 2] = TAIL
    BY <1>15, Zenon
  <2>3. \A i \in 1 .. S + 2 : i \in 1 .. S + 1 <=> i # S + 2
    BY <1>11
  <2>4. \A i \in 1 .. S + 1 : i \in 1 .. S + 2
    BY <1>11
  <2>5. ASSUME NEW x, x \in Range(chain) \ {TAIL} PROVE \E i \in 1 .. S + 1 : x = chain[i]
    <3>1. PICK i \in 1 .. S + 2 : x = chain[i]
      BY <2>1, <2>5, Zenon DEF Range
    <3> QED BY <2>2, <2>3, <2>5, <3>1, Zenon
  <2>6. ASSUME NEW i \in 1 .. S + 1 PROVE chain[i] \in Range(chain) \ {TAIL}
    BY <1>16, <2>1, <2>2, <2>3, <2>4, Zenon DEF Range
  <2> QED BY <2>5, <2>6, Zenon
<1>22. \A x : x \in Range(Tail(chain)) <=> \E i \in 1 .. S + 1 : x = chain[i + 1]
  <2>1. DOMAIN Tail(chain) = 1 .. S + 1 /\ \A i \in 1 .. S + 1 : Tail(chain)[i] = chain[i + 1]
    BY <1>11, <1>15
  <2> QED BY <2>1, Zenon DEF Range
<1>23. ASSUME NEW i \in 1 .. S + 1 PROVE M[chain[i]] = chain[i + 1] /\ Q[chain[i + 1]] = chain[i]
  <2>1. i \in 1 .. S + 2 /\ i + 1 \in 1 .. S + 2 /\ i + 1 - 1 = i
    BY <1>11
  <2>2. chain[i] \in Node /\ chain[i + 1] \in Node
    BY <1>11, <1>15, <2>1
  <2>3. chain[i] \in Range(chain) \ {TAIL} /\ chain[i + 1] \in Range(Tail(chain))
    BY <1>21, <1>22, Zenon
  <2> QED BY <1>17, <1>20, <2>1, <2>2, <2>3
<1>24. M \in [Node -> Node \cup {None}]
  <2> SUFFICES ASSUME NEW x \in Node PROVE M[x] \in Node \cup {None}
    BY <1>20, Zenon
  <2>1. CASE x \in Range(chain) \ {TAIL}
    <3>1. PICK i \in 1 .. S + 1 : x = chain[i]
      BY <1>21, <2>1, Zenon
    <3>2. i + 1 \in 1 .. S + 2
      BY <1>11
    <3>3. M[x] = chain[i + 1] /\ chain[i + 1] \in Node
      BY <1>11, <1>15, <1>23, <3>1, <3>2
    <3> QED BY <3>3, Zenon
  <2>2. CASE x \notin Range(chain) \ {TAIL}
    BY <1>9, <1>20, <2>2, Zenon
  <2> QED BY <2>1, <2>2, Zenon
<1>25. Q \in [Node -> Node \cup {None}]
  <2> SUFFICES ASSUME NEW x \in Node PROVE Q[x] \in Node \cup {None}
    BY <1>20, Zenon
  <2>1. CASE x \in Range(Tail(chain))
    <3>1. PICK i \in 1 .. S + 1 : x = chain[i + 1]
      BY <1>22, <2>1, Zenon
    <3>2. i \in 1 .. S + 2
      BY <1>11
    <3>3. Q[x] = chain[i] /\ chain[i] \in Node
      BY <1>11, <1>15, <1>23, <3>1, <3>2
    <3> QED BY <3>3, Zenon
  <2>2. CASE x \notin Range(Tail(chain))
    BY <1>9, <1>20, <2>2, Zenon
  <2> QED BY <2>1, <2>2, Zenon
<1>26. ASSUME NEW i \in 0 .. Len(s) PROVE
         /\ i + 1 \in 1 .. S + 1
         /\ chain[i + 1] = At(r, Len(q) + i) /\ chain[i + 1 + 1] = At(r, Len(q) + i + 1)
  <2>1. /\ i + 1 \in 1 .. S + 1 /\ i + 1 \in 1 .. S + 2 /\ i + 1 + 1 \in 1 .. S + 2
        /\ L + (i + 1 - 1) = L + i /\ L + (i + 1 + 1 - 1) = L + i + 1
    BY <1>9, <1>10, <1>11
  <2> QED BY <1>8, <1>15, <2>1
<1>27. \A i \in 0 .. Len(s) : /\ M[At(r, Len(q) + i)] = At(r, Len(q) + i + 1)
                              /\ Q[At(r, Len(q) + i + 1)] = At(r, Len(q) + i)
  BY <1>23, <1>26, Zenon
<1>28. ASSUME NEW i \in 1 .. S + 1 PROVE
         \E j \in 0 .. Len(s) : chain[i] = At(r, Len(q) + j) /\ chain[i + 1] = At(r, Len(q) + j + 1)
  <2>1. i - 1 \in 0 .. Len(s) /\ i - 1 + 1 = i
    BY <1>10, <1>11
  <2>2. chain[i] = At(r, Len(q) + (i - 1)) /\ chain[i + 1] = At(r, Len(q) + (i - 1) + 1)
    BY <1>26, <2>1, Zenon
  <2> QED BY <2>1, <2>2, Zenon
<1>29. ASSUME NEW x \in Node, \A i \in 0 .. Len(s) : x # At(r, Len(q) + i) PROVE M[x] = N[x]
  <2>1. x \notin Range(chain) \ {TAIL}
    <3> SUFFICES ASSUME x \in Range(chain) \ {TAIL} PROVE FALSE
      BY Zenon
    <3>1. PICK i \in 1 .. S + 1 : x = chain[i]
      BY <1>21, Zenon
    <3>2. PICK j \in 0 .. Len(s) : chain[i] = At(r, Len(q) + j)
      BY <1>28, Zenon
    <3> QED BY <1>29, <3>1, <3>2, Zenon
  <2> QED BY <1>20, <2>1, Zenon
<1>30. ASSUME NEW x \in Node, \A i \in 0 .. Len(s) : x # At(r, Len(q) + i + 1) PROVE Q[x] = P[x]
  <2>1. x \notin Range(Tail(chain))
    <3> SUFFICES ASSUME x \in Range(Tail(chain)) PROVE FALSE
      BY Zenon
    <3>1. PICK i \in 1 .. S + 1 : x = chain[i + 1]
      BY <1>22, Zenon
    <3>2. PICK j \in 0 .. Len(s) : chain[i + 1] = At(r, Len(q) + j + 1)
      BY <1>28, Zenon
    <3> QED BY <1>30, <3>1, <3>2, Zenon
  <2> QED BY <1>20, <2>1, Zenon
<1>31. IsQueue(M, Q, num_free_blocks + Len(s), r)
  <2>1. \A j \in 1 .. Len(s) : ~In(s[j], q)
    BY <1>5, Zenon
  <2>2. \A x \in Node : (\A i \in 0 .. Len(s) : x # At(r, Len(q) + i)) => M[x] = N[x]
    BY <1>29, Zenon
  <2>3. \A x \in Node : (\A i \in 0 .. Len(s) : x # At(r, Len(q) + i + 1)) => Q[x] = P[x]
    BY <1>30, Zenon
  <2>4. Spliced(N, P, M, Q, q, s, r)
    BY <1>24, <1>25, <1>27, <2>2, <2>3, Zenon DEF Spliced
  <2> QED BY <1>3, <1>4, <1>7, <2>1, <2>4, AppendLinks, Zenon
<1>32. Holds(q \o s)'
  BY <1>7, <1>18, <1>19, <1>20, <1>31, Zenon DEF Holds
<1> QED BY <1>4, <1>5, <1>20, <1>32, Zenon

-----------------------------------------------------------------------------
(* The invariant, the agreement of the links and the refinement.            *)

QueueInv == \E q : Holds(q)

LEMMA InitHolds ==
    ASSUME NumBlocks \in Nat, Init
    PROVE  Holds([i \in 1 .. NumBlocks |-> i])
<1>1. PICK q : q = [i \in 1 .. NumBlocks |-> i]
  BY Zenon
<1>2. q \in Seq(Block) /\ Len(q) = NumBlocks /\ \A i \in 1 .. NumBlocks : q[i] = i
  BY <1>1 DEF Block
<1>3. Distinct(q)
  BY <1>2, Zenon DEF Distinct
<1>4. HEAD = 0 /\ TAIL = NumBlocks + 1 /\ None = -1 /\ Node = 0 .. NumBlocks + 1
  BY Zenon DEF HEAD, TAIL, None, Node
<1>5. \A i \in 0 .. NumBlocks + 1 : At(q, i) = i
  BY <1>2, <1>4 DEF At
<1>6. PICK N : N = next_free_block
  BY Zenon
<1>7. PICK P : P = prev_free_block
  BY Zenon
<1>8. /\ N = [x \in Node |-> IF x = TAIL THEN None ELSE x + 1]
      /\ P = [x \in Node |-> x - 1]
      /\ num_free_blocks = NumBlocks
  BY <1>6, <1>7, Zenon DEF Init
<1>9. N \in [Node -> Node \cup {None}] /\ P \in [Node -> Node \cup {None}]
  BY <1>4, <1>8
<1>10. ASSUME NEW i \in 0 .. Len(q) PROVE N[At(q, i)] = At(q, i + 1) /\ P[At(q, i + 1)] = At(q, i)
  <2>1. i \in 0 .. NumBlocks + 1 /\ i + 1 \in 0 .. NumBlocks + 1 /\ i # NumBlocks + 1 /\ i + 1 - 1 = i
    BY <1>2
  <2>2. At(q, i) = i /\ At(q, i + 1) = i + 1
    BY <1>5, <2>1, Zenon
  <2> QED BY <1>4, <1>8, <2>1, <2>2
<1>11. N[TAIL] = None /\ P[HEAD] = None
  BY <1>4, <1>8
<1>12. \A b \in Block : In(b, q)
  BY <1>2, Zenon DEF In, Block
<1>13. Chained(N, q) /\ \A i \in 0 .. Len(q) : P[At(q, i + 1)] = At(q, i)
  BY <1>10, Zenon DEF Chained
<1>14. IsQueue(N, P, num_free_blocks, q)
  BY <1>2, <1>3, <1>8, <1>9, <1>11, <1>12, <1>13, Zenon DEF IsQueue
<1> QED BY <1>1, <1>6, <1>7, <1>14, Zenon DEF Holds

\* What a step does to the queue.
Taken(q, n) == io' = <<"take", SubSeq(q, 1, n)>> /\ Holds(SubSeq(q, n + 1, Len(q)))'
Dropped(q, i) == io' = <<"drop", <<q[i]>>>> /\ Holds(Without(q, i))'
Added(q, s) ==
    /\ Distinct(s) /\ \A j \in 1 .. Len(s) : ~In(s[j], q)
    /\ io' = <<"put", s>> /\ Holds(q \o s)'

LEMMA NextMoves ==
    ASSUME NumBlocks \in Nat, NEW q, Holds(q), Next
    PROVE  \/ \E n \in 1 .. Len(q) : Taken(q, n)
           \/ \E i \in 1 .. Len(q) : Dropped(q, i)
           \/ \E s : Added(q, s)
<1>1. CASE popleft
  BY <1>1, TakeOne, Zenon DEF Taken
<1>2. ASSUME NEW n \in 1 .. NumBlocks, popleft_n(n) PROVE \E m \in 1 .. Len(q) : Taken(q, m)
  BY <1>2, TakeMany, Zenon DEF Taken
<1>3. ASSUME NEW b \in Block, remove(b) PROVE \E i \in 1 .. Len(q) : Dropped(q, i)
  BY <1>3, DropOne, Zenon DEF Dropped
<1>4. ASSUME NEW b \in Outside, append(b) PROVE \E s : Added(q, s)
  BY <1>4, PutOne, Zenon DEF Added
<1>5. ASSUME NEW n \in 1 .. NumBlocks, NEW s \in Injection(1 .. n, Outside), append_n(s) PROVE Added(q, s)
  <2>1. n \in Nat
    OBVIOUS
  <2> QED BY <1>5, <2>1, PutMany, Zenon DEF Added
<1> QED BY <1>1, <1>2, <1>3, <1>4, <1>5, Zenon DEF Next

LEMMA QueueInvNext == NumBlocks \in Nat /\ QueueInv /\ [Next]_vars => QueueInv'
<1> SUFFICES ASSUME NumBlocks \in Nat, QueueInv, [Next]_vars PROVE QueueInv'
  BY Zenon
<1>1. PICK q : Holds(q)
  BY Zenon DEF QueueInv
<1>2. CASE Next
  BY <1>1, <1>2, NextMoves, Zenon DEF Taken, Dropped, Added, QueueInv
<1>3. CASE UNCHANGED vars
  BY <1>1, <1>3, Zenon DEF vars, QueueInv, Holds
<1> QED BY <1>2, <1>3, Zenon

LEMMA QueueAgrees == NumBlocks \in Nat /\ QueueInv => LinksAgree
<1> SUFFICES ASSUME NumBlocks \in Nat, QueueInv PROVE LinksAgree
  BY Zenon
<1>1. PICK q : Holds(q)
  BY Zenon DEF QueueInv
<1>2. PICK N : N = next_free_block
  BY Zenon
<1>3. PICK P : P = prev_free_block
  BY Zenon
<1>4. IsQueue(N, P, num_free_blocks, q)
  BY <1>1, <1>2, <1>3, Zenon DEF Holds
<1>5. /\ Len(q) \in Nat /\ num_free_blocks = Len(q) /\ q \in Seq(Block)
      /\ At(q, 0) = HEAD /\ At(q, Len(q) + 1) = TAIL
      /\ \A i \in 1 .. Len(q) : At(q, i) = q[i]
  BY <1>4, QueueFacts
<1>6. \A i \in 0 .. Len(q) : N[At(q, i)] = At(q, i + 1) /\ P[At(q, i + 1)] = At(q, i)
  BY <1>4, QueueFacts
<1>7. \A b \in Block : ~In(b, q) => N[b] = None /\ P[b] = None
  BY <1>4, QueueFacts
<1>8. \A x \in Node : x = HEAD \/ x = TAIL \/ x \in Block
  BY DEF Node, HEAD, TAIL, Block
<1>9. ASSUME NEW x \in Node \ {TAIL}, N[x] # None PROVE P[N[x]] = x
  <2>1. \E i \in 0 .. Len(q) : x = At(q, i)
    <3>1. CASE x = HEAD
      BY <1>5, <3>1
    <3>2. CASE x \in Block
      <4>1. PICK i \in 1 .. Len(q) : q[i] = x
        BY <1>7, <1>9, <3>2, Zenon DEF In
      <4>2. i \in 0 .. Len(q)
        BY <1>5
      <4> QED BY <1>5, <4>1, <4>2, Zenon
    <3> QED BY <1>8, <3>1, <3>2, Zenon
  <2>2. PICK i \in 0 .. Len(q) : x = At(q, i)
    BY <2>1, Zenon
  <2> QED BY <1>6, <2>2, Zenon
<1>10. ASSUME NEW x \in Node \ {HEAD}, P[x] # None PROVE N[P[x]] = x
  <2>1. \E i \in 0 .. Len(q) : x = At(q, i + 1)
    <3>1. CASE x = TAIL
      BY <1>5, <3>1
    <3>2. CASE x \in Block
      <4>1. PICK i \in 1 .. Len(q) : q[i] = x
        BY <1>7, <1>10, <3>2, Zenon DEF In
      <4>2. i - 1 \in 0 .. Len(q) /\ i - 1 + 1 = i
        BY <1>5
      <4> QED BY <1>5, <4>1, <4>2, Zenon
    <3> QED BY <1>8, <3>1, <3>2, Zenon
  <2>2. PICK i \in 0 .. Len(q) : x = At(q, i + 1)
    BY <2>1, Zenon
  <2> QED BY <1>6, <2>2, Zenon
<1>11. {b \in Block : Linked(b)} = Range(get_all_free_blocks)
  <2>1. get_all_free_blocks = q
    BY <1>1, Content, Zenon
  <2>2. \A x : x \in Range(q) <=> x \in Block /\ In(x, q)
    BY <1>5 DEF Range, In
  <2>3. \A b \in Block : Linked(b) <=> In(b, q)
    BY <1>1, LinkedIsIn, Zenon
  <2> QED BY <2>1, <2>2, <2>3, Zenon
<1>12. num_free_blocks = WalkLength
  BY <1>1, <1>5, Content, Zenon
<1> QED BY <1>2, <1>3, <1>9, <1>10, <1>11, <1>12, Zenon DEF LinksAgree

\* In every reachable state of the queue, with any number of blocks, each link has
\* its converse, the blocks with links are the ones a walk finds, and num_free_blocks
\* is their number.
THEOREM LinksAlwaysAgree == NumBlocks \in Nat => (Spec => []LinksAgree)
<1> SUFFICES ASSUME NumBlocks \in Nat PROVE Spec => []LinksAgree
  BY Zenon
<1>1. Init => QueueInv
  BY InitHolds, Zenon DEF QueueInv
<1>2. QueueInv /\ [Next]_vars => QueueInv'
  BY QueueInvNext, Zenon
<1>3. QueueInv => LinksAgree
  BY QueueAgrees, Zenon
<1> QED BY <1>1, <1>2, <1>3, PTL DEF Spec

LEMMA RefinesInit == NumBlocks \in Nat /\ Init => FreeList!Init
<1> SUFFICES ASSUME NumBlocks \in Nat, Init PROVE FreeList!Init
  BY Zenon
<1>1. PICK q : q = [i \in 1 .. NumBlocks |-> i]
  BY Zenon
<1>2. get_all_free_blocks = q
  BY <1>1, InitHolds, Content, Zenon
<1>3. q \in Seq(Block) /\ DOMAIN q = 1 .. NumBlocks /\ \A i \in 1 .. NumBlocks : q[i] = i
  BY <1>1 DEF Block
<1>4. FreeList!IsInjective(q)
  BY <1>3, Zenon DEF FreeList!IsInjective
<1>5. FreeList!Range(q) = Block
  BY <1>3, Zenon DEF FreeList!Range, Block
<1>6. io = <<"none", <<>>>>
  BY Zenon DEF Init
<1> QED BY <1>2, <1>3, <1>4, <1>5, <1>6, Zenon DEF FreeList!Init

LEMMA RefinesNext == NumBlocks \in Nat /\ QueueInv /\ Next => FreeList!Next
<1> SUFFICES ASSUME NumBlocks \in Nat, QueueInv, Next PROVE FreeList!Next
  BY Zenon
<1>1. PICK q : Holds(q)
  BY Zenon DEF QueueInv
<1>2. get_all_free_blocks = q
  BY <1>1, Content, Zenon
<1>3. q \in Seq(Block)
  BY <1>1, QueueFacts, Zenon DEF Holds
<1>4. ASSUME NEW n \in 1 .. Len(q), Taken(q, n) PROVE FreeList!Next
  <2>1. get_all_free_blocks' = SubSeq(q, n + 1, Len(q)) /\ io' = <<"take", SubSeq(q, 1, n)>>
    BY <1>4, ContentNext, Zenon DEF Taken
  <2>2. FreeList!Take(n)
    BY <1>2, <2>1, Zenon DEF FreeList!Take
  <2>3. io'[1] = "take"
    BY <2>1, Zenon
  <2> QED BY <1>2, <2>2, <2>3, Zenon DEF FreeList!Next
<1>5. ASSUME NEW i \in 1 .. Len(q), Dropped(q, i) PROVE FreeList!Next
  <2>1. get_all_free_blocks' = Without(q, i) /\ io' = <<"drop", <<q[i]>>>>
    BY <1>5, ContentNext, Zenon DEF Dropped
  <2>2. FreeList!Drop(i)
    BY <1>2, <2>1, Zenon DEF FreeList!Drop, Without
  <2>3. io'[1] = "drop"
    BY <2>1, Zenon
  <2> QED BY <1>2, <2>2, <2>3, Zenon DEF FreeList!Next
<1>6. ASSUME NEW s, Added(q, s) PROVE FreeList!Next
  <2>1. get_all_free_blocks' = q \o s /\ io' = <<"put", s>>
    BY <1>6, ContentNext, Zenon DEF Added
  <2>2. Distinct(s) /\ \A j \in 1 .. Len(s) : ~In(s[j], q)
    BY <1>6, Zenon DEF Added
  <2>3. io'[1] = "put" /\ io'[2] = s
    BY <2>1, Zenon
  <2>4. s \in Seq(Block) /\ FreeList!IsInjective(s)
    BY <2>2 DEF Distinct, FreeList!IsInjective
  <2>5. \A j \in 1 .. Len(s) : s[j] \in Block \ FreeList!Range(q)
    BY <1>3, <2>2, <2>4 DEF In, FreeList!Range
  <2>6. s \in Seq(Block \ FreeList!Range(q))
    <3>1. PICK R : R = Block \ FreeList!Range(q)
      BY Zenon
    <3>2. \A j \in 1 .. Len(s) : s[j] \in R
      BY <2>5, <3>1, Zenon
    <3>3. s \in Seq(R)
      BY <2>4, <3>2
    <3> QED BY <3>1, <3>3, Zenon
  <2>7. FreeList!Put(s)
    BY <1>2, <2>1, <2>4, <2>6, Zenon DEF FreeList!Put
  <2> QED BY <2>3, <2>7, Zenon DEF FreeList!Next
<1> QED BY <1>1, <1>4, <1>5, <1>6, NextMoves, Zenon

\* The linked list implements the sequence of free blocks for any number of blocks:
\* popleft and popleft_n return the blocks at the front in their order, remove takes
\* one out of the middle, append and append_n put blocks at the end, and no step
\* changes the order otherwise.
THEOREM QueueImplementsList == NumBlocks \in Nat => (Spec => ImplementsFreeList)
<1> SUFFICES ASSUME NumBlocks \in Nat PROVE Spec => ImplementsFreeList
  BY Zenon
<1>1. Init => QueueInv /\ FreeList!Init
  BY InitHolds, RefinesInit, Zenon DEF QueueInv
<1>2. QueueInv /\ [Next]_vars => QueueInv'
  BY QueueInvNext, Zenon
<1>3. QueueInv /\ [Next]_vars => [FreeList!Next]_<<get_all_free_blocks, io>>
  <2>1. UNCHANGED vars => UNCHANGED <<get_all_free_blocks, io>>
    BY WalkIs, WalkIsNext, Zenon DEF vars
  <2> QED BY <2>1, RefinesNext, Zenon
<1> QED BY <1>1, <1>2, <1>3, PTL DEF Spec, ImplementsFreeList, FreeList!Spec

=============================================================================
