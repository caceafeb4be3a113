---------------------------- MODULE BundleRanges ----------------------------
(***************************************************************************)
(* The free list of DSASharedBundleAllocator (dsa_shared_pool.py) as a set  *)
(* of ranges <<start, end>>, and what allocate and free do to it.  The list *)
(* of the code is sorted, so the set determines it; BundleFreeList has the  *)
(* loops over the list and shows that they compute these operators.         *)
(***************************************************************************)
EXTENDS Integers, FiniteSets

\* The bundles a free list holds.
FreeBundles(fr) == UNION {r[1]..r[2] : r \in fr}

free_bundle_count(fr) == Cardinality(FreeBundles(fr))

Len1(r) == r[2] - r[1] + 1

Fitting(fr, n) == {r \in fr : Len1(r) >= n}

\* The shortest range with room for n bundles, the first of them in a tie.
BestRange(fr, n) ==
    CHOOSE r \in Fitting(fr, n) :
        \A q \in Fitting(fr, n) : \/ Len1(r) < Len1(q)
                                  \/ Len1(r) = Len1(q) /\ r[1] <= q[1]

\* When no range has room, ranges are emptied from the front of the list: the
\* n lowest free bundles, the last of which is GatherEnd.
GatherEnd(fr, n) ==
    CHOOSE c \in FreeBundles(fr) :
        Cardinality({b \in FreeBundles(fr) : b <= c}) = n

\* What allocate(n) hands out, and the free list it leaves.
Taken(fr, n) ==
    IF n = 0 THEN {}
    ELSE IF Fitting(fr, n) # {}
    THEN LET r == BestRange(fr, n) IN r[1]..(r[1] + n - 1)
    ELSE {b \in FreeBundles(fr) : b <= GatherEnd(fr, n)}

Trim(fr, c) ==
    {<<IF r[1] > c THEN r[1] ELSE c + 1, r[2]>> : r \in {q \in fr : q[2] > c}}

\* Mutant: what is left of the best range still holds the last bundle chosen.
take_OffByOne(fr, n) ==
    IF n = 0 THEN fr
    ELSE IF Fitting(fr, n) # {}
    THEN LET r == BestRange(fr, n)
         IN  (fr \ {r}) \cup {<<r[1] + n - 1, r[2]>>}
    ELSE Trim(fr, GatherEnd(fr, n))

\* Mutant: a range that was used up stays in the list.
take_KeepsEmpty(fr, n) ==
    IF n = 0 THEN fr
    ELSE IF Fitting(fr, n) # {}
    THEN LET r == BestRange(fr, n)
         IN  (fr \ {r}) \cup {<<r[1] + n, r[2]>>}
    ELSE Trim(fr, GatherEnd(fr, n))

take(fr, n) ==
    IF n = 0 THEN fr
    ELSE IF Fitting(fr, n) # {}
    THEN LET r == BestRange(fr, n)
         IN  (fr \ {r}) \cup (IF r[1] + n <= r[2] THEN {<<r[1] + n, r[2]>>} ELSE {})
    ELSE Trim(fr, GatherEnd(fr, n))

\* Every returned bundle is appended and the sorted list is merged: what is
\* left are the maximal runs of free bundles.
MaximalRuns(S) ==
    {r \in S \X S : /\ r[1] <= r[2]
                    /\ r[1]..r[2] \subseteq S
                    /\ r[1] - 1 \notin S
                    /\ r[2] + 1 \notin S}

\* Mutant: a returned bundle is appended and never merged.
give_back_Unmerged(fr, S) == fr \cup {<<b, b>> : b \in S}

give_back(fr, S) == IF S = {} THEN fr ELSE MaximalRuns(FreeBundles(fr) \cup S)
=============================================================================
