--------------------------- MODULE BundleFreeList ---------------------------
(***************************************************************************)
(* DSASharedBundleAllocator (dsa_shared_pool.py) with the free list the     *)
(* code keeps: a sorted list of ranges, searched for the best fit, emptied  *)
(* from the front when no range has room, re-sorted and merged on every     *)
(* returned bundle.                                                         *)
(***************************************************************************)
EXTENDS BundleRanges, Sequences, SequencesExt

CONSTANTS CapacityBundles,   \* layout.capacity_bundles, at least 1
          Owner,             \* DSASharedBlockOwner
          NoOwner,           \* not in Owner
          MaxFree            \* bound: the bundles of one call of free, at least 1

Bundle == 1..CapacityBundles

VARIABLES _owners,       \* NoOwner for a bundle that is not in the dict
          _free_ranges   \* the list of <<start, end>>

vars == <<_owners, _free_ranges>>

-----------------------------------------------------------------------------

\* Mutant: the longest range with room, not the shortest.
best_idx_Worst(l, n) ==
    FoldLeft(LAMBDA best, i :
                IF Len1(l[i]) >= n /\ (best = 0 \/ Len1(l[i]) > Len1(l[best]))
                THEN i ELSE best,
             0, [i \in 1..Len(l) |-> i])

\* The index of the first shortest range of l with room for n, 0 for none.
best_idx(l, n) ==
    FoldLeft(LAMBDA best, i :
                IF Len1(l[i]) >= n /\ (best = 0 \/ Len1(l[i]) < Len1(l[best]))
                THEN i ELSE best,
             0, [i \in 1..Len(l) |-> i])

\* The range at idx gives its first n bundles and is deleted when it is empty.
_take_from_best_contiguous_range(l, n) ==
    LET idx   == best_idx(l, n)
        start == l[idx][1]
        end   == l[idx][2]
    IN  [chosen |-> start..(start + n - 1),
         left   |-> IF start + n <= end THEN [l EXCEPT ![idx] = <<start + n, end>>]
                                        ELSE RemoveAt(l, idx)]

\* Mutant: the last range that is popped is lost, not put back.
gather_DropsRest(l, n) ==
    FoldLeft(LAMBDA acc, r :
                LET need == n - Cardinality(acc.chosen)
                    k    == Min({need, Len1(r)})
                IN  [chosen |-> acc.chosen \cup r[1]..(r[1] + k - 1),
                     left   |-> IF need = 0 THEN Append(acc.left, r) ELSE acc.left],
             [chosen |-> {}, left |-> <<>>], l)

\* Ranges are popped from the front until n bundles are chosen; what is left of
\* the last one is put back at the front.
gather(l, n) ==
    FoldLeft(LAMBDA acc, r :
                LET need == n - Cardinality(acc.chosen)
                    k    == Min({need, Len1(r)})
                IN  [chosen |-> acc.chosen \cup r[1]..(r[1] + k - 1),
                     left   |-> IF r[1] + k <= r[2]
                                THEN Append(acc.left, <<r[1] + k, r[2]>>)
                                ELSE acc.left],
             [chosen |-> {}, left |-> <<>>], l)

allocate_from(l, n) ==
    IF n = 0 THEN [chosen |-> {}, left |-> l]
    ELSE IF best_idx(l, n) # 0 THEN _take_from_best_contiguous_range(l, n)
    ELSE gather(l, n)

\* Mutant: a range that only touches the previous one is not merged.
_insert_free_bundle_OverlapOnly(l, b) ==
    LET sorted == SortSeq(Append(l, <<b, b>>),
                          LAMBDA r, q : r[1] < q[1] \/ (r[1] = q[1] /\ r[2] < q[2]))
    IN  FoldLeft(LAMBDA merged, r :
                    IF merged = <<>> \/ r[1] > Last(merged)[2]
                    THEN Append(merged, r)
                    ELSE [merged EXCEPT ![Len(merged)][2] = Max({@, r[2]})],
                 <<>>, sorted)

\* Append, sort, and merge every range into the previous one that it touches.
_insert_free_bundle(l, b) ==
    LET sorted == SortSeq(Append(l, <<b, b>>),
                          LAMBDA r, q : r[1] < q[1] \/ (r[1] = q[1] /\ r[2] < q[2]))
    IN  FoldLeft(LAMBDA merged, r :
                    IF merged = <<>> \/ r[1] > Last(merged)[2] + 1
                    THEN Append(merged, r)
                    ELSE [merged EXCEPT ![Len(merged)][2] = Max({@, r[2]})],
                 <<>>, sorted)

-----------------------------------------------------------------------------

Init ==
    /\ _owners = [b \in Bundle |-> NoOwner]
    /\ _free_ranges = <<<<1, CapacityBundles>>>>

\* A call for more bundles than are free raises and changes nothing.
allocate(o, n) ==
    LET a == allocate_from(_free_ranges, n)
    IN  /\ n <= free_bundle_count(ToSet(_free_ranges))
        /\ _owners' = [b \in Bundle |-> IF b \in a.chosen THEN o ELSE _owners[b]]
        /\ _free_ranges' = a.left

\* ids comes in the iteration order of a Python set, so in any order; a call
\* with a bundle o does not own, or one listed twice, raises.
free(o, ids) ==
    /\ IsInjective(ids)
    /\ \A b \in ToSet(ids) : _owners[b] = o
    /\ _owners' = [b \in Bundle |-> IF b \in ToSet(ids) THEN NoOwner ELSE _owners[b]]
    /\ _free_ranges' = FoldLeft(_insert_free_bundle, _free_ranges, ids)

Next ==
    \E o \in Owner :
        \/ \E n \in 1..CapacityBundles : allocate(o, n)
        \/ \E ids \in BoundedSeq(Bundle, MaxFree) : free(o, ids)

Spec == Init /\ [][Next]_vars

-----------------------------------------------------------------------------

Unowned == {b \in Bundle : _owners[b] = NoOwner}

TypeOK ==
    /\ _owners \in [Bundle -> Owner \cup {NoOwner}]
    /\ _free_ranges \in Seq(Bundle \X Bundle)

\* The free list is the maximal runs of the unowned bundles in ascending order:
\* the sort and the merge loop of _insert_free_bundle leave no bundle out, none
\* twice, and no two ranges that touch.
ListIsMaximalRuns ==
    /\ \A i \in 1..(Len(_free_ranges) - 1) : _free_ranges[i][1] < _free_ranges[i + 1][1]
    /\ ToSet(_free_ranges) = MaximalRuns(Unowned)

\* The search and the gather loop of allocate hand out and leave what the set
\* operators say that DSASharedPool is built on and its proofs are about.
AllocateAgrees ==
    \A n \in 0..Cardinality(Unowned) :
        LET fr == ToSet(_free_ranges)
            a  == allocate_from(_free_ranges, n)
        IN  a.chosen = Taken(fr, n) /\ ToSet(a.left) = take(fr, n)

Interval(S) == \A a, b \in S : a..b \subseteq S

\* allocate breaks a request up only when it must: if some run of unowned
\* bundles had room for it, the bundles handed out are contiguous, and no run
\* with room is shorter than the one they came from.
ContiguousWhenPossible ==
    [][LET new == {b \in Unowned : _owners'[b] # NoOwner}
           room == {r \in MaximalRuns(Unowned) : Len1(r) >= Cardinality(new)}
       IN  new = {} \/ room = {}
           \/ /\ Interval(new)
              /\ \E r \in room : /\ new \subseteq r[1]..r[2]
                                 /\ \A q \in room : Len1(r) <= Len1(q)]_vars
=============================================================================
