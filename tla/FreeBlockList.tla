---------------------------- MODULE FreeBlockList ----------------------------
(***************************************************************************)
(* What FreeKVCacheBlockQueue (kv_cache_utils.py) promises: the free blocks *)
(* in eviction order.  Blocks leave at the front or from the middle, and    *)
(* come back at the end in the order they are given.  io is the last call   *)
(* with the blocks it returned or was given.                                *)
(***************************************************************************)
EXTENDS Naturals, Sequences, Functions

CONSTANT Block

VARIABLES free, io

Init ==
    /\ free \in Seq(Block) /\ IsInjective(free) /\ Range(free) = Block
    /\ io = <<"none", <<>>>>

\* The name of the call tells the cases apart, so it comes first.
Take(n) ==
    /\ io' = <<"take", SubSeq(free, 1, n)>>
    /\ free' = SubSeq(free, n + 1, Len(free))

Drop(i) ==
    /\ io' = <<"drop", <<free[i]>>>>
    /\ free' = SubSeq(free, 1, i - 1) \o SubSeq(free, i + 1, Len(free))

Put(s) ==
    /\ s \in Seq(Block \ Range(free)) /\ IsInjective(s)
    /\ io' = <<"put", s>>
    /\ free' = free \o s

Next ==
    \/ io'[1] = "take" /\ \E n \in 1..Len(free) : Take(n)
    \/ io'[1] = "drop" /\ \E i \in 1..Len(free) : Drop(i)
    \/ io'[1] = "put" /\ Put(io'[2])

Spec == Init /\ [][Next]_<<free, io>>
=============================================================================
