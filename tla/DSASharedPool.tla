---------------------------- MODULE DSASharedPool ----------------------------
(***************************************************************************)
(* The DSA shared bundle pool of vllm/v1/core: the block-id layout and the  *)
(* bundle allocator of dsa_shared_pool.py and the two logical block pools   *)
(* (DSASharedLogicalBlockPool) of block_pool.py that share the allocator.   *)
(*                                                                          *)
(* A bundle is a piece of device memory that holds either LatentPerBundle   *)
(* latent blocks or NopePages + PePages indexer blocks.  The state is the   *)
(* allocator's owner map and free list and the reference count of every     *)
(* logical block of both groups.                                            *)
(***************************************************************************)
EXTENDS BundleRanges, Integers, FiniteSets, Sequences

CONSTANTS CapacityBundles,   \* layout.capacity_bundles
          LatentPerBundle,   \* layout.latent_blocks_per_bundle
          NopePages,         \* layout.nope_pages_per_bundle
          PePages            \* layout.pe_pages_per_bundle

\* __post_init__ refuses sizes that are not positive.
ASSUME LayoutAssumption ==
    /\ CapacityBundles \in Nat \ {0}
    /\ LatentPerBundle \in Nat \ {0}
    /\ NopePages \in Nat \ {0}
    /\ PePages \in Nat \ {0}

-----------------------------------------------------------------------------
(* DSASharedBlockLayout: bundle slot 0 is reserved, so that block id 0 can  *)
(* pad the block tables.                                                    *)

Owner == {"latent", "indexer"}
NoOwner == "none"
Bundle == 1..CapacityBundles

slot_count == CapacityBundles + 1

blocks_per_bundle(o) ==
    IF o = "latent" THEN LatentPerBundle ELSE NopePages + PePages

row_count(o) == slot_count * blocks_per_bundle(o)

\* The rows of a group's KV tensor; row 0 is the null block of its pool.
BlockId(o) == 0..(row_count(o) - 1)

\* The ids of the blocks of a bundle, in the order the pool hands them out.
\* The indexer keeps its nope pages in one slab and its pe pages in a second.
block_ids_for_bundle(o, b) ==
    IF o = "latent"
    THEN [i \in 1..LatentPerBundle |-> b * LatentPerBundle + (i - 1)]
    ELSE [i \in 1..(NopePages + PePages) |->
             IF i <= NopePages
             THEN b * NopePages + (i - 1)
             ELSE slot_count * NopePages + b * PePages + (i - NopePages - 1)]

bundle_id_for_block(o, id) ==
    IF o = "latent" THEN id \div LatentPerBundle
    ELSE IF id < slot_count * NopePages THEN id \div NopePages
    ELSE (id - slot_count * NopePages) \div PePages

BlocksOf(o, b) == {block_ids_for_bundle(o, b)[i] : i \in 1..blocks_per_bundle(o)}

bundle_count_for_blocks(o, n) == (n + blocks_per_bundle(o) - 1) \div blocks_per_bundle(o)

-----------------------------------------------------------------------------
(* The two DSASharedLogicalBlockPool objects over the one allocator.        *)

VARIABLES owners,        \* allocator._owners, NoOwner for a bundle not in it
          free_ranges,   \* allocator._free_ranges
          ref_cnt        \* ref_cnt[o][id]: pool o's blocks[id].ref_cnt

vars == <<owners, free_ranges, ref_cnt>>

get_num_free_blocks(o) == free_bundle_count(free_ranges) * blocks_per_bundle(o)

Init ==
    /\ owners = [b \in Bundle |-> NoOwner]
    /\ free_ranges = {<<1, CapacityBundles>>}
    /\ ref_cnt = [o \in Owner |-> [id \in BlockId(o) |-> 0]]

\* get_new_blocks(n) allocates whole bundles and returns all their blocks, the
\* ones beyond n included.  A call for more than is free raises and changes
\* nothing.
get_new_blocks(o, n) ==
    LET k      == bundle_count_for_blocks(o, n)
        chosen == Taken(free_ranges, k)
        ids    == UNION {BlocksOf(o, b) : b \in chosen}
    IN  /\ n <= get_num_free_blocks(o)
        /\ owners' = [b \in Bundle |-> IF b \in chosen THEN o ELSE owners[b]]
        /\ free_ranges' = take(free_ranges, k)
        /\ ref_cnt' = [ref_cnt EXCEPT ![o] =
                         [id \in BlockId(o) |-> IF id \in ids THEN 1 ELSE @[id]]]

\* Mutant: a bundle is returned as soon as one of its blocks is unreferenced.
free_blocks_AnyBlock(o, S) ==
    LET left     == [id \in BlockId(o) |->
                        IF id \in S THEN ref_cnt[o][id] - 1 ELSE ref_cnt[o][id]]
        affected == {bundle_id_for_block(o, id) : id \in S}
        empty    == {b \in affected : \E id \in BlocksOf(o, b) : left[id] = 0}
    IN  /\ ref_cnt' = [ref_cnt EXCEPT ![o] = left]
        /\ owners' = [b \in Bundle |-> IF b \in empty THEN NoOwner ELSE owners[b]]
        /\ free_ranges' = give_back(free_ranges, empty)

\* Mutant: a bundle is returned only when one call frees all its blocks.
free_blocks_OneCall(o, S) ==
    LET left     == [id \in BlockId(o) |->
                        IF id \in S THEN ref_cnt[o][id] - 1 ELSE ref_cnt[o][id]]
        affected == {bundle_id_for_block(o, id) : id \in S}
        empty    == {b \in affected : BlocksOf(o, b) \subseteq S}
    IN  /\ ref_cnt' = [ref_cnt EXCEPT ![o] = left]
        /\ owners' = [b \in Bundle |-> IF b \in empty THEN NoOwner ELSE owners[b]]
        /\ free_ranges' = give_back(free_ranges, empty)

\* free_blocks drops one reference of every block of S and returns the bundles
\* all of whose blocks are then unreferenced.
free_blocks(o, S) ==
    LET left     == [id \in BlockId(o) |->
                        IF id \in S THEN ref_cnt[o][id] - 1 ELSE ref_cnt[o][id]]
        affected == {bundle_id_for_block(o, id) : id \in S}
        empty    == {b \in affected : \A id \in BlocksOf(o, b) : left[id] = 0}
    IN  /\ ref_cnt' = [ref_cnt EXCEPT ![o] = left]
        /\ owners' = [b \in Bundle |-> IF b \in empty THEN NoOwner ELSE owners[b]]
        /\ free_ranges' = give_back(free_ranges, empty)

\* The clients free blocks of their tables, each of which they were given.
Live(o) == {id \in BlockId(o) : ref_cnt[o][id] > 0}

Next ==
    \E o \in Owner :
        \/ \E n \in 1..row_count(o) : get_new_blocks(o, n)
        \/ \E S \in (SUBSET Live(o)) \ {{}} : free_blocks(o, S)

Spec == Init /\ [][Next]_vars

-----------------------------------------------------------------------------

\* The variables have the types the constructors give them; a block of the
\* shared pool has at most one reference, because nothing touches it twice.
TypeOK ==
    /\ owners \in [Bundle -> Owner \cup {NoOwner}]
    /\ free_ranges \subseteq Bundle \X Bundle
    /\ ref_cnt \in [Owner -> UNION {[BlockId(o) -> {0, 1}] : o \in Owner}]
    /\ \A o \in Owner : ref_cnt[o] \in [BlockId(o) -> {0, 1}]

\* The free list holds exactly the bundles without an owner, as maximal runs:
\* allocate and free keep _free_ranges and _owners in step, and no two ranges
\* of the list touch (best-fit would miss room that is there).
FreeListExact ==
    /\ FreeBundles(free_ranges) = {b \in Bundle : owners[b] = NoOwner}
    /\ free_ranges = MaximalRuns(FreeBundles(free_ranges))

\* A bundle is owned by a group exactly while one of its blocks in that group
\* is referenced: free_blocks neither keeps a bundle whose last block went in
\* an earlier call nor returns one that still has a live block.
OwnedIffReferenced ==
    \A b \in Bundle, o \in Owner :
        owners[b] = o <=> \E id \in BlocksOf(o, b) : ref_cnt[o][id] > 0

\* No memory is used as latent and as indexer rows at once: of two live blocks
\* of different groups, the bundles behind them differ.
NoAliasing ==
    \A i \in Live("latent"), j \in Live("indexer") :
        bundle_id_for_block("latent", i) # bundle_id_for_block("indexer", j)

Pool == INSTANCE BundlePool

\* The shared pool implements BundlePool: get_new_blocks and free_blocks move a
\* bundle from one group to the other only through the free list.
ImplementsBundlePool == Pool!Spec
=============================================================================
