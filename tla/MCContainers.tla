---------------------------- MODULE MCContainers ----------------------------
(***************************************************************************)
(* The containers of the caches, one at a time: the free list of bundles,   *)
(* the queue of free blocks, and the cache of offloaded blocks.             *)
(***************************************************************************)
EXTENDS FreeBlockQueue

CONSTANTS CapacityBundles, Owner, NoOwner, MaxFree, Calls, Capacity, Scale

ASSUME ContainersAssumption ==
    /\ NumBlocks \in Nat
    /\ CapacityBundles \in Nat \ {0} /\ MaxFree \in Nat \ {0}
    /\ NoOwner \notin Owner

VARIABLES _owners, _free_ranges,
          policy, lists, ref, id, fresh, free_list, loads, stores, known,
          used      \* the container that this behaviour uses

Bundles == INSTANCE BundleFreeList
Offload == INSTANCE OffloadCache

bundles == <<_owners, _free_ranges>>
offload == <<policy, lists, ref, id, fresh, free_list, loads, stores, known>>

\* Chains of block hashes: one with its head, and another.
MCCalls == {<<1>>, <<1, 2>>, <<3, 4>>}

AllInit ==
    /\ used \in {"bundles", "blocks", "offload"}
    /\ Init /\ Bundles!Init /\ Offload!Init
    /\ policy = "arc" => used = "offload"

AllNext ==
    \/ used = "bundles" /\ Bundles!Next /\ UNCHANGED <<vars, offload, used>>
    \/ used = "blocks" /\ Next /\ UNCHANGED <<bundles, offload, used>>
    \/ used = "offload" /\ Offload!Next /\ UNCHANGED <<vars, bundles, used>>

AllSpec == AllInit /\ [][AllNext]_<<vars, bundles, offload, used>>

\* The range list of bundles is the maximal runs of the unowned ones
\* (BundleFreeList!ListIsMaximalRuns).
BundleListExact == used = "bundles" => Bundles!ListIsMaximalRuns

\* The loops of allocate compute the set operators
\* (BundleFreeList!AllocateAgrees).
BundlesAllocateAgrees == used = "bundles" => Bundles!AllocateAgrees

\* allocate breaks a request up only when it must, and takes the tightest run
\* (BundleFreeList!ContiguousWhenPossible).
ContiguousWhenPossible == Bundles!ContiguousWhenPossible

\* No block of the offloading backend is lost or handed out twice
\* (OffloadCache!BlocksConserved).
OffloadBlocksConserved == Offload!BlocksConserved

\* Eviction takes no block that a load or a store under way uses
\* (OffloadCache!TransfersKeepBlocks).
OffloadTransfersKeepBlocks == Offload!TransfersKeepBlocks

\* The events of the LRU manager tell what can be loaded
\* (OffloadCache!EventsTellContents).
OffloadEventsTellContents == Offload!EventsTellContents
=============================================================================
