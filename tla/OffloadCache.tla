---------------------------- MODULE OffloadCache ----------------------------
(***************************************************************************)
(* The managers of offloaded KV blocks (v1/kv_offload): the LRU and the ARC *)
(* manager, each over the CPU backend.  Callers announce a transfer before *)
(* it starts (prepare_load, prepare_store) and when it is over; in between *)
(* its blocks must stay where they are.                                    *)
(*                                                                         *)
(* The LRU manager's dictionary is t1; t2, b1, b2 and target are ARC's.    *)
(* target_t1_size is a fraction and is kept in units of 1/Scale.           *)
(***************************************************************************)
EXTENDS Integers, Sequences, FiniteSets, SequencesExt

CONSTANTS
    Calls,        \* the sequences of block hashes that callers pass
    Capacity,     \* num_blocks of the backend
    Scale         \* a common multiple of the lengths that ghost lists reach

VARIABLES
    policy,       \* the manager: "lru" or "arc"
    lists,        \* t1, t2, b1, b2: hashes, least recently used first; target
    ref,          \* ref_cnt of each cached block, -1 while it is being stored
    id,           \* block_id of each cached block
    fresh,        \* num_allocated_blocks
    free_list,    \* allocated_blocks_free_list
    loads,        \* callers: loads under way
    stores,       \* callers: stores under way
    known         \* what the events so far have announced as stored

cache == <<policy, lists, ref, id, fresh, free_list, loads, stores, known>>

Cached == DOMAIN ref
Without(seq, h) == SelectSeq(seq, LAMBDA x : x # h)
MoveToEnd(seq, h) == Append(Without(seq, h), h)

Init ==
    /\ policy \in {"lru", "arc"}
    /\ lists = [t1 |-> <<>>, t2 |-> <<>>, b1 |-> <<>>, b2 |-> <<>>, target |-> 0]
    /\ ref = <<>> /\ id = <<>> /\ fresh = 0 /\ free_list = <<>>
    /\ loads = {} /\ stores = {} /\ known = {}

get_num_free_blocks == Len(free_list) + Capacity - fresh

-----------------------------------------------------------------------------

\* Every block that lookup counts is ready.
lookup(hs) == \A i \in DOMAIN hs : hs[i] \in Cached /\ ref[hs[i]] >= 0

prepare_load(hs) ==
    /\ hs \notin loads /\ lookup(hs)
    /\ ref' = [h \in Cached |-> IF h \in Range(hs) THEN ref[h] + 1 ELSE ref[h]]
    /\ loads' = loads \cup {hs}
    /\ UNCHANGED <<policy, lists, id, fresh, free_list, stores, known>>

complete_load(hs) ==
    /\ hs \in loads
    /\ ref' = [h \in Cached |-> IF h \in Range(hs) THEN ref[h] - 1 ELSE ref[h]]
    /\ loads' = loads \ {hs}
    /\ UNCHANGED <<policy, lists, id, fresh, free_list, stores, known>>

\* delta of a hit in one ghost list, given the lengths of the other and of it.
delta(other, own) == IF other > own THEN (Scale * other) \div own ELSE Scale

touch_lru(c, h) == IF Contains(c.t1, h) THEN [c EXCEPT !.t1 = MoveToEnd(@, h)] ELSE c

touch_arc(c, h) ==
    CASE Contains(c.t1, h) /\ ref[h] < 0 -> [c EXCEPT !.t1 = MoveToEnd(@, h)]
      [] Contains(c.t1, h) /\ ref[h] >= 0 -> [c EXCEPT !.t1 = Without(@, h), !.t2 = Append(@, h)]
      [] Contains(c.t2, h) -> [c EXCEPT !.t2 = MoveToEnd(@, h)]
      [] Contains(c.b1, h) ->
            [c EXCEPT !.b1 = MoveToEnd(@, h),
                      !.target = Min({@ + delta(Len(c.b2), Len(c.b1)), Scale * Capacity})]
      [] Contains(c.b2, h) ->
            [c EXCEPT !.b2 = MoveToEnd(@, h),
                      !.target = Max({@ - delta(Len(c.b1), Len(c.b2)), 0})]
      [] OTHER -> c

touch(hs) ==
    /\ lists' = FoldLeft(LAMBDA c, h : IF policy = "lru" THEN touch_lru(c, h) ELSE touch_arc(c, h),
                         lists, Reverse(hs))
    /\ UNCHANGED <<policy, ref, id, fresh, free_list, loads, stores, known>>

-----------------------------------------------------------------------------

\* Mutant: only loads protect a block.
evictable_Unready(h, protected) == ref[h] <= 0 /\ h \notin protected

\* A block may go if no transfer uses it and the call does not name it.
evictable(h, protected) == ref[h] = 0 /\ h \notin protected

\* What an eviction has come to: the lists, what was evicted, and whether the
\* manager gave up.
Nothing == [lists |-> lists, evicted |-> <<>>, failed |-> FALSE]

\* Mutant: blocks are evicted while the loop finds them, not after it.
evict_lru_AsFound(n, protected) ==
    LET may == SelectSeq(lists.t1, LAMBDA h : evictable(h, protected))
        found == SubSeq(may, 1, Min({n, Len(may)}))
    IN  [failed |-> Len(may) < n, evicted |-> found,
         lists |-> [lists EXCEPT !.t1 = SelectSeq(@, LAMBDA h : ~Contains(found, h))]]

\* All or nothing: the blocks to evict are collected before one is evicted.
evict_lru(n, protected) ==
    LET may == SelectSeq(lists.t1, LAMBDA h : evictable(h, protected)) IN
    IF Len(may) < n THEN [Nothing EXCEPT !.failed = TRUE]
    ELSE [Nothing EXCEPT !.evicted = SubSeq(may, 1, n),
                         !.lists.t1 = SelectSeq(@, LAMBDA h : ~Contains(SubSeq(may, 1, n), h))]

\* One round of the ARC manager's loop.  Giving up keeps the earlier rounds.
EvictOne(c, protected) ==
    LET l == c.lists
        from1 == IF Len(l.t1) >= l.target \div Scale
                 THEN SelectSeq(l.t1, LAMBDA h : evictable(h, protected)) ELSE <<>>
        from2 == SelectSeq(l.t2, LAMBDA h : evictable(h, protected))
    IN  CASE c.failed \/ from1 \o from2 = <<>> -> [c EXCEPT !.failed = TRUE]
          [] ~c.failed /\ from1 # <<>> ->
                [c EXCEPT !.evicted = Append(@, from1[1]),
                          !.lists.t1 = Without(@, from1[1]), !.lists.b1 = Append(@, from1[1])]
          [] OTHER ->
                [c EXCEPT !.evicted = Append(@, from2[1]),
                          !.lists.t2 = Without(@, from2[1]), !.lists.b2 = Append(@, from2[1])]

evict_arc(n, protected) ==
    FoldLeft(LAMBDA c, i : EvictOne(c, protected), Nothing, [i \in 1..n |-> i])

Evict(n, protected) ==
    IF n <= 0 THEN Nothing
    ELSE IF policy = "lru" THEN evict_lru(n, protected) ELSE evict_arc(n, protected)

\* Ghost lists are cut to the capacity, and forget what is stored again.
Ghosts(b, new) ==
    SelectSeq(SubSeq(b, Max({Len(b) - Capacity, 0}) + 1, Len(b)), LAMBDA h : ~Contains(new, h))

\* Block ids for n hashes: fresh ones first, then the last ones freed.
allocate_blocks(n, freed) ==
    LET unused == Min({n, Capacity - fresh}) IN
    [i \in 1..n |-> IF i <= unused THEN fresh + i - 1
                                   ELSE freed[Len(freed) - (i - unused) + 1]]

IdsOf(hs) == [i \in DOMAIN hs |-> id[hs[i]]]

\* The manager gives up: blocks that it evicted on the way are gone, and no
\* event says so.
Refuse(c) ==
    /\ c.failed
    /\ lists' = c.lists
    /\ ref' = [h \in Cached \ Range(c.evicted) |-> ref[h]]
    /\ id' = [h \in Cached \ Range(c.evicted) |-> id[h]]
    /\ free_list' = free_list \o IdsOf(c.evicted)
    /\ UNCHANGED <<fresh, stores, known>>

Store(c, new) ==
    LET freed == free_list \o IdsOf(c.evicted)
        blocks == allocate_blocks(Len(new), freed)
        unused == Min({Len(new), Capacity - fresh})
        stay == Cached \ Range(c.evicted)
        at(h) == CHOOSE i \in DOMAIN new : new[i] = h
    IN  /\ ~c.failed
        /\ lists' = [c.lists EXCEPT !.t1 = @ \o new,
                                    !.b1 = IF new = <<>> THEN @ ELSE Ghosts(@, new),
                                    !.b2 = IF new = <<>> THEN @ ELSE Ghosts(@, new)]
        /\ ref' = [h \in stay \cup Range(new) |-> IF h \in stay THEN ref[h] ELSE -1]
        /\ id' = [h \in stay \cup Range(new) |-> IF h \in stay THEN id[h] ELSE blocks[at(h)]]
        /\ fresh' = fresh + unused
        /\ free_list' = SubSeq(freed, 1, Len(freed) - (Len(new) - unused))
        /\ stores' = stores \cup ({new} \ {<<>>})
        /\ known' = known \ Range(c.evicted)

prepare_store(hs) ==
    LET new == SelectSeq(hs, LAMBDA h : h \notin Cached)
        c == Evict(Len(new) - get_num_free_blocks, Range(hs))
    IN  (Refuse(c) \/ Store(c, new)) /\ UNCHANGED <<policy, loads>>

\* Mutant: a failed store leaves its blocks in the backend.
ReturnedBlocks_None(hs) == <<>>

\* The blocks of a failed store go back to the backend.
ReturnedBlocks(hs) == IdsOf(hs)

StoreSucceeds(hs) ==
    /\ ref' = [h \in Cached |-> IF h \in Range(hs) THEN 0 ELSE ref[h]]
    /\ known' = known \cup Range(hs)
    /\ UNCHANGED <<lists, id, free_list>>

StoreFails(hs) ==
    /\ lists' = [lists EXCEPT !.t1 = SelectSeq(@, LAMBDA h : ~Contains(hs, h)),
                              !.t2 = SelectSeq(@, LAMBDA h : ~Contains(hs, h))]
    /\ ref' = [h \in Cached \ Range(hs) |-> ref[h]]
    /\ id' = [h \in Cached \ Range(hs) |-> id[h]]
    /\ free_list' = free_list \o ReturnedBlocks(hs)
    /\ UNCHANGED known

complete_store(hs) ==
    /\ hs \in stores
    /\ stores' = stores \ {hs}
    /\ StoreSucceeds(hs) \/ StoreFails(hs)
    /\ UNCHANGED <<policy, fresh, loads>>

Next ==
    \/ \E hs \in Calls : prepare_load(hs) \/ touch(hs) \/ prepare_store(hs)
    \/ \E hs \in loads : complete_load(hs)
    \/ \E hs \in stores : complete_store(hs)

-----------------------------------------------------------------------------

\* Every block of the backend is free, or holds exactly one cached block, and
\* the lists name every cached block once: evictions, failed stores and reused
\* ids neither lose a block nor hand it out twice.
BlocksConserved ==
    LET taken == {id[h] : h \in Cached}
    IN  /\ Cardinality(taken) = Cardinality(Cached)
        /\ taken \cap Range(free_list) = {} /\ IsInjective(free_list)
        /\ taken \cup Range(free_list) = 0..fresh-1 /\ fresh <= Capacity
        /\ IsInjective(lists.t1 \o lists.t2) /\ Range(lists.t1 \o lists.t2) = Cached

\* A block is referenced by exactly the loads under way, is not ready while its
\* store is, and stays cached for both: eviction takes no block that a transfer
\* uses, for whichever request it makes room.
TransfersKeepBlocks ==
    /\ \A hs \in loads \cup stores : Range(hs) \subseteq Cached
    /\ \A h \in Cached :
          ref[h] = IF \E hs \in stores : h \in Range(hs) THEN -1
                   ELSE Cardinality({hs \in loads : h \in Range(hs)})

\* Whoever follows the LRU manager's events knows which blocks can be loaded.
\* (The ARC manager may give up after it has evicted blocks, without an event.)
EventsTellContents ==
    IF policy = "lru" THEN known = {h \in Cached : ref[h] >= 0}
    ELSE {h \in Cached : ref[h] >= 0} \subseteq known
=============================================================================
