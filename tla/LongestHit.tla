------------------------------ MODULE LongestHit ------------------------------
(***************************************************************************)
(* find_longest_cache_hit (single_type_kv_cache_manager.py and              *)
(* kv_cache_coordinator.py).  A group caches some blocks of one request;    *)
(* blocks are numbered from 1 along its tokens.  A search returns the       *)
(* length of the list of blocks and the places in it that hold a cached     *)
(* block; the others hold the null block.                                   *)
(*                                                                          *)
(* A group is a record: kind "full", "sliding" or "chunked", block_size,    *)
(* and span, the sliding window or the attention chunk in tokens.           *)
(***************************************************************************)
EXTENDS Integers, Sequences, FiniteSets, FiniteSetsExt, SequencesExt

cdiv(a, b) == (a + b - 1) \div b

\* Tokens that attention for the next token no longer reads.
get_num_skipped_tokens(g, computed) ==
    CASE g.kind = "full"    -> 0
      [] g.kind = "sliding" -> Max({0, computed - g.span + 1})
      [] g.kind = "chunked" -> (computed \div g.span) * g.span

\* Blocks are popped until the length is a multiple of the alignment.
PopToAlignment(g, n, align) == Max({k \in 0..n : k * g.block_size % align = 0})

find_full(g, cached, max_length, align, eagle) ==
    LET matched == Max({k \in 0..(max_length \div g.block_size) : 1..k \subseteq cached})
        kept    == IF eagle /\ matched > 0 THEN matched - 1 ELSE matched
        len     == PopToAlignment(g, kept, align)
    IN  [len |-> len, hits |-> 1..len]

\* Mutant: the token itself is not subtracted from the window.
contiguous_blocks_WithSelf(g, eagle) ==
    cdiv(g.span, g.block_size) + (IF eagle THEN 1 ELSE 0)

\* Mutant: no extra block is asked for the one that eagle drops.
contiguous_blocks_NoExtra(g, eagle) == cdiv(g.span - 1, g.block_size)

sliding_window_contiguous_blocks(g, eagle) ==
    cdiv(g.span - 1, g.block_size) + (IF eagle THEN 1 ELSE 0)

\* From right to left, until enough contiguous blocks are cached.  A run starts
\* at an aligned end only, and a miss ends it.
Scan(g, cached, max_length, align, eagle) ==
    FoldLeft(LAMBDA acc, i :
        IF acc.found THEN acc
        ELSE IF i \notin cached THEN [acc EXCEPT !.run = 0]
        ELSE IF acc.run = 0 /\ i * g.block_size % align # 0 THEN acc
        ELSE LET run == acc.run + 1
             IN  [run |-> run, hits |-> acc.hits \cup {i}, len |-> i + run - 1,
                  found |-> run >= sliding_window_contiguous_blocks(g, eagle)],
        [run |-> 0, hits |-> {}, len |-> 0, found |-> FALSE],
        Reverse([i \in 1..(max_length \div g.block_size) |-> i]))

\* A match is trimmed behind its last block.  Without one, the run that reached
\* the first block is a hit, however short.
find_sliding(g, cached, max_length, align, eagle) ==
    LET s   == Scan(g, cached, max_length, align, eagle)
        len == IF s.found THEN s.len ELSE PopToAlignment(g, s.run, align)
        cut == IF eagle /\ len > 0 THEN len - 1 ELSE len
    IN  [len |-> cut, hits |-> s.hits \cap 1..cut]

\* Blocks before the chunk of max_length are null and count as computed.
find_chunked(g, cached, max_length) ==
    LET start == ((max_length \div g.span) * g.span) \div g.block_size
        len   == Max({k \in 0..(max_length \div g.block_size) :
                          k <= start \/ (start + 1)..k \subseteq cached})
    IN  [len |-> len, hits |-> (start + 1)..len]

find_longest_cache_hit(g, cached, max_length, align, eagle) ==
    CASE g.kind = "full"    -> find_full(g, cached, max_length, align, eagle)
      [] g.kind = "sliding" -> find_sliding(g, cached, max_length, align, eagle)
      [] g.kind = "chunked" -> find_chunked(g, cached, max_length)

-----------------------------------------------------------------------------

\* HybridKVCacheCoordinator: groups is a sequence with the full attention groups
\* first, cached the set of cached blocks of each.

lcm_block_size(groups) ==
    LET sizes == {groups[i].block_size : i \in DOMAIN groups}
    IN  CHOOSE m \in 1..FoldSet(LAMBDA a, b : a * b, 1, sizes) :
            /\ \A s \in sizes : m % s = 0
            /\ \A k \in 1..(m - 1) : \E s \in sizes : k % s # 0

\* Group i after its search, or after rounding: a full attention group that was
\* searched in the first round keeps its list and only rounds the length down.
Searched(g, i, r, hit) ==
    IF g.kind = "full" /\ ~r.first
    THEN [r EXCEPT !.length = (@ \div g.block_size) * g.block_size]
    ELSE [r EXCEPT !.length = hit.len * g.block_size, !.blocks[i] = hit]

\* One round over the groups, each searched up to the length the last one left.
Round(groups, cached, eagle, r) ==
    FoldLeft(LAMBDA a, i :
        Searched(groups[i], i, a,
                 find_longest_cache_hit(groups[i], cached[i], a.length,
                                        lcm_block_size(groups), eagle)),
        r, [i \in DOMAIN groups |-> i])

is_simple_hybrid(groups) == Len(groups) = 2 /\ groups[1].kind = "full"

NotSearched(groups, max) ==
    [length |-> max, blocks |-> [i \in DOMAIN groups |-> [len |-> 0, hits |-> {}]],
     first |-> TRUE, done |-> FALSE]

\* The loop ends with a round that does not shorten the hit; a simple hybrid
\* ends with the first.
AfterRound(groups, r, next) ==
    [next EXCEPT !.first = FALSE, !.done = next.length >= r.length \/ is_simple_hybrid(groups)]

\* Mutant: the loop stops after one round, whatever the groups.
Converge_Once(groups, cached, eagle, max) ==
    Round(groups, cached, eagle, NotSearched(groups, max))

Converge(groups, cached, eagle, max) ==
    FoldLeft(LAMBDA r, n : IF r.done THEN r
                           ELSE AfterRound(groups, r, Round(groups, cached, eagle, r)),
             NotSearched(groups, max), [n \in 1..(max + 1) |-> n])

\* Only the first entry, the group with the first full attention spec, is
\* truncated to the final length.
Truncated(g, r) ==
    IF g.kind # "full" THEN r
    ELSE [r EXCEPT !.blocks[1] = [len  |-> Min({@.len, r.length \div g.block_size}),
                                  hits |-> @.hits \cap 1..(r.length \div g.block_size)]]

\* Mutant: the full attention group keeps the blocks behind the common length.
hybrid_find_Untruncated(groups, cached, eagle, max) ==
    Converge(groups, cached, eagle, max)

hybrid_find(groups, cached, eagle, max) ==
    Truncated(groups[1], Converge(groups, cached, eagle, max))
=============================================================================
