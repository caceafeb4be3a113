------------------------------ MODULE HybridHits ------------------------------
(***************************************************************************)
(* The cached blocks of one request while blocks are cached and evicted,    *)
(* and what the searches of LongestHit find in every such state.            *)
(***************************************************************************)
EXTENDS LongestHit

CONSTANT Models    \* [groups |-> attention_groups, full attention first,
                   \*  tokens |-> bound on the tokens whose blocks may be cached]

VARIABLES model,   \* the model that is served
          cached   \* per group, the blocks that get_cached_block finds

Groups == model.groups
MaxTokens == model.tokens
BlocksOf(i) == 1..(MaxTokens \div Groups[i].block_size)

Init ==
    /\ model \in Models
    /\ cached = [i \in DOMAIN Groups |-> {}]

Insert(i, b) ==
    /\ b \notin cached[i]
    /\ cached' = [cached EXCEPT ![i] = @ \cup {b}]
    /\ UNCHANGED model

Evict(i, b) ==
    /\ b \in cached[i]
    /\ cached' = [cached EXCEPT ![i] = @ \ {b}]
    /\ UNCHANGED model

Next == \E i \in DOMAIN Groups : \E b \in BlocksOf(i) : Insert(i, b) \/ Evict(i, b)

Spec == Init /\ [][Next]_<<model, cached>>

-----------------------------------------------------------------------------

\* The blocks of group g that attention for the token at position length reads.
Needed(g, length) ==
    (get_num_skipped_tokens(g, length) \div g.block_size + 1)..(length \div g.block_size)

Usable(i, length) == Needed(Groups[i], length) \subseteq cached[i]

align == lcm_block_size(Groups)

Lengths(max) == {n \in 0..max : n % align = 0}

\* What the coordinator reports as computed can be attended to: for every group,
\* every block that get_num_skipped_tokens does not skip is a cached block, in
\* its place in the list, whatever was evicted between the blocks of a prefix.
HitIsUsable ==
    \A max \in 0..MaxTokens :
        LET h == hybrid_find(Groups, cached, FALSE, max)
        IN  /\ h.length <= max
            /\ \A i \in DOMAIN Groups :
                  Needed(Groups[i], h.length) \subseteq cached[i] \cap h.blocks[i].hits

\* The rounds of the coordinator end at the longest length all groups can use:
\* no aligned length above it is usable by every group.
HitIsLongest ==
    \A max \in 0..MaxTokens :
        LET h == hybrid_find(Groups, cached, FALSE, max)
        IN  h.length = Max({n \in Lengths(max) : \A i \in DOMAIN Groups : Usable(i, n)})

\* Every group's list has the length that is reported: allocate_slots takes
\* num_new_computed_tokens to be len(new_computed_blocks) * block_size.
ListsHaveHitLength ==
    \A max \in 0..MaxTokens :
        LET h == hybrid_find(Groups, cached, FALSE, max)
        IN  \A i \in DOMAIN Groups : h.blocks[i].len * Groups[i].block_size = h.length

\* With draft heads that read one token ahead (use_eagle), a single group drops
\* one block: the result is the longest length that is usable while the block
\* behind it was cached too.
EagleDropsOneBlock ==
    \A i \in DOMAIN Groups : \A max \in 0..MaxTokens :
        LET g == Groups[i]
            h == find_longest_cache_hit(g, cached[i], max, g.block_size, TRUE)
        IN  g.kind # "chunked" =>
              h.len = Max({0} \cup {k \in 1..(max \div g.block_size - 1) :
                                       /\ Usable(i, k * g.block_size)
                                       /\ k + 1 \in cached[i]})
=============================================================================
