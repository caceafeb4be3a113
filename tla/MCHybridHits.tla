----------------------------- MODULE MCHybridHits -----------------------------
EXTENDS HybridHits

G(kind, size, span) == [kind |-> kind, block_size |-> size, span |-> span]

\* Blocks of one and of two hash blocks, where the window ends inside a block,
\* and chunks of three blocks.
MCModels ==
    {[groups |-> <<G("full", 1, 0), G("sliding", 2, 4), G("sliding", 1, 3)>>, tokens |-> 6],
     [groups |-> <<G("full", 1, 0), G("chunked", 1, 3)>>, tokens |-> 7]}
=============================================================================
