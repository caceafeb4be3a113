---------------------------- MODULE MCPrefixCache ----------------------------
EXTENDS PrefixCache

CONSTANTS r1, r2, r3

Full    == [kind |-> "full", block_size |-> 2, span |-> 0]
Sliding == [kind |-> "sliding", block_size |-> 2, span |-> 3]

\* All prompts begin with the same block; r3 has room for a second one.
Prompts   == (r1 :> <<1, 1, 1>>) @@ (r2 :> <<1, 1, 2>>) @@ (r3 :> <<1, 1, 1, 1>>)
Ranks     == (r1 :> 1) @@ (r2 :> 2) @@ (r3 :> 3)
LateFirst == (r1 :> 3) @@ (r2 :> 2) @@ (r3 :> 1)
=============================================================================
