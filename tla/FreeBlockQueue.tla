--------------------------- MODULE FreeBlockQueue ---------------------------
(***************************************************************************)
(* FreeKVCacheBlockQueue (kv_cache_utils.py): the free blocks as a doubly   *)
(* linked list threaded through the blocks themselves, between a fake head  *)
(* and a fake tail, with a counter beside it.                               *)
(***************************************************************************)
EXTENDS Integers, Sequences, Functions

CONSTANT NumBlocks          \* len(blocks)

Block == 1..NumBlocks
None  == -1
HEAD  == 0                  \* fake_free_list_head
TAIL  == NumBlocks + 1      \* fake_free_list_tail
Node  == HEAD..TAIL

VARIABLES next_free_block, prev_free_block, num_free_blocks,
          io                \* history: the last call and the blocks it returned or was given

vars == <<next_free_block, prev_free_block, num_free_blocks, io>>

-----------------------------------------------------------------------------

\* The first n nodes after HEAD along next_free_block.
Walk(n) ==
    LET hop[i \in 0..n] == IF i = 0 THEN HEAD ELSE next_free_block[hop[i - 1]]
    IN  [i \in 1..n |-> hop[i]]

\* The length of the walk that get_all_free_blocks makes: it stops at the first
\* node that has no next block.
WalkLength ==
    CHOOSE n \in 0..NumBlocks :
        /\ next_free_block[Walk(n + 1)[n + 1]] = None
        /\ \A k \in 0..(n - 1) : next_free_block[Walk(k + 1)[k + 1]] # None

get_all_free_blocks == Walk(WalkLength)

Linked(b) == prev_free_block[b] # None /\ next_free_block[b] # None

Init ==
    /\ next_free_block = [x \in Node |-> IF x = TAIL THEN None ELSE x + 1]
    /\ prev_free_block = [x \in Node |-> x - 1]
    /\ num_free_blocks = NumBlocks
    /\ io = <<"none", <<>>>>

\* An empty queue raises and changes nothing.
popleft ==
    LET first == next_free_block[HEAD]
        second == next_free_block[first]
    IN  /\ first # TAIL
        /\ next_free_block' = [next_free_block EXCEPT ![HEAD] = second, ![first] = None]
        /\ prev_free_block' = [prev_free_block EXCEPT ![second] = HEAD, ![first] = None]
        /\ num_free_blocks' = num_free_blocks - 1
        /\ io' = <<"take", <<first>>>>

\* Mutant: the new first block still points back at the last block popped.
popleft_n_NoBackLink(n) ==
    LET popped == Range(Walk(n))
        curr   == Walk(n + 1)[n + 1]
    IN  /\ n \in 1..num_free_blocks
        /\ next_free_block' = [x \in Node |-> IF x = HEAD THEN curr
                                              ELSE IF x \in popped THEN None
                                              ELSE next_free_block[x]]
        /\ prev_free_block' = [x \in Node |-> IF x \in popped THEN None
                                              ELSE prev_free_block[x]]
        /\ num_free_blocks' = num_free_blocks - n
        /\ io' = <<"take", Walk(n)>>

\* The links of the popped blocks are reset as the walk passes them; the block
\* it stops at becomes the first one.
popleft_n(n) ==
    LET popped == Range(Walk(n))
        curr   == Walk(n + 1)[n + 1]
    IN  /\ n \in 1..num_free_blocks
        /\ next_free_block' = [x \in Node |-> IF x = HEAD THEN curr
                                              ELSE IF x \in popped THEN None
                                              ELSE next_free_block[x]]
        /\ prev_free_block' = [x \in Node |-> IF x = curr THEN HEAD
                                              ELSE IF x \in popped THEN None
                                              ELSE prev_free_block[x]]
        /\ num_free_blocks' = num_free_blocks - n
        /\ io' = <<"take", Walk(n)>>

\* A block whose links are not set raises and changes nothing.
remove(b) ==
    /\ Linked(b)
    /\ next_free_block' = [next_free_block EXCEPT ![prev_free_block[b]] = next_free_block[b],
                                                  ![b] = None]
    /\ prev_free_block' = [prev_free_block EXCEPT ![next_free_block[b]] = prev_free_block[b],
                                                  ![b] = None]
    /\ num_free_blocks' = num_free_blocks - 1
    /\ io' = <<"drop", <<b>>>>

append(b) ==
    LET last == prev_free_block[TAIL]
    IN  /\ next_free_block' = [next_free_block EXCEPT ![last] = b, ![b] = TAIL]
        /\ prev_free_block' = [prev_free_block EXCEPT ![b] = last, ![TAIL] = b]
        /\ num_free_blocks' = num_free_blocks + 1
        /\ io' = <<"put", <<b>>>>

\* Mutant: every block is linked in front of the previous one.
append_n_Reversed(s) ==
    LET chain == <<prev_free_block[TAIL]>> \o [i \in 1..Len(s) |-> s[Len(s) + 1 - i]] \o <<TAIL>>
        pos(x) == CHOOSE i \in 1..Len(chain) : chain[i] = x
    IN  /\ s # <<>>
        /\ next_free_block' = [x \in Node |-> IF x \in Range(chain) \ {TAIL}
                                              THEN chain[pos(x) + 1] ELSE next_free_block[x]]
        /\ prev_free_block' = [x \in Node |-> IF x \in Range(Tail(chain))
                                              THEN chain[pos(x) - 1] ELSE prev_free_block[x]]
        /\ num_free_blocks' = num_free_blocks + Len(s)
        /\ io' = <<"put", s>>

\* The chain from the last block over the blocks of s to the tail.
append_n(s) ==
    LET chain == <<prev_free_block[TAIL]>> \o s \o <<TAIL>>
        pos(x) == CHOOSE i \in 1..Len(chain) : chain[i] = x
    IN  /\ s # <<>>
        /\ next_free_block' = [x \in Node |-> IF x \in Range(chain) \ {TAIL}
                                              THEN chain[pos(x) + 1] ELSE next_free_block[x]]
        /\ prev_free_block' = [x \in Node |-> IF x \in Range(Tail(chain))
                                              THEN chain[pos(x) - 1] ELSE prev_free_block[x]]
        /\ num_free_blocks' = num_free_blocks + Len(s)
        /\ io' = <<"put", s>>

\* BlockPool gives back blocks that no request holds and that are not queued.
Outside == {b \in Block : ~Linked(b)}

Next ==
    \/ popleft
    \/ \E n \in 1..NumBlocks : popleft_n(n)
    \/ \E b \in Block : remove(b)
    \/ \E b \in Outside : append(b)
    \/ \E n \in 1..NumBlocks : \E s \in Injection(1..n, Outside) : append_n(s)

Spec == Init /\ [][Next]_vars

-----------------------------------------------------------------------------

TypeOK ==
    /\ next_free_block \in [Node -> Node \cup {None}]
    /\ prev_free_block \in [Node -> Node \cup {None}]
    /\ num_free_blocks \in 0..NumBlocks

\* The two directions of the list agree: every link has its converse, and the
\* counter that admission is decided on is the number of blocks a walk finds.
\* A block that was popped or removed keeps no link that remove would follow.
LinksAgree ==
    /\ \A x \in Node \ {TAIL} : next_free_block[x] # None => prev_free_block[next_free_block[x]] = x
    /\ \A x \in Node \ {HEAD} : prev_free_block[x] # None => next_free_block[prev_free_block[x]] = x
    /\ {b \in Block : Linked(b)} = Range(get_all_free_blocks)
    /\ num_free_blocks = WalkLength

\* The linked list implements the sequence of free blocks: the same blocks leave
\* in the same order, also when blocks are taken out of the middle and others are
\* appended in between.
FreeList == INSTANCE FreeBlockList WITH free <- get_all_free_blocks
ImplementsFreeList == FreeList!Spec
=============================================================================
