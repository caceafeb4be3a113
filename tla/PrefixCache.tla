----------------------------- MODULE PrefixCache -----------------------------
(***************************************************************************)
(* The prefix cache under the scheduler: BlockPool (block_pool.py), one     *)
(* SingleTypeKVCacheManager, KVCacheManager.allocate_slots and              *)
(* get_computed_blocks, and Scheduler.schedule with its loops over the      *)
(* running and the waiting requests.  Blocks get their hash when their      *)
(* slots are allocated, before anything is computed.                        *)
(*                                                                          *)
(* The hash of a block is the tokens up to its end.  kv is a history        *)
(* variable: what the slots of a block hold once every dispatched batch has *)
(* run, as the tokens whose keys and values were computed there.  Batches   *)
(* run in the order they are dispatched, and a batch writes before it reads.*)
(***************************************************************************)
EXTENDS LongestHit

CONSTANTS Group,          \* the kv cache group, as in LongestHit
          NumBlocks,      \* blocks besides the null block
          Request,
          Prompt,         \* prompt tokens of each request
          MaxLen,         \* bound: tokens of a request, prompt and output
          OutToken,       \* tokens the model may sample
          Budget,         \* max_num_scheduled_tokens
          Threshold,      \* long_prefill_token_threshold, 0 for none
          MaxRunning,     \* max_num_running_reqs
          Abortable,      \* requests whose clients may go away
          Policy,         \* "fcfs" or "priority"
          Rank,           \* (priority, arrival_time) as a number
          ExtTokens,      \* external tokens a connector may find; {0}: no connector
          MayFail,        \* may external loads fail
          Recompute,      \* kv_load_failure_policy = "recompute"
          Depth           \* batches in flight

Block == 1..NumBlocks
Null  == 0                \* null_block
NoHash == <<>>
Junk   == <<>>
size  == Group.block_size

ASSUME PrefixCacheAssumption ==
    /\ NumBlocks \in Nat \ {0} /\ Budget \in Nat \ {0} /\ Depth \in Nat \ {0}
    /\ \A r \in Request : Len(Prompt[r]) < MaxLen /\ cdiv(MaxLen, size) <= NumBlocks

VARIABLES pool,              \* ref_cnt, block_hash, cached_block_hash_to_block, free queue
          req_to_blocks, num_cached_block,
          all_token_ids, num_computed_tokens, num_cached_tokens,
          status, running, waiting,
          pass,              \* the call of schedule under way
          inflight,          \* dispatched batches without output
          kv

vars == <<pool, req_to_blocks, num_cached_block, all_token_ids, num_computed_tokens,
          num_cached_tokens, status, running, waiting, pass, inflight, kv>>

tables == <<req_to_blocks, num_cached_block>>
queues == <<status, running, waiting>>

-----------------------------------------------------------------------------

\* BlockPool.  err is set where an assertion of the pool fails or it raises.

\* Mutant: the hash of a block leaves out the tokens before it.
hash_of_NoParent(r, i) == SubSeq(all_token_ids[r], (i - 1) * size + 1, i * size)

hash_of(r, i) == SubSeq(all_token_ids[r], 1, i * size)

\* The first block inserted under a hash.
get_cached_block(p, h) == IF h \in DOMAIN p.cache THEN Head(p.cache[h]) ELSE Null

insert(c, h, b) ==
    [k \in DOMAIN c \cup {h} |-> IF k # h THEN c[k]
                                 ELSE IF h \in DOMAIN c THEN Append(c[h], b) ELSE <<b>>]

\* The entry of a hash goes with its last block.
pop(c, h, b) ==
    IF h \notin DOMAIN c THEN c
    ELSE LET left == Remove(c[h], b)
         IN  [k \in (IF left = <<>> THEN DOMAIN c \ {h} ELSE DOMAIN c) |->
                 IF k = h THEN left ELSE c[k]]

\* Mutant: the block loses its hash and stays in the map.
_maybe_evict_cached_block_MapKept(p, b) == [p EXCEPT !.hash[b] = NoHash]

_maybe_evict_cached_block(p, b) ==
    IF p.hash[b] = NoHash THEN p
    ELSE [p EXCEPT !.cache = pop(p.cache, p.hash[b], b), !.hash[b] = NoHash]

FirstOf(blocks, n) == SubSeq(blocks, 1, Min({n, Len(blocks)}))

get_new_blocks(p, n) ==
    LET taken == FirstOf(p.free, n)
        q     == FoldLeft(_maybe_evict_cached_block, p, taken)
    IN  IF n > Len(p.free) THEN [p EXCEPT !.err = TRUE]
        ELSE [q EXCEPT !.free = SubSeq(p.free, n + 1, Len(p.free)),
                       !.ref  = [b \in Block |-> IF b \in ToSet(taken) THEN 1 ELSE p.ref[b]],
                       !.err  = p.err \/ \E b \in ToSet(taken) : p.ref[b] # 0]

touch(p, blocks) ==
    LET hit == ToSet(blocks) \ {Null}
    IN  [p EXCEPT !.free = SelectSeq(p.free, LAMBDA b : b \notin hit),
                  !.ref  = [b \in Block |-> IF b \in hit THEN p.ref[b] + 1 ELSE p.ref[b]]]

\* Mutant: freed blocks come back in the order of the request's tokens.
free_blocks_Reversed(p, blocks) ==
    LET left == [b \in Block |-> IF b \in ToSet(blocks) THEN p.ref[b] - 1 ELSE p.ref[b]]
    IN  [p EXCEPT !.ref  = left,
                  !.free = @ \o SelectSeq(Reverse(blocks), LAMBDA b : b # Null /\ left[b] = 0)]

free_blocks(p, blocks) ==
    LET left == [b \in Block |-> IF b \in ToSet(blocks) THEN p.ref[b] - 1 ELSE p.ref[b]]
    IN  [p EXCEPT !.ref  = left,
                  !.free = @ \o SelectSeq(blocks, LAMBDA b : b # Null /\ left[b] = 0)]

\* Blocks from + 1 to to of request r get their hash and enter the map.
cache_full_blocks(p, r, blocks, from, to) ==
    FoldLeft(LAMBDA q, i :
        IF blocks[i] = Null THEN q
        ELSE [q EXCEPT !.hash[blocks[i]] = hash_of(r, i),
                       !.cache = insert(q.cache, hash_of(r, i), blocks[i]),
                       !.err   = @ \/ q.hash[blocks[i]] # NoHash],
        p, [i \in 1..(to - from) |-> from + i])

-----------------------------------------------------------------------------

\* SingleTypeKVCacheManager and KVCacheManager.  x is the state a call works on:
\* the pool, the request's blocks and its num_cached_block, -1 for none.

skipped_blocks(computed) == get_num_skipped_tokens(Group, computed) \div size

\* The blocks before the window, from the last to the first one that is not null.
remove_skipped_blocks(x, total) ==
    LET n    == Min({skipped_blocks(total), Len(x.blocks)})
        from == Max({i \in 0..n : i = 0 \/ x.blocks[i] = Null})
        gone == [i \in 1..(n - from) |-> x.blocks[n + 1 - i]]
    IN  [x EXCEPT !.pool = free_blocks(@, gone),
                  !.blocks = [i \in DOMAIN @ |-> IF i <= n THEN Null ELSE @[i]]]

\* Mutant: blocks of the hit that no request uses are not counted.
get_num_blocks_to_allocate_NoEvictable(x, hit, total, need) ==
    Max({0, cdiv(need, size) - Max({skipped_blocks(total), Len(hit) + Len(x.blocks)})})

\* Mutant: one block is kept in reserve.
get_num_blocks_to_allocate_Reserve(x, hit, total, need) ==
    Max({0, cdiv(need, size) - Max({skipped_blocks(total), Len(hit) + Len(x.blocks)})})
    + Cardinality({i \in DOMAIN hit : hit[i] # Null /\ x.pool.ref[hit[i]] = 0}) + 1

\* A hit on a block in the free queue takes it out of the queue, so it counts.
get_num_blocks_to_allocate(x, hit, total, need) ==
    LET skipped   == skipped_blocks(total)
        required  == cdiv(need, size)
        evictable == {i \in DOMAIN hit : /\ i > Max({0, skipped - Len(x.blocks)})
                                         /\ hit[i] # Null /\ x.pool.ref[hit[i]] = 0}
    IN  IF x.cached # -1 THEN Max({0, required - Len(x.blocks)})
        ELSE Max({0, required - Max({skipped, Len(hit) + Len(x.blocks)})})
             + Cardinality(evictable)

allocate_new_computed_blocks(x, hit, total, ext) ==
    LET skipped == skipped_blocks(total)
        kept    == SubSeq(hit, skipped + 1, Len(hit))
        blocks  == [i \in 1..skipped |-> Null] \o kept
        touched == touch(x.pool, kept)
        new     == cdiv(total, size) - Len(blocks)
        loaded  == IF ext = 0 \/ get_num_skipped_tokens(Group, total) >= total THEN 0 ELSE new
    IN  [pool   |-> get_new_blocks(touched, loaded),
         blocks |-> blocks \o FirstOf(touched.free, loaded),
         cached |-> Len(blocks)]

allocate_new_blocks(x, need) ==
    LET new == Max({0, cdiv(need, size) - Len(x.blocks)})
    IN  [x EXCEPT !.pool = get_new_blocks(@, new), !.blocks = @ \o FirstOf(x.pool.free, new)]

cache_blocks(x, r, tokens) ==
    LET full == tokens \div size
        from == Max({0, x.cached})
    IN  IF from >= full THEN x
        ELSE [x EXCEPT !.pool = cache_full_blocks(@, r, x.blocks, from, full), !.cached = full]

\* Slots for n tokens behind the first total ones, in the state x: the blocks of
\* the hit and of ext loaded tokens, and new ones, or none (ok = FALSE) when the
\* pool is short.
Allocated(r, n, hit, ext, total, x) ==
    IF get_num_blocks_to_allocate(x, hit, total, total + n) > Len(x.pool.free)
    THEN [x |-> x, ok |-> FALSE]
    ELSE [x  |-> cache_blocks(
                    allocate_new_blocks(
                        IF hit # <<>> \/ ext > 0
                        THEN allocate_new_computed_blocks(x, hit, total, ext) ELSE x,
                        total + n),
                    r, Min({total + n, Len(all_token_ids[r])})),
          ok |-> TRUE]

\* What left the window is freed even when no slots are allocated.  A miss leaves
\* num_cached_block unset until a block is full.
allocate_slots(r, n, hit, ext) ==
    LET total == num_computed_tokens[r] + Len(hit) * size + ext
    IN  Allocated(r, n, hit, ext, total,
                  remove_skipped_blocks([pool   |-> pool, blocks |-> req_to_blocks[r],
                                         cached |-> num_cached_block[r]], total))

BlocksOfHit(r, h) ==
    [i \in 1..h.len |-> IF i \in h.hits THEN get_cached_block(pool, hash_of(r, i)) ELSE Null]

\* All tokens but the last may be taken from the cache.
get_computed_blocks(r) ==
    LET n      == Len(all_token_ids[r])
        cached == {i \in 1..(n \div size) : get_cached_block(pool, hash_of(r, i)) # Null}
    IN  BlocksOfHit(r, find_longest_cache_hit(Group, cached, n - 1, size, FALSE))

Apply(r, x) ==
    /\ pool' = x.pool
    /\ req_to_blocks' = [req_to_blocks EXCEPT ![r] = x.blocks]
    /\ num_cached_block' = [num_cached_block EXCEPT ![r] = x.cached]

\* KVCacheManager.free for the requests of a sequence: the tail of each first.
Freed(p, rs) == FoldLeft(LAMBDA q, r : free_blocks(q, Reverse(req_to_blocks[r])), p, rs)

Free(p, rs) ==
    /\ pool' = Freed(p, rs)
    /\ req_to_blocks' = [r \in Request |-> IF r \in ToSet(rs) THEN <<>> ELSE req_to_blocks[r]]
    /\ num_cached_block' = [r \in Request |-> IF r \in ToSet(rs) THEN -1 ELSE num_cached_block[r]]

-----------------------------------------------------------------------------

NoTokens == [r \in Request |-> 0]
Idle     == [phase |-> "idle", idx |-> 1, budget |-> 0, preempted |-> FALSE,
             fitting |-> <<>>, n |-> NoTokens, ext |-> NoTokens]

Init ==
    /\ pool = [ref |-> [b \in Block |-> 0], hash |-> [b \in Block |-> NoHash],
               cache |-> <<>>, free |-> [b \in Block |-> b], err |-> FALSE]
    /\ req_to_blocks = [r \in Request |-> <<>>]
    /\ num_cached_block = [r \in Request |-> -1]
    /\ all_token_ids = Prompt
    /\ num_computed_tokens = NoTokens
    /\ num_cached_tokens = [r \in Request |-> -1]
    /\ status = [r \in Request |-> "new"]
    /\ running = <<>> /\ waiting = <<>>
    /\ pass = Idle
    /\ inflight = <<>>
    /\ kv = [b \in Block |-> [s \in 1..size |-> Junk]]

add_request(r) ==
    /\ pass.phase = "idle" /\ status[r] = "new"
    /\ status' = [status EXCEPT ![r] = "waiting"]
    /\ waiting' = Append(waiting, r)
    /\ UNCHANGED <<pool, tables, all_token_ids, num_computed_tokens, num_cached_tokens,
                   running, pass, inflight, kv>>

\* schedule is called while the batch queue has room and requests are unfinished.
Begin ==
    /\ pass.phase = "idle" /\ Len(inflight) < Depth
    /\ running # <<>> \/ waiting # <<>>
    /\ pass' = [Idle EXCEPT !.phase = "running", !.budget = Budget]
    /\ UNCHANGED <<pool, tables, queues, all_token_ids, num_computed_tokens,
                   num_cached_tokens, inflight, kv>>

\* Between two tries to fit a request it is neither picked nor sized again.
InRunningLoop ==
    /\ pass.phase = "running"
    /\ pass.fitting # <<>> \/ (pass.idx <= Len(running) /\ pass.budget > 0)

NewTokens(r, computed) ==
    Min({Len(all_token_ids[r]) - computed, pass.budget}
        \cup (IF Threshold > 0 THEN {Threshold} ELSE {}))

\* The request that the loop schedules, and its new tokens.
Fitting ==
    IF pass.fitting # <<>> THEN pass.fitting
    ELSE LET r == running[pass.idx] IN <<r, NewTokens(r, num_computed_tokens[r])>>

\* Nothing to do until the output of an earlier batch is in.
SkipRunning ==
    /\ InRunningLoop
    /\ Fitting[2] = 0
    /\ pass' = [pass EXCEPT !.idx = @ + 1]
    /\ UNCHANGED <<pool, tables, queues, all_token_ids, num_computed_tokens,
                   num_cached_tokens, inflight, kv>>

ScheduleRunning ==
    LET r == Fitting[1]
        n == Fitting[2]
        a == allocate_slots(r, n, <<>>, 0)
    IN  /\ InRunningLoop /\ n > 0 /\ a.ok
        /\ Apply(r, a.x)
        /\ pass' = [pass EXCEPT !.idx = @ + 1, !.budget = @ - n, !.n[r] = n, !.fitting = <<>>]
        /\ UNCHANGED <<queues, all_token_ids, num_computed_tokens, num_cached_tokens,
                       inflight, kv>>

\* The request of the lowest priority, or the last one.
Victim ==
    IF Policy = "priority"
    THEN CHOOSE v \in ToSet(running) : \A r \in ToSet(running) : Rank[v] >= Rank[r]
    ELSE Last(running)

\* The slots of r are refused: a victim goes back to the front of the waiting
\* queue, and its place in this step with it.  The loop ends when it is r.
PreemptOne ==
    LET r == Fitting[1]
        n == Fitting[2]
        a == allocate_slots(r, n, <<>>, 0)
        v == Victim
    IN  /\ InRunningLoop /\ n > 0 /\ ~a.ok
        /\ pool' = IF v = r THEN free_blocks(a.x.pool, Reverse(a.x.blocks))
                            ELSE Freed(a.x.pool, <<v>>)
        /\ req_to_blocks' = [req_to_blocks EXCEPT ![r] = a.x.blocks, ![v] = <<>>]
        /\ num_cached_block' = [num_cached_block EXCEPT ![v] = -1]
        /\ num_computed_tokens' = [num_computed_tokens EXCEPT ![v] = 0]
        /\ status' = [status EXCEPT ![v] = "waiting"]
        /\ running' = Remove(running, v)
        /\ waiting' = <<v>> \o waiting
        /\ pass' = [pass EXCEPT !.phase = IF v = r THEN "dispatch" ELSE @,
                                !.preempted = TRUE,
                                !.fitting = IF v = r THEN <<>> ELSE <<r, n>>,
                                !.idx = IF pass.n[v] > 0 THEN @ - 1 ELSE @,
                                !.budget = @ + pass.n[v],
                                !.n[v] = 0]
        /\ UNCHANGED <<all_token_ids, num_cached_tokens, inflight, kv>>

\* Waiting requests are looked at only if nobody was preempted.
EndRunning ==
    /\ pass.phase = "running" /\ ~InRunningLoop
    /\ pass' = [pass EXCEPT !.phase = IF pass.preempted THEN "dispatch" ELSE "waiting"]
    /\ UNCHANGED <<pool, tables, queues, all_token_ids, num_computed_tokens,
                   num_cached_tokens, inflight, kv>>

InWaitingLoop ==
    pass.phase = "waiting" /\ waiting # <<>> /\ pass.budget > 0 /\ Len(running) < MaxRunning

peek_request ==
    IF Policy = "priority"
    THEN CHOOSE v \in ToSet(waiting) : \A r \in ToSet(waiting) : Rank[v] <= Rank[r]
    ELSE Head(waiting)

\* Request r with its hit in the cache and ext tokens that a connector loads
\* before the batch runs; the loop ends when it is refused.
Admit(r, hit, ext) ==
    LET computed == Len(hit) * size + ext
        n        == NewTokens(r, computed)
        a        == allocate_slots(r, n, hit, ext)
        counted  == Min({computed, Len(Prompt[r])})
    IN  /\ computed < Len(all_token_ids[r])
        /\ IF a.ok
           THEN /\ Apply(r, a.x)
                /\ status' = [status EXCEPT ![r] = "running"]
                /\ running' = Append(running, r)
                /\ waiting' = Remove(waiting, r)
                /\ num_computed_tokens' = [num_computed_tokens EXCEPT ![r] = computed]
                /\ num_cached_tokens' = [num_cached_tokens EXCEPT ![r] =
                      IF @ < 0 THEN counted ELSE IF ext > 0 THEN Max({@, counted}) ELSE @]
                /\ pass' = [pass EXCEPT !.budget = @ - n, !.n[r] = n, !.ext[r] = ext]
           ELSE /\ pass' = [pass EXCEPT !.phase = "dispatch"]
                /\ UNCHANGED <<pool, tables, queues, num_computed_tokens, num_cached_tokens>>
        /\ UNCHANGED <<all_token_ids, inflight, kv>>

ScheduleWaiting(ext) ==
    InWaitingLoop /\ Admit(peek_request, get_computed_blocks(peek_request), ext)

EndWaiting ==
    /\ pass.phase = "waiting" /\ ~InWaitingLoop
    /\ pass' = [pass EXCEPT !.phase = "dispatch"]
    /\ UNCHANGED <<pool, tables, queues, all_token_ids, num_computed_tokens,
                   num_cached_tokens, inflight, kv>>

-----------------------------------------------------------------------------

\* The block and slot of position q of request r.
BlockAt(r, q) == req_to_blocks[r][(q - 1) \div size + 1]
SlotAt(q)     == ((q - 1) % size) + 1

Holds(K, r, q) ==
    BlockAt(r, q) # Null /\ K[BlockAt(r, q)][SlotAt(q)] = SubSeq(all_token_ids[r], 1, q)

\* Attention at position p reads the positions that are not skipped.
ReadsOwn(K, r, p) == \A q \in (get_num_skipped_tokens(Group, p - 1) + 1)..(p - 1) : Holds(K, r, q)

Loaded(r)   == {q \in 1..num_computed_tokens[r] : /\ q > num_computed_tokens[r] - pass.ext[r]
                                                 /\ BlockAt(r, q) # Null}
Computed(r) == (num_computed_tokens[r] + 1)..(num_computed_tokens[r] + pass.n[r])

\* A slot at position p is right when everything it was computed from is.
Batch(K0) ==
    FoldLeft(LAMBDA K, p :
        LET writers(b, s) == {r \in Request : /\ p \in Computed(r) /\ s = SlotAt(p)
                                              /\ b = BlockAt(r, p)}
        IN  [b \in Block |-> [s \in 1..size |->
               IF writers(b, s) = {} THEN K[b][s]
               ELSE LET r == CHOOSE r \in writers(b, s) : TRUE
                    IN  IF ReadsOwn(K, r, p) THEN SubSeq(all_token_ids[r], 1, p) ELSE Junk]],
        K0, [p \in 1..MaxLen |-> p])

\* The loads of the batch, of which those into the blocks of bad fail.
AfterLoads(bad) ==
    [b \in Block |-> [s \in 1..size |->
        LET into == {<<r, q>> \in Request \X (1..MaxLen) :
                        q \in Loaded(r) /\ BlockAt(r, q) = b /\ SlotAt(q) = s}
        IN  IF into = {} THEN kv[b][s]
            ELSE IF b \in bad THEN Junk
            ELSE LET x == CHOOSE x \in into : TRUE IN SubSeq(all_token_ids[x[1]], 1, x[2])]]

LoadBlocks == UNION {{BlockAt(r, q) : q \in Loaded(r)} : r \in Request}

\* The batch goes to the workers and _update_after_schedule advances the requests.
\* An empty batch changes nothing.
Dispatch(bad) ==
    LET total(r) == num_computed_tokens[r] + pass.n[r]
        batch    == {r \in Request : pass.n[r] > 0}
    IN  /\ pass.phase = "dispatch"
        /\ kv' = Batch(AfterLoads(bad))
        /\ num_computed_tokens' = [r \in Request |-> total(r)]
        /\ inflight' = IF batch = {} THEN inflight
                       ELSE Append(inflight,
                                   [bad     |-> bad,
                                    reqs    |-> batch,
                                    samples |-> {r \in batch : total(r) = Len(all_token_ids[r])}])
        /\ pass' = Idle
        /\ UNCHANGED <<pool, tables, queues, all_token_ids, num_cached_tokens>>

-----------------------------------------------------------------------------

\* Mutant: a request that shares the invalid blocks keeps what it computed.
Invalidate_SharersKeep(bad) ==
    FoldLeft(LAMBDA acc, r :
        LET scanned  == Min({cdiv(num_cached_tokens[r], size), Len(req_to_blocks[r])})
            hit      == {i \in 1..scanned : req_to_blocks[r][i] \in bad \ acc.marked}
        IN  IF hit = {} THEN acc
            ELSE [acc EXCEPT !.marked   = @ \cup {req_to_blocks[r][i] : i \in hit},
                             !.affected = Append(@, r),
                             !.computed[r] = (Min(hit) - 1) * size],
        [marked |-> {}, affected |-> <<>>, computed |-> num_computed_tokens, evict |-> {}],
        running)

\* _update_requests_with_invalid_blocks over the running requests, in order: the
\* first to hold an invalid block falls back to it, later ones that share it
\* count on the first.
Invalidate(bad) ==
    FoldLeft(LAMBDA acc, r :
        LET scanned  == Min({cdiv(num_cached_tokens[r], size), Len(req_to_blocks[r])})
            hit      == {i \in 1..scanned : req_to_blocks[r][i] \in bad}
            unmarked == {i \in hit : req_to_blocks[r][i] \notin acc.marked}
        IN  IF hit = {} THEN acc
            ELSE [marked   |-> acc.marked \cup {req_to_blocks[r][i] : i \in hit},
                  affected |-> Append(acc.affected, r),
                  computed |-> [acc.computed EXCEPT ![r] =
                                  IF unmarked = {} THEN num_cached_tokens[r]
                                  ELSE (Min(unmarked) - 1) * size],
                  evict    |-> acc.evict \cup
                                  (IF unmarked = {} THEN {}
                                   ELSE {req_to_blocks[r][i] : i \in Min(unmarked)..Len(req_to_blocks[r])})],
        [marked |-> {}, affected |-> <<>>, computed |-> num_computed_tokens, evict |-> {}],
        running)

Stops(r) == Len(all_token_ids[r]) + 1 = MaxLen

\* update_from_output of the oldest batch: failed loads first, then a token for
\* every unfinished request that sampled, and the requests that are done with it
\* are freed.  Under the fail policy the affected requests are finished and the
\* blocks behind the failure leave the cache; under recompute they stay in it.
update_from_output(out) ==
    LET batch    == Head(inflight)
        inv      == Invalidate(batch.bad)
        skipped  == ToSet(inv.affected)
        appended == {r \in batch.samples : status[r] # "done" /\ r \notin skipped}
        stopped  == {r \in appended : Stops(r)}
        gone     == stopped \cup (IF Recompute THEN {} ELSE skipped)
        cleaned  == IF Recompute THEN pool
                    ELSE FoldSet(LAMBDA b, q : _maybe_evict_cached_block(q, b), pool, inv.evict \ {Null})
    IN  /\ pass.phase = "idle" /\ inflight # <<>>
        /\ inflight' = Tail(inflight)
        /\ all_token_ids' = [r \in Request |-> IF r \in appended
                                               THEN Append(all_token_ids[r], out[r]) ELSE all_token_ids[r]]
        /\ num_computed_tokens' = [r \in Request |-> IF r \in gone THEN 0 ELSE inv.computed[r]]
        /\ status' = [r \in Request |-> IF r \in gone THEN "done" ELSE status[r]]
        /\ running' = SelectSeq(running, LAMBDA r : r \notin gone)
        /\ waiting' = SelectSeq(waiting, LAMBDA r : r \notin gone)
        /\ \E order \in SetToSeqs(gone) : Free(cleaned, order)
        /\ UNCHANGED <<num_cached_tokens, pass, kv>>

\* finish_requests: an abort is taken between two steps, or after a batch has run
\* and before its output is processed.
Abort(r) ==
    /\ pass.phase = "idle" /\ status[r] \in {"waiting", "running"}
    /\ status' = [status EXCEPT ![r] = "done"]
    /\ running' = Remove(running, r)
    /\ waiting' = Remove(waiting, r)
    /\ num_computed_tokens' = [num_computed_tokens EXCEPT ![r] = 0]
    /\ Free(pool, <<r>>)
    /\ UNCHANGED <<all_token_ids, num_cached_tokens, pass, inflight, kv>>

\* Only while no block is in use.
reset_prefix_cache ==
    /\ pass.phase = "idle" /\ Len(pool.free) = NumBlocks /\ DOMAIN pool.cache # {}
    /\ pool' = [pool EXCEPT !.cache = <<>>, !.hash = [b \in Block |-> NoHash]]
    /\ UNCHANGED <<tables, queues, all_token_ids, num_computed_tokens, num_cached_tokens,
                   pass, inflight, kv>>

Engine ==
    \/ Begin \/ SkipRunning \/ ScheduleRunning \/ PreemptOne \/ EndRunning
    \/ \E ext \in ExtTokens : ScheduleWaiting(ext)
    \/ EndWaiting
    \/ \E bad \in (IF MayFail THEN SUBSET LoadBlocks ELSE {{}}) : Dispatch(bad)
    \/ \E out \in [Request -> OutToken] : update_from_output(out)

Next ==
    \/ Engine
    \/ \E r \in Request : add_request(r)
    \/ \E r \in Abortable : Abort(r)
    \/ reset_prefix_cache

Spec == Init /\ [][Next]_vars

\* The engine core calls step as long as requests are unfinished: weak fairness of
\* Engine, whose steps are those that change the pass or the batches in flight.
\* With a batch queue it waits for the oldest batch when the queue is full or
\* nothing was scheduled, so every batch is processed.
Resting == pass.phase = "idle" /\ running = <<>> /\ waiting = <<>> /\ inflight = <<>>

FairSpec ==
    /\ Spec
    /\ []<>Resting \/ []<><<pass' # pass \/ inflight' # inflight>>_vars
    /\ []<>(inflight = <<>>) \/ []<><<Len(inflight') < Len(inflight)>>_vars

-----------------------------------------------------------------------------

TypeOK ==
    /\ pool.ref \in [Block -> Nat] /\ ToSet(pool.free) \subseteq Block
    /\ \A r \in Request : /\ ToSet(req_to_blocks[r]) \subseteq Block \cup {Null}
                          /\ num_computed_tokens[r] \in 0..MaxLen
                          /\ Len(all_token_ids[r]) <= MaxLen
    /\ pass.budget \in 0..Budget /\ Len(inflight) <= Depth

\* The assertions of the pool hold and it never runs short: has_enough_free_blocks
\* counts every block that the calls after it take, the hits in the free queue and
\* the external tokens included.
PoolNeverFails == ~pool.err

\* Counts, queue and map agree: a block counts one reference per request that
\* lists it, it is in the free queue once when it has none, and it is in the map
\* exactly under its own hash.
PoolConsistent ==
    /\ \A b \in Block : pool.ref[b] = Cardinality({r \in Request : b \in ToSet(req_to_blocks[r])})
    /\ IsInjective(pool.free) /\ ToSet(pool.free) = {b \in Block : pool.ref[b] = 0}
    /\ \A b \in Block : {h \in DOMAIN pool.cache : b \in ToSet(pool.cache[h])}
                            = {pool.hash[b]} \ {NoHash}

\* No batch with a failed load is still to be processed, and no call of schedule
\* is under way.
Settled == pass.phase = "idle" /\ \A i \in DOMAIN inflight : inflight[i].bad = {}

\* A block under a hash holds the keys and values of exactly the tokens that the
\* hash stands for, whoever asked for it and whatever became of the request:
\* get_computed_blocks returns blocks that are computed.
CachedBlocksComputed ==
    Settled => \A b \in Block : pool.hash[b] # NoHash =>
                  \A s \in 1..size :
                      kv[b][s] = SubSeq(pool.hash[b], 1, Len(pool.hash[b]) - size + s)

\* A batch computes from the right rows: everything that its tokens attend to is
\* in the block table of their request and, once the batch has written, holds the
\* keys and values of the request's own tokens.  Loads that fail now, or failed in
\* a batch still in flight, are set aside: their output is thrown away.
BatchReadsOwn ==
    pass.phase = "dispatch" /\ (\A i \in DOMAIN inflight : inflight[i].bad = {}) =>
        LET K == Batch(AfterLoads({}))
        IN  \A r \in Request : \A p \in Computed(r) : ReadsOwn(K, r, p)

\* Eviction takes the tail of a prefix before its head: a freed block is never
\* behind a freed block of the same request that comes later in its tokens, so
\* a full attention prefix loses its last blocks first.
TailEvictedFirst ==
    \A i, j \in DOMAIN pool.free :
        LET h == pool.hash[pool.free[i]]
            k == pool.hash[pool.free[j]]
        IN  h # NoHash /\ k # NoHash /\ i < j => ~(Len(h) < Len(k) /\ h = SubSeq(k, 1, Len(h)))

\* Every request that is not aborted is served to its end, whatever is preempted
\* on the way.
EveryRequestServed == \A r \in Request : (status[r] = "waiting") ~> (status[r] = "done")
=============================================================================
