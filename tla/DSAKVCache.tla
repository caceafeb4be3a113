----------------------------- MODULE DSAKVCache -----------------------------
(***************************************************************************)
(* The KV cache of a DSA model: KVCacheManager.allocate_slots and free      *)
(* (kv_cache_manager.py) over the two groups of the coordinator             *)
(* (kv_cache_coordinator.py), DSALatentManager for the latent group and the *)
(* base manager for the indexer group (single_type_kv_cache_manager.py),    *)
(* both on the shared bundle pool, driven by the steps of the scheduler     *)
(* that allocate, preempt, load, release and free.                          *)
(*                                                                          *)
(* A bundle of the latent group is the set of table rows its blocks back;   *)
(* which physical blocks they are is the subject of DSASharedPool.  The     *)
(* indexer group never has holes, so its table is a number of bundles.      *)
(***************************************************************************)
EXTENDS Integers, FiniteSets

CONSTANTS Req,
          Capacity,            \* bundles of the shared pool
          BlockSize,
          LatentPerBundle,     \* latent blocks per bundle
          IndexerPerBundle,    \* indexer blocks per bundle
          Scratch,             \* DSALatentManager.scratch_blocks
          Window,              \* tokens per decode-window save
          PromptLen,           \* PromptLen[r]: num_prompt_tokens
          MaxTokens,           \* max_model_len
          Lookahead,           \* num_lookahead_tokens
          Budgets,             \* token budgets a request may meet
          Hits,                \* numbers of tokens an external lookup may match
          LookupStable         \* a lookup that matched once matches again

ASSUME CacheAssumption ==
    /\ {Capacity, BlockSize, LatentPerBundle, IndexerPerBundle, Window, MaxTokens} \subseteq Nat \ {0}
    /\ {Scratch, Lookahead} \subseteq Nat
    /\ Budgets \subseteq Nat \ {0} /\ Hits \subseteq Nat \ {0}
    /\ PromptLen \in [Req -> 1..MaxTokens]
    /\ Window % BlockSize = 0
    /\ LookupStable \in BOOLEAN

VARIABLES
    phase,          \* "waiting", "loading" (for remote KV), "running" or "done"
    computed,       \* request.num_computed_tokens
    tokens,         \* request.num_tokens
    latent,         \* latent[r]: the bundles of r's latent table
    latent_len,     \* len(req_to_blocks[r]) of the latent group
    indexer,        \* bundles of r's indexer table
    prefix,         \* _compact_external_prefix_tokens
    released,       \* _compact_external_released_blocks
    free_bundles,   \* allocator.free_bundle_count
    local_from,     \* first token of r that was computed here, not loaded
    reached,        \* tokens of r ever computed, so ever handed to a save
    saved,          \* the greatest committed_end reported for r
    failed          \* get_new_blocks raised or an assert failed

requests == <<phase, computed, tokens, local_from, reached>>
tables == <<latent, latent_len, indexer, prefix, released, free_bundles>>
vars == <<requests, tables, saved, failed>>

NoPrefix == -1
MaxOf(a, b) == IF a >= b THEN a ELSE b
MinOf(a, b) == IF a <= b THEN a ELSE b
cdiv(a, b) == (a + b - 1) \div b

-----------------------------------------------------------------------------
(* DSALatentManager.                                                        *)

_round_up_to_bundle(n) == cdiv(n, LatentPerBundle) * LatentPerBundle
_round_down_to_bundle(n) == (n \div LatentPerBundle) * LatentPerBundle
scratch_end == _round_up_to_bundle(Scratch)

\* Mutant: the number of rows is not rounded to whole bundles.
_compact_required_indices_Unrounded(p, num_tokens, main, force, rel) ==
    LET required == cdiv(num_tokens, BlockSize)
    IN  IF ~force /\ main <= p THEN 0 .. required - 1
        ELSE (0 .. scratch_end - 1)
             \cup (MaxOf(scratch_end, MaxOf(p \div BlockSize, rel)) .. required - 1)

\* Mutant: the tail starts after the block that the prefix ends in.
_compact_required_indices_LateTail(p, num_tokens, main, force, rel) ==
    LET required == _round_up_to_bundle(cdiv(num_tokens, BlockSize))
        tail == MaxOf(_round_up_to_bundle(cdiv(p, BlockSize)), rel)
    IN  (0 .. scratch_end - 1) \cup (MaxOf(scratch_end, tail) .. required - 1)

\* The rows a compact table needs for num_tokens slots: everything while the
\* prompt is prefilled again, else the scratch rows and the tail.
_compact_required_indices(p, num_tokens, main, force, rel) ==
    LET required     == _round_up_to_bundle(cdiv(num_tokens, BlockSize))
        tail         == MaxOf(_round_down_to_bundle(p \div BlockSize), rel)
        final_prompt == _round_down_to_bundle(MaxOf(cdiv(p, BlockSize) - 1, 0))
        tail_start   == IF force THEN MinOf(tail, final_prompt) ELSE tail
    IN  IF ~force /\ main <= p THEN 0 .. required - 1
        ELSE (0 .. scratch_end - 1) \cup (MaxOf(scratch_end, tail_start) .. required - 1)

Rows(r) == UNION latent[r]

\* The rows of M in increasing order, one bundle after the other.
InBundles(M) ==
    LET rank(i) == Cardinality({j \in M : j < i})
    IN  {{i \in M : rank(i) \div LatentPerBundle = g} :
            g \in 0 .. cdiv(Cardinality(M), LatentPerBundle) - 1}

-----------------------------------------------------------------------------
(* allocate_slots.  slots is [need, main, total, load]: the tokens that need *)
(* a slot, the ones of the main model, the computed ones, and whether this  *)
(* is the allocation for an external load into a compact table.             *)

Slots(r, new, ext, load) ==
    LET total == computed[r] + ext
        look  == IF computed[r] = 0 THEN 0 ELSE Lookahead
    IN  [need |-> MinOf(total + new + look, MaxTokens), main |-> total + new,
         total |-> total, load |-> load]

\* The rows that the compact managers find missing: at admission, ...
MissingAtAdmission(r, s) ==
    IF s.load
    THEN _compact_required_indices(s.total, s.need, s.main, TRUE, 0) \ Rows(r)
    ELSE _compact_required_indices(prefix[r], s.need, s.main, FALSE, released[r]) \ Rows(r)

\* ... and when the blocks are taken: for a load the scratch rows first, unless
\* it finds a table (allocate_new_computed_blocks_compact_external returns early).
StartsTable(r, s) == s.load /\ latent_len[r] = 0
ScratchRows(r, s) == IF StartsTable(r, s) THEN 0 .. scratch_end - 1 ELSE {}
MissingAfterScratch(r, s) ==
    IF s.load
    THEN _compact_required_indices(s.total, s.need, s.main, TRUE, released[r])
             \ (Rows(r) \cup ScratchRows(r, s))
    ELSE _compact_required_indices(prefix[r], s.need, s.main, FALSE, released[r]) \ Rows(r)

UsesCompact(r, s) == s.load \/ prefix[r] # NoPrefix

\* get_num_blocks_to_allocate_per_group
latent_blocks_to_allocate(r, s) ==
    IF UsesCompact(r, s) THEN Cardinality(MissingAtAdmission(r, s))
    ELSE MaxOf(cdiv(s.need, BlockSize) - latent_len[r], 0)
indexer_blocks_to_allocate(r, s) ==
    MaxOf(cdiv(s.need, BlockSize) - indexer[r] * IndexerPerBundle, 0)

has_enough_free_blocks(r, s) ==
    cdiv(latent_blocks_to_allocate(r, s), LatentPerBundle)
        + cdiv(indexer_blocks_to_allocate(r, s), IndexerPerBundle) <= free_bundles

\* The bundles the latent manager adds: allocate_new_computed_blocks and then
\* allocate_new_blocks.  A base-manager table grows by whole bundles.
NewLatent(r, s) ==
    IF UsesCompact(r, s)
    THEN InBundles(MissingAfterScratch(r, s)) \cup InBundles(ScratchRows(r, s))
    ELSE LET more == MaxOf(cdiv(s.need, BlockSize) - latent_len[r], 0)
         IN  InBundles(latent_len[r] .. latent_len[r] + _round_up_to_bundle(more) - 1)

NewLatentLen(r, s) ==
    LET added == UNION NewLatent(r, s)
        table == IF StartsTable(r, s) THEN MaxOf(cdiv(s.total, BlockSize), scratch_end) ELSE latent_len[r]
    IN  CHOOSE n \in {table} \cup {i + 1 : i \in added} :
            n >= table /\ \A i \in added : i < n

\* A bundle more than there are raises in get_new_blocks; a compact table
\* that asks for part of a bundle fails `len(new_blocks) == len(missing)`.
AllocationFails(r, s) ==
    \/ Cardinality(NewLatent(r, s)) + cdiv(indexer_blocks_to_allocate(r, s), IndexerPerBundle)
           > free_bundles
    \/ UsesCompact(r, s) /\ Cardinality(MissingAfterScratch(r, s)) % LatentPerBundle # 0

\* allocate_slots once has_enough_free_blocks holds.
Allocate(r, s) ==
    LET more == cdiv(indexer_blocks_to_allocate(r, s), IndexerPerBundle)
    IN  IF AllocationFails(r, s)
        THEN failed' = TRUE /\ UNCHANGED tables
        ELSE /\ latent' = [latent EXCEPT ![r] = @ \cup NewLatent(r, s)]
             /\ latent_len' = [latent_len EXCEPT ![r] = NewLatentLen(r, s)]
             /\ indexer' = [indexer EXCEPT ![r] = @ + more]
             /\ prefix' = IF s.load THEN [prefix EXCEPT ![r] = s.total] ELSE prefix
             /\ free_bundles' = free_bundles - Cardinality(NewLatent(r, s)) - more
             /\ UNCHANGED <<released, failed>>

\* Mutant: the indexer's bundles get lost.
Free_Lost(r) ==
    /\ latent' = [latent EXCEPT ![r] = {}]
    /\ latent_len' = [latent_len EXCEPT ![r] = 0]
    /\ indexer' = [indexer EXCEPT ![r] = 0]
    /\ prefix' = [prefix EXCEPT ![r] = NoPrefix]
    /\ released' = [released EXCEPT ![r] = 0]
    /\ free_bundles' = free_bundles + Cardinality(latent[r])

\* KVCacheManager.free: both tables and the compact markers go.
Free(r) ==
    /\ latent' = [latent EXCEPT ![r] = {}]
    /\ latent_len' = [latent_len EXCEPT ![r] = 0]
    /\ indexer' = [indexer EXCEPT ![r] = 0]
    /\ prefix' = [prefix EXCEPT ![r] = NoPrefix]
    /\ released' = [released EXCEPT ![r] = 0]
    /\ free_bundles' = free_bundles + Cardinality(latent[r]) + indexer[r]

-----------------------------------------------------------------------------
(* The steps of the scheduler.                                              *)

Init ==
    /\ phase = [r \in Req |-> "waiting"]
    /\ computed = [r \in Req |-> 0]
    /\ tokens = PromptLen
    /\ latent = [r \in Req |-> {}]
    /\ latent_len = [r \in Req |-> 0]
    /\ indexer = [r \in Req |-> 0]
    /\ prefix = [r \in Req |-> NoPrefix]
    /\ released = [r \in Req |-> 0]
    /\ free_bundles = Capacity
    /\ local_from = [r \in Req |-> 0]
    /\ reached = [r \in Req |-> 0]
    /\ saved = [r \in Req |-> 0]
    /\ failed = FALSE

NewTokens(r) == {MinOf(b, tokens[r] - computed[r]) : b \in Budgets} \ {0}

\* What get_num_new_matched_tokens may answer, 0 for no match.
Lookup(r) ==
    IF LookupStable /\ prefix[r] # NoPrefix THEN {prefix[r]}
    ELSE {0} \cup {h \in Hits : h <= tokens[r]}

\* The request runs: _update_after_schedule advances its computed tokens.
Run(r, new) ==
    /\ Allocate(r, Slots(r, new, 0, FALSE))
    /\ phase' = [phase EXCEPT ![r] = "running"]
    /\ computed' = [computed EXCEPT ![r] = @ + new]
    /\ reached' = [reached EXCEPT ![r] = MaxOf(@, computed[r] + new)]
    /\ UNCHANGED <<tokens, local_from, saved>>

\* A waiting request without a match, or one whose load has ended, is admitted.
ScheduleWaiting(r) ==
    /\ phase[r] = "waiting"
    /\ computed[r] = 0 => 0 \in Lookup(r)
    /\ \E new \in NewTokens(r) :
        /\ has_enough_free_blocks(r, Slots(r, new, 0, FALSE))
        /\ Run(r, new)

\* A waiting request with a match: its load starts, or it is refused.  The
\* admission check has then written the compact marker all the same.
ScheduleLoad(r) ==
    /\ phase[r] = "waiting" /\ computed[r] = 0
    /\ \E ext \in Lookup(r) \ {0} :
        LET s == Slots(r, 0, ext, TRUE)
        IN  IF has_enough_free_blocks(r, s)
            THEN /\ Allocate(r, s)
                 /\ phase' = [phase EXCEPT ![r] = "loading"]
                 /\ computed' = [computed EXCEPT ![r] = ext]
                 /\ UNCHANGED <<tokens, local_from, reached, saved>>
            ELSE /\ prefix' = [prefix EXCEPT ![r] = ext]
                 /\ UNCHANGED <<requests, latent, latent_len, indexer, released,
                                free_bundles, saved, failed>>

\* _preempt_request
Preempt(v) ==
    /\ Free(v)
    /\ phase' = [phase EXCEPT ![v] = "waiting"]
    /\ computed' = [computed EXCEPT ![v] = 0]
    /\ local_from' = [local_from EXCEPT ![v] = 0]
    /\ UNCHANGED <<tokens, reached, saved, failed>>

\* A running request is scheduled, or a running one, it may be itself, is
\* preempted to make room; the loop then tries again.
ScheduleRunning(r) ==
    /\ phase[r] = "running"
    /\ \E new \in NewTokens(r) :
        IF has_enough_free_blocks(r, Slots(r, new, 0, FALSE))
        THEN Run(r, new)
        ELSE \E v \in Req : phase[v] = "running" /\ Preempt(v)

\* update_from_output: a token is sampled once all tokens are computed.
OutputToken(r) ==
    /\ phase[r] = "running" /\ computed[r] = tokens[r] /\ tokens[r] < MaxTokens
    /\ tokens' = [tokens EXCEPT ![r] = @ + 1]
    /\ UNCHANGED <<phase, computed, local_from, reached, tables, saved, failed>>

\* _update_waiting_for_remote_kv after a load without failures: on a full hit
\* the last token is computed again.
LoadSucceeds(r) ==
    /\ phase[r] = "loading"
    /\ LET valid == IF computed[r] = tokens[r] THEN tokens[r] - 1 ELSE computed[r]
       IN  /\ computed' = [computed EXCEPT ![r] = valid]
           /\ local_from' = [local_from EXCEPT ![r] = valid]
    /\ phase' = [phase EXCEPT ![r] = "waiting"]
    /\ UNCHANGED <<tokens, reached, tables, saved, failed>>

\* After a failure nothing of a compact table is valid and it is freed.
LoadFails(r) ==
    /\ phase[r] = "loading"
    /\ Free(r)
    /\ phase' = [phase EXCEPT ![r] = "waiting"]
    /\ computed' = [computed EXCEPT ![r] = 0]
    /\ UNCHANGED <<tokens, local_from, reached, saved, failed>>

\* Mutant: the rows are released from the first one on.
release_start_Zero == 0
\* The first row that a completed save may release.
release_start == Scratch

\* free_blocks returns a bundle once none of its blocks is referenced.
Emptied(r, gone) == {b \in latent[r] : b \subseteq gone}
Returned(r, gone) == Cardinality(Emptied(r, gone))

\* remove_saved_decode_window_blocks, for a completed save that may be late:
\* the request can have been preempted, and resumed, since it was handed out.
WindowSaved(r, committed_end) ==
    LET end  == MinOf(committed_end \div BlockSize, latent_len[r])
        gone == release_start .. end - 1
    IN  /\ phase[r] # "done"
        /\ committed_end <= reached[r]
        /\ saved' = [saved EXCEPT ![r] = MaxOf(@, committed_end)]
        /\ released' = IF prefix[r] = NoPrefix \/ latent_len[r] = 0 THEN released
                       ELSE [released EXCEPT ![r] = MaxOf(@, end)]
        /\ latent' = [latent EXCEPT ![r] = {b \ gone : b \in @ \ Emptied(r, gone)}]
        /\ free_bundles' = free_bundles + Returned(r, gone)
        /\ UNCHANGED <<requests, latent_len, indexer, prefix, failed>>

\* _free_request
Finish(r) ==
    /\ phase[r] # "done"
    /\ Free(r)
    /\ phase' = [phase EXCEPT ![r] = "done"]
    /\ computed' = [computed EXCEPT ![r] = 0]
    /\ local_from' = [local_from EXCEPT ![r] = 0]
    /\ UNCHANGED <<tokens, reached, saved, failed>>

Saves == {w * Window : w \in 1 .. MaxTokens \div Window}

Next ==
    /\ ~failed
    /\ \E r \in Req :
        \/ ScheduleWaiting(r) \/ ScheduleLoad(r) \/ ScheduleRunning(r)
        \/ OutputToken(r) \/ LoadSucceeds(r) \/ LoadFails(r) \/ Finish(r)
        \/ \E e \in Saves : WindowSaved(r, e)

Spec == Init /\ [][Next]_vars

-----------------------------------------------------------------------------

TypeOK ==
    /\ phase \in [Req -> {"waiting", "loading", "running", "done"}]
    /\ computed \in [Req -> 0 .. MaxTokens] /\ tokens \in [Req -> 1 .. MaxTokens]
    /\ \A r \in Req : Rows(r) \subseteq 0 .. latent_len[r] - 1
    /\ latent_len \in [Req -> Nat] /\ indexer \in [Req -> Nat]
    /\ prefix \in [Req -> {NoPrefix} \cup 1 .. MaxTokens]
    /\ released \in [Req -> Nat]
    /\ free_bundles \in 0 .. Capacity
    /\ failed \in BOOLEAN

\* A request that has_enough_free_blocks admits gets its blocks: with two
\* groups, two phases and bundles of different sizes, no get_new_blocks call
\* runs out and no assertion about the number of blocks fails.
AdmittedRequestsAreServed == ~failed

\* The bundles of the two tables of r, the indexer's by number.
BundlesOf(r) ==
    {<<r, "latent", b>> : b \in latent[r]} \cup {<<r, "indexer", k>> : k \in 1 .. indexer[r]}

\* Every bundle is free or backs a row of exactly one table: none is lost or
\* counted twice by releases of parts of a bundle.
BundlesConserved ==
    free_bundles + Cardinality(UNION {BundlesOf(r) : r \in Req}) = Capacity

\* "The fixed compact-scratch prefix remains in the request block table and is
\* never released before request completion", whatever saves complete.
ScratchStays ==
    \A r \in Req : prefix[r] # NoPrefix /\ latent_len[r] > 0 => 0 .. Scratch - 1 \subseteq Rows(r)

\* The latent KV of a token that was computed here is in a resident row until
\* a save that covers it has completed: no chunk of a prefill and no decode
\* step writes to the null block.
ComputedRowsResident ==
    \A r \in Req : phase[r] = "running" =>
        \A t \in local_from[r] .. computed[r] - 1 :
            t \div BlockSize \in Rows(r) \/ t < saved[r]

=============================================================================
