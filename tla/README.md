# Formal models of the KV cache, the scheduler and the engine's protocols

This directory holds TLA+ modules for the part of the server that decides which
memory a request may use and when it is given back, and for the protocols by
which engine, workers and front ends keep in step. TLC checks the modules on
small instances; TLAPS proves the central properties for every size.
`PROJECT.json` relates every definition to the source lines it models, lists the
parts of the system with and without a module, and lists the hazards of the code
at the line where they bite. Paths below are relative to `src/vllm/`.

## The system and its modules

| part | modules | what is hard about it |
|---|---|---|
| bundle pool of DSA (sparse attention) models: `v1/core/dsa_shared_pool.py`, `DSASharedLogicalBlockPool` in `v1/core/block_pool.py` | `BundlePool`, `BundleRanges`, `BundleFreeList`, `DSASharedPool` | a bundle is acquired whole and returned in parts; best fit, gathering, merging |
| KV cache of a DSA model: `DSALatentManager` in `v1/core/single_type_kv_cache_manager.py`, `kv_cache_coordinator.py`, `kv_cache_manager.py` | `DSAKVCache` | one admission check for two groups and two allocation phases; rounding to bundles; late saves; markers that outlive a refusal |
| scheduler, batch queue, KV transfers: `v1/core/sched/scheduler.py`, `v1/engine/core.py`, `distributed/kv_transfer/kv_connector/utils.py` | `KVTransferLifecycle` | outputs arrive after the state has moved on: preempted, aborted, loading, finished |
| prefix cache under the scheduler: `BlockPool`, `KVCacheManager`, `Scheduler.schedule` | `PrefixCache` | blocks are hashed before they are computed; preemption, aborts and failed loads in between |
| free queue of the block pool: `FreeKVCacheBlockQueue` in `v1/core/kv_cache_utils.py` | `FreeBlockList`, `FreeBlockQueue` | a doubly linked list threaded through the blocks |
| hybrid lookup: `find_longest_cache_hit` of the managers and of `HybridKVCacheCoordinator` | `LongestHit`, `HybridHits` | a fixed point over groups with different block sizes and windows |
| offloaded blocks: `v1/kv_offload` | `OffloadCache` | eviction while transfers are under way |
| broadcast to the workers: `distributed/device_communicators/shm_broadcast.py`, its shutdown in `v1/executor/multiproc_executor.py` | `Broadcast`, `ShmRing` | flags in shared memory without locks; sleeping and waking |
| data-parallel waves: `v1/engine/core.py`, `coordinator.py`, `core_client.py` | `DPWaves` | messages of two waves cross |

The other parts (asynchronous and recompute schedulers, `MultiConnector`, the
Mooncake, LMCache and store-pool connectors, the paired restart, executors,
model runners and kernels) have no module; see "Not modelled".

**`BundlePool`** is the abstract promise of the pool: a bundle is free or has one
owner, is acquired only when free, and is released only by its owner.
**`BundleRanges`** holds the free-list operations as operators on a *set* of
ranges; **`BundleFreeList`** has the loops of `DSASharedBundleAllocator` over the
sorted *list*. **`DSASharedPool`** is the pool of both groups: `owners`,
`free_ranges` and `ref_cnt` are the fields of these names, `get_new_blocks` and
`free_blocks` the methods with the allocator call inside them. Calls that raise
change nothing and have no action. A block is freed only by the table that holds it.

**`DSAKVCache`** is the KV cache above the pool. A latent bundle is the set of
table rows it backs, so that a partial release is visible; the indexer table has
no holes and is a number of bundles. `_compact_required_indices` is translated
line by line. The actions are the steps of the scheduler that change tables:
`ScheduleWaiting`, `ScheduleLoad` (with the marker that admission writes even
when it refuses), `ScheduleRunning` with preemption, `OutputToken`,
`LoadSucceeds`, `LoadFails`, `WindowSaved` and `Finish`. A save may be reported
any time after its tokens were computed, also after a preemption. A load that
fully matches a prompt of one token leaves nothing computed, so the request is
looked up and loaded again into the table it has (`StartsTable`). `LoadFails`
joins the failure report with the promotion that frees the table; what happens
between the two is the subject of `KVTransferLifecycle`.

**`KVTransferLifecycle`** composes scheduler, batch queue, the workers' transfers
and the aggregator. Requests have a status, a queue and "a table or none"; running
out of blocks or budget is a choice. The actions are `add_request`,
`finish_requests`, `schedule`, `execute_model` (workers report, the aggregator
counts), `update_from_output`, `RecvDone` and `SendDone`. `blocking` says that the
engine thread waits for the oldest batch, which restricts new requests, aborts and
scheduling as `step_with_batch_queue` and the busy loop do. Connector and workers
are external, modelled from how the scheduler uses them.

**`PrefixCache`** is the pool with its hash map and free queue, one manager, and a
call of `schedule` as a pass over the running and the waiting requests with token
budget, chunking, preemption, priority, prefix hits, external hits and failed
synchronous loads. The hash of a block is the sequence of tokens up to its end;
`kv` is a history variable that records which tokens each slot was computed from.

**`FreeBlockQueue`** has `next_free_block`, `prev_free_block` and
`num_free_blocks` as the code has them, with `popleft`, `popleft_n`, `remove`,
`append` and `append_n`; **`FreeBlockList`** is the sequence it promises to be.
**`LongestHit`** has the searches as operators; **`HybridHits`** lets cached
blocks come and go and compares the result with a reference definition in every
state. **`OffloadCache`** has `prepare_load`, `touch`, `prepare_store`,
`complete_load` and `complete_store` of the LRU and of the ARC manager; the
fractional `target_t1_size` is kept in units of `1/Scale`.

**`ShmRing`** takes every load and store of a flag as a step, in program order, as
the fences of the code demand; a chunk is `Torn` while it is written. Large
messages go through a socket; `SpinCondition` puts idle readers to sleep and wakes
them. **`Broadcast`** is the queue it promises to be. **`DPWaves`** has engines,
coordinator and front ends with the channels between them; messages arrive at any
time after they were sent, so a poll sees any part of what is under way.

`MC...` modules give constants their values and let one run go through several
deployments (`MCDSAKVCache`, `MCKVTransferLiveness`, `MCPrefixCacheAll`) or several small components
(`MCContainers`). Operators named `X_Something` beside `X` are wrong variants of
`X`, plausible slips in the code. Each violates a property, which shows that the
property notices it.

## What TLC checks

| run | instance | result |
|---|---|---|
| `dsa_shared_pool` | 3 bundles, 2 latent and 2+1 indexer blocks each | ownership, references and free list agree; no aliasing; implements `BundlePool` |
| `containers` | 7 bundles, at most 3 per `free`; 4 queue blocks; 2 offloaded blocks | list loops compute the range operators, and split a request only when they must; the linked queue is a sequence; LRU and ARC keep what transfers use and lose no block |
| `dsa_cache` | 2 requests, 6 bundles; with loads, without, and with one-token prompts that are loaded again | admission suffices, scratch stays, computed rows are resident, no bundle is lost |
| `transfer_policies` | 2 requests, 2 workers; 2 batches and recompute policy, or 1 batch and fail policy | blocks outlive transfers, assertions hold, fences are exact, queues match statuses |
| `transfer_liveness` | 2 requests and 1 worker, or 1 request and 2 workers; 1 batch | finished requests are freed unless the engine goes idle; loads are acknowledged, also when the workers report them in different steps |
| `prefix_cache` | 3 requests with a common first block, 3 to 9 blocks, five deployments | the pool never fails and stays consistent; cached blocks are computed; batches read their own rows; tails go first; every request is served |
| `hybrid_hits` | full and two sliding-window groups over 6 tokens; full and chunked over 7 | the fixed point is the longest usable hit |
| `shm_ring` | 2 readers, 2 chunks, 3 messages, one large; time-outs, shutdown, writer's end | no torn reads; implements `Broadcast`; no lost wake-up; shutdown ends a reader |
| `dp_waves` | 3 engines, 1 front end, 2 requests | waves are counted in step; all agree at rest; every request is served and engines pause |
| `transfer_depth3`, `dsa_cache_stale_marker`, `prefix_cache_shared_failure` | see "Counterexamples" | violations |

**Bounds.** Three bundles allow one of each group and a free one between them; seven
allow three separated runs, so that best fit, ties, gathering and merging on both
sides occur. In `DSAKVCache` a prompt of nine tokens in blocks of two ends inside a
block and inside a bundle; six bundles are too few for both requests, so admission
is refused and requests are preempted; the hits 8 and 9 are a partial and a full
match; bundles hold 2 and 3 blocks, so the two groups are rounded differently. In
the deployment without loads window and scratch end inside a bundle. `MaxTokens`,
`Budgets` and `Hits` bound the data. In the lifecycle two workers suffice for one to
be ahead of the other, and two requests for one to be preempted while the other
keeps the engine from blocking. In `PrefixCache` two requests share a block, a third
competes for the rest, and lengths up to three blocks allow a prefix to lose its
tail. Under the priority policy all three run, with two batches in flight, so that a
victim may be one that the pass has scheduled, or one that it passed over and whose
removal shifts the queue. In the ring three messages go round two chunks, so that a
chunk is used again; a reader that lags by the whole capacity of `Broadcast` takes
four, and is left to the proof. In `DPWaves` two requests suffice for one to arrive
while the wave of the other ends. `MaxUnread = 1` leaves out only publications that
repeat one still unread, since every change of the coordinator's state is published
at once (`Told`, below); the theorems have any `MaxUnread`. A request id is used
once. Deadlock is not checked where requests may all be finished. The type
invariants of the other modules hold on the same instances; only that of
`DSASharedPool` is listed.

**Fairness.** `KVTransferLifecycle`: `schedule` and `update_from_output` are weakly
fair because the busy loop steps as long as there is work, `execute_model` because
a batch handed to the workers is executed, `RecvDone` and `SendDone` because
transfers end, possibly with a failure. `FinishedEventuallyFreed` has the exception
the code has: `has_requests` ignores a request that only waits for a fence.
`PrefixCache`: the engine steps while requests are unfinished, and the oldest batch
is processed, since the engine waits for it when the queue is full or nothing was
scheduled. `ShmRing`: the writer and each reader run, and pings that were accepted
arrive; whether the writer has more to send, times out or ends is open. `DPWaves`:
when engines, coordinator or channels have something to do, one of them does it,
and each front end's task reads what is published and forwards what it is given.
Nothing is assumed about new requests, aborts or what a scheduler chooses.

## Counterexamples

With a run:

1. *Three batches in flight* (`transfer_depth3`). Batch *k* runs `r1` and `r2`;
   *k+1* preempts `r1`; *k+2* readmits it as an asynchronous load; the output of
   *k* stops `r1`. `update_from_output` frees it without a receive fence
   (`scheduler.py:1667`) while the load is under way, and leaves it in
   `skipped_waiting`. At depth 2 all holds, for every number of requests (below).
2. *Stale compact marker* (`dsa_cache_stale_marker`). Admission writes the marker
   (`single_type_kv_cache_manager.py:596`), refuses, and a later lookup misses:
   the prompt is prefilled into a table with holes. With lookups that keep
   matching (`LookupStable`) all holds.
3. *Failed load shared by two requests* (`prefix_cache_shared_failure`). Under the
   fail policy only what the first one computed behind the shared block is evicted
   from the cache (`scheduler.py:2697`).

Reached by changing constants of a run; the passing runs exclude them:

* `DSAKVCache`, `Window = 2`, `Scratch = 2`, `Hits = {8, 9}`: the release frontier
  (`single_type_kv_cache_manager.py:852`) is not rounded to a bundle, and the next
  compact allocation fails the assertion at line 722 (`AdmittedRequestsAreServed`).
  An odd `Scratch` leads to the same assertion through line 845.
* `HybridHits`, groups full(1), full(2), sliding(1,3) over 4 tokens: only the first
  full-attention list is cut to the final length (`kv_cache_coordinator.py:1065`;
  `ListsHaveHitLength`).
* `PrefixCache`, priority policy, `Threshold = 3`, prompts of 9 and 5 tokens, 7
  blocks: a request preempted in the pass that scheduled it leaves hashed blocks that
  nobody computes (`scheduler.py:584`; `CachedBlocksComputed`). With the short
  prompts of the run the block in question is the next one to be reused.
* `PrefixCache`, `MayFail` with `Abortable` requests: an abort between a failed load
  and its recomputation leaves blocks in the cache that hold nothing
  (`scheduler.py:2779-2785`; `BatchReadsOwn`).
* `ShmRing`, `SlowSocket = TRUE`, `Timed = {1}`: a reader times out on the socket
  after it gave its chunk back and skips the message (`InOrder`). `CrashAt =
  {"send"}`: the reader waits on the socket and its shutdown does not reach it
  (`ShutdownEndsReader`).
* `DPWaves`, `EarlyAborts = TRUE`: an abort that overtakes the first step of a
  paused engine leaves the others waiting in a dummy batch (`core.py:2004`;
  `ServedAndPaused`), and with a single engine leaves the coordinator believing in
  a running wave (`AgreeAtRest`). The identity a front end sends with `FIRST_REQ`
  is not the rank `core.py:1962` compares with, so the exclusion has no effect.

Within a passing run: the ARC manager gives up after it has evicted blocks, without
a removal event (`arc_manager.py:169`). `containers` reaches this case; no block is
lost by it (`OffloadBlocksConserved`), but the events no longer tell what is cached,
so `OffloadEventsTellContents` states for ARC that what can be loaded was announced,
and the converse for LRU only.

## What TLAPS proves

All theorems hold for every number of requests, workers, engines, readers, blocks
or bundles. The constants satisfy what the code demands of them
(`LayoutAssumption`, `CacheAssumption`, `LifecycleAssumption`,
`ShmRingAssumption`, `DPWavesAssumption`). A further hypothesis, where there is
one, stands in the theorem; the counterexamples above show why it is there.

| module | theorem | says |
|---|---|---|
| `DSASharedPoolProofs` | `TypeCorrect`, `FreeListIsExact`, `OwnershipFollowsReferences`, `GroupsNeverAlias` | no block is referenced twice; the free list is the unowned bundles in maximal runs; a bundle is owned while a block of it is live; live blocks of different groups share no memory |
| | `Refinement` | `DSASharedPool` implements `BundlePool` |
| `DSAKVCacheProofs` | `BundlesAreConserved` | free bundles and the bundles of all tables add up to the capacity |
| | `ScratchIsKept` | if lookups are stable, a compact table always has its scratch rows |
| `DSAServingProofs` | `AdmittedAreServed` | what admission lets through, allocation can serve; where loads happen, scratch and window fill bundles (`Deployment`) |
| `DSAResidentProofs` | `ComputedAreResident` | a token computed and not saved has its row in the table; lookups are stable, and `Deployment` |
| `KVTransferProofs` | `BlocksAreHeld`, `NoAssertionFails`, `FencesAreExact`, `QueuesFollowStatus` | blocks outlive transfers, the scheduler's assertions hold, fences and queues are exact; at most two batches are in flight |
| `FreeBlockQueueProofs` | `LinksAlwaysAgree`, `QueueImplementsList` | both directions of the links, the counter and the sentinels describe one list without repetitions; the queue implements `FreeBlockList` |
| `ShmRingProofs` | `WholeChunks`, `RingImplementsBroadcast` | a reader never sees a torn chunk; the ring implements `Broadcast`, if no reader times out on the socket (`~SlowSocket`) |
| `DPWavesProofs` | `EnginesShareTheWave`, `AllAgreeAtRest` | engines count waves in step and nobody is ahead of them; when all has settled, coordinator and front ends know it (more than one engine, as `core.py:1920` asserts, or no early aborts) |

The properties are not inductive. The invariants that are, and why:

* **Pool.** `IInv == TypeOK /\ FreeListSeparated /\ OwnedIffReferenced /\
  LiveInBundles`. `FreeListSeparated` says that ranges are non-empty and neither
  overlap nor touch; without it, what `take` leaves could not be described.
  `LiveInBundles` says that no live block lies in the reserved slot, without which
  `free_blocks` could return a bundle that is not there. The lemmas are about the
  layout (`LayoutInverse`), about ranges (`SeparatedIsMaximal`,
  `MaximalRunsCover`) and about the two list operations (`TakeCorrect`,
  `GiveBackCorrect`).
* **DSA cache.** Four invariants, one per property. `KeepInv`: the bundles of a
  table lie apart and below its length, so that a release counts each bundle it
  empties once. `ScratchInv`: in which phase a request with a marker can have a
  table. `ServeInv`: where loads happen, tables, lengths and release frontiers are
  made of whole bundles; then the blocks admission counts are the blocks
  allocation takes (`TakenAsCounted`). `ResidentInv`: a table without a marker
  lacks only saved rows, and a request with one is past its prefix or has all its
  tokens in it. The bundles that an allocation adds are described once
  (`NewRows`, `NewLength`). Conservation needs no hypothesis on lookups, window or
  scratch.
* **Transfers.** `TransferInv`: the aggregator waits for as many reports as there
  are workers still to report (`Counted`); a completion is in the output of one
  batch (`ReportedOnce`); everyone who waits has a completion under way, and every
  completion has somebody who waits (`Owned`). `OutputsAwaited` is where the depth
  enters: a request whose output is on its way runs, is finished, or was preempted
  by the second of two batches, too late for a third to start a load for it.
* **Free queue.** `QueueInv == \E q : Holds(q)`: there is a sequence that both
  directions of the links spell out between the sentinels. Every operation maps it
  to the sequence the abstract list has next. The queue is the walk along the
  links, a function defined from its predecessor; that it exists and is unique is
  shown by a least counterexample (`LeastElement`, `Iterates`), which takes the
  place of induction.
* **Ring.** `RingInv`: while the writer sums up flags, a flag it has passed stays as
  it is (`ScanBound`). `QueueInv` adds where writer and readers are in the ring
  (`Positions`), what the chunks hold for each of them (`Unread`, `AlreadyRead`,
  `Unused`) and what is in the sockets (`Socket`).
* **Waves.** `WaveInv`: no belief and no message is ahead of the engines' common
  wave. `RestInv` adds that front ends know or will be told what the coordinator
  believes (`Told`), that the end of a wave is on its way to a coordinator that
  lags (`CompletionUnderWay`), and that a coordinator that believes in a running
  wave has a reason (`RunningForAReason`, `AskedForAReason`).

TLC has checked these invariants on small instances, with bounds on the natural
numbers they quantify over. The exception is the free queue's, which quantifies
over all sequences; `LinksAgree` is the part of it that TLC can evaluate.

**Only model-checked.** The liveness properties (`FinishedEventuallyFreed`,
`LoadsEventuallyReported`, `RequestsServed`, `EveryMessageArrives`,
`ShutdownEndsReader`, `ServedAndPaused`) are beyond the provers. So is what loops
and recursive searches compute for every input: the list loops of
`BundleFreeList` (`BundleListExact`, `BundlesAllocateAgrees`,
`ContiguousWhenPossible`), the eviction loops of `OffloadCache`, the scheduling
pass of `PrefixCache`, which folds over queues and tables, and the searches of
`LongestHit`. The pool proofs are about the range operators of `BundleRanges`;
that the list loops compute those is what `containers` checks.

## Not modelled

* Scheduler: bootstrap samples, streaming input, structured output, speculative
  rejection, pausing, encoder inputs; the asynchronous scheduler's placeholders and
  the recompute scheduler's checkpoints.
* DSA managers: bootstrap allocations, loads into tables that are not compact, the
  prefix-caching paths (off for the shared pool).
* Aggregator: changes of `expected_finished_count`, and window saves that workers
  report at different frontiers. One frontier per request is modelled.
* Hybrid lookup: Mamba, cross-attention, context parallelism.
* Ring: remote readers, the handshake, the encoding of messages.
* Waves: load statistics, elastic scaling, `pause_scheduler`.
* Offloading: the reuse filter and the workers that copy blocks.
* `MultiConnector`, Mooncake, LMCache and store-pool connectors, the paired
  restart: threads and services whose behaviour lies mostly outside `src/`, or
  that compose with modules here only through counts that are inputs now.
* Tensors, kernels, process management and configuration: no state machine.
