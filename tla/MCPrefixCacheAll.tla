-------------------------- MODULE MCPrefixCacheAll --------------------------
EXTENDS MCPrefixCache

VARIABLE deployment   \* the instance this behaviour is about

\* A sliding window group with few blocks.
Windowed == INSTANCE PrefixCache WITH
    Group <- Sliding, NumBlocks <- 3, ExtTokens <- {0}

\* Loads that fail and are computed again, with blocks for everybody.
Retrying == INSTANCE PrefixCache WITH
    NumBlocks <- 9, Budget <- 6, MaxRunning <- 3, Abortable <- {}, MayFail <- TRUE, Depth <- 1

\* A pool so tight that requests preempt one another until one is done.
Tight == INSTANCE PrefixCache WITH
    NumBlocks <- 3, Budget <- 6, Abortable <- {r2}, ExtTokens <- {0}, Depth <- 1

\* The last to arrive comes first, and preempts what the same pass has scheduled
\* or passed over.
Priority == INSTANCE PrefixCache WITH
    Policy <- "priority", Rank <- LateFirst, ExtTokens <- {0}, MaxRunning <- 3

\* A behaviour belongs to one of the deployments from its first state on.
AllInit ==
    \/ deployment = "main" /\ Init
    \/ deployment = "windowed" /\ Windowed!Init
    \/ deployment = "retrying" /\ Retrying!Init
    \/ deployment = "tight" /\ Tight!Init
    \/ deployment = "priority" /\ Priority!Init

AllNext ==
    \/ deployment = "main" /\ UNCHANGED deployment /\ Next
    \/ deployment = "windowed" /\ UNCHANGED deployment /\ Windowed!Next
    \/ deployment = "retrying" /\ UNCHANGED deployment /\ Retrying!Next
    \/ deployment = "tight" /\ UNCHANGED deployment /\ Tight!Next
    \/ deployment = "priority" /\ UNCHANGED deployment /\ Priority!Next

\* With the fairness of FairSpec.
AllSpec ==
    /\ AllInit /\ [][AllNext]_<<vars, deployment>>
    /\ []<>Resting \/ []<><<pass' # pass \/ inflight' # inflight>>_vars
    /\ []<>(inflight = <<>>) \/ []<><<Len(inflight') < Len(inflight)>>_vars

\* Counts, queue and map agree in every deployment (PoolConsistent).
PoolsConsistent ==
    CASE deployment = "main" -> PoolConsistent
      [] deployment = "windowed" -> Windowed!PoolConsistent
      [] deployment = "retrying" -> Retrying!PoolConsistent
      [] deployment = "tight" -> Tight!PoolConsistent
      [] deployment = "priority" -> Priority!PoolConsistent

\* What is under a hash was computed (CachedBlocksComputed).  Where failed loads
\* are computed again the blocks stay under their hashes until they are, and
\* BatchesReadOwn says that no batch reads them before.
CacheComputed ==
    CASE deployment = "windowed" -> Windowed!CachedBlocksComputed
      [] deployment = "tight" -> Tight!CachedBlocksComputed
      [] deployment = "priority" -> Priority!CachedBlocksComputed
      [] OTHER -> deployment = "main" => CachedBlocksComputed

\* Every batch computes from its requests' own rows (BatchReadsOwn).
BatchesReadOwn ==
    CASE deployment = "main" -> BatchReadsOwn
      [] deployment = "windowed" -> Windowed!BatchReadsOwn
      [] deployment = "retrying" -> Retrying!BatchReadsOwn
      [] deployment = "tight" -> Tight!BatchReadsOwn
      [] deployment = "priority" -> Priority!BatchReadsOwn

\* Full attention prefixes lose their tails first (TailEvictedFirst); a window
\* frees the blocks it has left behind before those it still holds.
TailsEvictedFirst == deployment # "windowed" => TailEvictedFirst

\* Every request that is not aborted is served to its end (EveryRequestServed),
\* wherever loads do not fail for ever.
RequestsServed ==
    \A r \in Request :
        (deployment # "retrying" /\ status[r] = "waiting") ~> (status[r] = "done")
=============================================================================
