----------------------- MODULE MCKVTransferLifecycle -----------------------
EXTENDS KVTransferLifecycle, TLC

VARIABLE failing   \* kv_load_failure_policy is "fail" in this behaviour

Symmetry == Permutations(Req) \cup Permutations(Worker)

\* A deployment that fails requests whose loads fail, with one batch in flight.
Failing == INSTANCE KVTransferLifecycle WITH Recompute <- FALSE, BatchQueueSize <- 1

\* A behaviour belongs to one of the two deployments from its first state on.
BothInit == failing \in BOOLEAN /\ IF failing THEN Failing!Init ELSE Init
BothNext == \/ ~failing /\ UNCHANGED failing /\ Next
            \/ failing /\ UNCHANGED failing /\ Failing!Next
BothSpec == BothInit /\ [][BothNext]_<<vars, failing>>
=============================================================================
