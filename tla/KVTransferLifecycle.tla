------------------------ MODULE KVTransferLifecycle ------------------------
(***************************************************************************)
(* The life of requests whose KV blocks are the target of an asynchronous   *)
(* load or the source of an asynchronous save: Scheduler (sched/            *)
(* scheduler.py) driven by EngineCore.step_with_batch_queue (engine/        *)
(* core.py), the workers' transfers, and KVOutputAggregator (kv_connector/  *)
(* utils.py) that turns the workers' reports into one report.               *)
(*                                                                          *)
(* Token counts are abstracted to "some tokens are computed", the blocks of *)
(* a request to "it has a block table", so that running out of blocks or of *)
(* token budget is a choice.  A request id is used once.                    *)
(***************************************************************************)
EXTENDS Integers, FiniteSets, Sequences

CONSTANTS Req,              \* request ids
          Worker,           \* the workers of the executor
          BatchQueueSize,   \* EngineCore.batch_queue_size
          Recompute         \* recompute_kv_load_failures: retry, else fail

ASSUME LifecycleAssumption ==
    /\ IsFiniteSet(Worker) /\ Worker # {}
    /\ BatchQueueSize \in Nat \ {0}
    /\ Recompute \in BOOLEAN

VARIABLES
    status,                        \* request.status, "NEW" before and "FREED" after
                                   \* it is in self.requests
    running, waiting, skipped_waiting,
    table,                         \* requests with blocks in the KV cache manager
    computed,                      \* requests with num_computed_tokens > 0
    preempted,                     \* requests with num_preemptions > 0
    pending_recv, pending_send,    \* the kv_transfer_pending_... fences
    finished_recving, failed_recving,
    finished_req_ids,              \* finished since the last schedule
    recv, send,                    \* recv[w][r]: worker w's transfer for r
    recv_remaining, send_remaining,\* the aggregator's counters, full if absent
    batches,                       \* the batch queue, oldest first
    blocking,                      \* the engine waits for the oldest batch
    failed_assertion               \* an assert of the scheduler failed

queues == <<running, waiting, skipped_waiting>>
fences == <<pending_recv, pending_send>>
transfers == <<recv, send, recv_remaining, send_remaining>>
vars == <<status, queues, table, computed, preempted, fences, finished_recving,
          failed_recving, finished_req_ids, transfers, batches, blocking, failed_assertion>>

N == Cardinality(Worker)   \* expected_finished_count
REMOTE == "WAITING_FOR_REMOTE_KVS"
Status == {"NEW", "WAITING", REMOTE, "RUNNING", "PREEMPTED", "FINISHED", "FREED"}
Unfinished(r) == status[r] \notin {"NEW", "FINISHED", "FREED"}

NoOutput == [recv |-> {}, send |-> {}, invalid |-> {}, sync_invalid |-> {}]

Init ==
    /\ status = [r \in Req |-> "NEW"]
    /\ running = {} /\ waiting = {} /\ skipped_waiting = {}
    /\ table = {} /\ computed = {} /\ preempted = {}
    /\ pending_recv = {} /\ pending_send = {}
    /\ finished_recving = {} /\ failed_recving = {} /\ finished_req_ids = {}
    /\ recv = [w \in Worker |-> [r \in Req |-> "idle"]]
    /\ send = [w \in Worker |-> [r \in Req |-> "idle"]]
    /\ recv_remaining = [r \in Req |-> N]
    /\ send_remaining = [r \in Req |-> N]
    /\ batches = <<>>
    /\ blocking = FALSE
    /\ failed_assertion = FALSE

-----------------------------------------------------------------------------
(* Requests arrive, and are finished from outside.                          *)

\* The input queue is read between two engine steps.
add_request(r) ==
    /\ status[r] = "NEW"
    /\ ~blocking
    /\ status' = [status EXCEPT ![r] = "WAITING"]
    /\ waiting' = waiting \cup {r}
    /\ UNCHANGED <<running, skipped_waiting, table, computed, preempted, fences,
                   finished_recving, failed_recving, finished_req_ids, transfers,
                   batches, blocking, failed_assertion>>

\* Mutant: finished_recving_kv_req_ids is not looked at.
OwesRecv_AlreadyReported(r) == status[r] = REMOTE

\* The receive that finish_requests must wait for.
OwesRecv(r) == status[r] = REMOTE /\ r \notin finished_recving

\* _free_request for the requests of S: owed are the ones with a receive under
\* way, delay the ones the connector saves asynchronously (request_finished
\* asks for it only when there are blocks).  Blocks are freed now when neither
\* holds.
free_request_status(st, S, owed, delay) ==
    [r \in Req |-> IF r \notin S THEN st[r]
                   ELSE IF r \in owed \cup delay THEN "FINISHED" ELSE "FREED"]

StartSends(delay) ==
    [w \in Worker |-> [r \in Req |-> IF r \in delay THEN "busy" ELSE send[w][r]]]

\* Aborts are taken from the input queue between two steps, or by
\* _process_aborts_queue when the awaited result has arrived.
AbortsProcessed == blocking => Head(batches).executed

\* finish_requests for one id: an abort by the API server.
finish_requests(r) ==
    /\ Unfinished(r)
    /\ AbortsProcessed
    /\ \E delay \in SUBSET ({r} \cap table) :
        LET owed == IF OwesRecv(r) THEN {r} ELSE {}
        IN  /\ status' = free_request_status(status, {r}, owed, delay)
            /\ IF owed \cup delay = {}
               THEN table' = table \ {r} /\ computed' = computed \ {r} /\ preempted' = preempted \ {r}
               ELSE UNCHANGED <<table, computed, preempted>>
            /\ pending_recv' = pending_recv \cup owed
            /\ pending_send' = pending_send \cup delay
            /\ send' = StartSends(delay)
    /\ running' = running \ {r}
    /\ waiting' = waiting \ {r}
    /\ skipped_waiting' = skipped_waiting \ {r}
    /\ finished_recving' = finished_recving \ {r}
    /\ failed_recving' = failed_recving \ {r}
    /\ finished_req_ids' = finished_req_ids \cup {r}
    /\ UNCHANGED <<recv, recv_remaining, send_remaining, batches, blocking, failed_assertion>>

-----------------------------------------------------------------------------
(* Scheduler.schedule.  P is preempted by the loop over self.running and S   *)
(* is scheduled by it.  Unless something was preempted, the loop over the   *)
(* waiting queues comes to a decision for the requests of A.                *)

has_requests == running \cup waiting \cup skipped_waiting \cup finished_req_ids # {}

\* Mutant: the request is promoted before its load is acknowledged.
promotable_Early(r) == TRUE

\* _try_promote_blocked_waiting_request
promotable(r) == status[r] = REMOTE => r \in finished_recving

\* "skip": the connector cannot say yet what it has; "blocked": allocate_slots
\* returns None, which ends the loop; "load": an asynchronous load starts.
Outcome == {"skip", "blocked", "load", "run"}

\* The connector is asked only for a request without computed tokens.
AllowedOutcome(out) ==
    /\ \A r \in DOMAIN out : r \in computed => out[r] \in {"run", "blocked"}
    /\ Cardinality({r \in DOMAIN out : out[r] = "blocked"}) <= 1

\* _update_waiting_for_remote_kv frees the table when nothing valid was loaded.
Dropped(A) == {r \in A : status[r] = REMOTE /\ r \in failed_recving \ computed}

\* The status after the waiting loop, or after _preempt_request.
ScheduledStatus(r, P, A, Load, Run) ==
    CASE r \in P    -> "PREEMPTED"
      [] r \in Load -> REMOTE
      [] r \in Run  -> "RUNNING"
      [] r \in A \ (Load \cup Run) /\ status[r] = REMOTE -> IF r \in preempted THEN "PREEMPTED" ELSE "WAITING"
      [] OTHER      -> status[r]

\* The queue is full, or the oldest batch is already done.
MustWait ==
    \/ Len(batches) + 1 = BatchQueueSize
    \/ batches # <<>> /\ Head(batches).executed

ScheduleStep(P, S, A, out) ==
    LET Is(o)    == {r \in A : out[r] = o}
        Load     == Is("load")
        Run      == Is("run")
        promoted == {r \in A : status[r] = REMOTE}
    IN  \E sync \in SUBSET (Run \ computed) :
        /\ status' = [r \in Req |-> ScheduledStatus(r, P, A, Load, Run)]
        /\ running' = (running \ P) \cup Run
        /\ waiting' = (waiting \cup P) \ (Load \cup Run \cup Is("skip"))
        /\ skipped_waiting' = (skipped_waiting \ Run) \cup Load \cup Is("skip")
        /\ table' = (table \ (P \cup Dropped(A))) \cup S \cup Load \cup Run
        /\ computed' = (computed \ P) \cup S \cup Load \cup Run
        /\ preempted' = preempted \cup P
        /\ finished_recving' = finished_recving \ promoted
        /\ failed_recving' = failed_recving \ promoted
        /\ recv' = [w \in Worker |-> [r \in Req |-> IF r \in Load THEN "busy" ELSE recv[w][r]]]
        /\ batches' = Append(batches, [sched    |-> S \cup Run,
                                       sync     |-> sync,
                                       loads    |-> Load,
                                       fin      |-> finished_req_ids,
                                       executed |-> FALSE,
                                       out      |-> NoOutput])
        /\ finished_req_ids' = {}
        /\ blocking' \in IF S \cup Run = {} \/ MustWait THEN {TRUE} ELSE BOOLEAN
        /\ UNCHANGED <<fences, send, recv_remaining, send_remaining, failed_assertion>>

\* The scheduling half of step_with_batch_queue.  The engine then waits for the
\* oldest batch if this one has no tokens, if MustWait, or if the oldest batch
\* happens to end in between.
schedule ==
    /\ has_requests
    /\ ~blocking
    /\ \E P \in SUBSET running : \E S \in SUBSET (running \ P) :
        IF P # {} THEN ScheduleStep(P, S, {}, <<>>)
        ELSE \E A \in SUBSET {r \in waiting \cup skipped_waiting : promotable(r)} :
             \E out \in [A -> Outcome] : AllowedOutcome(out) /\ ScheduleStep(P, S, A, out)

-----------------------------------------------------------------------------
(* The workers.  A worker hears of a load, and of a finished request, with  *)
(* the batch that carries it.                                               *)

Unexecuted == {i \in DOMAIN batches : ~batches[i].executed}
\* The batch that is being executed, or is executed next.
Current == IF Unexecuted = {} THEN Len(batches) + 1
           ELSE CHOOSE i \in Unexecuted : \A j \in Unexecuted : i <= j
\* The batch whose field f names r has reached the workers.
Heard(r, f) == \A i \in DOMAIN batches : r \in batches[i][f] => i <= Current

\* Worker w's part of the load of r ends, with or without invalid blocks.
RecvDone(w, r) ==
    /\ recv[w][r] = "busy"
    /\ Heard(r, "loads")
    /\ \E result \in {"done", "failed"} : recv' = [recv EXCEPT ![w][r] = result]
    /\ UNCHANGED <<status, queues, table, computed, preempted, fences, finished_recving,
                   failed_recving, finished_req_ids, send, recv_remaining, send_remaining,
                   batches, blocking, failed_assertion>>

\* Worker w's save of the finished request r ends.
SendDone(w, r) ==
    /\ send[w][r] = "busy"
    /\ r \notin finished_req_ids
    /\ Heard(r, "fin")
    /\ send' = [send EXCEPT ![w][r] = "done"]
    /\ UNCHANGED <<status, queues, table, computed, preempted, fences, finished_recving,
                   failed_recving, finished_req_ids, recv, recv_remaining, send_remaining,
                   batches, blocking, failed_assertion>>

Reports(x, r) == Cardinality({w \in Worker : x[w][r] \in {"done", "failed"}})

\* Mutants: the first worker's report counts as all; only reports of the same
\* step are put together.
update_finished_set_First(x, remaining) == {r \in Req : Reports(x, r) > 0}
update_finished_set_OneStep(x, remaining) == {r \in Req : Reports(x, r) = N}

\* KVOutputAggregator: update_finished_set over the outputs of all workers.
update_finished_set(x, remaining) == {r \in Req : Reports(x, r) > 0 /\ remaining[r] = Reports(x, r)}
CountDown(x, remaining) ==
    [r \in Req |-> IF remaining[r] = Reports(x, r) THEN N ELSE remaining[r] - Reports(x, r)]
Reported(x) ==
    [w \in Worker |-> [r \in Req |-> IF x[w][r] \in {"done", "failed"} THEN "idle" ELSE x[w][r]]]

\* The workers execute the next batch and every one reports what has ended;
\* the reports are aggregated into the output of the batch.
execute_model ==
    /\ Unexecuted # {}
    /\ \E bad \in SUBSET batches[Current].sync :
        batches' = [batches EXCEPT ![Current] =
            [sched    |-> @.sched, sync |-> {}, loads |-> {}, fin |-> {},
             executed |-> TRUE,
             out      |-> [recv         |-> update_finished_set(recv, recv_remaining),
                           send         |-> update_finished_set(send, send_remaining),
                           invalid      |-> {r \in Req : \E w \in Worker : recv[w][r] = "failed"},
                           sync_invalid |-> bad]]]
    /\ recv' = Reported(recv)
    /\ send' = Reported(send)
    /\ recv_remaining' = CountDown(recv, recv_remaining)
    /\ send_remaining' = CountDown(send, send_remaining)
    /\ UNCHANGED <<status, queues, table, computed, preempted, fences, finished_recving,
                   failed_recving, finished_req_ids, blocking, failed_assertion>>

-----------------------------------------------------------------------------
(* Scheduler.update_from_output for the oldest batch.                       *)

\* _update_requests_with_invalid_blocks: a request whose computed tokens were
\* dropped by an earlier report has no block left to look at.
AsyncFailed(out) == {r \in skipped_waiting \cap computed \cap out.invalid : status[r] = REMOTE}
SyncFailed(out) == out.sync_invalid \cap running

\* The two ways update_from_output takes a stopped request out of a queue; one
\* that is not RUNNING is looked for in self.waiting only.
StoppedRunning(stop) == {r \in stop : status[r] = "RUNNING"}
\* Mutant: nothing is done about requests that were preempted meanwhile.
StoppedPreempted_Forgotten(stop) == {}
StoppedPreempted(stop) == stop \ StoppedRunning(stop)

\* Requests finished in this step: the stopped ones of the batch, without a
\* look at a receive, and under the fail policy the ones with invalid blocks.
FinishedStatus(stop, fail, delay) ==
    free_request_status(status, stop \cup fail, {r \in fail : OwesRecv(r)}, delay)

\* Mutant: a late receive clears its fence and retires nothing.
AfterRecv_NeverFrees(st, out, psend) == st

\* _update_from_kv_xfer_finished, the receives and then the sends, from the
\* statuses st and the fences of the step so far.
AfterRecv(st, out, psend) ==
    [r \in Req |-> IF r \in out.recv /\ st[r] = "FINISHED" /\ r \notin psend THEN "FREED" ELSE st[r]]
AfterSend(st, out, precv) ==
    [r \in Req |-> IF r \in out.send /\ st[r] = "FINISHED" /\ r \notin precv THEN "FREED" ELSE st[r]]

\* stop: requests of the batch that reach a stop condition; kept: async loads
\* that keep a valid prefix; dropped: compact tables dropped by a sync failure;
\* delay: finished requests the connector saves asynchronously.
UpdateStep(stop, kept, dropped, delay) ==
    LET out   == Head(batches).out
        async == AsyncFailed(out)
        fail  == IF Recompute THEN {} ELSE async \cup SyncFailed(out)
        owed  == {r \in fail : OwesRecv(r)}
        st1   == FinishedStatus(stop, fail, delay)
        psend == pending_send \cup delay
        st2   == AfterRecv(st1, out, psend)
        precv == (pending_recv \cup owed) \ out.recv
        st3   == AfterSend(st2, out, precv)
        freed == {r \in Req : st3[r] = "FREED"}
    IN  /\ status' = st3
        /\ running' = running \ (StoppedRunning(stop) \cup fail)
        /\ waiting' = waiting \ (StoppedPreempted(stop) \cup fail)
        /\ skipped_waiting' = skipped_waiting \ fail
        /\ table' = table \ (dropped \cup freed)
        /\ computed' = computed \ ((async \ kept) \cup dropped \cup freed)
        /\ preempted' = preempted \ freed
        /\ pending_recv' = precv
        /\ pending_send' = psend \ out.send
        /\ finished_recving' = (finished_recving \ fail) \cup {r \in out.recv : st1[r] = REMOTE}
        /\ failed_recving' = IF Recompute THEN failed_recving \cup async ELSE failed_recving \ fail
        /\ finished_req_ids' = finished_req_ids \cup stop \cup fail
        /\ send' = StartSends(delay)
        /\ batches' = Tail(batches)
        /\ blocking' = FALSE
        /\ failed_assertion' = \/ \E r \in out.recv : st1[r] \notin {REMOTE, "FINISHED"}
                               \/ \E r \in out.send : st2[r] # "FINISHED"
        /\ UNCHANGED <<recv, recv_remaining, send_remaining>>

\* The other half of step_with_batch_queue; scheduling comes first.
update_from_output ==
    /\ batches # <<>>
    /\ blocking \/ ~has_requests
    /\ Head(batches).executed
    /\ LET out  == Head(batches).out
           skip == IF Recompute THEN SyncFailed(out) ELSE AsyncFailed(out) \cup SyncFailed(out)
           live == {r \in Head(batches).sched \ skip : Unfinished(r)}
           fail == IF Recompute THEN {} ELSE AsyncFailed(out) \cup SyncFailed(out)
       IN  \E stop \in SUBSET live,
              kept \in SUBSET AsyncFailed(out),
              dropped \in SUBSET SyncFailed(out) :
              \E delay \in SUBSET ((stop \cup fail) \cap (table \ dropped)) : UpdateStep(stop, kept, dropped, delay)

-----------------------------------------------------------------------------

Next ==
    /\ ~failed_assertion
    /\ \/ \E r \in Req : add_request(r) \/ finish_requests(r)
       \/ schedule
       \/ execute_model
       \/ update_from_output
       \/ \E w \in Worker, r \in Req : RecvDone(w, r) \/ SendDone(w, r)

\* Transfers end, a batch that was handed to the workers is executed, and the
\* engine loop steps while has_requests holds or a batch is outstanding.
Fairness ==
    /\ WF_vars(schedule)
    /\ WF_vars(execute_model)
    /\ WF_vars(update_from_output)
    /\ \A w \in Worker, r \in Req : WF_vars(RecvDone(w, r)) /\ WF_vars(SendDone(w, r))

Spec == Init /\ [][Next]_vars
FairSpec == Spec /\ Fairness

-----------------------------------------------------------------------------

TypeOK ==
    /\ status \in [Req -> Status]
    /\ {running, waiting, skipped_waiting, table, computed, preempted, pending_recv,
        pending_send, finished_recving, failed_recving, finished_req_ids} \subseteq SUBSET Req
    /\ recv \in [Worker -> [Req -> {"idle", "busy", "done", "failed"}]]
    /\ send \in [Worker -> [Req -> {"idle", "busy", "done"}]]
    /\ recv_remaining \in [Req -> 1..N] /\ send_remaining \in [Req -> 1..N]
    /\ Len(batches) <= BatchQueueSize /\ blocking \in BOOLEAN

\* No block table is freed while a worker still writes a load into it or reads
\* a save from it: not by an abort, a stop, a preemption, a failed load or a
\* completion that only one of the two transfers or one of the workers reached.
BlocksHeldWhileTransferring ==
    \A w \in Worker, r \in Req : "busy" \in {recv[w][r], send[w][r]} => r \in table

\* The assertions of _update_from_kv_xfer_finished hold: a completion is always
\* for a request that is still known, and either waits for it or is finished.
AssertionsHold == ~failed_assertion

\* The completion of the transfer x of r is still on its way to the scheduler.
UnderWay(x, r, f) ==
    \/ \E w \in Worker : x[w][r] # "idle"
    \/ \E i \in DOMAIN batches : r \in batches[i].out[f]

\* The two fences of a finished request say exactly which completions it still
\* waits for, and it is kept only while it waits for one: it is neither retired
\* early nor forgotten.
FencesExact ==
    \A r \in Req : status[r] = "FINISHED" =>
        /\ r \in pending_recv <=> UnderWay(recv, r, "recv")
        /\ r \in pending_send <=> UnderWay(send, r, "send")
        /\ r \in pending_recv \cup pending_send

\* An unfinished request is in exactly one queue, the one its status calls for,
\* and a finished one in none: finishing a request whose output arrives after
\* it was preempted leaves no trace in the queues.
QueuesMatchStatus ==
    \A r \in Req :
        /\ r \in running <=> status[r] = "RUNNING"
        /\ r \in waiting => status[r] \in {"WAITING", "PREEMPTED"} /\ r \notin skipped_waiting
        /\ r \in skipped_waiting => status[r] \in {"WAITING", "PREEMPTED", REMOTE}
        /\ Unfinished(r) => r \in running \cup waiting \cup skipped_waiting

\* A finished request gives its blocks back, unless the engine runs out of work
\* first: has_requests does not count a request that only waits for a fence.
FinishedEventuallyFreed ==
    \A r \in Req : (status[r] = "FINISHED") ~> (status[r] = "FREED" \/ ~has_requests)

\* A load is eventually acknowledged to its waiting request.
LoadsEventuallyReported ==
    \A r \in Req : (status[r] = REMOTE) ~> (r \in finished_recving \/ status[r] # REMOTE)
=============================================================================
