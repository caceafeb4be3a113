------------------------- MODULE KVTransferProofs -------------------------
(***************************************************************************)
(* Proofs about KVTransferLifecycle for every number of requests and        *)
(* workers, both failure policies, and a batch queue of at most two.        *)
(***************************************************************************)
EXTENDS KVTransferLifecycle, FiniteSetTheorems, WellFoundedInduction, TLAPS

\* A nonempty set of naturals has a least element.
LEMMA LeastElement ==
    ASSUME NEW T, T \subseteq Nat, T # {}
    PROVE  \E m \in T : \A k \in T : m <= k
<1>1. PICK m \in T : \A k \in T : ~(<<k, m>> \in OpToRel(<, Nat))
  BY NatLessThanWellFounded, WFMin, Zenon
<1>2. ASSUME NEW k \in T PROVE m <= k
  <2>1. ~(<<k, m>> \in {ss \in Nat \X Nat : ss[1] < ss[2]})
    BY <1>1 DEF OpToRel
  <2>2. k \in Nat /\ m \in Nat
    OBVIOUS
  <2>3. ~(k < m)
    BY <2>1, <2>2
  <2>. QED BY <2>2, <2>3
<1>. QED BY <1>2

TransferState == {"idle", "busy", "done", "failed"}
Output == [recv : SUBSET Req, send : SUBSET Req, invalid : SUBSET Req, sync_invalid : SUBSET Req]
Batch == [sched : SUBSET Req, sync : SUBSET Req, loads : SUBSET Req, fin : SUBSET Req,
          executed : BOOLEAN, out : Output]

Types ==
    /\ status \in [Req -> Status]
    /\ running \subseteq Req /\ waiting \subseteq Req /\ skipped_waiting \subseteq Req
    /\ table \subseteq Req /\ pending_recv \subseteq Req /\ pending_send \subseteq Req
    /\ finished_recving \subseteq Req /\ finished_req_ids \subseteq Req
    /\ recv \in [Worker -> [Req -> TransferState]]
    /\ send \in [Worker -> [Req -> TransferState]]
    /\ recv_remaining \in [Req -> Nat] /\ send_remaining \in [Req -> Nat]
    /\ batches \in Seq(Batch)

\* The workers that have not yet reported the end of their part of r's transfer.
Active(x, r) == {w \in Worker : x[w][r] # "idle"}

\* The aggregator waits for as many reports as there are workers to report.
Counted(x, remaining) ==
    \A r \in Req : remaining[r] = IF Active(x, r) = {} THEN N ELSE Cardinality(Active(x, r))

\* The requests whose completion is in an output that is not processed yet.
Complete(f) == {r \in Req : \E i \in DOMAIN batches : r \in batches[i].out[f]}

\* A completion is in the output of one executed batch, after the last report.
ReportedOnce(x, f) ==
    \A i \in DOMAIN batches : \A r \in batches[i].out[f] :
        /\ batches[i].executed /\ Active(x, r) = {}
        /\ \A j \in DOMAIN batches : r \in batches[j].out[f] => j = i

\* The engine does not schedule into a full queue.
QueueBound ==
    /\ Len(batches) <= BatchQueueSize
    /\ Len(batches) = BatchQueueSize => blocking

\* A request with an output on its way runs or is finished, or was preempted by
\* the batch behind, too late for a third one to start a load for it.
OutputsAwaited ==
    \A i \in DOMAIN batches : \A r \in batches[i].sched :
        \/ status[r] \in {"RUNNING", "FINISHED", "FREED"}
        \/ status[r] = "PREEMPTED" /\ r \in waiting /\ i = 1 /\ Len(batches) = 2

\* Every completion under way has somebody who waits for it, and every fence and
\* every waiting request has a completion under way; the blocks are kept for it.
Owned(r) ==
    /\ Active(recv, r) # {} \/ r \in Complete("recv") <=>
          (status[r] = REMOTE /\ r \notin finished_recving) \/ r \in pending_recv
    /\ Active(send, r) # {} \/ r \in Complete("send") <=> r \in pending_send
    /\ r \in pending_recv \cup pending_send <=> status[r] = "FINISHED"
    /\ r \in finished_recving => status[r] = REMOTE
    /\ status[r] = "FINISHED" \/ (status[r] = REMOTE /\ r \notin finished_recving) => r \in table

TransferInv ==
    /\ Types /\ QueueBound /\ OutputsAwaited /\ QueuesMatchStatus /\ AssertionsHold
    /\ Counted(recv, recv_remaining) /\ Counted(send, send_remaining)
    /\ ReportedOnce(recv, "recv") /\ ReportedOnce(send, "send")
    /\ \A r \in Req : Owned(r)

-----------------------------------------------------------------------------
(* Workers and the aggregator's counters.                                   *)

LEMMA WorkerSets ==
    ASSUME NEW A, A \subseteq Worker
    PROVE  /\ IsFiniteSet(A) /\ Cardinality(A) \in Nat
           /\ Cardinality(A) = 0 <=> A = {}
           /\ N \in Nat \ {0}
<1>1. IsFiniteSet(A)
  BY LifecycleAssumption, FS_Subset
<1>2. Cardinality(A) \in Nat /\ (Cardinality(A) = 0 <=> A = {})
  BY <1>1, FS_CardinalityType, FS_EmptySet
<1>3. N \in Nat /\ N # 0
  BY LifecycleAssumption, FS_CardinalityType, FS_EmptySet DEF N
<1> QED BY <1>1, <1>2, <1>3

\* Of the workers A that have not reported, those of B report.
LEMMA CountingDown ==
    ASSUME NEW A, A \subseteq Worker, NEW B, B \subseteq A
    PROVE  /\ Cardinality(A \ B) = Cardinality(A) - Cardinality(B)
           /\ Cardinality(A) = Cardinality(B) <=> A \ B = {}
<1>1. IsFiniteSet(A) /\ IsFiniteSet(B) /\ A \ B \subseteq Worker /\ B \subseteq Worker
  BY WorkerSets
<1>2. A \cap B = B
  OBVIOUS
<1>3. Cardinality(A \ B) = Cardinality(A) - Cardinality(B)
  BY <1>1, <1>2, FS_Difference, Zenon
<1>4. Cardinality(A) \in Nat /\ Cardinality(B) \in Nat
  BY <1>1, WorkerSets
<1>5. Cardinality(A \ B) = 0 <=> A \ B = {}
  BY <1>1, WorkerSets
<1> QED BY <1>3, <1>4, <1>5

\* One round of reports: the request is complete exactly when the last worker
\* with a transfer for it reports, and the counters keep counting workers.
LEMMA Aggregation ==
    ASSUME NEW x \in [Worker -> [Req -> TransferState]], NEW remaining \in [Req -> Nat],
           Counted(x, remaining), NEW r \in Req
    PROVE  /\ Active(Reported(x), r) \subseteq Active(x, r)
           /\ r \in update_finished_set(x, remaining) <=>
                 Active(x, r) # {} /\ Active(Reported(x), r) = {}
           /\ CountDown(x, remaining)[r] \in Nat
           /\ Active(Reported(x), r) = {} => CountDown(x, remaining)[r] = N
           /\ Active(Reported(x), r) # {} =>
                 CountDown(x, remaining)[r] = Cardinality(Active(Reported(x), r))
<1> DEFINE A == Active(x, r)
           E == {w \in Worker : x[w][r] \in {"done", "failed"}}
<1>1. E \subseteq A /\ A \subseteq Worker
  BY DEF Active
<1>2. Active(Reported(x), r) = A \ E
  BY DEF Active, Reported
<1>3. Cardinality(E) = Reports(x, r)
  BY DEF Reports
<1>4. remaining[r] = IF A = {} THEN N ELSE Cardinality(A)
  BY DEF Counted
<1>5. /\ Cardinality(A) \in Nat /\ Cardinality(E) \in Nat /\ N \in Nat \ {0}
      /\ Cardinality(A) = 0 <=> A = {}
      /\ Cardinality(E) = 0 <=> E = {}
  BY <1>1, WorkerSets, Zenon
<1>6. /\ Cardinality(A \ E) = Cardinality(A) - Cardinality(E)
      /\ Cardinality(A) = Cardinality(E) <=> A \ E = {}
  BY <1>1, CountingDown
<1>7. /\ r \in update_finished_set(x, remaining) <=>
            Cardinality(E) > 0 /\ remaining[r] = Cardinality(E)
      /\ CountDown(x, remaining)[r] =
            IF remaining[r] = Cardinality(E) THEN N ELSE remaining[r] - Cardinality(E)
  BY <1>3 DEF update_finished_set, CountDown
<1> HIDE DEF A, E
<1>8. CASE A = {}
  <2>1. E = {} /\ A \ E = {}
    BY <1>1, <1>8
  <2> QED BY <1>2, <1>4, <1>5, <1>6, <1>7, <1>8, <2>1 DEF A
<1>9. CASE A # {}
  <2>1. Cardinality(A \ E) \in Nat
    BY <1>1, WorkerSets
  <2>2. r \in update_finished_set(x, remaining) <=> A \ E = {}
    BY <1>4, <1>5, <1>6, <1>7, <1>9
  <2>3. CountDown(x, remaining)[r] = IF A \ E = {} THEN N ELSE Cardinality(A \ E)
    BY <1>4, <1>5, <1>6, <1>7, <1>9
  <2> QED BY <1>2, <1>5, <1>9, <2>1, <2>2, <2>3 DEF A
<1> QED BY <1>8, <1>9

-----------------------------------------------------------------------------

LEMMA TransferInvInit == Init => TransferInv
<1> SUFFICES ASSUME Init PROVE TransferInv
  OBVIOUS
<1>0. N \in Nat \ {0}
  BY WorkerSets
<1>1. Types
  BY <1>0 DEF Init, Types, Status, TransferState
<1>2. \A r \in Req : Active(recv, r) = {} /\ Active(send, r) = {}
  BY DEF Init, Active
<1>3. batches = <<>> /\ Len(batches) = 0 /\ DOMAIN batches = {}
  BY DEF Init
<1>4. QueueBound
  BY <1>3, LifecycleAssumption DEF QueueBound
<1>5. OutputsAwaited /\ ReportedOnce(recv, "recv") /\ ReportedOnce(send, "send")
  BY <1>3 DEF OutputsAwaited, ReportedOnce
<1>6. Counted(recv, recv_remaining) /\ Counted(send, send_remaining)
  BY <1>2 DEF Init, Counted
<1>7. \A r \in Req : Owned(r)
  BY <1>2, <1>3 DEF Init, Owned, Complete, REMOTE
<1>8. QueuesMatchStatus /\ AssertionsHold
  BY DEF Init, QueuesMatchStatus, AssertionsHold, Unfinished
<1> QED BY <1>1, <1>4, <1>5, <1>6, <1>7, <1>8 DEF TransferInv

\* While nothing happens to a transfer, nothing happens to what is said of it.
LEMMA RecvUntouched ==
    ASSUME TransferInv, UNCHANGED <<recv, recv_remaining, batches>>
    PROVE  /\ Counted(recv, recv_remaining)' /\ ReportedOnce(recv, "recv")'
           /\ \A r \in Req : Active(recv, r)' = Active(recv, r)
           /\ Complete("recv")' = Complete("recv")
<1>1. \A r \in Req : Active(recv, r)' = Active(recv, r)
  BY DEF Active
<1>2. Counted(recv, recv_remaining)'
  BY <1>1 DEF TransferInv, Counted
<1>3. Complete("recv")' = Complete("recv")
  BY DEF Complete
<1>4. ReportedOnce(recv, "recv")'
  <2>1. ReportedOnce(recv, "recv")
    BY DEF TransferInv
  <2> QED BY <2>1 DEF ReportedOnce, Active
<1> QED BY <1>1, <1>2, <1>3, <1>4

LEMMA SendUntouched ==
    ASSUME TransferInv, UNCHANGED <<send, send_remaining, batches>>
    PROVE  /\ Counted(send, send_remaining)' /\ ReportedOnce(send, "send")'
           /\ \A r \in Req : Active(send, r)' = Active(send, r)
           /\ Complete("send")' = Complete("send")
<1>1. \A r \in Req : Active(send, r)' = Active(send, r)
  BY DEF Active
<1>2. Counted(send, send_remaining)'
  BY <1>1 DEF TransferInv, Counted
<1>3. Complete("send")' = Complete("send")
  BY DEF Complete
<1>4. ReportedOnce(send, "send")'
  <2>1. ReportedOnce(send, "send")
    BY DEF TransferInv
  <2> QED BY <2>1 DEF ReportedOnce, Active
<1> QED BY <1>1, <1>2, <1>3, <1>4

LEMMA AddRequest ==
    ASSUME TransferInv, NEW q \in Req, add_request(q)
    PROVE  TransferInv'
<1>1. Types /\ QueueBound /\ OutputsAwaited /\ QueuesMatchStatus /\ AssertionsHold
  BY DEF TransferInv
<1>2. Types'
  BY <1>1 DEF add_request, Types, Status, transfers, fences
<1>3. QueueBound' /\ AssertionsHold'
  BY <1>1 DEF add_request, QueueBound, AssertionsHold
<1>4. OutputsAwaited'
  BY <1>1 DEF add_request, OutputsAwaited, Types, Batch
<1>5. QueuesMatchStatus'
  BY <1>1 DEF add_request, QueuesMatchStatus, Unfinished, REMOTE, Types
<1>6. UNCHANGED <<recv, recv_remaining, send, send_remaining, batches>>
  BY DEF add_request, transfers
<1>7. \A r \in Req : Owned(r)'
  <2> SUFFICES ASSUME NEW r \in Req PROVE Owned(r)'
    OBVIOUS
  <2>1. Owned(r)
    BY DEF TransferInv
  <2> QED BY <1>1, <1>6, <2>1, RecvUntouched, SendUntouched
          DEF add_request, Owned, fences, REMOTE, Types
<1> QED BY <1>2, <1>3, <1>4, <1>5, <1>6, <1>7, RecvUntouched, SendUntouched DEF TransferInv

\* Transfers of the requests in D, for whom none is under way, start everywhere.
Starting(x, D) == [w \in Worker |-> [r \in Req |-> IF r \in D THEN "busy" ELSE x[w][r]]]

LEMMA TransfersStarted ==
    ASSUME NEW x \in [Worker -> [Req -> TransferState]], NEW remaining, Counted(x, remaining),
           NEW D, \A r \in D : Active(x, r) = {}
    PROVE  /\ Starting(x, D) \in [Worker -> [Req -> TransferState]]
           /\ Counted(Starting(x, D), remaining)
           /\ \A r \in Req : Active(Starting(x, D), r) = IF r \in D THEN Worker ELSE Active(x, r)
<1>1. Starting(x, D) \in [Worker -> [Req -> TransferState]]
  BY DEF Starting, TransferState
<1>2. ASSUME NEW r \in Req
      PROVE  Active(Starting(x, D), r) = IF r \in D THEN Worker ELSE Active(x, r)
  BY DEF Active, Starting
<1>3. Counted(Starting(x, D), remaining)
  BY <1>2, LifecycleAssumption DEF Counted, N
<1> QED BY <1>1, <1>2, <1>3

LEMMA SendsStarted ==
    ASSUME Types, Counted(send, send_remaining), NEW D, \A r \in D : Active(send, r) = {},
           send' = StartSends(D), UNCHANGED send_remaining
    PROVE  /\ send' \in [Worker -> [Req -> TransferState]]
           /\ Counted(send, send_remaining)'
           /\ \A r \in Req : Active(send, r)' = IF r \in D THEN Worker ELSE Active(send, r)
<1>1. send' = Starting(send, D)
  BY DEF StartSends, Starting
<1>2. \A r \in Req : Active(send, r)' = Active(Starting(send, D), r)
  BY <1>1 DEF Active
<1>3. Counted(send, send_remaining)' <=> Counted(Starting(send, D), send_remaining)
  BY <1>1, <1>2 DEF Counted
<1>4. send \in [Worker -> [Req -> TransferState]]
  BY DEF Types
<1> QED BY <1>1, <1>2, <1>3, <1>4, TransfersStarted

\* Nobody waits for a transfer of a request that is neither finished nor REMOTE,
\* and an unfinished request has no save.
LEMMA NothingUnderWay ==
    ASSUME TransferInv, NEW r \in Req
    PROVE  /\ status[r] # "FINISHED" =>
                 Active(send, r) = {} /\ r \notin Complete("send") /\ r \notin pending_send
           /\ status[r] # "FINISHED" /\ (status[r] = REMOTE => r \in finished_recving) =>
                 Active(recv, r) = {} /\ r \notin Complete("recv") /\ r \notin pending_recv
<1>1. Owned(r)
  BY DEF TransferInv
<1> QED BY <1>1 DEF Owned

LEMMA OutputTypes ==
    ASSUME batches \in Seq(Batch), NEW i \in DOMAIN batches
    PROVE  /\ batches[i] \in Batch
           /\ batches[i].out["recv"] \subseteq Req /\ batches[i].out["send"] \subseteq Req
<1>1. batches[i] \in Batch
  OBVIOUS
<1> QED BY <1>1 DEF Batch, Output

LEMMA FinishRequests ==
    ASSUME TransferInv, NEW q \in Req, finish_requests(q)
    PROVE  TransferInv'
<1>1. Types /\ QueueBound /\ OutputsAwaited /\ QueuesMatchStatus /\ AssertionsHold
  BY DEF TransferInv
<1> DEFINE owed == IF OwesRecv(q) THEN {q} ELSE {}
<1>2. PICK delay \in SUBSET ({q} \cap table) :
        /\ status' = free_request_status(status, {q}, owed, delay)
        /\ IF owed \cup delay = {} THEN table' = table \ {q} ELSE table' = table
        /\ pending_recv' = pending_recv \cup owed
        /\ pending_send' = pending_send \cup delay
        /\ send' = StartSends(delay)
  BY DEF finish_requests
<1>3. /\ status[q] \notin {"NEW", "FINISHED", "FREED"}
      /\ running' = running \ {q} /\ waiting' = waiting \ {q}
      /\ skipped_waiting' = skipped_waiting \ {q}
      /\ finished_recving' = finished_recving \ {q}
      /\ finished_req_ids' = finished_req_ids \cup {q}
      /\ UNCHANGED <<recv, recv_remaining, send_remaining, batches, blocking, failed_assertion>>
  BY DEF finish_requests, Unfinished
<1>4. /\ status' = [status EXCEPT ![q] = IF OwesRecv(q) \/ q \in delay THEN "FINISHED" ELSE "FREED"]
      /\ delay \subseteq {q}
  BY <1>1, <1>2, Zenon DEF free_request_status, Types
<1>5. \A r \in delay : Active(send, r) = {}
  BY <1>3, <1>4, NothingUnderWay
<1>6. /\ send' \in [Worker -> [Req -> TransferState]] /\ Counted(send, send_remaining)'
      /\ \A r \in Req : Active(send, r)' = IF r \in delay THEN Worker ELSE Active(send, r)
  BY <1>1, <1>2, <1>3, <1>5, SendsStarted DEF TransferInv
<1>7. Types'
  BY <1>1, <1>2, <1>3, <1>4, <1>6, Zenon DEF Types, Status
<1>8. QueueBound' /\ AssertionsHold'
  BY <1>1, <1>3 DEF QueueBound, AssertionsHold
<1>9. OutputsAwaited'
  BY <1>1, <1>3, <1>4 DEF OutputsAwaited, Types, Batch
<1>10. QueuesMatchStatus'
  BY <1>1, <1>3, <1>4 DEF QueuesMatchStatus, Unfinished, REMOTE, Types
<1>11. Complete("send")' = Complete("send")
  BY <1>3 DEF Complete
<1>12. ReportedOnce(send, "send")'
  <2>1. ReportedOnce(send, "send")
    BY DEF TransferInv
  <2>2. \A r \in delay : r \notin Complete("send")
    BY <1>3, <1>4, NothingUnderWay
  <2>3. \A i \in DOMAIN batches : \A r \in batches[i].out["send"] : r \in Complete("send")
    BY <1>1, OutputTypes DEF Complete, Types
  <2> QED BY <1>3, <1>6, <2>1, <2>2, <2>3 DEF ReportedOnce, Complete
<1>13. ASSUME NEW r \in Req PROVE Owned(r)'
  <2>1. Owned(r) /\ Worker # {}
    BY LifecycleAssumption DEF TransferInv
  <2>2. /\ Active(recv, r)' = Active(recv, r) /\ Complete("recv")' = Complete("recv")
        /\ Active(send, r)' = IF r \in delay THEN Worker ELSE Active(send, r)
    BY <1>3, <1>6, RecvUntouched
  <2>3. CASE r # q
    <3>1. r \notin delay /\ status'[r] = status[r]
      BY <1>1, <1>4, <2>3 DEF Types
    <3>2. /\ r \in pending_recv' <=> r \in pending_recv
          /\ r \in pending_send' <=> r \in pending_send
          /\ r \in finished_recving' <=> r \in finished_recving
          /\ r \in table' <=> r \in table
      BY <1>2, <1>3, <2>3
    <3> QED BY <1>11, <2>1, <2>2, <3>1, <3>2 DEF Owned
  <2>4. CASE r = q
    <3>1. status'[q] = IF OwesRecv(q) \/ q \in delay THEN "FINISHED" ELSE "FREED"
      BY <1>1, <1>4 DEF Types
    <3>2. /\ Active(send, q) = {} /\ q \notin Complete("send") /\ q \notin pending_send
          /\ q \notin pending_recv
      BY <1>3, <2>1, <2>4, NothingUnderWay DEF Owned
    <3>3. /\ OwesRecv(q) => Active(recv, q) # {} \/ q \in Complete("recv")
          /\ ~OwesRecv(q) => Active(recv, q) = {} /\ q \notin Complete("recv")
      BY <2>1, <2>4, <3>2 DEF Owned, OwesRecv
    <3>4. /\ q \in pending_recv' <=> OwesRecv(q)
          /\ q \in pending_send' <=> q \in delay
          /\ q \notin finished_recving'
      BY <1>2, <1>3, <3>2
    <3>5. OwesRecv(q) \/ q \in delay => q \in table'
      BY <1>2, <2>1, <2>4 DEF Owned, OwesRecv
    <3> QED BY <1>11, <2>1, <2>2, <2>4, <3>1, <3>2, <3>3, <3>4, <3>5 DEF Owned, REMOTE
  <2> QED BY <2>3, <2>4
<1> QED BY <1>3, <1>6, <1>7, <1>8, <1>9, <1>10, <1>12, <1>13, RecvUntouched DEF TransferInv

\* The end of one worker's part is not yet a report of it.
LEMMA RecvDoneStep ==
    ASSUME TransferInv, NEW v \in Worker, NEW q \in Req, RecvDone(v, q)
    PROVE  TransferInv'
<1>1. Types /\ QueueBound /\ OutputsAwaited /\ QueuesMatchStatus /\ AssertionsHold
  BY DEF TransferInv
<1>2. PICK result \in {"done", "failed"} : recv' = [recv EXCEPT ![v][q] = result]
  BY Zenon DEF RecvDone
<1>3. /\ recv[v][q] = "busy"
      /\ UNCHANGED <<status, running, waiting, skipped_waiting, table, pending_recv, pending_send,
                     finished_recving, finished_req_ids, send, recv_remaining, send_remaining,
                     batches, blocking, failed_assertion>>
  BY DEF RecvDone, queues, fences
<1>4. recv' \in [Worker -> [Req -> TransferState]]
  BY <1>1, <1>2 DEF Types, TransferState
<1>5. \A r \in Req : Active(recv, r)' = Active(recv, r)
  BY <1>1, <1>2, <1>3 DEF Active, Types
<1>6. Types' /\ QueueBound' /\ OutputsAwaited' /\ QueuesMatchStatus' /\ AssertionsHold'
  BY <1>1, <1>3, <1>4 DEF Types, QueueBound, OutputsAwaited, QueuesMatchStatus, AssertionsHold, Unfinished
<1>7. Counted(recv, recv_remaining)'
  BY <1>3, <1>5, Zenon DEF TransferInv, Counted
<1>8. Complete("recv")' = Complete("recv") /\ ReportedOnce(recv, "recv")'
  <2>1. ReportedOnce(recv, "recv")
    BY DEF TransferInv
  <2>2. \A i \in DOMAIN batches : batches[i].out["recv"] \subseteq Req
    BY <1>1, OutputTypes DEF Types
  <2>3. Complete("recv")' = Complete("recv")
    BY <1>3 DEF Complete
  <2>4. ReportedOnce(recv, "recv")'
    BY <1>3, <1>5, <2>1, <2>2 DEF ReportedOnce
  <2> QED BY <2>3, <2>4
<1>9. ASSUME NEW r \in Req PROVE Owned(r)'
  <2>1. Owned(r)
    BY DEF TransferInv
  <2> QED BY <1>3, <1>5, <1>8, <2>1, SendUntouched DEF Owned
<1> QED BY <1>3, <1>6, <1>7, <1>8, <1>9, SendUntouched DEF TransferInv

LEMMA SendDoneStep ==
    ASSUME TransferInv, NEW v \in Worker, NEW q \in Req, SendDone(v, q)
    PROVE  TransferInv'
<1>1. Types /\ QueueBound /\ OutputsAwaited /\ QueuesMatchStatus /\ AssertionsHold
  BY DEF TransferInv
<1>3. /\ send[v][q] = "busy" /\ send' = [send EXCEPT ![v][q] = "done"]
      /\ UNCHANGED <<status, running, waiting, skipped_waiting, table, pending_recv, pending_send,
                     finished_recving, finished_req_ids, recv, recv_remaining, send_remaining,
                     batches, blocking, failed_assertion>>
  BY DEF SendDone, queues, fences
<1>4. send' \in [Worker -> [Req -> TransferState]]
  BY <1>1, <1>3 DEF Types, TransferState
<1>5. \A r \in Req : Active(send, r)' = Active(send, r)
  BY <1>1, <1>3 DEF Active, Types
<1>6. Types' /\ QueueBound' /\ OutputsAwaited' /\ QueuesMatchStatus' /\ AssertionsHold'
  BY <1>1, <1>3, <1>4 DEF Types, QueueBound, OutputsAwaited, QueuesMatchStatus, AssertionsHold, Unfinished
<1>7. Counted(send, send_remaining)'
  BY <1>3, <1>5, Zenon DEF TransferInv, Counted
<1>8. Complete("send")' = Complete("send") /\ ReportedOnce(send, "send")'
  <2>1. ReportedOnce(send, "send")
    BY DEF TransferInv
  <2>2. \A i \in DOMAIN batches : batches[i].out["send"] \subseteq Req
    BY <1>1, OutputTypes DEF Types
  <2>3. Complete("send")' = Complete("send")
    BY <1>3 DEF Complete
  <2>4. ReportedOnce(send, "send")'
    BY <1>3, <1>5, <2>1, <2>2, Zenon DEF ReportedOnce
  <2> QED BY <2>3, <2>4
<1>9. ASSUME NEW r \in Req PROVE Owned(r)'
  <2>1. Owned(r)
    BY DEF TransferInv
  <2> QED BY <1>3, <1>5, <1>8, <2>1, RecvUntouched, Zenon DEF Owned
<1> QED BY <1>3, <1>6, <1>7, <1>8, <1>9, RecvUntouched DEF TransferInv

-----------------------------------------------------------------------------
(* The workers execute a batch.                                             *)

\* The batch that is executed next exists and is not executed.
LEMMA CurrentBatch ==
    ASSUME batches \in Seq(Batch), Unexecuted # {}
    PROVE  Current \in DOMAIN batches /\ ~batches[Current].executed
<1>1. Unexecuted \subseteq Nat
  BY DEF Unexecuted
<1>2. PICK i \in Unexecuted : \A j \in Unexecuted : i <= j
  BY <1>1, LeastElement, Zenon
<1>3. Current \in Unexecuted
  BY <1>2 DEF Current
<1> QED BY <1>3 DEF Unexecuted

\* Into the output of an unexecuted batch go exactly the requests that become
\* complete, and the reports are forgotten by the workers.
LEMMA Executed ==
    ASSUME batches \in Seq(Batch), NEW c \in DOMAIN batches, ~batches[c].executed,
           NEW f \in {"recv", "send"}, NEW b \in Batch, b.executed,
           batches' = [batches EXCEPT ![c] = b],
           NEW x \in [Worker -> [Req -> TransferState]], NEW remaining \in [Req -> Nat],
           Counted(x, remaining), ReportedOnce(x, f),
           b.out[f] = update_finished_set(x, remaining)
    PROVE  /\ Counted(Reported(x), CountDown(x, remaining))
           /\ ReportedOnce(Reported(x), f)'
           /\ \A r \in Req : Active(Reported(x), r) # {} \/ r \in Complete(f)' <=>
                             Active(x, r) # {} \/ r \in Complete(f)
<1>0. ASSUME NEW r \in Req
      PROVE  /\ Active(Reported(x), r) \subseteq Active(x, r)
             /\ r \in b.out[f] <=> Active(x, r) # {} /\ Active(Reported(x), r) = {}
  <2>1. r \in update_finished_set(x, remaining) <=>
           Active(x, r) # {} /\ Active(Reported(x), r) = {}
    BY Aggregation, Zenon
  <2>2. Active(Reported(x), r) \subseteq Active(x, r)
    BY Aggregation, Zenon
  <2> QED BY <2>1, <2>2, Zenon
<1>1. Counted(Reported(x), CountDown(x, remaining))
  <2>1. ASSUME NEW r \in Req
        PROVE  /\ Active(Reported(x), r) = {} => CountDown(x, remaining)[r] = N
               /\ Active(Reported(x), r) # {} =>
                     CountDown(x, remaining)[r] = Cardinality(Active(Reported(x), r))
    <3>1. Active(Reported(x), r) = {} => CountDown(x, remaining)[r] = N
      BY Aggregation
    <3>2. Active(Reported(x), r) # {} =>
                     CountDown(x, remaining)[r] = Cardinality(Active(Reported(x), r))
      BY Aggregation
    <3> QED BY <3>1, <3>2
  <2> QED BY <2>1 DEF Counted
<1>2. /\ DOMAIN batches' = DOMAIN batches /\ batches'[c] = b
      /\ \A i \in DOMAIN batches : i # c => batches'[i] = batches[i]
  OBVIOUS
<1>3. batches[c].out[f] = {}
  BY DEF ReportedOnce
<1>4. \A i \in DOMAIN batches : \A r \in batches[i].out[f] : r \in Req /\ i # c
  BY <1>3, OutputTypes
<1>5. ASSUME NEW i \in DOMAIN batches', NEW r \in batches'[i].out[f]
      PROVE  /\ batches'[i].executed /\ Active(Reported(x), r) = {}
             /\ \A j \in DOMAIN batches' : r \in batches'[j].out[f] => j = i
  <2>1. CASE i = c
    <3>1. r \in Req /\ Active(x, r) # {} /\ Active(Reported(x), r) = {}
      BY <1>0, <1>2, <2>1 DEF update_finished_set
    <3>2. \A j \in DOMAIN batches : r \notin batches[j].out[f]
      BY <3>1 DEF ReportedOnce
    <3> QED BY <1>2, <2>1, <3>1, <3>2
  <2>2. CASE i # c
    <3>1. /\ r \in Req /\ batches[i].executed /\ Active(x, r) = {}
          /\ \A j \in DOMAIN batches : r \in batches[j].out[f] => j = i
      BY <1>2, <1>4, <2>2 DEF ReportedOnce
    <3>2. r \notin b.out[f] /\ Active(Reported(x), r) = {}
      BY <1>0, <3>1
    <3> QED BY <1>2, <2>2, <3>1, <3>2
  <2> QED BY <2>1, <2>2
<1>6. ReportedOnce(Reported(x), f)'
  BY <1>5, Zenon DEF ReportedOnce, Active, Reported
<1>7. ASSUME NEW r \in Req
      PROVE  Active(Reported(x), r) # {} \/ r \in Complete(f)' <=>
             Active(x, r) # {} \/ r \in Complete(f)
  <2>1. r \in Complete(f)' <=> r \in Complete(f) \/ r \in b.out[f]
    BY <1>2, <1>4 DEF Complete
  <2> QED BY <1>0, <2>1
<1> QED BY <1>1, <1>6, <1>7

LEMMA ExecuteModel ==
    ASSUME TransferInv, execute_model
    PROVE  TransferInv'
<1>1. Types /\ QueueBound /\ OutputsAwaited /\ QueuesMatchStatus /\ AssertionsHold
  BY DEF TransferInv
<1> DEFINE c == Current
<1>2. c \in DOMAIN batches /\ ~batches[c].executed /\ batches[c] \in Batch
  BY <1>1, CurrentBatch, OutputTypes DEF execute_model, Types
<1> DEFINE b(bad) == [sched    |-> batches[c].sched, sync |-> {}, loads |-> {}, fin |-> {},
                      executed |-> TRUE,
                      out      |-> [recv         |-> update_finished_set(recv, recv_remaining),
                                    send         |-> update_finished_set(send, send_remaining),
                                    invalid      |-> {r \in Req : \E w \in Worker : recv[w][r] = "failed"},
                                    sync_invalid |-> bad]]
<1>3. PICK bad \in SUBSET batches[c].sync : batches' = [batches EXCEPT ![c] = b(bad)]
  BY Zenon DEF execute_model
<1>4. /\ recv' = Reported(recv) /\ recv_remaining' = CountDown(recv, recv_remaining)
      /\ send' = Reported(send) /\ send_remaining' = CountDown(send, send_remaining)
      /\ UNCHANGED <<status, running, waiting, skipped_waiting, table, pending_recv, pending_send,
                     finished_recving, finished_req_ids, blocking, failed_assertion>>
  BY DEF execute_model, queues, fences
<1>5. PICK nb : nb = b(bad)
  BY Zenon
<1>6. /\ nb \in Batch /\ nb.executed /\ nb.sched = batches[c].sched
      /\ nb.out["recv"] = update_finished_set(recv, recv_remaining)
      /\ nb.out["send"] = update_finished_set(send, send_remaining)
  BY <1>2, <1>5, Zenon DEF Batch, Output, update_finished_set
<1>7. batches' = [batches EXCEPT ![c] = nb]
  BY <1>3, <1>5
<1> HIDE DEF b, c
<1>8. /\ Counted(recv, recv_remaining)' /\ ReportedOnce(recv, "recv")'
      /\ \A r \in Req : Active(recv, r)' # {} \/ r \in Complete("recv")' <=>
                        Active(recv, r) # {} \/ r \in Complete("recv")
  <2>1. PICK x, remaining : x = recv /\ remaining = recv_remaining
    OBVIOUS
  <2>2. /\ x \in [Worker -> [Req -> TransferState]] /\ remaining \in [Req -> Nat]
        /\ Counted(x, remaining) /\ ReportedOnce(x, "recv")
        /\ nb.out["recv"] = update_finished_set(x, remaining)
    BY <1>1, <1>6, <2>1, Zenon DEF TransferInv, Types
  <2>3. /\ Counted(Reported(x), CountDown(x, remaining))
        /\ ReportedOnce(Reported(x), "recv")'
        /\ \A r \in Req : Active(Reported(x), r) # {} \/ r \in Complete("recv")' <=>
                          Active(x, r) # {} \/ r \in Complete("recv")
    BY <1>1, <1>2, <1>6, <1>7, <2>2, Executed, Zenon DEF Types
  <2>4. recv' = Reported(x) /\ recv_remaining' = CountDown(x, remaining)
    BY <1>4, <2>1
  <2>5. Counted(recv, recv_remaining)' /\ ReportedOnce(recv, "recv")'
    BY <2>3, <2>4, Zenon DEF Counted, ReportedOnce, Active
  <2> QED BY <2>1, <2>3, <2>4, <2>5 DEF Active
<1>9. /\ Counted(send, send_remaining)' /\ ReportedOnce(send, "send")'
      /\ \A r \in Req : Active(send, r)' # {} \/ r \in Complete("send")' <=>
                        Active(send, r) # {} \/ r \in Complete("send")
  <2>1. PICK x, remaining : x = send /\ remaining = send_remaining
    OBVIOUS
  <2>2. /\ x \in [Worker -> [Req -> TransferState]] /\ remaining \in [Req -> Nat]
        /\ Counted(x, remaining) /\ ReportedOnce(x, "send")
        /\ nb.out["send"] = update_finished_set(x, remaining)
    BY <1>1, <1>6, <2>1, Zenon DEF TransferInv, Types
  <2>3. /\ Counted(Reported(x), CountDown(x, remaining))
        /\ ReportedOnce(Reported(x), "send")'
        /\ \A r \in Req : Active(Reported(x), r) # {} \/ r \in Complete("send")' <=>
                          Active(x, r) # {} \/ r \in Complete("send")
    BY <1>1, <1>2, <1>6, <1>7, <2>2, Executed, Zenon DEF Types
  <2>4. send' = Reported(x) /\ send_remaining' = CountDown(x, remaining)
    BY <1>4, <2>1
  <2>5. Counted(send, send_remaining)' /\ ReportedOnce(send, "send")'
    BY <2>3, <2>4, Zenon DEF Counted, ReportedOnce, Active
  <2> QED BY <2>1, <2>3, <2>4, <2>5 DEF Active
<1>10. batches' \in Seq(Batch) /\ Len(batches') = Len(batches) /\ DOMAIN batches' = DOMAIN batches
  BY <1>1, <1>2, <1>6, <1>7 DEF Types
<1>11. /\ recv' \in [Worker -> [Req -> TransferState]] /\ send' \in [Worker -> [Req -> TransferState]]
  BY <1>1, <1>4 DEF Types, Reported, TransferState
<1>12. recv_remaining' \in [Req -> Nat] /\ send_remaining' \in [Req -> Nat]
  <2>1. \A r \in Req : CountDown(recv, recv_remaining)[r] \in Nat
    BY <1>1, Aggregation, Zenon DEF Types, TransferInv
  <2>2. \A r \in Req : CountDown(send, send_remaining)[r] \in Nat
    BY <1>1, Aggregation, Zenon DEF Types, TransferInv
  <2> QED BY <1>4, <2>1, <2>2 DEF CountDown
<1>13. Types'
  BY <1>1, <1>4, <1>10, <1>11, <1>12 DEF Types
<1>14. QueueBound' /\ AssertionsHold' /\ QueuesMatchStatus'
  BY <1>1, <1>4, <1>10 DEF QueueBound, AssertionsHold, QueuesMatchStatus, Unfinished
<1>15. OutputsAwaited'
  <2>1. \A i \in DOMAIN batches : batches'[i].sched = batches[i].sched
    BY <1>1, <1>2, <1>6, <1>7 DEF Types
  <2> QED BY <1>1, <1>4, <1>10, <2>1 DEF OutputsAwaited
<1>16. ASSUME NEW r \in Req PROVE Owned(r)'
  <2>1. Owned(r)
    BY DEF TransferInv
  <2> QED BY <1>4, <1>8, <1>9, <2>1, Zenon DEF Owned
<1> QED BY <1>8, <1>9, <1>13, <1>14, <1>15, <1>16 DEF TransferInv

-----------------------------------------------------------------------------
(* Scheduler.schedule.                                                      *)

LEMMA BatchAppended ==
    ASSUME batches \in Seq(Batch), NEW b \in Batch, batches' = Append(batches, b)
    PROVE  /\ batches' \in Seq(Batch) /\ Len(batches') = Len(batches) + 1
           /\ DOMAIN batches' = DOMAIN batches \cup {Len(batches) + 1}
           /\ batches'[Len(batches) + 1] = b
           /\ \A i \in DOMAIN batches : batches'[i] = batches[i] /\ i # Len(batches) + 1
OBVIOUS

\* A batch without output adds no completion.
LEMMA CompletionsKept ==
    ASSUME batches \in Seq(Batch), NEW b \in Batch, batches' = Append(batches, b),
           NEW f \in {"recv", "send"}, b.out[f] = {}
    PROVE  /\ Complete(f)' = Complete(f)
           /\ \A i \in DOMAIN batches' : \A r \in batches'[i].out[f] :
                 i \in DOMAIN batches /\ r \in batches[i].out[f] /\ r \in Complete(f)
<1>1. /\ DOMAIN batches' = DOMAIN batches \cup {Len(batches) + 1}
      /\ batches'[Len(batches) + 1] = b
      /\ \A i \in DOMAIN batches : batches'[i] = batches[i]
  BY BatchAppended
<1>2. Complete(f)' = Complete(f)
  BY <1>1 DEF Complete
<1>3. ASSUME NEW i \in DOMAIN batches', NEW r \in batches'[i].out[f]
      PROVE  i \in DOMAIN batches /\ r \in batches[i].out[f] /\ r \in Complete(f)
  <2>1. i \in DOMAIN batches /\ r \in batches[i].out[f]
    BY <1>1
  <2>2. r \in Req
    BY <2>1, OutputTypes
  <2> QED BY <2>1, <2>2 DEF Complete
<1> QED BY <1>2, <1>3

\* What the two loops of schedule choose: the queues and the statuses say that
\* their choices do not overlap, and no choice has a transfer under way.
Chosen(P, S, A, Load, Run) ==
    /\ P \subseteq running /\ S \subseteq running \ P
    /\ A \subseteq {r \in waiting \cup skipped_waiting : promotable(r)}
    /\ Load \subseteq A /\ Run \subseteq A /\ Load \cap Run = {}

LEMMA ChosenRequests ==
    ASSUME TransferInv, NEW P, NEW S, NEW A, NEW Load, NEW Run, Chosen(P, S, A, Load, Run),
           NEW r \in Req
    PROVE  /\ r \in P \cup S => r \notin A /\ status[r] = "RUNNING"
           /\ r \in A => /\ status[r] \in {"WAITING", "PREEMPTED", REMOTE}
                         /\ r \notin running
                         /\ Active(recv, r) = {} /\ r \notin Complete("recv")
           /\ status[r] = REMOTE /\ r \notin finished_recving => r \notin A
<1>1. QueuesMatchStatus /\ Types
  BY DEF TransferInv
<1>2. r \in running => status[r] = "RUNNING"
  BY <1>1 DEF QueuesMatchStatus
<1>3. r \in A => status[r] \in {"WAITING", "PREEMPTED", REMOTE}
  BY <1>1 DEF QueuesMatchStatus, Chosen
<1>4. r \in A /\ status[r] = REMOTE => r \in finished_recving
  BY DEF Chosen, promotable
<1> QED BY <1>2, <1>3, <1>4, NothingUnderWay DEF Chosen, REMOTE

\* The status every request has after schedule has chosen.
StatusFollows(P, A, Load, Run) ==
    \A r \in Req :
        /\ r \in P => status'[r] = "PREEMPTED"
        /\ r \in Load => status'[r] = REMOTE
        /\ r \in Run => status'[r] = "RUNNING"
        /\ r \in A \ (Load \cup Run) => status'[r] \in {"WAITING", "PREEMPTED"}
        /\ r \notin P \cup A => status'[r] = status[r]

\* schedule's assignments give it.
LEMMA StatusAfterSchedule ==
    ASSUME TransferInv, NEW P, NEW S, NEW A, NEW Load, NEW Run, Chosen(P, S, A, Load, Run),
           status' = [r \in Req |-> ScheduledStatus(r, P, A, Load, Run)]
    PROVE  StatusFollows(P, A, Load, Run)
<1> SUFFICES ASSUME NEW r \in Req
             PROVE  /\ r \in P => status'[r] = "PREEMPTED"
                    /\ r \in Load => status'[r] = REMOTE
                    /\ r \in Run => status'[r] = "RUNNING"
                    /\ r \in A \ (Load \cup Run) => status'[r] \in {"WAITING", "PREEMPTED"}
                    /\ r \notin P \cup A => status'[r] = status[r]
  BY Zenon DEF StatusFollows
<1>1. /\ r \in P => r \notin A
      /\ r \in A => status[r] \in {"WAITING", "PREEMPTED", REMOTE}
  BY ChosenRequests
<1>2. /\ Load \subseteq A /\ Run \subseteq A /\ Load \cap Run = {}
  BY DEF Chosen
<1>3. status'[r] = ScheduledStatus(r, P, A, Load, Run)
  OBVIOUS
<1>4. CASE r \in P
  BY <1>1, <1>2, <1>3, <1>4 DEF ScheduledStatus
<1>5. CASE r \in Load
  BY <1>1, <1>2, <1>3, <1>5 DEF ScheduledStatus
<1>6. CASE r \in Run
  BY <1>1, <1>2, <1>3, <1>6 DEF ScheduledStatus
<1>7. CASE r \in A \ (Load \cup Run)
  BY <1>1, <1>2, <1>3, <1>7 DEF ScheduledStatus
<1>8. CASE r \notin P \cup A
  BY <1>2, <1>3, <1>8 DEF ScheduledStatus
<1> QED BY <1>2, <1>4, <1>5, <1>6, <1>7, <1>8

\* With a queue of at most two, schedule runs with at most one batch outstanding,
\* whose requests are running or finished: nothing it loads has an output to come.
LEMMA ScheduleStepKeeps ==
    ASSUME TransferInv, BatchQueueSize <= 2, ~blocking, NEW P, NEW S, NEW A, NEW out,
           ScheduleStep(P, S, A, out), P \subseteq running, S \subseteq running \ P,
           A \subseteq {r \in waiting \cup skipped_waiting : promotable(r)}
    PROVE  TransferInv'
<1> DEFINE Load == {r \in A : out[r] = "load"}
           Run == {r \in A : out[r] = "run"}
           Skip == {r \in A : out[r] = "skip"}
<1>1. Types /\ QueueBound /\ OutputsAwaited /\ QueuesMatchStatus /\ AssertionsHold
  BY DEF TransferInv
<1>2. PICK sync \in SUBSET (Run \ computed) :
        /\ status' = [r \in Req |-> ScheduledStatus(r, P, A, Load, Run)]
        /\ running' = (running \ P) \cup Run
        /\ waiting' = (waiting \cup P) \ (Load \cup Run \cup Skip)
        /\ skipped_waiting' = (skipped_waiting \ Run) \cup Load \cup Skip
        /\ table' = (table \ (P \cup Dropped(A))) \cup S \cup Load \cup Run
        /\ finished_recving' = finished_recving \ {r \in A : status[r] = REMOTE}
        /\ recv' = [w \in Worker |-> [r \in Req |-> IF r \in Load THEN "busy" ELSE recv[w][r]]]
        /\ batches' = Append(batches, [sched    |-> S \cup Run,
                                       sync     |-> sync,
                                       loads    |-> Load,
                                       fin      |-> finished_req_ids,
                                       executed |-> FALSE,
                                       out      |-> NoOutput])
        /\ finished_req_ids' = {}
        /\ blocking' \in IF S \cup Run = {} \/ MustWait THEN {TRUE} ELSE BOOLEAN
        /\ UNCHANGED <<pending_recv, pending_send, send, recv_remaining, send_remaining, failed_assertion>>
  BY Zenon DEF ScheduleStep, fences
<1>3. PICK b : b = [sched |-> S \cup Run, sync |-> sync, loads |-> Load, fin |-> finished_req_ids,
                    executed |-> FALSE, out |-> NoOutput]
  BY Zenon
<1>4. Chosen(P, S, A, Load, Run) /\ Skip \subseteq A /\ Skip \cap Load = {} /\ Skip \cap Run = {}
  BY DEF Chosen
<1>5. P \subseteq Req /\ S \subseteq Req /\ A \subseteq Req /\ Load \subseteq Req /\ Run \subseteq Req
  BY <1>1, <1>4 DEF Types
<1>6. /\ b \in Batch /\ b.sched = S \cup Run /\ b.out["recv"] = {} /\ b.out["send"] = {}
  BY <1>1, <1>2, <1>3, <1>5, Zenon DEF Batch, Output, NoOutput, Types
<1>7. batches \in Seq(Batch) /\ batches' = Append(batches, b)
  BY <1>1, <1>2, <1>3 DEF Types
<1> HIDE DEF Load, Run, Skip
<1>8. /\ batches' \in Seq(Batch) /\ Len(batches') = Len(batches) + 1
      /\ DOMAIN batches' = DOMAIN batches \cup {Len(batches) + 1}
      /\ batches'[Len(batches) + 1] = b
      /\ \A i \in DOMAIN batches : batches'[i] = batches[i] /\ i # Len(batches) + 1
  BY <1>6, <1>7, BatchAppended, Zenon
<1>9. Len(batches) < BatchQueueSize /\ Len(batches) \in {0, 1} /\ BatchQueueSize \in Nat
  <2>1. Len(batches) \in Nat /\ BatchQueueSize \in Nat
    BY <1>7, LifecycleAssumption
  <2>2. Len(batches) # BatchQueueSize /\ Len(batches) <= BatchQueueSize
    BY <1>1, Zenon DEF QueueBound
  <2>3. BatchQueueSize <= 2
    OBVIOUS
  <2>4. \A l, q \in Nat : l # q /\ l <= q /\ q <= 2 => l < q /\ l \in {0, 1}
    OBVIOUS
  <2> QED BY <2>1, <2>2, <2>3, <2>4, Zenon
<1>10. QueueBound'
  <2>1. MustWait => blocking' \in {TRUE}
    BY <1>2, Zenon
  <2>2. MustWait => blocking'
    BY <2>1, Zenon
  <2>3. Len(batches') = BatchQueueSize => MustWait
    BY <1>8, <1>9 DEF MustWait
  <2>4. Len(batches') <= BatchQueueSize
    BY <1>8, <1>9
  <2> QED BY <2>2, <2>3, <2>4, Zenon DEF QueueBound
<1>11. \A r \in Req :
           /\ r \in P => status'[r] = "PREEMPTED"
           /\ r \in Load => status'[r] = REMOTE
           /\ r \in Run => status'[r] = "RUNNING"
           /\ r \in A \ (Load \cup Run) => status'[r] \in {"WAITING", "PREEMPTED"}
           /\ r \notin P \cup A => status'[r] = status[r]
  <2>1. StatusFollows(P, A, Load, Run)
    BY <1>2, <1>4, StatusAfterSchedule, Zenon
  <2> QED BY <2>1, Zenon DEF StatusFollows
<1>12. \A r \in Req :
           /\ r \in P \cup S => r \notin A /\ status[r] = "RUNNING"
           /\ r \in A => /\ status[r] \in {"WAITING", "PREEMPTED", REMOTE} /\ r \notin running
                         /\ Active(recv, r) = {} /\ r \notin Complete("recv")
           /\ status[r] = REMOTE /\ r \notin finished_recving => r \notin A
  BY <1>4, ChosenRequests
<1>13. /\ recv' \in [Worker -> [Req -> TransferState]] /\ Counted(recv, recv_remaining)'
       /\ \A r \in Req : Active(recv, r)' = IF r \in Load THEN Worker ELSE Active(recv, r)
  <2>1. recv' = Starting(recv, Load)
    BY <1>2, Zenon DEF Starting
  <2>2. \A r \in Load : Active(recv, r) = {}
    BY <1>4, <1>5, <1>12 DEF Chosen
  <2>3. recv \in [Worker -> [Req -> TransferState]] /\ Counted(recv, recv_remaining)
    BY <1>1 DEF Types, TransferInv
  <2>4. /\ Starting(recv, Load) \in [Worker -> [Req -> TransferState]]
        /\ Counted(Starting(recv, Load), recv_remaining)
        /\ \A r \in Req : Active(Starting(recv, Load), r) = IF r \in Load THEN Worker ELSE Active(recv, r)
    BY <2>2, <2>3, TransfersStarted
  <2>5. \A r \in Req : Active(recv, r)' = Active(Starting(recv, Load), r)
    BY <2>1 DEF Active
  <2>6. Counted(recv, recv_remaining)'
    BY <1>2, <2>4, <2>5, Zenon DEF Counted
  <2> QED BY <2>1, <2>4, <2>5, <2>6
<1>14. \A r \in Req : status'[r] \in Status
  <2> SUFFICES ASSUME NEW r \in Req PROVE status'[r] \in Status
    OBVIOUS
  <2>1. status[r] \in Status
    BY <1>1 DEF Types
  <2> QED BY <1>11, <2>1 DEF Status, REMOTE
<1>15. Types'
  <2>1. status' \in [Req -> Status]
    BY <1>2, <1>14, Zenon
  <2>2. Dropped(A) \subseteq Req /\ Skip \subseteq Req
    BY <1>4, <1>5 DEF Dropped
  <2> QED BY <1>1, <1>2, <1>5, <1>8, <1>13, <2>1, <2>2, Zenon DEF Types
<1>16. AssertionsHold'
  BY <1>1, <1>2, Zenon DEF AssertionsHold
<1>17. OutputsAwaited'
  <2> SUFFICES ASSUME NEW i \in DOMAIN batches', NEW r \in batches'[i].sched
               PROVE  \/ status'[r] \in {"RUNNING", "FINISHED", "FREED"}
                      \/ status'[r] = "PREEMPTED" /\ r \in waiting' /\ i = 1 /\ Len(batches') = 2
    BY Zenon DEF OutputsAwaited
  <2>1. CASE i = Len(batches) + 1
    <3>1. r \in S \cup Run /\ r \in Req
      BY <1>5, <1>6, <1>8, <2>1
    <3>2. CASE r \in S
      <4>1. r \notin P /\ r \notin A /\ status[r] = "RUNNING"
        BY <1>4, <1>12, <3>1, <3>2 DEF Chosen
      <4> QED BY <1>11, <3>1, <4>1
    <3>3. CASE r \in Run
      BY <1>11, <3>1, <3>3
    <3> QED BY <3>1, <3>2, <3>3
  <2>2. CASE i \in DOMAIN batches
    <3>1. i = 1 /\ Len(batches) = 1 /\ r \in batches[i].sched /\ r \in Req
      <4>1. r \in batches[i].sched /\ batches[i] \in Batch
        BY <1>7, <1>8, <2>2, OutputTypes
      <4>2. r \in Req
        BY <4>1 DEF Batch
      <4>3. i \in 1..Len(batches)
        BY <1>7, <2>2
      <4> QED BY <1>9, <4>1, <4>2, <4>3
    <3>2. status[r] \in {"RUNNING", "FINISHED", "FREED"}
      BY <1>1, <2>2, <3>1 DEF OutputsAwaited
    <3>3. r \notin A
      BY <1>12, <3>1, <3>2 DEF REMOTE
    <3>4. CASE r \in P
      <4>1. r \notin Load \cup Run \cup Skip
        BY <1>4, <3>3 DEF Chosen
      <4>2. status'[r] = "PREEMPTED"
        BY <1>11, <3>1, <3>4
      <4>3. r \in waiting'
        BY <1>2, <3>4, <4>1, Zenon
      <4>4. Len(batches') = 2
        BY <1>8, <3>1
      <4> QED BY <3>1, <4>2, <4>3, <4>4
    <3>5. CASE r \notin P
      BY <1>11, <3>1, <3>2, <3>3, <3>5
    <3> QED BY <3>4, <3>5
  <2> QED BY <1>8, <2>1, <2>2, Zenon
<1>18. QueuesMatchStatus'
  <2> SUFFICES ASSUME NEW r \in Req
               PROVE  /\ r \in running' <=> status'[r] = "RUNNING"
                      /\ r \in waiting' => /\ status'[r] \in {"WAITING", "PREEMPTED"}
                                           /\ r \notin skipped_waiting'
                      /\ r \in skipped_waiting' => status'[r] \in {"WAITING", "PREEMPTED", REMOTE}
                      /\ status'[r] \notin {"NEW", "FINISHED", "FREED"} =>
                            r \in running' \cup waiting' \cup skipped_waiting'
    BY DEF QueuesMatchStatus, Unfinished
  <2>1. /\ r \in running <=> status[r] = "RUNNING"
        /\ r \in waiting => status[r] \in {"WAITING", "PREEMPTED"} /\ r \notin skipped_waiting
        /\ r \in skipped_waiting => status[r] \in {"WAITING", "PREEMPTED", REMOTE}
        /\ status[r] \notin {"NEW", "FINISHED", "FREED"} => r \in running \cup waiting \cup skipped_waiting
    BY <1>1 DEF QueuesMatchStatus, Unfinished
  <2>2. /\ Load \subseteq A /\ Run \subseteq A /\ Load \cap Run = {} /\ P \subseteq running
        /\ A \subseteq waiting \cup skipped_waiting
    BY <1>4 DEF Chosen
  <2>3. CASE r \in P
    <3>1. r \notin A /\ status'[r] = "PREEMPTED"
      BY <1>11, <1>12, <2>3
    <3>2. r \in waiting' /\ r \notin running' /\ r \notin skipped_waiting'
      BY <1>2, <1>4, <2>1, <2>2, <2>3, <3>1, Zenon DEF REMOTE
    <3> QED BY <3>1, <3>2
  <2>4. CASE r \in Load
    <3>1. r \notin running /\ status'[r] = REMOTE /\ r \notin Run
      BY <1>11, <1>12, <2>2, <2>4, Zenon
    <3>2. r \notin waiting' /\ r \notin running' /\ r \in skipped_waiting'
      BY <1>2, <2>4, <3>1, Zenon
    <3> QED BY <3>1, <3>2 DEF REMOTE
  <2>5. CASE r \in Run
    <3>1. status'[r] = "RUNNING" /\ r \notin Load \cup Skip
      BY <1>4, <1>11, <2>2, <2>5
    <3>2. r \in running' /\ r \notin waiting' /\ r \notin skipped_waiting'
      BY <1>2, <2>5, <3>1, Zenon
    <3> QED BY <3>1, <3>2
  <2>6. CASE r \in A \ (Load \cup Run)
    <3>1. r \notin running /\ status'[r] \in {"WAITING", "PREEMPTED"} /\ r \notin P
      BY <1>11, <1>12, <2>2, <2>6
    <3>2. /\ r \notin running' /\ r \in waiting' \cup skipped_waiting'
          /\ r \in waiting' => r \notin skipped_waiting'
      BY <1>2, <2>1, <2>2, <2>6, <3>1, Zenon
    <3> QED BY <3>1, <3>2
  <2>7. CASE r \notin P \cup A
    <3>1. status'[r] = status[r]
      BY <1>11, <2>7, Zenon
    <3>2. /\ r \in running' <=> r \in running
          /\ r \in waiting' <=> r \in waiting
          /\ r \in skipped_waiting' <=> r \in skipped_waiting
      BY <1>2, <1>4, <2>2, <2>7, Zenon
    <3> QED BY <2>1, <3>1, <3>2, Zenon
  <2> QED BY <2>3, <2>4, <2>5, <2>6, <2>7
<1>19. /\ Complete("recv")' = Complete("recv") /\ Complete("send")' = Complete("send")
       /\ \A i \in DOMAIN batches' : \A r \in batches'[i].out["recv"] :
             i \in DOMAIN batches /\ r \in batches[i].out["recv"] /\ r \in Complete("recv")
       /\ \A i \in DOMAIN batches' : \A r \in batches'[i].out["send"] :
             i \in DOMAIN batches /\ r \in batches[i].out["send"] /\ r \in Complete("send")
  BY <1>6, <1>7, CompletionsKept
<1>20. \A r \in Req : Active(send, r)' = Active(send, r)
  BY <1>2, Zenon DEF Active
<1>21. Counted(send, send_remaining)'
  BY <1>2, <1>20, Zenon DEF TransferInv, Counted
<1>22. ReportedOnce(recv, "recv")'
  <2>1. ReportedOnce(recv, "recv")
    BY DEF TransferInv
  <2>2. \A r \in Complete("recv") : r \in Req /\ r \notin Load
    BY <1>4, <1>12, Zenon DEF Chosen, Complete
  <2> QED BY <1>8, <1>13, <1>19, <2>1, <2>2, Zenon DEF ReportedOnce
<1>23. ReportedOnce(send, "send")'
  <2>1. ReportedOnce(send, "send")
    BY DEF TransferInv
  <2>2. \A r \in Complete("send") : r \in Req
    BY DEF Complete
  <2> QED BY <1>8, <1>19, <1>20, <2>1, <2>2, Zenon DEF ReportedOnce
<1>24. ASSUME NEW r \in Req PROVE Owned(r)'
  <2>1. Owned(r) /\ Worker # {}
    BY LifecycleAssumption DEF TransferInv
  <2>2. /\ Load \subseteq A /\ Run \subseteq A /\ Load \cap Run = {} /\ P \subseteq running
    BY <1>4 DEF Chosen
  <2>3. /\ Active(recv, r)' = IF r \in Load THEN Worker ELSE Active(recv, r)
        /\ Active(send, r)' = Active(send, r)
        /\ r \in pending_recv' <=> r \in pending_recv
        /\ r \in pending_send' <=> r \in pending_send
    BY <1>2, <1>13, <1>20, Zenon
  <2>4. CASE r \in Load
    <3>1. /\ status'[r] = REMOTE /\ status[r] \in {"WAITING", "PREEMPTED", REMOTE}
          /\ r \in table' /\ r \notin finished_recving'
      <4>1. status'[r] = REMOTE /\ status[r] \in {"WAITING", "PREEMPTED", REMOTE} /\ r \in A
        BY <1>11, <1>12, <2>2, <2>4, Zenon
      <4> QED BY <1>2, <2>1, <2>4, <4>1, Zenon DEF Owned
    <3>2. Active(recv, r)' # {}
      BY <2>1, <2>3, <2>4
    <3> QED BY <1>19, <2>1, <2>3, <3>1, <3>2, Zenon DEF Owned, REMOTE
  <2>5. CASE r \in P \cup (A \ Load)
    <3>1. /\ status'[r] \in {"WAITING", "PREEMPTED", "RUNNING"}
          /\ status[r] \in {"RUNNING", "WAITING", "PREEMPTED", REMOTE}
          /\ status[r] = REMOTE => r \in finished_recving /\ r \in A
          /\ r \notin Load
      BY <1>11, <1>12, <2>2, <2>5, Zenon DEF REMOTE
    <3>2. r \notin finished_recving'
      BY <1>2, <2>1, <3>1, Zenon DEF Owned
    <3> QED BY <1>19, <2>1, <2>3, <3>1, <3>2, Zenon DEF Owned, REMOTE
  <2>6. CASE r \notin P \cup A
    <3>1. status'[r] = status[r]
      BY <1>11, <2>6, Zenon
    <3>2. r \in finished_recving' <=> r \in finished_recving
      BY <1>2, <2>6, Zenon
    <3>3. r \in table => r \in table'
      BY <1>2, <2>6, Zenon DEF Dropped
    <3>4. r \notin Load
      BY <2>2, <2>6
    <3> QED BY <1>19, <2>1, <2>3, <3>1, <3>2, <3>3, <3>4, Zenon DEF Owned
  <2> QED BY <2>4, <2>5, <2>6
<1> QED BY <1>10, <1>13, <1>15, <1>16, <1>17, <1>18, <1>21, <1>22, <1>23, <1>24 DEF TransferInv

LEMMA Schedule ==
    ASSUME TransferInv, BatchQueueSize <= 2, schedule
    PROVE  TransferInv'
<1>1. ~blocking
  BY DEF schedule
<1>0. PICK P \in SUBSET running : \E S \in SUBSET (running \ P) :
        IF P # {} THEN ScheduleStep(P, S, {}, <<>>)
        ELSE \E A \in SUBSET {r \in waiting \cup skipped_waiting : promotable(r)} :
             \E out \in [A -> Outcome] : AllowedOutcome(out) /\ ScheduleStep(P, S, A, out)
  BY DEF schedule
<1>2. PICK S \in SUBSET (running \ P) :
        IF P # {} THEN ScheduleStep(P, S, {}, <<>>)
        ELSE \E A \in SUBSET {r \in waiting \cup skipped_waiting : promotable(r)} :
             \E out \in [A -> Outcome] : AllowedOutcome(out) /\ ScheduleStep(P, S, A, out)
  BY <1>0
<1>3. \E A \in SUBSET {r \in waiting \cup skipped_waiting : promotable(r)} : \E out : ScheduleStep(P, S, A, out)
  BY <1>2
<1> QED BY <1>1, <1>2, <1>3, ScheduleStepKeeps

-----------------------------------------------------------------------------
(* Scheduler.update_from_output.                                            *)

LEMMA BatchRemoved ==
    ASSUME batches \in Seq(Batch), batches # <<>>, batches' = Tail(batches)
    PROVE  /\ batches' \in Seq(Batch) /\ Len(batches) \in Nat /\ Len(batches') = Len(batches) - 1
           /\ 1 \in DOMAIN batches /\ Head(batches) = batches[1]
           /\ \A i \in DOMAIN batches' :
                 i \in Nat /\ i + 1 \in DOMAIN batches /\ i + 1 # 1 /\ batches'[i] = batches[i + 1]
           /\ \A i \in DOMAIN batches : i # 1 => i - 1 \in DOMAIN batches' /\ batches'[i - 1] = batches[i]
OBVIOUS

\* The completions of the oldest batch are taken, the others stay.
Taken(x, f) ==
    /\ \A r \in Head(batches).out[f] : r \in Req /\ r \in Complete(f) /\ Active(x, r) = {}
    /\ Complete(f)' = Complete(f) \ Head(batches).out[f]
    /\ \A i \in DOMAIN batches' : \A r \in batches'[i].out[f] :
          /\ r \in Complete(f)' /\ Active(x, r) = {} /\ batches'[i].executed
          /\ \A j \in DOMAIN batches' : r \in batches'[j].out[f] => j = i

\* Removing the oldest batch takes its completions.
LEMMA CompletionsTaken ==
    ASSUME batches \in Seq(Batch), batches # <<>>, batches' = Tail(batches),
           NEW x, NEW f \in {"recv", "send"}, ReportedOnce(x, f)
    PROVE  Taken(x, f)
<1>1. /\ 1 \in DOMAIN batches /\ Head(batches) = batches[1] /\ batches' \in Seq(Batch)
      /\ \A i \in DOMAIN batches' :
            i \in Nat /\ i + 1 \in DOMAIN batches /\ i + 1 # 1 /\ batches'[i] = batches[i + 1]
      /\ \A i \in DOMAIN batches : i # 1 => i - 1 \in DOMAIN batches' /\ batches'[i - 1] = batches[i]
  BY BatchRemoved
<1>2. \A i \in DOMAIN batches : \A r \in batches[i].out[f] : r \in Req /\ r \in Complete(f)
  BY OutputTypes DEF Complete
<1>3. \A i \in DOMAIN batches : \A r \in batches[i].out[f] :
        /\ batches[i].executed /\ Active(x, r) = {}
        /\ \A j \in DOMAIN batches : r \in batches[j].out[f] => j = i
  BY DEF ReportedOnce
<1>4. \A r \in Head(batches).out[f] : r \in Req /\ r \in Complete(f) /\ Active(x, r) = {}
  BY <1>1, <1>2, <1>3
<1>5. ASSUME NEW r \in Req
      PROVE  r \in Complete(f)' <=> r \in Complete(f) /\ r \notin Head(batches).out[f]
  <2>1. ASSUME r \in Complete(f)' PROVE r \in Complete(f) /\ r \notin Head(batches).out[f]
    <3>1. PICK i \in DOMAIN batches' : r \in batches'[i].out[f]
      BY <2>1 DEF Complete
    <3>2. i + 1 \in DOMAIN batches /\ i + 1 # 1 /\ r \in batches[i + 1].out[f]
      BY <1>1, <3>1
    <3> QED BY <1>1, <1>2, <1>3, <3>2
  <2>2. ASSUME r \in Complete(f), r \notin Head(batches).out[f] PROVE r \in Complete(f)'
    <3>1. PICK i \in DOMAIN batches : r \in batches[i].out[f]
      BY <2>2 DEF Complete
    <3>2. i # 1
      BY <1>1, <2>2, <3>1
    <3>3. i - 1 \in DOMAIN batches' /\ r \in batches'[i - 1].out[f]
      BY <1>1, <3>1, <3>2
    <3> QED BY <3>3 DEF Complete
  <2> QED BY <2>1, <2>2
<1>6. Complete(f)' = Complete(f) \ Head(batches).out[f]
  <2>1. Complete(f) \subseteq Req /\ Complete(f)' \subseteq Req
    BY DEF Complete
  <2> QED BY <1>5, <2>1
<1>7. ASSUME NEW i \in DOMAIN batches', NEW r \in batches'[i].out[f]
      PROVE  /\ r \in Complete(f)' /\ Active(x, r) = {} /\ batches'[i].executed
             /\ \A j \in DOMAIN batches' : r \in batches'[j].out[f] => j = i
  <2>1. /\ i \in Nat /\ i + 1 \in DOMAIN batches /\ r \in batches[i + 1].out[f]
        /\ batches'[i] = batches[i + 1]
    BY <1>1
  <2>2. r \in Req /\ Active(x, r) = {} /\ batches[i + 1].executed
    BY <1>2, <1>3, <2>1
  <2>3. r \in Complete(f)'
    BY <2>2 DEF Complete
  <2>4. ASSUME NEW j \in DOMAIN batches', r \in batches'[j].out[f] PROVE j = i
    <3>1. j \in Nat /\ j + 1 \in DOMAIN batches /\ r \in batches[j + 1].out[f]
      BY <1>1, <2>4
    <3>2. j + 1 = i + 1
      BY <1>3, <2>1, <3>1
    <3> QED BY <2>1, <3>1, <3>2
  <2> QED BY <2>1, <2>2, <2>3, <2>4
<1> QED BY <1>4, <1>6, <1>7, Zenon DEF Taken

\* The requests that a step finishes: those of the batch run or wait after a
\* preemption, those with invalid blocks run or wait for their load.
LEMMA FinishedByOutput ==
    ASSUME TransferInv, batches # <<>>, NEW r \in Req
    PROVE  /\ r \in Head(batches).sched /\ Unfinished(r) =>
                 \/ status[r] = "RUNNING"
                 \/ status[r] = "PREEMPTED" /\ r \in waiting
           /\ r \in AsyncFailed(Head(batches).out) => status[r] = REMOTE
           /\ r \in SyncFailed(Head(batches).out) => status[r] = "RUNNING"
<1>1. Types /\ OutputsAwaited /\ QueuesMatchStatus
  BY DEF TransferInv
<1>2. 1 \in DOMAIN batches /\ Head(batches) = batches[1]
  BY <1>1 DEF Types
<1>3. r \in Head(batches).sched /\ Unfinished(r) =>
         status[r] = "RUNNING" \/ (status[r] = "PREEMPTED" /\ r \in waiting)
  BY <1>1, <1>2, Zenon DEF OutputsAwaited, Unfinished
<1>4. r \in SyncFailed(Head(batches).out) => status[r] = "RUNNING"
  BY <1>1 DEF SyncFailed, QueuesMatchStatus
<1> QED BY <1>3, <1>4 DEF AsyncFailed

\* The choices of update_from_output.
Updates(stop, kept, dropped, delay) ==
    LET out  == Head(batches).out
        fail == IF Recompute THEN {} ELSE AsyncFailed(out) \cup SyncFailed(out)
    IN  /\ stop \subseteq {r \in Head(batches).sched : Unfinished(r)}
        /\ dropped \subseteq SyncFailed(out)
        /\ delay \subseteq (stop \cup fail) \cap (table \ dropped)

LEMMA UpdateStepKeeps ==
    ASSUME TransferInv, batches # <<>>, NEW stop, NEW kept, NEW dropped, NEW delay,
           Updates(stop, kept, dropped, delay), UpdateStep(stop, kept, dropped, delay)
    PROVE  TransferInv'
<1> DEFINE out   == Head(batches).out
           fail  == IF Recompute THEN {} ELSE AsyncFailed(out) \cup SyncFailed(out)
           owed  == {r \in fail : OwesRecv(r)}
           st1   == FinishedStatus(stop, fail, delay)
           psend == pending_send \cup delay
           st2   == AfterRecv(st1, out, psend)
           precv == (pending_recv \cup owed) \ out.recv
           st3   == AfterSend(st2, out, precv)
           freed == {r \in Req : st3[r] = "FREED"}
           done  == stop \cup fail
<1>1. Types /\ QueueBound /\ OutputsAwaited /\ QueuesMatchStatus /\ AssertionsHold
  BY DEF TransferInv
<1>2. /\ status' = st3
      /\ running' = running \ (StoppedRunning(stop) \cup fail)
      /\ waiting' = waiting \ (StoppedPreempted(stop) \cup fail)
      /\ skipped_waiting' = skipped_waiting \ fail
      /\ table' = table \ (dropped \cup freed)
      /\ pending_recv' = precv
      /\ pending_send' = psend \ out.send
      /\ finished_recving' = (finished_recving \ fail) \cup {r \in out.recv : st1[r] = REMOTE}
      /\ finished_req_ids' = finished_req_ids \cup stop \cup fail
      /\ send' = StartSends(delay)
      /\ batches' = Tail(batches)
      /\ failed_assertion' = (\/ \E r \in out.recv : st1[r] \notin {REMOTE, "FINISHED"}
                              \/ \E r \in out.send : st2[r] # "FINISHED")
      /\ UNCHANGED <<recv, recv_remaining, send_remaining>>
  BY Zenon DEF UpdateStep
<1>3. batches \in Seq(Batch) /\ ReportedOnce(recv, "recv") /\ ReportedOnce(send, "send")
  BY <1>1 DEF Types, TransferInv
<1>4. /\ batches' \in Seq(Batch) /\ Len(batches) \in Nat /\ Len(batches') = Len(batches) - 1
      /\ 1 \in DOMAIN batches /\ Head(batches) = batches[1] /\ Head(batches) \in Batch
      /\ \A i \in DOMAIN batches' :
            i \in Nat /\ i + 1 \in DOMAIN batches /\ i + 1 # 1 /\ batches'[i] = batches[i + 1]
  BY <1>2, <1>3, BatchRemoved, OutputTypes, Zenon
<1>5. /\ \A r \in out.recv : r \in Req /\ r \in Complete("recv") /\ Active(recv, r) = {}
      /\ Complete("recv")' = Complete("recv") \ out.recv
      /\ \A i \in DOMAIN batches' : \A r \in batches'[i].out["recv"] :
            /\ r \in Complete("recv")' /\ Active(recv, r) = {} /\ batches'[i].executed
            /\ \A j \in DOMAIN batches' : r \in batches'[j].out["recv"] => j = i
  <2>0. PICK f \in {"recv", "send"} : f = "recv"
    OBVIOUS
  <2>1. PICK x : x = recv
    OBVIOUS
  <2>2. ReportedOnce(x, f) /\ batches' = Tail(batches) /\ batches \in Seq(Batch)
    BY <1>2, <1>3, <2>0, <2>1, Zenon
  <2>3. Taken(x, f)
    BY <2>2, CompletionsTaken, Zenon
  <2> QED BY <2>0, <2>1, <2>3, Zenon DEF Taken
<1>6. /\ \A r \in out.send : r \in Req /\ r \in Complete("send") /\ Active(send, r) = {}
      /\ Complete("send")' = Complete("send") \ out.send
      /\ \A i \in DOMAIN batches' : \A r \in batches'[i].out["send"] :
            /\ r \in Complete("send")' /\ Active(send, r) = {} /\ batches'[i].executed
            /\ \A j \in DOMAIN batches' : r \in batches'[j].out["send"] => j = i
  <2>0. PICK f \in {"recv", "send"} : f = "send"
    OBVIOUS
  <2>1. PICK x : x = send
    OBVIOUS
  <2>2. ReportedOnce(x, f) /\ batches' = Tail(batches) /\ batches \in Seq(Batch)
    BY <1>2, <1>3, <2>0, <2>1, Zenon
  <2>3. Taken(x, f)
    BY <2>2, CompletionsTaken, Zenon
  <2> QED BY <2>0, <2>1, <2>3, Zenon DEF Taken
\* What is finished in this step, and the statuses on the way.
<1>7. /\ stop \subseteq Req /\ fail \subseteq Req /\ delay \subseteq done /\ delay \subseteq table
      /\ dropped \subseteq running /\ delay \cap dropped = {} /\ owed \subseteq fail
  <2>1. stop \subseteq Req
    BY <1>4, Zenon DEF Updates, Batch
  <2>2. fail \subseteq Req
    BY <1>1 DEF AsyncFailed, SyncFailed, Types
  <2>3. delay \subseteq done \cap (table \ dropped) /\ dropped \subseteq SyncFailed(out)
    BY DEF Updates
  <2> QED BY <2>1, <2>2, <2>3, Zenon DEF SyncFailed
<1>8. ASSUME NEW r \in Req
      PROVE  /\ r \in stop => status[r] = "RUNNING" \/ (status[r] = "PREEMPTED" /\ r \in waiting)
             /\ r \in fail => status[r] \in {REMOTE, "RUNNING"}
             /\ r \in owed <=> r \in fail /\ status[r] = REMOTE /\ r \notin finished_recving
             /\ r \in dropped => status[r] = "RUNNING"
  <2>1. r \in stop => r \in Head(batches).sched /\ Unfinished(r)
    BY DEF Updates
  <2>2. r \in fail => r \in AsyncFailed(out) \/ r \in SyncFailed(out)
    OBVIOUS
  <2>3. r \in dropped => r \in SyncFailed(out)
    BY DEF Updates
  <2> QED BY <2>1, <2>2, <2>3, FinishedByOutput, Zenon DEF OwesRecv
<1>9. ASSUME NEW r \in Req
      PROVE  /\ st1[r] = IF r \notin done THEN status[r]
                         ELSE IF r \in owed \cup delay THEN "FINISHED" ELSE "FREED"
             /\ st2[r] = IF r \in out.recv /\ st1[r] = "FINISHED" /\ r \notin psend
                         THEN "FREED" ELSE st1[r]
             /\ st3[r] = IF r \in out.send /\ st2[r] = "FINISHED" /\ r \notin precv
                         THEN "FREED" ELSE st2[r]
  <2>1. st1[r] = IF r \notin done THEN status[r]
                 ELSE IF r \in owed \cup delay THEN "FINISHED" ELSE "FREED"
    BY Zenon DEF FinishedStatus, free_request_status
  <2>2. st2[r] = IF r \in out.recv /\ st1[r] = "FINISHED" /\ r \notin psend
                 THEN "FREED" ELSE st1[r]
    BY Zenon DEF AfterRecv
  <2>3. st3[r] = IF r \in out.send /\ st2[r] = "FINISHED" /\ r \notin precv
                 THEN "FREED" ELSE st2[r]
    BY Zenon DEF AfterSend
  <2> QED BY <2>1, <2>2, <2>3, Zenon
<1>10. DOMAIN st3 = Req /\ st3 = [r \in Req |-> st3[r]]
  BY Zenon DEF AfterSend
<1> HIDE DEF out, fail, owed, st1, psend, st2, precv, st3, freed, done
<1>11. /\ \A r \in delay : Active(send, r) = {} /\ r \notin Complete("send") /\ r \in Req
       /\ \A r \in done : r \in Req /\ status[r] \in {"RUNNING", "PREEMPTED", REMOTE}
  <2>1. ASSUME NEW r \in done PROVE r \in Req /\ status[r] \in {"RUNNING", "PREEMPTED", REMOTE}
    BY <1>7, <1>8 DEF done
  <2>2. ASSUME NEW r \in delay PROVE Active(send, r) = {} /\ r \notin Complete("send") /\ r \in Req
    BY <1>7, <2>1, NothingUnderWay DEF REMOTE
  <2> QED BY <2>1, <2>2
<1>12. /\ send' \in [Worker -> [Req -> TransferState]] /\ Counted(send, send_remaining)'
       /\ \A r \in Req : Active(send, r)' = IF r \in delay THEN Worker ELSE Active(send, r)
  BY <1>1, <1>2, <1>11, SendsStarted, Zenon DEF TransferInv
<1>13. \A r \in Req : Active(recv, r)' = Active(recv, r)
  BY <1>2, Zenon DEF Active
<1>14. Counted(recv, recv_remaining)'
  BY <1>2, <1>13, Zenon DEF TransferInv, Counted
<1>15. ReportedOnce(recv, "recv")'
  <2>1. \A r \in Complete("recv")' : r \in Req
    BY DEF Complete
  <2> QED BY <1>5, <1>13, <2>1 DEF ReportedOnce
<1>16. ReportedOnce(send, "send")'
  <2>1. \A r \in Complete("send")' : r \in Req /\ r \notin delay
    BY <1>6, <1>11, Zenon DEF Complete
  <2> QED BY <1>6, <1>12, <2>1, Zenon DEF ReportedOnce
\* A completion finds a request that waits for it or is finished.
<1>17. ASSUME NEW r \in Req
       PROVE  /\ r \in out.recv => \/ status[r] = REMOTE /\ r \notin finished_recving
                                   \/ status[r] = "FINISHED" /\ r \in pending_recv
              /\ r \in out.send => status[r] = "FINISHED" /\ r \in pending_send
  <2>1. Owned(r)
    BY DEF TransferInv
  <2> QED BY <1>5, <1>6, <2>1, Zenon DEF Owned
<1>18. AssertionsHold'
  <2>1. ASSUME NEW r \in out.recv PROVE st1[r] \in {REMOTE, "FINISHED"}
    <3>1. r \in Req
      BY <1>5
    <3>2. CASE r \notin done
      BY <1>9, <1>17, <3>1, <3>2
    <3>3. CASE r \in done
      <4>1. status[r] = REMOTE /\ r \notin finished_recving
        BY <1>11, <1>17, <3>1, <3>3, Zenon DEF REMOTE
      <4>2. r \in owed
        BY <1>8, <3>1, <3>3, <4>1, Zenon DEF done, REMOTE
      <4> QED BY <1>9, <3>1, <3>3, <4>2, Zenon
    <3> QED BY <3>2, <3>3
  <2>2. ASSUME NEW r \in out.send PROVE st2[r] = "FINISHED"
    <3>1. r \in Req /\ status[r] = "FINISHED" /\ r \in pending_send
      BY <1>6, <1>17
    <3>2. r \notin done /\ r \in psend
      BY <1>11, <3>1 DEF REMOTE, psend
    <3> QED BY <1>9, <3>1, <3>2, Zenon
  <2> QED BY <1>2, <2>1, <2>2, Zenon DEF AssertionsHold
<1>19. ASSUME NEW r \in Req
       PROVE  /\ r \in done => status'[r] \in {"FINISHED", "FREED"}
              /\ r \notin done => \/ status'[r] = status[r]
                                  \/ status[r] = "FINISHED" /\ status'[r] = "FREED"
              /\ status'[r] \in Status
  <2>1. status[r] \in Status
    BY <1>1 DEF Types
  <2>2. status'[r] = st3[r]
    BY <1>2, Zenon
  <2>3. CASE r \in done
    <3>1. st3[r] \in {"FINISHED", "FREED"}
      BY <1>9, <2>3
    <3> QED BY <2>2, <2>3, <3>1 DEF Status
  <2>4. CASE r \notin done
    <3>1. st3[r] = status[r] \/ (status[r] = "FINISHED" /\ st3[r] = "FREED")
      BY <1>9, <2>4
    <3> QED BY <2>1, <2>2, <2>4, <3>1 DEF Status
  <2> QED BY <2>3, <2>4
<1>20. Types'
  <2>1. status' \in [Req -> Status]
    BY <1>2, <1>10, <1>19
  <2>2. /\ out.recv \subseteq Req /\ psend \subseteq Req /\ precv \subseteq Req
    BY <1>1, <1>5, <1>7, <1>11, Zenon DEF Types, psend, precv
  <2> QED BY <1>1, <1>2, <1>4, <1>7, <1>12, <2>1, <2>2, Zenon DEF Types
<1>21. QueueBound'
  <2>1. Len(batches') < BatchQueueSize /\ Len(batches') \in Nat
    BY <1>1, <1>4, LifecycleAssumption DEF QueueBound
  <2> QED BY <2>1, LifecycleAssumption DEF QueueBound
<1>22. OutputsAwaited'
  <2> SUFFICES ASSUME NEW i \in DOMAIN batches', NEW r \in batches'[i].sched
               PROVE  status'[r] \in {"RUNNING", "FINISHED", "FREED"}
    BY DEF OutputsAwaited
  <2>1. /\ i + 1 \in DOMAIN batches /\ i + 1 # 1 /\ r \in batches[i + 1].sched
        /\ batches[i + 1] \in Batch
    BY <1>3, <1>4, OutputTypes
  <2>2. r \in Req
    BY <2>1 DEF Batch
  <2>3. status[r] \in {"RUNNING", "FINISHED", "FREED"}
    BY <1>1, <2>1 DEF OutputsAwaited
  <2> QED BY <1>19, <2>2, <2>3, Zenon
<1>23. QueuesMatchStatus'
  <2> SUFFICES ASSUME NEW r \in Req
               PROVE  /\ r \in running' <=> status'[r] = "RUNNING"
                      /\ r \in waiting' => /\ status'[r] \in {"WAITING", "PREEMPTED"}
                                           /\ r \notin skipped_waiting'
                      /\ r \in skipped_waiting' => status'[r] \in {"WAITING", "PREEMPTED", REMOTE}
                      /\ status'[r] \notin {"NEW", "FINISHED", "FREED"} =>
                            r \in running' \cup waiting' \cup skipped_waiting'
    BY DEF QueuesMatchStatus, Unfinished
  <2>1. /\ r \in running <=> status[r] = "RUNNING"
        /\ r \in waiting => status[r] \in {"WAITING", "PREEMPTED"} /\ r \notin skipped_waiting
        /\ r \in skipped_waiting => status[r] \in {"WAITING", "PREEMPTED", REMOTE}
        /\ status[r] \notin {"NEW", "FINISHED", "FREED"} => r \in running \cup waiting \cup skipped_waiting
    BY <1>1 DEF QueuesMatchStatus, Unfinished
  <2>2. CASE r \in done
    <3>1. r \notin running' /\ r \notin waiting' /\ r \notin skipped_waiting'
      <4>1. CASE r \in fail
        BY <1>2, <4>1, Zenon
      <4>2. CASE r \in stop /\ status[r] = "RUNNING"
        BY <1>2, <2>1, <4>2, Zenon DEF StoppedRunning, REMOTE
      <4>3. CASE r \in stop /\ status[r] = "PREEMPTED" /\ r \in waiting
        BY <1>2, <2>1, <4>3, Zenon DEF StoppedRunning, StoppedPreempted
      <4> QED BY <1>8, <2>2, <4>1, <4>2, <4>3 DEF done
    <3> QED BY <1>19, <2>2, <3>1
  <2>3. CASE r \notin done
    <3>1. /\ r \in running' <=> r \in running
          /\ r \in waiting' <=> r \in waiting
          /\ r \in skipped_waiting' <=> r \in skipped_waiting
      BY <1>2, <2>3, Zenon DEF StoppedRunning, StoppedPreempted, done
    <3> QED BY <1>19, <2>1, <2>3, <3>1 DEF REMOTE
  <2> QED BY <2>2, <2>3
<1>24. ASSUME NEW r \in Req PROVE Owned(r)'
  <2>1. Owned(r) /\ Worker # {}
    BY LifecycleAssumption DEF TransferInv
  <2>2. /\ Active(recv, r)' = Active(recv, r)
        /\ Active(send, r)' = IF r \in delay THEN Worker ELSE Active(send, r)
        /\ r \in Complete("recv")' <=> r \in Complete("recv") /\ r \notin out.recv
        /\ r \in Complete("send")' <=> r \in Complete("send") /\ r \notin out.send
    BY <1>5, <1>6, <1>12, <1>13, Zenon
  <2>3. /\ r \in out.recv => Active(recv, r) = {}
        /\ r \in out.send => Active(send, r) = {}
    BY <1>5, <1>6, Zenon
  <2>4. /\ r \in pending_recv' <=> (r \in pending_recv \/ r \in owed) /\ r \notin out.recv
        /\ r \in pending_send' <=> (r \in pending_send \/ r \in delay) /\ r \notin out.send
        /\ r \in finished_recving' <=>
              (r \in finished_recving /\ r \notin fail) \/ (r \in out.recv /\ st1[r] = REMOTE)
        /\ status'[r] = st3[r]
        /\ r \in table' <=> r \in table /\ r \notin dropped /\ st3[r] # "FREED"
    BY <1>2, Zenon DEF precv, psend, freed
  <2>5. /\ r \in psend <=> r \in pending_send \/ r \in delay
        /\ r \in precv <=> (r \in pending_recv \/ r \in owed) /\ r \notin out.recv
    BY Zenon DEF psend, precv
  <2>6. CASE r \notin done
    <3>1. r \notin delay /\ r \notin owed /\ r \notin fail /\ (r \in dropped => status[r] = "RUNNING")
      BY <1>7, <1>8, <2>6 DEF done
    <3>2. st1[r] = status[r]
      BY <1>9, <2>6, Zenon
    <3>3. CASE status[r] = "FINISHED"
      <4>1. st2[r] = IF r \in out.recv /\ r \notin pending_send THEN "FREED" ELSE "FINISHED"
        BY <1>9, <2>5, <3>1, <3>2, <3>3, Zenon
      <4>2. st3[r] = IF r \in pending_recv' \cup pending_send' THEN "FINISHED" ELSE "FREED"
        BY <1>9, <1>17, <2>1, <2>4, <2>5, <3>1, <3>3, <4>1, Zenon DEF Owned
      <4>3. r \notin finished_recving' /\ r \in table /\ r \notin dropped
        BY <2>1, <2>4, <3>1, <3>2, <3>3, Zenon DEF Owned, REMOTE
      <4> QED BY <1>17, <2>1, <2>2, <2>3, <2>4, <3>1, <3>3, <4>2, <4>3, Zenon DEF Owned, REMOTE
    <3>4. CASE status[r] # "FINISHED"
      <4>1. st3[r] = status[r] /\ r \notin out.send
        BY <1>9, <1>17, <3>2, <3>4, Zenon
      <4>2. r \in out.recv => status[r] = REMOTE /\ r \notin finished_recving
        BY <1>17, <3>4, Zenon
      <4> QED BY <2>1, <2>2, <2>3, <2>4, <3>1, <3>2, <3>4, <4>1, <4>2, Zenon DEF Owned, REMOTE
    <3> QED BY <3>3, <3>4
  <2>7. CASE r \in done
    <3>1. /\ status[r] \in {"RUNNING", "PREEMPTED", REMOTE}
          /\ r \notin pending_recv /\ r \notin pending_send /\ r \notin out.send
          /\ Active(send, r) = {} /\ r \notin Complete("send")
      BY <1>11, <1>17, <2>1, <2>7, Zenon DEF Owned, REMOTE
    <3>2. /\ r \in owed <=> status[r] = REMOTE /\ r \notin finished_recving
          /\ r \in owed <=> Active(recv, r) # {} \/ r \in Complete("recv")
      BY <1>8, <2>1, <2>7, <3>1, Zenon DEF Owned, done, REMOTE
    <3>3. /\ st1[r] = IF r \in owed \/ r \in delay THEN "FINISHED" ELSE "FREED"
          /\ r \in out.recv => r \in owed
      BY <1>9, <1>17, <2>7, <3>1, <3>2, Zenon
    <3>4. st3[r] = IF r \in delay \/ (r \in owed /\ r \notin out.recv) THEN "FINISHED" ELSE "FREED"
      BY <1>9, <2>5, <3>1, <3>3, Zenon
    <3>5. r \notin finished_recving'
      <4>1. r \in finished_recving => r \in fail
        BY <1>8, <2>1, <2>7 DEF Owned, done, REMOTE
      <4> QED BY <2>4, <3>3, <4>1, Zenon DEF REMOTE
    <3>6. st3[r] = "FINISHED" => r \in table /\ r \notin dropped
      <4>1. r \in owed => r \in table /\ r \notin dropped
        BY <1>8, <2>1, <3>2 DEF Owned, REMOTE
      <4>2. r \in delay => r \in table /\ r \notin dropped
        BY <1>7
      <4> QED BY <3>4, <4>1, <4>2
    <3>7. /\ r \in pending_recv' <=> r \in owed /\ r \notin out.recv
          /\ r \in pending_send' <=> r \in delay
      BY <2>4, <3>1, Zenon
    <3> QED BY <2>1, <2>2, <2>3, <2>4, <3>1, <3>2, <3>4, <3>5, <3>6, <3>7, Zenon DEF Owned, REMOTE
  <2> QED BY <2>6, <2>7
<1> QED BY <1>12, <1>14, <1>15, <1>16, <1>18, <1>20, <1>21, <1>22, <1>23, <1>24 DEF TransferInv

LEMMA UpdateFromOutput ==
    ASSUME TransferInv, update_from_output
    PROVE  TransferInv'
<1> DEFINE out  == Head(batches).out
           skip == IF Recompute THEN SyncFailed(out) ELSE AsyncFailed(out) \cup SyncFailed(out)
           live == {r \in Head(batches).sched \ skip : Unfinished(r)}
           fail == IF Recompute THEN {} ELSE AsyncFailed(out) \cup SyncFailed(out)
<1>1. batches # <<>>
  BY Zenon DEF update_from_output
<1>2. \E stop \in SUBSET live, kept \in SUBSET AsyncFailed(out), dropped \in SUBSET SyncFailed(out) :
        \E delay \in SUBSET ((stop \cup fail) \cap (table \ dropped)) : UpdateStep(stop, kept, dropped, delay)
  BY Zenon DEF update_from_output
<1>3. PICK stop \in SUBSET live, kept \in SUBSET AsyncFailed(out), dropped \in SUBSET SyncFailed(out) :
        \E delay \in SUBSET ((stop \cup fail) \cap (table \ dropped)) : UpdateStep(stop, kept, dropped, delay)
  BY <1>2, Zenon
<1>4. PICK delay \in SUBSET ((stop \cup fail) \cap (table \ dropped)) : UpdateStep(stop, kept, dropped, delay)
  BY <1>3
<1>5. Updates(stop, kept, dropped, delay)
  BY <1>3, <1>4, Zenon DEF Updates
<1> QED BY <1>1, <1>4, <1>5, UpdateStepKeeps, Zenon

-----------------------------------------------------------------------------

LEMMA TransferInvNext ==
    ASSUME BatchQueueSize <= 2
    PROVE  TransferInv /\ [Next]_vars => TransferInv'
<1> SUFFICES ASSUME TransferInv, [Next]_vars PROVE TransferInv'
  OBVIOUS
<1>1. CASE \E r \in Req : add_request(r)
  BY <1>1, AddRequest
<1>2. CASE \E r \in Req : finish_requests(r)
  BY <1>2, FinishRequests
<1>3. CASE schedule
  BY <1>3, Schedule
<1>4. CASE execute_model
  BY <1>4, ExecuteModel
<1>5. CASE update_from_output
  BY <1>5, UpdateFromOutput
<1>6. CASE \E w \in Worker, r \in Req : RecvDone(w, r)
  BY <1>6, RecvDoneStep
<1>7. CASE \E w \in Worker, r \in Req : SendDone(w, r)
  BY <1>7, SendDoneStep
<1>8. CASE UNCHANGED vars
  <2>1. Types' /\ QueueBound' /\ OutputsAwaited' /\ QueuesMatchStatus' /\ AssertionsHold'
    BY <1>8, Zenon DEF vars, queues, fences, transfers, TransferInv, Types, QueueBound, OutputsAwaited,
                QueuesMatchStatus, AssertionsHold, Unfinished
  <2>2. \A r \in Req : Owned(r)'
    BY <1>8, RecvUntouched, SendUntouched, Zenon DEF vars, queues, fences, transfers, TransferInv, Owned
  <2> QED BY <1>8, <2>1, <2>2, RecvUntouched, SendUntouched, Zenon DEF vars, transfers, TransferInv
<1> QED BY <1>1, <1>2, <1>3, <1>4, <1>5, <1>6, <1>7, <1>8 DEF Next

LEMMA TransferInvAlways ==
    ASSUME BatchQueueSize <= 2
    PROVE  Spec => []TransferInv
<1>1. TransferInv /\ [Next]_vars => TransferInv'
  BY TransferInvNext
<1> QED BY <1>1, TransferInvInit, PTL DEF Spec

\* A transfer under way is one that some worker has not reported, or one whose
\* completion waits in an output.
LEMMA UnderWayTransfers ==
    ASSUME NEW x, NEW r \in Req, NEW f
    PROVE  UnderWay(x, r, f) <=> Active(x, r) # {} \/ r \in Complete(f)
BY DEF UnderWay, Active, Complete

LEMMA TransferInvMeans ==
    TransferInv => /\ BlocksHeldWhileTransferring /\ FencesExact
                   /\ QueuesMatchStatus /\ AssertionsHold
<1> SUFFICES ASSUME TransferInv PROVE BlocksHeldWhileTransferring /\ FencesExact
  BY DEF TransferInv
<1>1. ASSUME NEW w \in Worker, NEW r \in Req, "busy" \in {recv[w][r], send[w][r]}
      PROVE  r \in table
  <2>1. Owned(r)
    BY DEF TransferInv
  <2>2. Active(recv, r) # {} \/ Active(send, r) # {}
    BY <1>1, Zenon DEF Active
  <2> QED BY <2>1, <2>2 DEF Owned
<1>2. ASSUME NEW r \in Req, status[r] = "FINISHED"
      PROVE  /\ r \in pending_recv <=> UnderWay(recv, r, "recv")
             /\ r \in pending_send <=> UnderWay(send, r, "send")
             /\ r \in pending_recv \cup pending_send
  <2>1. Owned(r)
    BY DEF TransferInv
  <2>2. /\ UnderWay(recv, r, "recv") <=> Active(recv, r) # {} \/ r \in Complete("recv")
        /\ UnderWay(send, r, "send") <=> Active(send, r) # {} \/ r \in Complete("send")
    BY UnderWayTransfers
  <2> QED BY <1>2, <2>1, <2>2 DEF Owned, REMOTE
<1> QED BY <1>1, <1>2, Zenon DEF BlocksHeldWhileTransferring, FencesExact

\* With a batch queue of at most two, no block table is freed while a worker still
\* loads into it or saves from it, however many requests, workers and reports.
THEOREM BlocksAreHeld == BatchQueueSize <= 2 => (Spec => []BlocksHeldWhileTransferring)
<1> SUFFICES ASSUME BatchQueueSize <= 2 PROVE Spec => []BlocksHeldWhileTransferring
  OBVIOUS
<1>1. Spec => []TransferInv
  BY TransferInvAlways
<1> QED BY <1>1, TransferInvMeans, PTL

\* With a batch queue of at most two, the assertions of
\* _update_from_kv_xfer_finished never fail.
THEOREM NoAssertionFails == BatchQueueSize <= 2 => (Spec => []AssertionsHold)
<1> SUFFICES ASSUME BatchQueueSize <= 2 PROVE Spec => []AssertionsHold
  OBVIOUS
<1>1. Spec => []TransferInv
  BY TransferInvAlways
<1> QED BY <1>1, TransferInvMeans, PTL

\* With a batch queue of at most two, the fences of a finished request are exactly
\* the completions still to come, and it is kept only for those.
THEOREM FencesAreExact == BatchQueueSize <= 2 => (Spec => []FencesExact)
<1> SUFFICES ASSUME BatchQueueSize <= 2 PROVE Spec => []FencesExact
  OBVIOUS
<1>1. Spec => []TransferInv
  BY TransferInvAlways
<1> QED BY <1>1, TransferInvMeans, PTL

\* With a batch queue of at most two, every request is in the queue that its
\* status calls for and in no other.
THEOREM QueuesFollowStatus == BatchQueueSize <= 2 => (Spec => []QueuesMatchStatus)
<1> SUFFICES ASSUME BatchQueueSize <= 2 PROVE Spec => []QueuesMatchStatus
  OBVIOUS
<1>1. Spec => []TransferInv
  BY TransferInvAlways
<1> QED BY <1>1, TransferInvMeans, PTL
=============================================================================
