---------------------------- MODULE DPWavesProofs ----------------------------
(***************************************************************************)
(* Proofs about DPWaves for every number of engines, front ends and         *)
(* requests.                                                                *)
(***************************************************************************)
EXTENDS DPWaves, SequenceTheorems, TLAPS

\* Beliefs and messages when the engines have reached wave n.  A wave is reported
\* as complete only after the engines have left it.
BeliefAt(n) == {b \in [wave : Nat, running : BOOLEAN] : b.wave <= n}
RequestAt(n) == {m \in [req : Nat, wave : Nat] : m.wave <= n}
Identity == {k \in Int : k >= DP}
Wakeup == [engine : Identity, wave : Nat]
StartAt(n) == {m \in [wave : Nat, exclude : Int] : m.wave <= n}
ReportAt(n) == {m \in [type : {"wave_complete", "start_wave"}, wave : Nat] :
                   m.wave <= n /\ (m.type = "wave_complete" => m.wave < n)}

\* No belief and no message is ahead of the engines' common wave.
BeliefsBehind(n) ==
    /\ coord \in BeliefAt(n)
    /\ view \in [Client -> BeliefAt(n)]
    /\ published \in [Client -> Seq(BeliefAt(n))]
MessagesBehind(n) ==
    /\ requests \in [Client -> [Engine -> Seq(RequestAt(n))]]
    /\ starts \in [Engine -> Seq(StartAt(n))]
    /\ reports \in [Engine -> Seq(ReportAt(n))]
    /\ wakeups \in [Client -> Seq(Wakeup)]
    /\ first_req \in [Client -> Seq(Identity)]

WaveInv ==
    \E n \in Nat :
       /\ wave = [e \in Engine |-> n]
       /\ sent \in Seq(Client)
       /\ BeliefsBehind(n) /\ MessagesBehind(n)

-----------------------------------------------------------------------------

\* Bounds that hold at a wave hold at the next one.
LEMMA LaterWave ==
    ASSUME NEW n \in Nat
    PROVE  /\ BeliefAt(n) \subseteq BeliefAt(n + 1)
           /\ RequestAt(n) \subseteq RequestAt(n + 1)
           /\ StartAt(n) \subseteq StartAt(n + 1)
           /\ ReportAt(n) \subseteq ReportAt(n + 1)
BY DEF BeliefAt, RequestAt, StartAt, ReportAt

\* Appending to one of several sequences.
LEMMA AppendAt ==
    ASSUME NEW D, NEW S, NEW f \in [D -> Seq(S)], NEW d \in D, NEW x \in S
    PROVE  [f EXCEPT ![d] = Append(@, x)] \in [D -> Seq(S)]
OBVIOUS

\* Taking the head of one of several sequences.
LEMMA TailAt ==
    ASSUME NEW D, NEW S, NEW f \in [D -> Seq(S)], NEW d \in D, f[d] # <<>>
    PROVE  Head(f[d]) \in S /\ [f EXCEPT ![d] = Tail(@)] \in [D -> Seq(S)]
<1>1. f[d] \in Seq(S)
  OBVIOUS
<1>2. Head(f[d]) \in S /\ Tail(f[d]) \in Seq(S)
  BY <1>1, HeadTailProperties
<1> QED BY <1>2

LEMMA WaveInvInit == Init => WaveInv
<1> SUFFICES ASSUME Init PROVE WaveInv
  OBVIOUS
<1>1. BeliefsBehind(0)
  BY DEF Init, BeliefsBehind, BeliefAt
<1>2. MessagesBehind(0)
  BY DEF Init, MessagesBehind, RequestAt, StartAt, ReportAt
<1> QED BY <1>1, <1>2 DEF Init, WaveInv

-----------------------------------------------------------------------------
(* One lemma per action, at a fixed wave n.                                 *)

LEMMA AddRequestAsync ==
    ASSUME NEW n \in Nat, BeliefsBehind(n), MessagesBehind(n), sent \in Seq(Client),
           NEW c \in Client, NEW e \in Engine, add_request_async(c, e)
    PROVE  BeliefsBehind(n)' /\ MessagesBehind(n)' /\ (sent \in Seq(Client))' /\ wave' = wave
<1>1. [req |-> Len(sent) + 1, wave |-> view[c].wave] \in RequestAt(n)
  BY DEF RequestAt, BeliefsBehind, BeliefAt
<1>2. requests' \in [Client -> [Engine -> Seq(RequestAt(n))]]
  BY <1>1 DEF add_request_async, MessagesBehind
<1>3. first_req' \in [Client -> Seq(Identity)]
  <2>1. identity(e) \in Identity
    BY DPWavesAssumption DEF identity, Identity, Engine
  <2> QED BY <2>1 DEF add_request_async, MessagesBehind
<1> QED BY <1>2, <1>3 DEF add_request_async, BeliefsBehind, MessagesBehind, engine

\* A turn of the statistics task forwards a notification that is there, reads
\* what has been published, or does both.
LEMMA StatsTurn ==
    ASSUME NEW c \in Client, run_engine_stats_update_task(c)
    PROVE  \E arrived \in 0..Len(published[c]), notify \in BOOLEAN :
         /\ notify \/ arrived > 0
         /\ notify => first_req[c] # <<>>
         /\ view' = [view EXCEPT ![c] = IF arrived > 0 THEN published[c][arrived]
                                                       ELSE [@ EXCEPT !.running = TRUE]]
         /\ published' = [published EXCEPT ![c] = SubSeq(@, arrived + 1, Len(@))]
         /\ first_req' = [first_req EXCEPT ![c] = IF notify THEN Tail(@) ELSE @]
         /\ wakeups' = [wakeups EXCEPT ![c] =
                           IF notify THEN Append(@, [engine |-> Head(first_req[c]), wave |-> view[c].wave])
                                     ELSE @]
         /\ UNCHANGED <<engine, coord, sent, done, requests, starts, reports>>
<1>1. PICK events \in (SUBSET Readable(c)) \ {{}}, arrived \in 0..Len(published[c]) :
         LET notify == NotifiesFirst(c, events) IN
         /\ "published" \in events => arrived > 0
         /\ view' = [view EXCEPT ![c] = IF arrived > 0 THEN published[c][arrived]
                                                       ELSE [@ EXCEPT !.running = TRUE]]
         /\ published' = [published EXCEPT ![c] = SubSeq(@, arrived + 1, Len(@))]
         /\ first_req' = [first_req EXCEPT ![c] = IF notify THEN Tail(@) ELSE @]
         /\ wakeups' = [wakeups EXCEPT ![c] =
                           IF notify THEN Append(@, [engine |-> Head(first_req[c]), wave |-> view[c].wave])
                                     ELSE @]
         /\ UNCHANGED <<engine, coord, sent, done, requests, starts, reports>>
  BY Zenon DEF run_engine_stats_update_task
<1>2. NotifiesFirst(c, events) \in BOOLEAN
  BY Zenon DEF NotifiesFirst
<1>3. NotifiesFirst(c, events) => first_req[c] # <<>>
  BY DEF NotifiesFirst, Readable
<1>4. NotifiesFirst(c, events) \/ arrived > 0
  <2>1. CASE "published" \in events
    BY <1>1, <2>1
  <2>2. CASE "published" \notin events
    <3>1. \A x \in events : x = "first_req"
      BY <2>2, Zenon DEF Readable
    <3>2. events = {"first_req"}
      BY <3>1, Zenon
    <3> QED BY <3>2, Zenon DEF NotifiesFirst
  <2> QED BY <2>1, <2>2
<1> QED BY <1>1, <1>2, <1>3, <1>4, Zenon

LEMMA StatsUpdate ==
    ASSUME NEW n \in Nat, BeliefsBehind(n), MessagesBehind(n),
           NEW c \in Client, run_engine_stats_update_task(c)
    PROVE  BeliefsBehind(n)' /\ MessagesBehind(n)' /\ UNCHANGED <<wave, sent>>
<1>1. PICK arrived \in 0..Len(published[c]), notify \in BOOLEAN :
         /\ notify => first_req[c] # <<>>
         /\ view' = [view EXCEPT ![c] = IF arrived > 0 THEN published[c][arrived]
                                                       ELSE [@ EXCEPT !.running = TRUE]]
         /\ published' = [published EXCEPT ![c] = SubSeq(@, arrived + 1, Len(@))]
         /\ first_req' = [first_req EXCEPT ![c] = IF notify THEN Tail(@) ELSE @]
         /\ wakeups' = [wakeups EXCEPT ![c] =
                           IF notify THEN Append(@, [engine |-> Head(first_req[c]), wave |-> view[c].wave])
                                     ELSE @]
         /\ UNCHANGED <<engine, coord, sent, done, requests, starts, reports>>
  BY StatsTurn, Zenon
<1>2. published[c] \in Seq(BeliefAt(n)) /\ view[c] \in BeliefAt(n)
  BY DEF BeliefsBehind
<1>3. view' \in [Client -> BeliefAt(n)]
  <2>1. CASE arrived > 0
    <3>1. published[c][arrived] \in BeliefAt(n)
      BY <1>2, <2>1
    <3> QED BY <1>1, <2>1, <3>1 DEF BeliefsBehind
  <2>2. CASE ~(arrived > 0)
    <3>1. [view[c] EXCEPT !.running = TRUE] \in BeliefAt(n)
      BY <1>2, Zenon DEF BeliefAt
    <3> QED BY <1>1, <2>2, <3>1 DEF BeliefsBehind
  <2> QED BY <2>1, <2>2
<1>4. published' \in [Client -> Seq(BeliefAt(n))]
  <2>1. SubSeq(published[c], arrived + 1, Len(published[c])) \in Seq(BeliefAt(n))
    BY <1>2
  <2> QED BY <1>1, <2>1 DEF BeliefsBehind
<1>5. first_req' \in [Client -> Seq(Identity)] /\ wakeups' \in [Client -> Seq(Wakeup)]
  <2>1. CASE notify
    <3>1. Head(first_req[c]) \in Identity /\ Tail(first_req[c]) \in Seq(Identity)
      BY <1>1, <2>1, HeadTailProperties DEF MessagesBehind
    <3>2. [engine |-> Head(first_req[c]), wave |-> view[c].wave] \in Wakeup
      BY <1>2, <3>1 DEF BeliefAt, Wakeup
    <3>3. Append(wakeups[c], [engine |-> Head(first_req[c]), wave |-> view[c].wave]) \in Seq(Wakeup)
      BY <3>2 DEF MessagesBehind
    <3> QED BY <1>1, <2>1, <3>1, <3>3 DEF MessagesBehind
  <2>2. CASE ~notify
    BY <1>1, <2>2 DEF MessagesBehind
  <2> QED BY <2>1, <2>2
<1> QED BY <1>1, <1>3, <1>4, <1>5, Zenon DEF BeliefsBehind, MessagesBehind, engine

\* What the coordinator sends out is its own belief and its own wave.
LEMMA Published ==
    ASSUME NEW n \in Nat, BeliefsBehind(n), NEW b \in BeliefAt(n), publish(b)
    PROVE  published' \in [Client -> Seq(BeliefAt(n))]
BY DEF publish, BeliefsBehind

LEMMA Started ==
    ASSUME NEW n \in Nat, MessagesBehind(n), NEW w \in 0..n, NEW x \in Int, _send_start_wave(w, x)
    PROVE  starts' \in [Engine -> Seq(StartAt(n))]
<1>1. [wave |-> w, exclude |-> x] \in StartAt(n)
  BY DEF StartAt
<1> QED BY <1>1 DEF _send_start_wave, MessagesBehind

LEMMA ProcessFront ==
    ASSUME NEW n \in Nat, BeliefsBehind(n), MessagesBehind(n),
           NEW c \in Client, process_front(c)
    PROVE  BeliefsBehind(n)' /\ MessagesBehind(n)' /\ UNCHANGED <<wave, sent>>
<1>1. wakeups[c] # <<>> /\ wakeups' = [wakeups EXCEPT ![c] = Tail(@)]
  BY DEF process_front
<1>2. Head(wakeups[c]) \in Wakeup /\ wakeups' \in [Client -> Seq(Wakeup)]
  BY <1>1, TailAt DEF MessagesBehind
<1>3. coord \in BeliefAt(n)
  BY DEF BeliefsBehind
<1>4. /\ coord' \in BeliefAt(n) /\ published' \in [Client -> Seq(BeliefAt(n))]
      /\ starts' \in [Engine -> Seq(StartAt(n))]
  <2>1. CASE UNCHANGED <<coord, starts, published>>
    BY <2>1 DEF BeliefsBehind, MessagesBehind
  <2>2. CASE /\ coord' = [coord EXCEPT !.running = TRUE]
             /\ _send_start_wave(coord.wave, Excluded(Head(wakeups[c])))
             /\ publish(coord')
    <3>1. coord' \in BeliefAt(n)
      BY <1>3, <2>2, Zenon DEF BeliefAt
    <3>2. coord.wave \in 0..n /\ Excluded(Head(wakeups[c])) \in Int
      BY <1>2, <1>3 DEF BeliefAt, Wakeup, Identity, Excluded, None
    <3> QED BY <2>2, <3>1, <3>2, Published, Started
  <2> QED BY <2>1, <2>2 DEF process_front
<1> QED BY <1>2, <1>4 DEF process_front, BeliefsBehind, MessagesBehind, engine, front

LEMMA ProcessBack ==
    ASSUME NEW n \in Nat, BeliefsBehind(n), MessagesBehind(n),
           NEW e \in Engine, process_back(e)
    PROVE  BeliefsBehind(n)' /\ MessagesBehind(n)' /\ UNCHANGED <<wave, sent>>
<1> DEFINE m == Head(reports[e])
<1>1. reports[e] # <<>> /\ reports' = [reports EXCEPT ![e] = Tail(@)]
  BY DEF process_back
<1>2. m \in ReportAt(n) /\ reports' \in [Engine -> Seq(ReportAt(n))]
  BY <1>1, TailAt DEF MessagesBehind
<1>3. /\ coord' \in BeliefAt(n) /\ published' \in [Client -> Seq(BeliefAt(n))]
      /\ starts' \in [Engine -> Seq(StartAt(n))]
  <2>1. CASE UNCHANGED <<coord, starts, published>>
    BY <2>1 DEF BeliefsBehind, MessagesBehind
  <2>2. CASE /\ m.type = "wave_complete"
             /\ coord' = [wave |-> m.wave + 1, running |-> FALSE]
             /\ publish(coord') /\ UNCHANGED starts
    <3>1. coord' \in BeliefAt(n)
      BY <1>2, <2>2 DEF BeliefAt, ReportAt
    <3> QED BY <2>2, <3>1, Published DEF MessagesBehind
  <2>3. CASE /\ coord' = [wave |-> m.wave, running |-> TRUE]
             /\ publish(coord') /\ _send_start_wave(m.wave, e)
    <3>1. coord' \in BeliefAt(n) /\ m.wave \in 0..n
      BY <1>2, <2>3 DEF BeliefAt, ReportAt
    <3>2. e \in Int
      BY DPWavesAssumption DEF Engine
    <3> QED BY <2>3, <3>1, <3>2, Published, Started
  <2> QED BY <2>1, <2>2, <2>3 DEF process_back
<1> QED BY <1>2, <1>3 DEF process_back, BeliefsBehind, MessagesBehind, engine, front

LEMMA PollTimeout ==
    ASSUME NEW n \in Nat, BeliefsBehind(n), MessagesBehind(n), poll_timeout
    PROVE  BeliefsBehind(n)' /\ MessagesBehind(n)' /\ UNCHANGED <<wave, sent>>
<1>1. published' \in [Client -> Seq(BeliefAt(n))]
  BY Published DEF poll_timeout, BeliefsBehind
<1> QED BY <1>1 DEF poll_timeout, BeliefsBehind, MessagesBehind, engine, front

LEMMA AddRequest ==
    ASSUME NEW n \in Nat, BeliefsBehind(n), MessagesBehind(n), wave = [f \in Engine |-> n],
           NEW e \in Engine, NEW c \in Client, add_request(e, c)
    PROVE  BeliefsBehind(n)' /\ MessagesBehind(n)' /\ UNCHANGED <<wave, sent>>
<1> DEFINE m == Head(requests[c][e])
<1>1. requests[c] \in [Engine -> Seq(RequestAt(n))] /\ requests[c][e] # <<>>
  BY DEF MessagesBehind, add_request
<1>2. m \in RequestAt(n) /\ [requests[c] EXCEPT ![e] = Tail(@)] \in [Engine -> Seq(RequestAt(n))]
  BY <1>1, TailAt
<1>3. requests' \in [Client -> [Engine -> Seq(RequestAt(n))]]
  BY <1>2 DEF add_request, MessagesBehind
<1>4. wave' = wave
  BY <1>2 DEF add_request, RequestAt
<1>5. reports' \in [Engine -> Seq(ReportAt(n))]
  <2>1. CASE UNCHANGED reports
    BY <2>1 DEF MessagesBehind
  <2>2. CASE report(e, "start_wave")
    <3>1. [type |-> "start_wave", wave |-> wave[e]] \in ReportAt(n)
      BY DEF ReportAt
    <3> QED BY <2>2, <3>1, AppendAt DEF report, MessagesBehind
  <2> QED BY <2>1, <2>2 DEF add_request
<1> QED BY <1>3, <1>4, <1>5 DEF add_request, BeliefsBehind, MessagesBehind, front

LEMMA HandleStartWave ==
    ASSUME NEW n \in Nat, BeliefsBehind(n), MessagesBehind(n), wave = [f \in Engine |-> n],
           NEW e \in Engine, handle_start_wave(e)
    PROVE  BeliefsBehind(n)' /\ MessagesBehind(n)' /\ UNCHANGED <<wave, sent>>
<1>1. starts[e] # <<>> /\ starts' = [starts EXCEPT ![e] = Tail(@)]
  BY DEF handle_start_wave
<1>2. Head(starts[e]) \in StartAt(n) /\ starts' \in [Engine -> Seq(StartAt(n))]
  BY <1>1, TailAt DEF MessagesBehind
<1>3. wave' = wave
  BY <1>2 DEF handle_start_wave, Wakes, StartAt
<1> QED BY <1>2, <1>3 DEF handle_start_wave, BeliefsBehind, MessagesBehind, front

\* The pause moves every engine to the next wave, and reports the one it ends.
LEMMA Reduce ==
    ASSUME NEW n \in Nat, BeliefsBehind(n), MessagesBehind(n), wave = [f \in Engine |-> n],
           has_global_unfinished_reqs
    PROVE  /\ UNCHANGED sent
           /\ \E k \in Nat : wave' = [f \in Engine |-> k] /\ BeliefsBehind(k)' /\ MessagesBehind(k)'
<1>1. UNCHANGED <<coord, front, requests, starts, first_req, wakeups, published>>
  BY DEF has_global_unfinished_reqs
<1>2. CASE UNCHANGED <<wave, reports>>
  BY <1>1, <1>2, Zenon DEF BeliefsBehind, MessagesBehind, front
<1>3. CASE report(0, "wave_complete") /\ wave' = [e \in Engine |-> wave[e] + 1]
  <2>1. 0 \in Engine /\ wave[0] = n
    BY DPWavesAssumption DEF Engine
  <2>2. wave' = [f \in Engine |-> n + 1]
    BY <1>3
  <2>3. reports' \in [Engine -> Seq(ReportAt(n + 1))]
    <3>1. reports \in [Engine -> Seq(ReportAt(n + 1))]
      <4>1. \A e \in Engine : reports[e] \in Seq(ReportAt(n + 1))
        BY LaterWave, SeqMonotonic DEF MessagesBehind
      <4> QED BY <4>1 DEF MessagesBehind
    <3>2. [type |-> "wave_complete", wave |-> wave[0]] \in ReportAt(n + 1)
      BY <2>1 DEF ReportAt
    <3> QED BY <1>3, <2>1, <3>1, <3>2, AppendAt DEF report
  <2>4. BeliefsBehind(n + 1)'
    <3>1. \A c \in Client : published[c] \in Seq(BeliefAt(n + 1))
      BY LaterWave, SeqMonotonic DEF BeliefsBehind
    <3>2. coord \in BeliefAt(n + 1) /\ view \in [Client -> BeliefAt(n + 1)]
      BY LaterWave DEF BeliefsBehind
    <3>3. published \in [Client -> Seq(BeliefAt(n + 1))]
      BY <3>1 DEF BeliefsBehind
    <3> QED BY <1>1, <3>2, <3>3 DEF BeliefsBehind, front
  <2>5. MessagesBehind(n + 1)'
    <3>1. \A e \in Engine : starts[e] \in Seq(StartAt(n + 1))
      BY LaterWave, SeqMonotonic DEF MessagesBehind
    <3>2. \A c \in Client : \A e \in Engine : requests[c][e] \in Seq(RequestAt(n + 1))
      BY LaterWave, SeqMonotonic DEF MessagesBehind
    <3>3. starts \in [Engine -> Seq(StartAt(n + 1))]
      BY <3>1 DEF MessagesBehind
    <3>4. \A c \in Client : requests[c] \in [Engine -> Seq(RequestAt(n + 1))]
      BY <3>2 DEF MessagesBehind
    <3>5. requests \in [Client -> [Engine -> Seq(RequestAt(n + 1))]]
      BY <3>4 DEF MessagesBehind
    <3> QED BY <1>1, <2>3, <3>3, <3>5 DEF MessagesBehind
  <2> QED BY <1>1, <2>2, <2>4, <2>5 DEF front
<1> QED BY <1>2, <1>3 DEF has_global_unfinished_reqs

-----------------------------------------------------------------------------

LEMMA WaveInvNext == WaveInv /\ [Next]_vars => WaveInv'
<1> SUFFICES ASSUME WaveInv, [Next]_vars PROVE WaveInv'
  OBVIOUS
<1>0. PICK n \in Nat : /\ wave = [e \in Engine |-> n] /\ sent \in Seq(Client)
                       /\ BeliefsBehind(n) /\ MessagesBehind(n)
  BY DEF WaveInv
<1>1. CASE \E c \in Client, e \in Engine : add_request_async(c, e)
  BY <1>0, <1>1, AddRequestAsync DEF WaveInv
<1>2. CASE \E e \in Engine, r \in Request : abort_requests(e, r)
  BY <1>0, <1>2, Zenon DEF abort_requests, WaveInv, BeliefsBehind, MessagesBehind, channels
<1>3. CASE \E c \in Client : run_engine_stats_update_task(c)
  BY <1>0, <1>3, StatsUpdate DEF WaveInv
<1>4. CASE poll_timeout
  BY <1>0, <1>4, PollTimeout DEF WaveInv
<1>5. CASE \E c \in Client : process_front(c)
  BY <1>0, <1>5, ProcessFront DEF WaveInv
<1>6. CASE \E e \in Engine : process_back(e)
  BY <1>0, <1>6, ProcessBack DEF WaveInv
<1>7. CASE \E e \in Engine, c \in Client : add_request(e, c)
  BY <1>0, <1>7, AddRequest DEF WaveInv
<1>8. CASE \E e \in Engine : handle_start_wave(e)
  BY <1>0, <1>8, HandleStartWave DEF WaveInv
<1>9. CASE (\E e \in Engine : step(e)) \/ forward_pass
  BY <1>0, <1>9, Zenon DEF step, forward_pass, WaveInv, BeliefsBehind, MessagesBehind, front, channels
<1>10. CASE has_global_unfinished_reqs
  BY <1>0, <1>10, Reduce DEF WaveInv
<1>11. CASE UNCHANGED vars
  BY <1>0, <1>11, Zenon DEF vars, engine, front, channels, WaveInv, BeliefsBehind, MessagesBehind
<1> QED BY <1>1, <1>2, <1>3, <1>4, <1>5, <1>6, <1>7, <1>8, <1>9, <1>10, <1>11 DEF Next, Progress

LEMMA WaveInvOneWave == WaveInv => OneWave
<1> SUFFICES ASSUME WaveInv, NEW e \in Engine
             PROVE  /\ wave[e] = wave[0]
                    /\ coord.wave <= wave[e]
                    /\ \A i \in DOMAIN starts[e] : starts[e][i].wave <= wave[e]
                    /\ \A c \in Client : view[c].wave <= wave[e]
  BY DEF OneWave
<1>0. PICK n \in Nat : wave = [f \in Engine |-> n] /\ BeliefsBehind(n) /\ MessagesBehind(n)
  BY DEF WaveInv
<1>1. 0 \in Engine
  BY DPWavesAssumption DEF Engine
<1>2. ASSUME NEW i \in DOMAIN starts[e] PROVE starts[e][i].wave <= n
  <2>1. starts[e] \in Seq(StartAt(n))
    BY <1>0 DEF MessagesBehind
  <2>2. starts[e][i] \in StartAt(n)
    BY <2>1, LenProperties, ElementOfSeq
  <2> QED BY <2>2 DEF StartAt
<1> QED BY <1>0, <1>1, <1>2 DEF BeliefsBehind, BeliefAt

\* However many engines and front ends there are and however their messages
\* interleave, the engines count waves in step and no coordinator, front end or
\* START_DP_WAVE is ahead of them.
THEOREM EnginesShareTheWave == Spec => []OneWave
BY WaveInvInit, WaveInvNext, WaveInvOneWave, PTL DEF Spec

-----------------------------------------------------------------------------
(* What coordinator and front ends know when everything has settled.        *)

EngineTypes ==
    /\ running \in [Engine -> BOOLEAN]
    /\ pc \in [Engine -> {"input", "forward", "reduce"}]
    /\ DOMAIN todo = Engine

\* A front end knows, or is about to be told, what the coordinator believes; or
\* it is ahead of it with a notification that is still to be processed.
Told ==
    \A c \in Client :
        /\ published[c] # <<>> => published[c][Len(published[c])] = coord
        /\ published[c] = <<>> =>
              \/ view[c] = coord
              \/ view[c] = [coord EXCEPT !.running = TRUE] /\ wakeups[c] # <<>>

\* The coordinator is at the engines' wave, or the end of the wave before is on
\* its way to it.
Completing(i, n) == reports[0][i].type = "wave_complete" /\ reports[0][i].wave = n - 1
CompletionUnderWay(n) == coord.wave = n \/ \E i \in DOMAIN reports[0] : Completing(i, n)

\* The engine runs, or a message that wakes it is on its way.
Busy(e) == pc[e] # "input" \/ running[e]
Rousing(e, i, n) == starts[e][i].wave = n /\ starts[e][i].exclude # e
Roused(e, n) == \E i \in DOMAIN starts[e] : Rousing(e, i, n)

\* The coordinator believes the engines to be running because one is, or will be.
\* A single engine is not told what it asked for: its request keeps it going.
RunningForAReason(n) ==
    coord.running /\ coord.wave = n =>
        \E e \in Engine : Busy(e) \/ Roused(e, n) \/ (DP = 1 /\ todo[e] # <<>>)
AskedForAReason(n) ==
    DP = 1 => \A i \in DOMAIN reports[0] :
        reports[0][i].type = "start_wave" /\ reports[0][i].wave = n => Busy(0) \/ todo[0] # <<>>

RestAt(n) ==
    EngineTypes /\ Told /\ CompletionUnderWay(n) /\ RunningForAReason(n) /\ AskedForAReason(n)

RestInv ==
    \E n \in Nat :
       /\ wave = [e \in Engine |-> n]
       /\ sent \in Seq(Client)
       /\ BeliefsBehind(n) /\ MessagesBehind(n) /\ RestAt(n)

LEMMA RestInvInit == Init => RestInv
<1> SUFFICES ASSUME Init PROVE RestInv
  OBVIOUS
<1>1. BeliefsBehind(0)
  BY DEF Init, BeliefsBehind, BeliefAt
<1>2. MessagesBehind(0)
  BY DEF Init, MessagesBehind, RequestAt, StartAt, ReportAt
<1>3. EngineTypes /\ Told
  BY DEF Init, EngineTypes, Told
<1>4. CompletionUnderWay(0) /\ RunningForAReason(0)
  BY DEF Init, CompletionUnderWay, RunningForAReason
<1>5. AskedForAReason(0)
  <2>1. 0 \in Engine
    BY DPWavesAssumption DEF Engine
  <2> QED BY <2>1 DEF Init, AskedForAReason
<1> QED BY <1>1, <1>2, <1>3, <1>4, <1>5 DEF Init, RestInv, RestAt

\* Only Told speaks of the front ends.
LEMMA EnginesUntouched ==
    ASSUME NEW n \in Nat, RestAt(n), UNCHANGED <<running, pc, todo, coord, starts, reports>>
    PROVE  EngineTypes' /\ CompletionUnderWay(n)' /\ RunningForAReason(n)' /\ AskedForAReason(n)'
<1>1. EngineTypes'
  BY DEF RestAt, EngineTypes
<1>2. CompletionUnderWay(n)'
  BY DEF RestAt, CompletionUnderWay, Completing
<1>3. RunningForAReason(n)'
  BY DEF RestAt, RunningForAReason, Busy, Roused, Rousing
<1>4. AskedForAReason(n)'
  BY DEF RestAt, AskedForAReason, Busy
<1> QED BY <1>1, <1>2, <1>3, <1>4

LEMMA ToldUntouched ==
    ASSUME Told, UNCHANGED <<coord, view, published, wakeups>>
    PROVE  Told'
BY Zenon DEF Told

\* What is left of a sequence ends as the sequence does.
LEMMA SuffixEnd ==
    ASSUME NEW S, NEW s \in Seq(S), NEW a \in 0..Len(s), a < Len(s)
    PROVE  /\ SubSeq(s, a + 1, Len(s)) # <<>>
           /\ SubSeq(s, a + 1, Len(s))[Len(SubSeq(s, a + 1, Len(s)))] = s[Len(s)]
<1> DEFINE t == SubSeq(s, a + 1, Len(s))
<1>1. Len(s) \in Nat /\ a \in Nat
  OBVIOUS
<1>2. Len(t) = Len(s) - a /\ \A i \in 1..Len(s) - a : t[i] = s[a + i]
  BY <1>1
<1>3. Len(s) - a \in 1..Len(s) - a /\ a + (Len(s) - a) = Len(s) /\ Len(s) - a # 0
  BY <1>1
<1>4. t # <<>>
  BY <1>2, <1>3, Zenon
<1>5. t[Len(t)] = s[Len(s)]
  BY <1>2, <1>3, Zenon
<1> QED BY <1>4, <1>5, Zenon

LEMMA RestStatsUpdate ==
    ASSUME NEW n \in Nat, BeliefsBehind(n), MessagesBehind(n), RestAt(n),
           NEW c \in Client, run_engine_stats_update_task(c)
    PROVE  RestAt(n)'
<1>1. PICK arrived \in 0..Len(published[c]), notify \in BOOLEAN :
         /\ notify \/ arrived > 0
         /\ view' = [view EXCEPT ![c] = IF arrived > 0 THEN published[c][arrived]
                                                       ELSE [@ EXCEPT !.running = TRUE]]
         /\ published' = [published EXCEPT ![c] = SubSeq(@, arrived + 1, Len(@))]
         /\ wakeups' = [wakeups EXCEPT ![c] =
                           IF notify THEN Append(@, [engine |-> Head(first_req[c]), wave |-> view[c].wave])
                                     ELSE @]
         /\ UNCHANGED <<engine, coord, starts, reports>>
  BY StatsTurn, Zenon
<1>2. published[c] \in Seq(BeliefAt(n)) /\ view[c] \in BeliefAt(n) /\ wakeups[c] \in Seq(Wakeup)
  BY DEF BeliefsBehind, MessagesBehind
<1>3. \A d \in Client : d # c => /\ view'[d] = view[d] /\ published'[d] = published[d]
                                 /\ wakeups'[d] = wakeups[d]
  BY <1>1 DEF BeliefsBehind, MessagesBehind
<1>4. /\ published'[c] # <<>> => published'[c][Len(published'[c])] = coord
      /\ published'[c] = <<>> =>
            \/ view'[c] = coord
            \/ view'[c] = [coord EXCEPT !.running = TRUE] /\ wakeups'[c] # <<>>
  <2>1. published'[c] = SubSeq(published[c], arrived + 1, Len(published[c]))
    BY <1>1, Zenon DEF BeliefsBehind
  <2>2. /\ published[c] # <<>> => published[c][Len(published[c])] = coord
        /\ published[c] = <<>> =>
              \/ view[c] = coord
              \/ view[c] = [coord EXCEPT !.running = TRUE] /\ wakeups[c] # <<>>
    BY Zenon DEF RestAt, Told
  <2>3. CASE arrived < Len(published[c])
    <3>1. /\ published[c] # <<>> /\ published'[c] # <<>>
          /\ published'[c][Len(published'[c])] = published[c][Len(published[c])]
      <4> DEFINE t == SubSeq(published[c], arrived + 1, Len(published[c]))
      <4>1. t # <<>> /\ t[Len(t)] = published[c][Len(published[c])]
        BY <1>2, <2>3, SuffixEnd, Zenon
      <4>2. published[c] # <<>>
        BY <1>2, <2>3
      <4> QED BY <2>1, <4>1, <4>2, Zenon
    <3> QED BY <2>2, <3>1
  <2>4. CASE arrived = Len(published[c]) /\ arrived > 0
    <3>1. published[c] # <<>> /\ published'[c] = <<>> /\ view'[c] = published[c][Len(published[c])]
      BY <1>1, <1>2, <2>1, <2>4 DEF BeliefsBehind
    <3> QED BY <2>2, <3>1
  <2>5. CASE arrived = Len(published[c]) /\ ~(arrived > 0)
    <3>1. published[c] = <<>> /\ published'[c] = <<>>
      BY <1>2, <2>1, <2>5
    <3>2. view'[c] = [view[c] EXCEPT !.running = TRUE]
      BY <1>1, <2>5 DEF BeliefsBehind
    <3>3. wakeups'[c] # <<>>
      <4>1. notify
        BY <1>1, <2>5
      <4>2. wakeups'[c] = Append(wakeups[c], [engine |-> Head(first_req[c]), wave |-> view[c].wave])
        BY <1>1, <4>1 DEF MessagesBehind
      <4>3. \A s \in Seq(Wakeup) : \A x : Append(s, x) # <<>>
        OBVIOUS
      <4> QED BY <1>2, <4>2, <4>3, Zenon
    <3>4. view'[c] = [coord EXCEPT !.running = TRUE]
      <4>1. coord \in BeliefAt(n)
        BY DEF BeliefsBehind
      <4> QED BY <1>2, <2>2, <3>1, <3>2, <4>1, Zenon DEF BeliefAt
    <3> QED BY <3>1, <3>3, <3>4
  <2> QED BY <1>2, <2>3, <2>4, <2>5
<1>5. Told'
  <2>1. coord' = coord
    BY <1>1
  <2>2. SUFFICES ASSUME NEW d \in Client
                 PROVE  /\ published'[d] # <<>> => published'[d][Len(published'[d])] = coord
                        /\ published'[d] = <<>> =>
                              \/ view'[d] = coord
                              \/ view'[d] = [coord EXCEPT !.running = TRUE] /\ wakeups'[d] # <<>>
    BY <2>1, Zenon DEF Told
  <2>3. CASE d = c
    BY <1>4, <2>3
  <2>4. CASE d # c
    <3>1. view'[d] = view[d] /\ published'[d] = published[d] /\ wakeups'[d] = wakeups[d]
      BY <1>3, <2>4
    <3>2. Told
      BY DEF RestAt
    <3> QED BY <3>1, <3>2, Zenon DEF Told
  <2> QED BY <2>3, <2>4
<1> QED BY <1>1, <1>5, EnginesUntouched DEF engine, RestAt

\* What the coordinator publishes is the last thing every front end is told.
LEMMA ToldPublished ==
    ASSUME NEW n \in Nat, BeliefsBehind(n), coord' \in BeliefAt(n), publish(coord')
    PROVE  Told'
<1> SUFFICES ASSUME NEW c \in Client
             PROVE  published'[c] # <<>> /\ published'[c][Len(published'[c])] = coord'
  BY DEF Told
<1>1. published[c] \in Seq(BeliefAt(n)) /\ published'[c] = Append(published[c], coord')
  BY DEF publish, BeliefsBehind
<1>2. \A s \in Seq(BeliefAt(n)), x \in BeliefAt(n) : Append(s, x) # <<>> /\ Append(s, x)[Len(Append(s, x))] = x
  OBVIOUS
<1> QED BY <1>1, <1>2

\* A start that is sent out rouses every engine but the one it excludes.
LEMMA AllRoused ==
    ASSUME NEW n \in Nat, MessagesBehind(n), NEW x, _send_start_wave(n, x), NEW e \in Engine, x # e
    PROVE  Roused(e, n)'
<1>1. starts[e] \in Seq(StartAt(n)) /\ starts'[e] = Append(starts[e], [wave |-> n, exclude |-> x])
  BY DEF MessagesBehind, _send_start_wave
<1>2. PICK i \in DOMAIN starts'[e] : starts'[e][i] = [wave |-> n, exclude |-> x]
  <2>1. /\ Len(starts[e]) + 1 \in DOMAIN starts'[e]
        /\ starts'[e][Len(starts[e]) + 1] = [wave |-> n, exclude |-> x]
    BY <1>1
  <2> QED BY <2>1
<1>3. Rousing(e, i, n)'
  BY <1>2 DEF Rousing
<1> QED BY <1>2, <1>3 DEF Roused

LEMMA RestProcessFront ==
    ASSUME NEW n \in Nat, BeliefsBehind(n), MessagesBehind(n), RestAt(n),
           NEW c \in Client, process_front(c)
    PROVE  RestAt(n)'
<1>1. UNCHANGED <<running, pc, todo, view, reports>> /\ coord \in BeliefAt(n)
  BY DEF process_front, engine, front, BeliefsBehind
<1>2. EngineTypes' /\ AskedForAReason(n)'
  BY <1>1 DEF RestAt, EngineTypes, AskedForAReason, Busy
<1>3. CASE coord.running /\ UNCHANGED <<coord, starts, published>>
  <2>1. [coord EXCEPT !.running = TRUE] = coord
    BY <1>1, <1>3 DEF BeliefAt
  <2>2. Told'
    BY <1>1, <1>3, <2>1, Zenon DEF RestAt, Told
  <2> QED BY <1>1, <1>3, <2>2, EnginesUntouched DEF RestAt
<1>4. CASE /\ coord' = [coord EXCEPT !.running = TRUE]
           /\ _send_start_wave(coord.wave, Excluded(Head(wakeups[c])))
           /\ publish(coord')
  <2>1. Told'
    BY <1>1, <1>4, ToldPublished, Zenon DEF BeliefAt
  <2>2. coord'.wave = coord.wave
    BY <1>1, <1>4 DEF BeliefAt
  <2>3. CompletionUnderWay(n)'
    BY <1>1, <2>2 DEF RestAt, CompletionUnderWay, Completing
  <2>4. RunningForAReason(n)'
    <3> SUFFICES ASSUME coord'.wave = n PROVE \E e \in Engine : Roused(e, n)'
      BY DEF RunningForAReason
    <3>1. 0 \in Engine
      BY DPWavesAssumption DEF Engine
    <3>2. Head(wakeups[c]) \in Wakeup
      BY TailAt DEF process_front, MessagesBehind
    <3>3. Excluded(Head(wakeups[c])) # 0
      BY <3>2, DPWavesAssumption DEF Excluded, None, Wakeup, Identity
    <3> QED BY <1>4, <2>2, <3>1, <3>3, AllRoused
  <2> QED BY <1>2, <2>1, <2>3, <2>4 DEF RestAt
<1> QED BY <1>3, <1>4 DEF process_front

LEMMA RestPollTimeout ==
    ASSUME NEW n \in Nat, BeliefsBehind(n), RestAt(n), poll_timeout
    PROVE  RestAt(n)'
<1>1. publish(coord') /\ UNCHANGED <<running, pc, todo, coord, starts, reports>>
  BY DEF poll_timeout, engine
<1>2. coord' \in BeliefAt(n)
  BY <1>1 DEF BeliefsBehind
<1> QED BY <1>1, <1>2, ToldPublished, EnginesUntouched DEF RestAt

\* Taking the head of a sequence moves the other elements up.
LEMMA TailIndex ==
    ASSUME NEW S, NEW s \in Seq(S), s # <<>>
    PROVE  /\ Head(s) = s[1] /\ 1 \in DOMAIN s
           /\ \A i \in DOMAIN s : i # 1 => i - 1 \in DOMAIN Tail(s) /\ Tail(s)[i - 1] = s[i]
           /\ \A i \in DOMAIN Tail(s) : i + 1 \in DOMAIN s /\ Tail(s)[i] = s[i + 1]
OBVIOUS

\* What a report does to the coordinator's belief.
LEMMA ReportHandled ==
    ASSUME NEW n \in Nat, BeliefsBehind(n), MessagesBehind(n), NEW e \in Engine, process_back(e),
           NEW m \in ReportAt(n), m = Head(reports[e])
    PROVE  \/ /\ m.type = "wave_complete" /\ coord.wave <= m.wave
              /\ coord' = [wave |-> m.wave + 1, running |-> FALSE] /\ publish(coord')
           \/ /\ m.type = "start_wave" /\ coord.wave <= m.wave
              /\ coord' = [wave |-> m.wave, running |-> TRUE] /\ publish(coord')
              /\ _send_start_wave(m.wave, e)
           \/ /\ m.type = "wave_complete" => ~(coord.wave <= m.wave)
              /\ UNCHANGED <<coord, starts, published>>
<1>1. coord.wave \in Nat /\ m.wave \in Nat
  BY DEF BeliefsBehind, BeliefAt, ReportAt
<1>2. MustStart(m.wave) => coord.wave <= m.wave
  BY <1>1 DEF MustStart
<1> QED BY <1>2 DEF process_back, Completes

LEMMA RestProcessBack ==
    ASSUME NEW n \in Nat, BeliefsBehind(n), MessagesBehind(n), RestAt(n),
           NEW e \in Engine, process_back(e)
    PROVE  RestAt(n)'
<1> DEFINE m == Head(reports[e])
<1>0. 0 \in Engine
  BY DPWavesAssumption DEF Engine
<1>1. UNCHANGED <<running, pc, todo, view, wakeups>> /\ coord \in BeliefAt(n)
  BY DEF process_back, engine, front, BeliefsBehind
<1>2. /\ reports[e] # <<>> /\ reports[e] \in Seq(ReportAt(n)) /\ reports'[e] = Tail(reports[e])
      /\ \A f \in Engine : f # e => reports'[f] = reports[f]
  BY DEF process_back, MessagesBehind
<1>3. m \in ReportAt(n)
  BY <1>2, HeadTailProperties
<1>4. /\ m = reports[e][1] /\ 1 \in DOMAIN reports[e]
      /\ \A i \in DOMAIN reports[e] : i # 1 => i - 1 \in DOMAIN reports'[e] /\ reports'[e][i - 1] = reports[e][i]
      /\ \A i \in DOMAIN reports'[e] : i + 1 \in DOMAIN reports[e] /\ reports'[e][i] = reports[e][i + 1]
  BY <1>2, TailIndex
<1>5. \/ /\ m.type = "wave_complete" /\ coord.wave <= m.wave
         /\ coord' = [wave |-> m.wave + 1, running |-> FALSE] /\ publish(coord')
      \/ /\ m.type = "start_wave" /\ coord.wave <= m.wave
         /\ coord' = [wave |-> m.wave, running |-> TRUE] /\ publish(coord')
         /\ _send_start_wave(m.wave, e)
      \/ /\ m.type = "wave_complete" => ~(coord.wave <= m.wave)
         /\ UNCHANGED <<coord, starts, published>>
  BY <1>3, ReportHandled
<1>6. EngineTypes'
  BY <1>1 DEF RestAt, EngineTypes
<1>7. coord' \in BeliefAt(n) /\ coord.wave <= coord'.wave
  <2>1. coord' \in BeliefAt(n)
    BY ProcessBack DEF BeliefsBehind
  <2>2. coord.wave \in Nat /\ m.wave \in Nat
    BY <1>1, <1>3 DEF BeliefAt, ReportAt
  <2>3. \A a, b \in Nat : a <= a /\ (a <= b => a <= b + 1)
    OBVIOUS
  <2>4. (coord'.wave \in {m.wave + 1, m.wave} /\ coord.wave <= m.wave) \/ coord' = coord
    BY <1>5
  <2> QED BY <2>1, <2>2, <2>3, <2>4
<1>8. Told'
  <2>1. CASE publish(coord')
    BY <1>7, <2>1, ToldPublished
  <2>2. CASE UNCHANGED <<coord, starts, published>>
    BY <1>1, <2>2, ToldUntouched DEF RestAt
  <2> QED BY <1>5, <2>1, <2>2
<1>9. CompletionUnderWay(n)'
  <2>1. CASE coord.wave = n
    BY <1>7, <2>1 DEF BeliefAt, CompletionUnderWay
  <2>2. CASE coord.wave # n
    <3>1. PICK i \in DOMAIN reports[0] : Completing(i, n)
      BY <2>2 DEF RestAt, CompletionUnderWay
    <3>2. coord.wave <= n - 1
      BY <1>1, <2>2 DEF BeliefAt
    <3>3. CASE e # 0
      BY <1>0, <1>2, <3>1, <3>3 DEF CompletionUnderWay, Completing
    <3>4. CASE e = 0 /\ i # 1
      <4>1. PICK j \in DOMAIN reports'[0] : reports'[0][j] = reports[0][i]
        BY <1>4, <3>4
      <4>2. Completing(j, n)'
        BY <3>1, <4>1 DEF Completing
      <4> QED BY <4>2 DEF CompletionUnderWay
    <3>5. CASE e = 0 /\ i = 1
      <4>1. m.type = "wave_complete" /\ m.wave = n - 1
        BY <1>4, <3>1, <3>5 DEF Completing
      <4>2. coord' = [wave |-> m.wave + 1, running |-> FALSE]
        BY <1>5, <3>2, <4>1
      <4>3. coord'.wave = n
        BY <4>1, <4>2
      <4> QED BY <4>3 DEF CompletionUnderWay
    <3> QED BY <3>3, <3>4, <3>5
  <2> QED BY <2>1, <2>2
<1>10. RunningForAReason(n)'
  <2>1. CASE coord' = [wave |-> m.wave + 1, running |-> FALSE]
    BY <2>1 DEF RunningForAReason
  <2>2. CASE UNCHANGED <<coord, starts, published>>
    BY <1>1, <2>2 DEF RestAt, RunningForAReason, Busy, Roused, Rousing
  <2>3. CASE /\ m.type = "start_wave" /\ coord' = [wave |-> m.wave, running |-> TRUE]
             /\ _send_start_wave(m.wave, e)
    <3> SUFFICES ASSUME m.wave = n
                 PROVE  \E f \in Engine : Busy(f)' \/ Roused(f, n)' \/ (DP = 1 /\ todo'[f] # <<>>)
      BY <2>3 DEF RunningForAReason
    <3>1. CASE DP = 1
      <4>1. e = 0
        BY <3>1 DEF Engine
      <4>2. Busy(0) \/ todo[0] # <<>>
        BY <1>4, <2>3, <3>1, <4>1 DEF RestAt, AskedForAReason
      <4> QED BY <1>0, <1>1, <3>1, <4>2 DEF Busy
    <3>2. CASE DP # 1
      <4>1. PICK f \in Engine : f # e
        <5>1. 0 \in Engine /\ 1 \in Engine
          BY <3>2, DPWavesAssumption DEF Engine
        <5> QED BY <5>1
      <4>2. Roused(f, n)'
        BY <2>3, <4>1, AllRoused
      <4> QED BY <4>2
    <3> QED BY <3>1, <3>2
  <2> QED BY <1>5, <2>1, <2>2, <2>3
<1>11. AskedForAReason(n)'
  <2> SUFFICES ASSUME DP = 1, NEW i \in DOMAIN reports'[0],
                      reports'[0][i].type = "start_wave", reports'[0][i].wave = n
               PROVE  Busy(0)' \/ todo'[0] # <<>>
    BY DEF AskedForAReason
  <2>1. e = 0
    BY DEF Engine
  <2>2. PICK j \in DOMAIN reports[0] : reports[0][j] = reports'[0][i]
    BY <1>4, <2>1
  <2>3. Busy(0) \/ todo[0] # <<>>
    BY <2>2 DEF RestAt, AskedForAReason
  <2> QED BY <1>1, <2>3 DEF Busy
<1> QED BY <1>6, <1>8, <1>9, <1>10, <1>11 DEF RestAt

\* An engine that has taken on a request is not without one.
LEMMA TakenOn ==
    ASSUME NEW t, NEW r
    PROVE  with(t, r) # <<>>
<1>1. r \in DOMAIN with(t, r)
  BY DEF with
<1>2. DOMAIN <<>> = {}
  OBVIOUS
<1> QED BY <1>1, <1>2

LEMMA RestAddRequest ==
    ASSUME NEW n \in Nat, MessagesBehind(n), RestAt(n), wave = [f \in Engine |-> n],
           NEW e \in Engine, NEW c \in Client, add_request(e, c)
    PROVE  RestAt(n)'
<1>0. 0 \in Engine
  BY DPWavesAssumption DEF Engine
<1>1. UNCHANGED <<running, pc, coord, view, starts, wakeups, published>>
  BY DEF add_request, front
<1>2. /\ DOMAIN todo' = Engine /\ todo'[e] # <<>>
      /\ \A f \in Engine : f # e => todo'[f] = todo[f]
  <2>1. DOMAIN todo = Engine
    BY DEF RestAt, EngineTypes
  <2>2. PICK r : todo' = [todo EXCEPT ![e] = with(@, r)]
    BY Zenon DEF add_request
  <2>3. todo'[e] = with(todo[e], r)
    BY <2>1, <2>2
  <2>4. todo'[e] # <<>>
    BY <2>3, TakenOn
  <2> QED BY <2>1, <2>2, <2>4
<1>3. \/ reports' = reports
      \/ reports' = [reports EXCEPT ![e] = Append(@, [type |-> "start_wave", wave |-> n])]
  BY DEF add_request, report
<1>4. \A i \in DOMAIN reports[0] : i \in DOMAIN reports'[0] /\ reports'[0][i] = reports[0][i]
  <2>1. reports \in [Engine -> Seq(ReportAt(n))]
    BY DEF MessagesBehind
  <2>2. [type |-> "start_wave", wave |-> n] \in ReportAt(n)
    BY DEF ReportAt
  <2>3. reports'[0] \in {reports[0], Append(reports[0], [type |-> "start_wave", wave |-> n])}
    BY <1>0, <1>3, <2>1
  <2>4. reports[0] \in Seq(ReportAt(n))
    BY <1>0, <2>1
  <2>5. \A s \in Seq(ReportAt(n)), x \in ReportAt(n) : \A i \in DOMAIN s :
           i \in DOMAIN Append(s, x) /\ Append(s, x)[i] = s[i]
    OBVIOUS
  <2> QED BY <2>2, <2>3, <2>4, <2>5, Zenon
<1>5. EngineTypes'
  BY <1>1, <1>2 DEF RestAt, EngineTypes
<1>6. Told'
  BY <1>1, ToldUntouched DEF RestAt
<1>7. CompletionUnderWay(n)'
  BY <1>1, <1>4 DEF RestAt, CompletionUnderWay, Completing
<1>8. RunningForAReason(n)'
  BY <1>1, <1>2 DEF RestAt, RunningForAReason, Busy, Roused, Rousing
<1>9. AskedForAReason(n)'
  <2>1. DP = 1 => e = 0
    BY DEF Engine
  <2> QED BY <1>2, <2>1 DEF AskedForAReason
<1> QED BY <1>5, <1>6, <1>7, <1>8, <1>9 DEF RestAt

\* A request that is aborted is not what keeps a single engine going: until the
\* engine is running, it is not aborted.
LEMMA RestAbort ==
    ASSUME NEW n \in Nat, RestAt(n), DP > 1 \/ ~EarlyAborts,
           NEW e \in Engine, NEW r \in Request, abort_requests(e, r)
    PROVE  RestAt(n)'
<1>1. UNCHANGED <<running, pc, coord, view, starts, reports, wakeups, published>>
  BY DEF abort_requests, channels
<1>2. DP = 1 => e = 0 /\ 0 \in Engine /\ Busy(0)
  BY DPWavesAssumption DEF Engine, abort_requests, Busy
<1>3. EngineTypes'
  BY <1>1 DEF RestAt, EngineTypes, abort_requests
<1>4. Told'
  BY <1>1, ToldUntouched DEF RestAt
<1>5. CompletionUnderWay(n)'
  BY <1>1 DEF RestAt, CompletionUnderWay, Completing
<1>6. \A f \in Engine : /\ Busy(f)' = Busy(f)
                        /\ Roused(f, n)' = Roused(f, n)
  BY <1>1 DEF Busy, Roused, Rousing
<1>7. RunningForAReason(n)'
  BY <1>1, <1>2, <1>6 DEF RestAt, RunningForAReason
<1>8. AskedForAReason(n)'
  BY <1>2, <1>6 DEF AskedForAReason
<1> QED BY <1>3, <1>4, <1>5, <1>7, <1>8 DEF RestAt

LEMMA RestHandleStartWave ==
    ASSUME NEW n \in Nat, MessagesBehind(n), RestAt(n), wave = [f \in Engine |-> n],
           NEW e \in Engine, handle_start_wave(e)
    PROVE  RestAt(n)'
<1> DEFINE m == Head(starts[e])
<1>1. UNCHANGED <<pc, todo, coord, view, reports, wakeups, published>>
  BY DEF handle_start_wave, front
<1>2. running' = [running EXCEPT ![e] = @ \/ Wakes(e, m)]
  BY Zenon DEF handle_start_wave
<1>3. EngineTypes'
  BY <1>1, <1>2 DEF RestAt, EngineTypes, Wakes
<1>4. /\ running[e] \/ Wakes(e, m) => running'[e]
      /\ \A f \in Engine : running[f] => running'[f]
  BY <1>2, Zenon DEF RestAt, EngineTypes
<1>5. \A f \in Engine : Busy(f) => Busy(f)'
  BY <1>1, <1>4 DEF Busy
<1>6. Told'
  BY <1>1, ToldUntouched DEF RestAt
<1>7. CompletionUnderWay(n)'
  BY <1>1 DEF RestAt, CompletionUnderWay, Completing
<1>8. \A f \in Engine : Roused(f, n) => Roused(f, n)' \/ Busy(f)'
  <2> SUFFICES ASSUME NEW f \in Engine, NEW i \in DOMAIN starts[f], Rousing(f, i, n)
               PROVE  Roused(f, n)' \/ Busy(f)'
    BY DEF Roused
  <2>1. CASE f # e
    <3>1. starts'[f] = starts[f]
      BY <2>1 DEF handle_start_wave, MessagesBehind
    <3> QED BY <3>1 DEF Roused, Rousing
  <2>2. CASE f = e
    <3>1. starts[e] \in Seq(StartAt(n)) /\ starts[e] # <<>> /\ starts'[e] = Tail(starts[e])
      BY DEF handle_start_wave, MessagesBehind
    <3>2. /\ m = starts[e][1]
          /\ i # 1 => i - 1 \in DOMAIN starts'[e] /\ starts'[e][i - 1] = starts[e][i]
      BY <2>2, <3>1, TailIndex
    <3>3. CASE i = 1
      <4>1. Wakes(e, m)
        BY <2>2, <3>2, <3>3 DEF Wakes, Rousing
      <4> QED BY <1>4, <2>2, <4>1 DEF Busy
    <3>4. CASE i # 1
      <4>1. PICK j \in DOMAIN starts'[e] : starts'[e][j] = starts[e][i]
        BY <3>2, <3>4
      <4>2. Rousing(e, j, n)'
        BY <2>2, <4>1 DEF Rousing
      <4> QED BY <2>2, <4>2 DEF Roused
    <3> QED BY <3>3, <3>4
  <2> QED BY <2>1, <2>2
<1>9. RunningForAReason(n)'
  BY <1>1, <1>5, <1>8, Zenon DEF RestAt, RunningForAReason
<1>10. AskedForAReason(n)'
  <2>1. 0 \in Engine
    BY DPWavesAssumption DEF Engine
  <2> QED BY <1>1, <1>5, <2>1, Zenon DEF RestAt, AskedForAReason
<1> QED BY <1>3, <1>6, <1>7, <1>9, <1>10, Zenon DEF RestAt

\* After a forward pass an engine is before the all-reduce, or keeps running.
LEMMA RestForwardPass ==
    ASSUME NEW n \in Nat, RestAt(n), forward_pass
    PROVE  RestAt(n)'
<1>1. UNCHANGED <<coord, view, starts, reports, wakeups, published>>
  BY Zenon DEF forward_pass, channels
<1>2. EngineTypes'
  <2>1. running' \in [Engine -> BOOLEAN]
    BY DEF forward_pass, RestAt, EngineTypes
  <2> QED BY <2>1, Zenon DEF forward_pass, EngineTypes
<1>3. \A f \in Engine : Busy(f)'
  <2> SUFFICES ASSUME NEW f \in Engine PROVE pc'[f] # "input" \/ running'[f]
    BY DEF Busy
  <2>1. CASE Syncs(f)
    BY <2>1 DEF forward_pass
  <2>2. CASE ~Syncs(f)
    BY <2>2, Zenon DEF forward_pass
  <2> QED BY <2>1, <2>2
<1>4. 0 \in Engine
  BY DPWavesAssumption DEF Engine
<1>5. Told'
  BY <1>1, ToldUntouched DEF RestAt
<1>6. CompletionUnderWay(n)'
  BY <1>1 DEF RestAt, CompletionUnderWay, Completing
<1>7. RunningForAReason(n)' /\ AskedForAReason(n)'
  BY <1>3, <1>4 DEF RunningForAReason, AskedForAReason
<1> QED BY <1>2, <1>5, <1>6, <1>7 DEF RestAt

LEMMA RestStep ==
    ASSUME NEW n \in Nat, RestAt(n), NEW e \in Engine, step(e)
    PROVE  RestAt(n)'
<1>1. UNCHANGED <<running, todo, coord, view, starts, reports, wakeups, published>>
  BY DEF step, channels, front
<1>2. EngineTypes'
  BY <1>1 DEF step, RestAt, EngineTypes
<1>3. \A f \in Engine : Busy(f) => Busy(f)'
  BY <1>1 DEF step, RestAt, EngineTypes, Busy
<1>4. \A f \in Engine : Roused(f, n)' = Roused(f, n)
  BY <1>1 DEF Roused, Rousing
<1>5. 0 \in Engine
  BY DPWavesAssumption DEF Engine
<1>6. Told'
  BY <1>1, ToldUntouched DEF RestAt
<1>7. CompletionUnderWay(n)'
  BY <1>1 DEF RestAt, CompletionUnderWay, Completing
<1>8. RunningForAReason(n)'
  BY <1>1, <1>3, <1>4 DEF RestAt, RunningForAReason
<1>9. AskedForAReason(n)'
  BY <1>1, <1>3, <1>5 DEF RestAt, AskedForAReason
<1> QED BY <1>2, <1>6, <1>7, <1>8, <1>9 DEF RestAt

\* The all-reduce: the engines go on, or pause and report the wave that is over.
LEMMA RestReduce ==
    ASSUME NEW n \in Nat, BeliefsBehind(n), MessagesBehind(n), RestAt(n),
           wave = [f \in Engine |-> n], has_global_unfinished_reqs,
           NEW k \in Nat, wave' = [f \in Engine |-> k]
    PROVE  RestAt(k)'
<1> DEFINE busy == \E e \in Engine : local_unfinished_reqs(e)
<1>1. UNCHANGED <<todo, coord, view, starts, wakeups, published>>
  BY DEF has_global_unfinished_reqs, front
<1>2. running' = [e \in Engine |-> busy] /\ pc' = [e \in Engine |-> "input"]
  BY DEF has_global_unfinished_reqs
<1>3. EngineTypes'
  <2>1. running' \in [Engine -> BOOLEAN]
    BY <1>2
  <2>2. pc' \in [Engine -> {"input", "forward", "reduce"}]
    BY <1>2
  <2> QED BY <1>1, <2>1, <2>2 DEF RestAt, EngineTypes
<1>4. Told'
  BY <1>1, ToldUntouched DEF RestAt
<1>5. 0 \in Engine /\ wave[0] = n /\ wave'[0] = k
  BY DPWavesAssumption DEF Engine
<1>6. CASE busy
  <2>1. UNCHANGED <<wave, reports>> /\ k = n
    BY <1>5, <1>6 DEF has_global_unfinished_reqs
  <2>2. \A f \in Engine : Busy(f)'
    BY <1>2, <1>6 DEF Busy
  <2>3. CompletionUnderWay(k)'
    BY <1>1, <2>1 DEF RestAt, CompletionUnderWay, Completing
  <2>4. RunningForAReason(k)' /\ AskedForAReason(k)'
    BY <1>5, <2>2 DEF RunningForAReason, AskedForAReason
  <2> QED BY <1>3, <1>4, <2>3, <2>4 DEF RestAt
<1>7. CASE ~busy
  <2>1. report(0, "wave_complete") /\ wave' = [e \in Engine |-> wave[e] + 1]
    BY <1>7 DEF has_global_unfinished_reqs
  <2>2. k = n + 1
    BY <1>5, <2>1
  <2>3. /\ reports[0] \in Seq(ReportAt(n))
        /\ reports'[0] = Append(reports[0], [type |-> "wave_complete", wave |-> n])
    BY <1>5, <2>1 DEF report, MessagesBehind
  <2>4. CompletionUnderWay(k)'
    <3>1. PICK i \in DOMAIN reports'[0] : reports'[0][i] = [type |-> "wave_complete", wave |-> n]
      <4>1. /\ Len(reports[0]) + 1 \in DOMAIN reports'[0]
            /\ reports'[0][Len(reports[0]) + 1] = [type |-> "wave_complete", wave |-> n]
        BY <2>3
      <4> QED BY <4>1
    <3>2. Completing(i, k)'
      BY <2>2, <3>1 DEF Completing
    <3> QED BY <3>2 DEF CompletionUnderWay
  <2>5. RunningForAReason(k)'
    BY <1>1, <2>2 DEF RunningForAReason, BeliefsBehind, BeliefAt
  <2>6. AskedForAReason(k)'
    <3>1. \A i \in DOMAIN reports'[0] : reports'[0][i].wave <= n /\ reports'[0][i].wave \in Nat
      <4>1. [type |-> "wave_complete", wave |-> n] \in [type : {"wave_complete", "start_wave"}, wave : 0..n]
        OBVIOUS
      <4>2. reports[0] \in Seq([type : {"wave_complete", "start_wave"}, wave : 0..n])
        <5>1. ReportAt(n) \subseteq [type : {"wave_complete", "start_wave"}, wave : 0..n]
          BY DEF ReportAt
        <5> QED BY <2>3, <5>1, SeqMonotonic, Zenon
      <4>3. reports'[0] \in Seq([type : {"wave_complete", "start_wave"}, wave : 0..n])
        BY <2>3, <4>1, <4>2
      <4>4. \A i \in DOMAIN reports'[0] :
               reports'[0][i] \in [type : {"wave_complete", "start_wave"}, wave : 0..n]
        <5>1. \A T : \A s \in Seq(T) : \A i \in DOMAIN s : s[i] \in T
          OBVIOUS
        <5> QED BY <4>3, <5>1, Zenon
      <4> QED BY <4>4
    <3> QED BY <2>2, <3>1 DEF AskedForAReason
  <2> QED BY <1>3, <1>4, <2>4, <2>5, <2>6 DEF RestAt
<1> QED BY <1>6, <1>7

LEMMA RestInvNext ==
    ASSUME DP > 1 \/ ~EarlyAborts, RestInv, [Next]_vars
    PROVE  RestInv'
<1>0. PICK n \in Nat : /\ wave = [e \in Engine |-> n] /\ sent \in Seq(Client)
                       /\ BeliefsBehind(n) /\ MessagesBehind(n) /\ RestAt(n)
  BY DEF RestInv
<1>1. CASE \E c \in Client, e \in Engine : add_request_async(c, e)
  <2>1. UNCHANGED <<running, pc, todo, coord, starts, reports, view, published, wakeups>>
    BY <1>1 DEF add_request_async, engine
  <2>2. RestAt(n)'
    BY <1>0, <2>1, EnginesUntouched, ToldUntouched DEF RestAt
  <2> QED BY <1>0, <1>1, <2>2, AddRequestAsync DEF RestInv
<1>2. CASE \E e \in Engine, r \in Request : abort_requests(e, r)
  <2>1. RestAt(n)'
    BY <1>0, <1>2, RestAbort
  <2>2. UNCHANGED <<wave, sent>> /\ BeliefsBehind(n)' /\ MessagesBehind(n)'
    BY <1>0, <1>2, Zenon DEF abort_requests, BeliefsBehind, MessagesBehind, channels
  <2> QED BY <1>0, <2>1, <2>2, Zenon DEF RestInv
<1>3. CASE \E c \in Client : run_engine_stats_update_task(c)
  BY <1>0, <1>3, StatsUpdate, RestStatsUpdate DEF RestInv
<1>4. CASE poll_timeout
  BY <1>0, <1>4, PollTimeout, RestPollTimeout DEF RestInv
<1>5. CASE \E c \in Client : process_front(c)
  BY <1>0, <1>5, ProcessFront, RestProcessFront DEF RestInv
<1>6. CASE \E e \in Engine : process_back(e)
  BY <1>0, <1>6, ProcessBack, RestProcessBack DEF RestInv
<1>7. CASE \E e \in Engine, c \in Client : add_request(e, c)
  BY <1>0, <1>7, AddRequest, RestAddRequest DEF RestInv
<1>8. CASE \E e \in Engine : handle_start_wave(e)
  BY <1>0, <1>8, HandleStartWave, RestHandleStartWave DEF RestInv
<1>9. CASE (\E e \in Engine : step(e)) \/ forward_pass
  <2>1. RestAt(n)'
    BY <1>0, <1>9, RestStep, RestForwardPass
  <2> QED BY <1>0, <1>9, <2>1, Zenon DEF step, forward_pass, RestInv, BeliefsBehind, MessagesBehind, front, channels
<1>10. CASE has_global_unfinished_reqs
  <2>1. PICK k \in Nat : wave' = [f \in Engine |-> k] /\ BeliefsBehind(k)' /\ MessagesBehind(k)'
    BY <1>0, <1>10, Reduce
  <2>2. RestAt(k)'
    BY <1>0, <1>10, <2>1, RestReduce
  <2>3. sent' = sent
    BY <1>0, <1>10, Reduce
  <2> QED BY <1>0, <2>1, <2>2, <2>3 DEF RestInv
<1>11. CASE UNCHANGED vars
  <2>1. RestAt(n)'
    BY <1>0, <1>11, EnginesUntouched, ToldUntouched DEF RestAt, vars, engine, front, channels
  <2> QED BY <1>0, <1>11, <2>1, Zenon DEF vars, engine, front, channels, RestInv, BeliefsBehind, MessagesBehind
<1> QED BY <1>1, <1>2, <1>3, <1>4, <1>5, <1>6, <1>7, <1>8, <1>9, <1>10, <1>11 DEF Next, Progress

LEMMA RestInvAgree == RestInv => AgreeAtRest
<1> SUFFICES ASSUME RestInv, AtRest, NEW e \in Engine, NEW c \in Client
             PROVE  view[c] = coord /\ coord = [wave |-> wave[e], running |-> FALSE]
  BY DEF AgreeAtRest
<1>0. PICK n \in Nat : wave = [f \in Engine |-> n] /\ BeliefsBehind(n) /\ RestAt(n)
  BY DEF RestInv
<1>1. 0 \in Engine
  BY DPWavesAssumption DEF Engine
<1>2. \A f \in Engine : ~Busy(f) /\ todo[f] = <<>> /\ starts[f] = <<>> /\ reports[f] = <<>>
  BY Zenon DEF AtRest, has_work, Busy
<1>3. DOMAIN <<>> = {}
  OBVIOUS
<1>4. \A f \in Engine : ~Roused(f, n)
  BY <1>2, <1>3, Zenon DEF Roused
<1>5. coord.wave = n
  BY <1>0, <1>1, <1>2, <1>3, Zenon DEF RestAt, CompletionUnderWay
<1>6. ~coord.running
  BY <1>0, <1>2, <1>4, <1>5, Zenon DEF RestAt, RunningForAReason
<1>7. view[c] = coord
  BY <1>0, Zenon DEF AtRest, RestAt, Told
<1>8. coord \in [wave : Nat, running : BOOLEAN]
  BY <1>0 DEF BeliefsBehind, BeliefAt
<1>9. wave[e] = n
  BY <1>0, Zenon
<1> QED BY <1>5, <1>6, <1>7, <1>8, <1>9

\* When every message has been handled and no engine has work, coordinator and
\* front ends know that the engines are paused and before which wave: for every
\* number of front ends and requests, and for every number of engines, unless a
\* single engine may abort a request before it runs.  (It then has told the
\* coordinator to start a wave that nothing will end.)
THEOREM AllAgreeAtRest == DP > 1 \/ ~EarlyAborts => (Spec => []AgreeAtRest)
<1> SUFFICES ASSUME DP > 1 \/ ~EarlyAborts PROVE Spec => []AgreeAtRest
  OBVIOUS
<1>1. RestInv /\ [Next]_vars => RestInv'
  BY RestInvNext
<1> QED BY <1>1, RestInvInit, RestInvAgree, PTL DEF Spec
=============================================================================
