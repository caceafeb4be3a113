------------------------------ MODULE DPWaves ------------------------------
(***************************************************************************)
(* Request waves of a data-parallel deployment: the engines of a mixture-  *)
(* of-experts model (v1/engine/core.py, DPEngineCoreProc), the coordinator *)
(* (v1/engine/coordinator.py) and the front ends (v1/engine/core_client.py,*)
(* DPAsyncMPClient).  Every forward pass is a collective operation, so     *)
(* either all engines step or none does.  The engines pause together when  *)
(* an all-reduce finds no unfinished request; the coordinator wakes the    *)
(* others when a request reaches a paused engine.                          *)
(*                                                                         *)
(* Requests are numbered in the order they are sent; which engine one goes *)
(* to is open (load balancing reads counts that the model leaves out).     *)
(***************************************************************************)
EXTENDS Integers, Sequences

CONSTANTS
    DP,            \* number of engines; rank 0 reports completed waves
    Client,        \* front ends
    MaxRequests,   \* bound: requests sent
    Passes,        \* forward passes that a request needs
    MaxUnread,     \* publications that a front end has not read when the poll times out
    SyncSteps,     \* forward passes between two all-reduces (32 in the code)
    EarlyAborts    \* TRUE: a request may be aborted while its engine is still paused

ASSUME DPWavesAssumption == DP \in Nat \ {0}

VARIABLES
    \* An engine: current_wave, engines_running, step_counter, the place in its
    \* busy loop, and the unfinished requests with the passes they still need.
    wave, running, steps, pc, todo,
    \* The coordinator: current_wave and engines_running.
    coord,
    \* A front end: current_wave and engines_running; who sent which request, and
    \* the requests that were computed or aborted.
    view, sent, done,
    \* Messages under way.
    requests,      \* per front end and engine: ADD
    starts,        \* per engine: START_DP_WAVE
    reports,       \* per engine: to the coordinator, wave_complete and start_wave
    first_req,     \* per front end: FIRST_REQ to its own statistics task
    wakeups,       \* per front end: to the coordinator, (engine, wave)
    published      \* per front end: from the coordinator, (wave, running)

engine == <<wave, running, steps, pc, todo>>
front == <<view, sent, done>>
channels == <<requests, starts, reports, first_req, wakeups, published>>
vars == <<engine, coord, front, channels>>

Engine == 0..DP-1
Request == 1..MaxRequests
None == -1

\* A front end knows an engine by its identity, two bytes that no engine's
\* comparison with its own rank, an integer, finds equal.
identity(e) == DP + e

Init ==
    /\ wave = [e \in Engine |-> 0]
    /\ running = [e \in Engine |-> FALSE]
    /\ steps = [e \in Engine |-> 0]
    /\ pc = [e \in Engine |-> "input"]
    /\ todo = [e \in Engine |-> <<>>]
    /\ coord = [wave |-> 0, running |-> FALSE]
    /\ view = [c \in Client |-> [wave |-> 0, running |-> FALSE]]
    /\ sent = <<>> /\ done = {}
    /\ requests = [c \in Client |-> [e \in Engine |-> <<>>]]
    /\ starts = [e \in Engine |-> <<>>]
    /\ reports = [e \in Engine |-> <<>>]
    /\ first_req = [c \in Client |-> <<>>]
    /\ wakeups = [c \in Client |-> <<>>]
    /\ published = [c \in Client |-> <<>>]

-----------------------------------------------------------------------------
(* Front ends.                                                             *)

\* add_request_async: the request carries the wave the front end believes in;
\* if it believes the engines to be paused, it also notifies its own task.
add_request_async(c, e) ==
    /\ Len(sent) < MaxRequests
    /\ requests' = [requests EXCEPT ![c][e] = Append(@,
                     [req |-> Len(sent) + 1, wave |-> view[c].wave])]
    /\ sent' = Append(sent, c)
    /\ first_req' = [first_req EXCEPT ![c] = IF view[c].running THEN @ ELSE Append(@, identity(e))]
    /\ UNCHANGED <<engine, coord, view, done, starts, reports, wakeups, published>>

\* The sockets of the statistics task on which something has been sent; poll
\* returns those on which it has arrived.
Readable(c) ==
    {s \in {"published", "first_req"} :
        IF s = "published" THEN published[c] # <<>> ELSE first_req[c] # <<>>}

\* The coordinator's socket is registered first: a notification is taken if it
\* comes alone, or from a paused view.
NotifiesFirst(c, events) ==
    "first_req" \in events /\ (~view[c].running \/ events = {"first_req"})

\* One turn of run_engine_stats_update_task: forward a notification with the
\* wave the front end believes in by now, then keep the latest publication that
\* has arrived, after poll returned perhaps.
run_engine_stats_update_task(c) ==
    \E events \in (SUBSET Readable(c)) \ {{}}, arrived \in 0..Len(published[c]) :
       LET notify == NotifiesFirst(c, events) IN
       /\ "published" \in events => arrived > 0
       /\ view' = [view EXCEPT ![c] = IF arrived > 0 THEN published[c][arrived]
                                                     ELSE [@ EXCEPT !.running = TRUE]]
       /\ published' = [published EXCEPT ![c] = SubSeq(@, arrived + 1, Len(@))]
       /\ first_req' = [first_req EXCEPT ![c] = IF notify THEN Tail(@) ELSE @]
       /\ wakeups' = [wakeups EXCEPT ![c] =
                         IF notify THEN Append(@, [engine |-> Head(first_req[c]), wave |-> view[c].wave])
                                   ELSE @]
       /\ UNCHANGED <<engine, coord, sent, done, requests, starts, reports>>

-----------------------------------------------------------------------------
(* The coordinator.                                                        *)

publish(state) == published' = [c \in Client |-> Append(published[c], state)]

_send_start_wave(w, exclude) ==
    starts' = [e \in Engine |-> Append(starts[e], [wave |-> w, exclude |-> exclude])]

\* A front end has sent a request while it believed the engines to be paused.
\* With a stale wave number the engine it names is to be woken as well.
Excluded(msg) == IF msg.wave < coord.wave THEN None ELSE msg.engine

process_front(c) ==
    /\ wakeups[c] # <<>>
    /\ wakeups' = [wakeups EXCEPT ![c] = Tail(@)]
    /\ \/ coord.running /\ UNCHANGED <<coord, starts, published>>
       \/ /\ ~coord.running
          /\ coord' = [coord EXCEPT !.running = TRUE]
          /\ _send_start_wave(coord.wave, Excluded(Head(wakeups[c])))
          /\ publish(coord')
    /\ UNCHANGED <<engine, front, requests, reports, first_req>>

\* Mutant: the wave that the coordinator itself started is not completed.
Completes_Ahead(w) == coord.wave < w

\* Whether a completed wave is news, and whether a stale request needs a start.
Completes(w) == coord.wave <= w
MustStart(w) == w > coord.wave \/ (w = coord.wave /\ ~coord.running)

process_back(e) ==
    LET msg == Head(reports[e]) IN
    /\ reports[e] # <<>>
    /\ reports' = [reports EXCEPT ![e] = Tail(@)]
    /\ \/ /\ msg.type = "wave_complete" /\ Completes(msg.wave)
          /\ coord' = [wave |-> msg.wave + 1, running |-> FALSE]
          /\ publish(coord') /\ UNCHANGED starts
       \/ /\ msg.type = "start_wave" /\ MustStart(msg.wave)
          /\ coord' = [wave |-> msg.wave, running |-> TRUE]
          /\ publish(coord') /\ _send_start_wave(msg.wave, e)
       \/ /\ IF msg.type = "wave_complete" THEN ~Completes(msg.wave) ELSE ~MustStart(msg.wave)
          /\ UNCHANGED <<coord, starts, published>>
    /\ UNCHANGED <<engine, front, requests, first_req, wakeups>>

\* The poll times out, whatever is under way to the coordinator: wave and state
\* go out again with the statistics.
poll_timeout ==
    /\ \A c \in Client : Len(published[c]) < MaxUnread
    /\ publish(coord)
    /\ UNCHANGED <<engine, coord, front, requests, starts, reports, first_req, wakeups>>

-----------------------------------------------------------------------------
(* The engines.                                                            *)

report(e, type) == reports' = [reports EXCEPT ![e] = Append(@, [type |-> type, wave |-> wave[e]])]

\* Mutant: the engine relies on the front end's notification.
StaleWhilePaused_Silent(e, w) == FALSE

\* A request for a wave that is over reaches a paused engine.
StaleWhilePaused(e, w) == w < wave[e] /\ ~running[e]

with(t, r) == [q \in DOMAIN t \cup {r} |-> IF q = r THEN Passes[r] ELSE t[q]]

\* _process_input_queue hands over messages before and between steps.
add_request(e, c) ==
    LET msg == Head(requests[c][e]) IN
    /\ pc[e] = "input" /\ requests[c][e] # <<>>
    /\ requests' = [requests EXCEPT ![c][e] = Tail(@)]
    /\ todo' = [todo EXCEPT ![e] = with(@, msg.req)]
    /\ wave' = [wave EXCEPT ![e] = IF msg.wave > @ THEN msg.wave ELSE @]
    /\ IF StaleWhilePaused(e, msg.wave) THEN report(e, "start_wave") ELSE UNCHANGED reports
    /\ UNCHANGED <<running, steps, pc, coord, front, starts, first_req, wakeups, published>>

without(t, gone) == [r \in DOMAIN t \ gone |-> t[r]]

\* The front end's ABORT reaches the engine, at any time after the ADD.
abort_requests(e, r) ==
    /\ pc[e] = "input" /\ r \in DOMAIN todo[e]
    /\ running[e] \/ EarlyAborts
    /\ todo' = [todo EXCEPT ![e] = without(@, {r})]
    /\ done' = done \cup {r}
    /\ UNCHANGED <<wave, running, steps, pc, coord, view, sent, channels>>

\* Mutant: a start for a wave that is over is obeyed as well.
Wakes_Late(e, msg) == msg.exclude # e

\* START_DP_WAVE is for the engine unless it is excluded or past the wave.
Wakes(e, msg) == msg.exclude # e /\ msg.wave >= wave[e]

handle_start_wave(e) ==
    LET msg == Head(starts[e]) IN
    /\ pc[e] = "input" /\ starts[e] # <<>>
    /\ starts' = [starts EXCEPT ![e] = Tail(@)]
    /\ wave' = [wave EXCEPT ![e] = IF Wakes(e, msg) THEN msg.wave ELSE @]
    /\ running' = [running EXCEPT ![e] = @ \/ Wakes(e, msg)]
    /\ UNCHANGED <<steps, pc, todo, coord, front, requests, reports, first_req, wakeups, published>>

has_work(e) == running[e] \/ todo[e] # <<>>

\* The engine enters a forward pass, of its requests or of a dummy batch.
step(e) ==
    /\ pc[e] = "input" /\ has_work(e)
    /\ pc' = [pc EXCEPT ![e] = "forward"]
    /\ UNCHANGED <<wave, running, steps, todo, coord, front, channels>>

\* The forward pass is collective: it ends when every engine is in it.
Finished(e) == {r \in DOMAIN todo[e] : todo[e][r] = 1}
AfterPass(t) == [r \in DOMAIN t |-> t[r] - 1]
Syncs(e) == (steps[e] + 1) % SyncSteps = 0

forward_pass ==
    /\ \A e \in Engine : pc[e] = "forward"
    /\ todo' = [e \in Engine |-> AfterPass(without(todo[e], Finished(e)))]
    /\ done' = done \cup UNION {Finished(e) : e \in Engine}
    /\ steps' = [e \in Engine |-> steps[e] + 1]
    /\ running' = [e \in Engine |-> running[e] \/ ~Syncs(e)]
    /\ pc' = [e \in Engine |-> IF Syncs(e) THEN "reduce" ELSE "input"]
    /\ UNCHANGED <<wave, coord, view, sent, channels>>

\* local_unfinished_reqs of the engine that the all-reduce combines.
local_unfinished_reqs(e) == todo[e] # <<>>

StepsAfterPause(e) == 0

\* The all-reduce, and the pause when it finds no unfinished request.
has_global_unfinished_reqs ==
    LET busy == \E e \in Engine : local_unfinished_reqs(e) IN
    /\ \A e \in Engine : pc[e] = "reduce"
    /\ running' = [e \in Engine |-> busy]
    /\ pc' = [e \in Engine |-> "input"]
    /\ IF busy THEN UNCHANGED <<wave, steps, reports>>
               ELSE /\ report(0, "wave_complete")
                    /\ wave' = [e \in Engine |-> wave[e] + 1]
                    /\ steps' = [e \in Engine |-> StepsAfterPause(e)]
    /\ UNCHANGED <<todo, coord, front, requests, starts, first_req, wakeups, published>>

-----------------------------------------------------------------------------

\* What coordinator and engines do with the messages and work they have.
Progress ==
    \/ \E c \in Client : process_front(c)
    \/ \E e \in Engine : process_back(e)
    \/ \E e \in Engine, c \in Client : add_request(e, c)
    \/ \E e \in Engine : handle_start_wave(e)
    \/ \E e \in Engine : step(e)
    \/ forward_pass
    \/ has_global_unfinished_reqs

Next ==
    \/ \E c \in Client, e \in Engine : add_request_async(c, e)
    \/ \E e \in Engine, r \in Request : abort_requests(e, r)
    \/ \E c \in Client : run_engine_stats_update_task(c)
    \/ poll_timeout
    \/ Progress

\* The coordinator or an engine has something to do.
Pending ==
    \/ \E c \in Client : wakeups[c] # <<>>
    \/ \E e \in Engine :
          \/ reports[e] # <<>>
          \/ pc[e] = "input" /\ (has_work(e) \/ starts[e] # <<>> \/ \E c \in Client : requests[c][e] # <<>>)
    \/ \A e \in Engine : pc[e] = "forward"
    \/ \A e \in Engine : pc[e] = "reduce"

\* Sockets deliver and loops keep turning: while coordinator and engines have
\* something to do, one of them does it; a front end's task reads what is
\* published and is not kept from forwarding a FIRST_REQ for ever.
Fairness ==
    /\ []<>~Pending \/ []<><<Progress>>_vars
    /\ \A c \in Client :
          /\ []<>(published[c] = <<>>) \/ []<><<Len(published[c]') < Len(published[c])>>_vars
          /\ []<>(first_req[c] = <<>>) \/ []<><<Len(first_req[c]') < Len(first_req[c])>>_vars

Spec == Init /\ [][Next]_vars
FairSpec == Spec /\ Fairness

-----------------------------------------------------------------------------

View == [wave : Nat, running : BOOLEAN]

\* Types of the engines', the coordinator's and the front ends' state, and of
\* the messages between them.
TypeOK ==
    /\ wave \in [Engine -> Nat] /\ running \in [Engine -> BOOLEAN]
    /\ steps \in [Engine -> Nat]
    /\ pc \in [Engine -> {"input", "forward", "reduce"}]
    /\ \A e \in Engine : todo[e] \in [DOMAIN todo[e] -> Nat \ {0}]
    /\ coord \in View /\ view \in [Client -> View]
    /\ sent \in Seq(Client) /\ done \subseteq DOMAIN sent
    /\ \A e \in Engine :
          /\ starts[e] \in Seq([wave : Nat, exclude : Engine \cup {None} \cup {identity(f) : f \in Engine}])
          /\ reports[e] \in Seq([type : {"wave_complete", "start_wave"}, wave : Nat])
    /\ \A c \in Client : published[c] \in Seq(View) /\ first_req[c] \in Seq({identity(e) : e \in Engine})

\* The engines count waves in step, and nobody believes in a wave that the
\* engines have not reached: START_DP_WAVE never moves an engine ahead of the
\* others, and a request's wave is never in the future.
OneWave ==
    \A e \in Engine :
       /\ wave[e] = wave[0]
       /\ coord.wave <= wave[e]
       /\ \A i \in DOMAIN starts[e] : starts[e][i].wave <= wave[e]
       /\ \A c \in Client : view[c].wave <= wave[e]

\* All messages have been handled and no engine has work.
AtRest ==
    /\ \A e \in Engine : pc[e] = "input" /\ ~has_work(e) /\ starts[e] = <<>> /\ reports[e] = <<>>
    /\ \A c \in Client :
          /\ \A e \in Engine : requests[c][e] = <<>>
          /\ first_req[c] = <<>> /\ wakeups[c] = <<>> /\ published[c] = <<>>

\* Once everything has settled, coordinator and front ends know that the
\* engines are paused and before which wave.  A front end that believed them to
\* be running would send its next request without waking the other engines.
AgreeAtRest ==
    AtRest => \A e \in Engine, c \in Client :
                 view[c] = coord /\ coord = [wave |-> wave[e], running |-> FALSE]

\* Every request that was sent is computed or aborted, because the other engines
\* join its forward passes whatever wave and state its front end believed in;
\* and then the engines pause instead of running dummy batches for ever.
\* (Finitely many requests are sent, so "again and again" means "finally".)
ServedAndPaused ==
    []<>(done = DOMAIN sent /\ \A e \in Engine : ~running[e] /\ pc[e] = "input")
=============================================================================
