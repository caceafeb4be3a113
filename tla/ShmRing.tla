------------------------------- MODULE ShmRing -------------------------------
(***************************************************************************)
(* MessageQueue of shm_broadcast.py for local readers: the shared-memory    *)
(* ring with its flags, the socket for messages larger than a chunk, and    *)
(* SpinCondition, through which idle readers are woken.  Every load and     *)
(* store of a flag is a step; the fences of the code make them take effect  *)
(* in program order.  A chunk is Torn while it is being written.            *)
(*                                                                          *)
(* A reader's pc stays at "start" between two calls of dequeue.             *)
(***************************************************************************)
EXTENDS Naturals, Sequences

CONSTANTS NumReaders,     \* n_reader
          MaxChunks,      \* max_chunks
          NumMessages,    \* bound: messages written
          Big,            \* messages that do not fit a chunk
          Timed,          \* readers that pass a timeout
          SlowSocket,     \* may a timeout end between the flag and the socket message
          Stoppable,      \* readers that death_pipe_monitor watches over
          CrashAt         \* where the writer's process may end

Reader  == 1..NumReaders
Chunk   == 0..(MaxChunks - 1)
Message == 1..NumMessages
Torn    == 0
Over    == NumMessages + 1     \* buf[0] = 1: the message is in the socket

ASSUME ShmRingAssumption ==
    /\ NumReaders \in Nat \ {0} /\ MaxChunks \in Nat \ {0} /\ NumMessages \in Nat
    /\ Big \subseteq Message /\ Timed \subseteq Reader /\ Stoppable \subseteq Reader

VARIABLES written, read, data,                   \* the ring
          wpc, widx, scan, count,                \* the writer, in acquire_write
          rpc, ridx, rflag, rdata,               \* the readers, in acquire_read
          sock,                                  \* local_socket, per reader
          pipe, box,                             \* notifications: sent, arrived
          shutting_down, cancel,
          sent, got                              \* history of enqueue and dequeue

ring    == <<written, read, data>>
writer  == <<wpc, widx, scan, count>>
readers == <<rpc, ridx, rflag, rdata>>
stop    == <<shutting_down, cancel>>
vars    == <<ring, writer, readers, sock, pipe, box, stop, sent, got>>

Init ==
    /\ written = [c \in Chunk |-> 0]
    /\ read = [c \in Chunk |-> [r \in Reader |-> 0]]
    /\ data = [c \in Chunk |-> Torn]
    /\ wpc = "idle" /\ widx = 0 /\ scan = 0 /\ count = 0
    /\ rpc = [r \in Reader |-> "start"]
    /\ ridx = [r \in Reader |-> 0]
    /\ rflag = [r \in Reader |-> 0]
    /\ rdata = [r \in Reader |-> Torn]
    /\ sock = [r \in Reader |-> <<>>]
    /\ pipe = [r \in Reader |-> 0] /\ box = [r \in Reader |-> 0]
    /\ shutting_down = [r \in Reader |-> FALSE] /\ cancel = [r \in Reader |-> FALSE]
    /\ sent = <<>> /\ got = [r \in Reader |-> <<>>]

msg == Len(sent) + 1      \* the message that enqueue is about to write

-----------------------------------------------------------------------------

\* enqueue and acquire_write

enqueue ==
    /\ wpc = "idle" /\ msg <= NumMessages
    /\ wpc' = "scan" /\ scan' = 1 /\ count' = 0
    /\ UNCHANGED <<ring, widx, readers, sock, pipe, box, stop, sent, got>>

\* sum(metadata_buffer[1:]), flag by flag
ScanFlag ==
    /\ wpc = "scan" /\ scan <= NumReaders
    /\ count' = count + read[widx][scan]
    /\ scan' = scan + 1
    /\ UNCHANGED <<ring, wpc, widx, readers, sock, pipe, box, stop, sent, got>>

\* Mutant: a chunk may be overwritten when some reader has read it.
CanWrite_AnyReader == written[widx] = 0 \/ count > 0

CanWrite == written[widx] = 0 \/ count = NumReaders

Spin ==
    /\ wpc = "scan" /\ scan > NumReaders /\ ~CanWrite
    /\ scan' = 1 /\ count' = 0
    /\ UNCHANGED <<ring, wpc, widx, readers, sock, pipe, box, stop, sent, got>>

acquire_write ==
    /\ wpc = "scan" /\ scan > NumReaders /\ CanWrite
    /\ written' = [written EXCEPT ![widx] = 0]
    /\ wpc' = "fill"
    /\ UNCHANGED <<read, data, widx, scan, count, readers, sock, pipe, box, stop, sent, got>>

\* The caller writes the chunk, in two steps.
Fill ==
    /\ wpc = "fill"
    /\ data' = [data EXCEPT ![widx] = Torn]
    /\ wpc' = "filled"
    /\ UNCHANGED <<written, read, widx, scan, count, readers, sock, pipe, box, stop, sent, got>>

Filled ==
    /\ wpc = "filled"
    /\ data' = [data EXCEPT ![widx] = IF msg \in Big THEN Over ELSE msg]
    /\ wpc' = "reset" /\ scan' = 1
    /\ UNCHANGED <<written, read, widx, count, readers, sock, pipe, box, stop, sent, got>>

ResetFlag ==
    /\ wpc = "reset" /\ scan <= NumReaders
    /\ read' = [read EXCEPT ![widx][scan] = 0]
    /\ scan' = scan + 1
    /\ UNCHANGED <<written, data, wpc, widx, count, readers, sock, pipe, box, stop, sent, got>>

\* written_flag = 1: from here on the message counts as sent.
Publish ==
    /\ wpc = "reset" /\ scan > NumReaders
    /\ written' = [written EXCEPT ![widx] = 1]
    /\ sent' = Append(sent, msg)
    /\ widx' = (widx + 1) % MaxChunks
    /\ wpc' = IF msg \in Big THEN "send" ELSE "notify"
    /\ scan' = 0 /\ count' = 0
    /\ UNCHANGED <<read, data, readers, sock, pipe, box, stop, got>>

send_multipart ==
    /\ wpc = "send"
    /\ sock' = [r \in Reader |-> Append(sock[r], Len(sent))]
    /\ wpc' = "notify"
    /\ UNCHANGED <<ring, widx, scan, count, readers, pipe, box, stop, sent, got>>

\* Mutant: only the readers that sleep when the message is written are woken.
notify_OnlySleeping ==
    /\ wpc = "notify"
    /\ pipe' = [r \in Reader |-> IF rpc[r] = "poll" THEN 1 ELSE pipe[r]]
    /\ wpc' = "idle"
    /\ UNCHANGED <<ring, widx, scan, count, readers, sock, box, stop, sent, got>>

\* SNDHWM = 1: a ping is dropped while another one is on its way.
notify ==
    /\ wpc = "notify"
    /\ pipe' = [r \in Reader |-> 1]
    /\ wpc' = "idle"
    /\ UNCHANGED <<ring, widx, scan, count, readers, sock, box, stop, sent, got>>

\* CONFLATE: the reader's side keeps one ping.
Arrive(r) ==
    /\ pipe[r] = 1
    /\ pipe' = [pipe EXCEPT ![r] = 0]
    /\ box' = [box EXCEPT ![r] = 1]
    /\ UNCHANGED <<ring, writer, readers, sock, stop, sent, got>>

Crash ==
    /\ wpc \in CrashAt
    /\ wpc' = "dead"
    /\ UNCHANGED <<ring, widx, scan, count, readers, sock, pipe, box, stop, sent, got>>

Writer ==
    \/ enqueue \/ ScanFlag \/ Spin \/ acquire_write \/ Fill \/ Filled \/ ResetFlag
    \/ Publish \/ send_multipart \/ notify

-----------------------------------------------------------------------------

\* dequeue and acquire_read

Goto(r, pc) == rpc' = [rpc EXCEPT ![r] = pc]

ReadFlag(r) ==
    /\ rpc[r] = "start"
    /\ rflag' = [rflag EXCEPT ![r] = read[ridx[r]][r]]
    /\ Goto(r, "check")
    /\ UNCHANGED <<ring, writer, ridx, rdata, sock, pipe, box, stop, sent, got>>

\* Mutant: the chunk is given back before it is read.
CheckWritten_MarksEarly(r) ==
    /\ rpc[r] = "check"
    /\ IF written[ridx[r]] = 0 \/ rflag[r] = 1
       THEN (Goto(r, "spin") \/ Goto(r, "poll")) /\ UNCHANGED read
       ELSE Goto(r, "load") /\ read' = [read EXCEPT ![ridx[r]][r] = 1]
    /\ UNCHANGED <<written, data, writer, ridx, rflag, rdata, sock, pipe, box, stop, sent, got>>

\* Spin while the last read is recent, poll the sockets otherwise.
CheckWritten(r) ==
    /\ rpc[r] = "check"
    /\ IF written[ridx[r]] = 0 \/ rflag[r] = 1
       THEN Goto(r, "spin") \/ Goto(r, "poll")
       ELSE Goto(r, "load")
    /\ UNCHANGED <<ring, writer, ridx, rflag, rdata, sock, pipe, box, stop, sent, got>>

\* Mutant: the flag is looked at before the reader sleeps, not after.
Woken_NoCheck(r) == Goto(r, "start")

Woken(r) == Goto(r, IF shutting_down[r] THEN "cancelled" ELSE "start")

Yield(r) ==
    /\ rpc[r] = "spin"
    /\ Woken(r)
    /\ UNCHANGED <<ring, writer, ridx, rflag, rdata, sock, pipe, box, stop, sent, got>>

\* The cancel ping is left in its socket; the notification is taken.
Poll(r) ==
    /\ rpc[r] = "poll" /\ (cancel[r] \/ box[r] = 1)
    /\ box' = IF cancel[r] THEN box ELSE [box EXCEPT ![r] = 0]
    /\ Woken(r)
    /\ UNCHANGED <<ring, writer, ridx, rflag, rdata, sock, pipe, stop, sent, got>>

Load(r) ==
    /\ rpc[r] = "load"
    /\ rdata' = [rdata EXCEPT ![r] = data[ridx[r]]]
    /\ Goto(r, "mark")
    /\ UNCHANGED <<ring, writer, ridx, rflag, sock, pipe, box, stop, sent, got>>

\* The chunk is given back; the message is complete unless it is in the socket.
Mark(r) ==
    /\ rpc[r] = "mark"
    /\ read' = [read EXCEPT ![ridx[r]][r] = 1]
    /\ ridx' = [ridx EXCEPT ![r] = (@ + 1) % MaxChunks]
    /\ IF rdata[r] = Over
       THEN Goto(r, "recv") /\ UNCHANGED got
       ELSE Goto(r, "start") /\ got' = [got EXCEPT ![r] = Append(@, rdata[r])]
    /\ rdata' = [rdata EXCEPT ![r] = Torn]
    /\ UNCHANGED <<written, data, writer, rflag, sock, pipe, box, stop, sent>>

recv(r) ==
    /\ rpc[r] = "recv" /\ sock[r] # <<>>
    /\ got' = [got EXCEPT ![r] = Append(@, Head(sock[r]))]
    /\ sock' = [sock EXCEPT ![r] = Tail(@)]
    /\ Goto(r, "start")
    /\ UNCHANGED <<ring, writer, ridx, rflag, rdata, pipe, box, stop, sent>>

\* The poller finds nothing in time, or recv does: dequeue is called again.
TimeOut(r) ==
    /\ rpc[r] \in {"poll"} \cup (IF SlowSocket THEN {"recv"} ELSE {})
    /\ IF rpc[r] = "recv" THEN sock[r] = <<>> ELSE ~cancel[r] /\ box[r] = 0
    /\ IF rpc[r] = "recv" THEN Goto(r, "start") ELSE Woken(r)
    /\ UNCHANGED <<ring, writer, ridx, rflag, rdata, sock, pipe, box, stop, sent, got>>

\* shutdown, in two steps: death_pipe_monitor, another thread of the reader's
\* process, calls it when the writer's process is gone.
shutdown(r) ==
    /\ wpc = "dead" /\ ~shutting_down[r]
    /\ shutting_down' = [shutting_down EXCEPT ![r] = TRUE]
    /\ UNCHANGED <<ring, writer, readers, sock, pipe, box, cancel, sent, got>>

Cancel(r) ==
    /\ shutting_down[r] /\ ~cancel[r]
    /\ cancel' = [cancel EXCEPT ![r] = TRUE]
    /\ UNCHANGED <<ring, writer, readers, sock, pipe, box, shutting_down, sent, got>>

dequeue(r) ==
    ReadFlag(r) \/ CheckWritten(r) \/ Yield(r) \/ Poll(r) \/ Load(r) \/ Mark(r) \/ recv(r)

Next ==
    \/ Writer \/ Crash
    \/ \E r \in Reader : dequeue(r) \/ Arrive(r) \/ Cancel(r)
    \/ \E r \in Timed : TimeOut(r)
    \/ \E r \in Stoppable : shutdown(r)

Spec == Init /\ [][Next]_vars

\* The processes run, and pings that were accepted arrive.  Whether the writer
\* has more to send, times out or ends is not assumed.
FairSpec ==
    /\ Spec
    /\ WF_vars(Writer)
    /\ WF_vars(\E r \in Reader : Arrive(r) \/ Cancel(r))
    /\ \A r \in Reader : WF_vars(dequeue(r))

-----------------------------------------------------------------------------

TypeOK ==
    /\ written \in [Chunk -> {0, 1}] /\ read \in [Chunk -> [Reader -> {0, 1}]]
    /\ data \in [Chunk -> Message \cup {Torn, Over}]
    /\ widx \in Chunk /\ ridx \in [Reader -> Chunk] /\ count \in 0..NumReaders

\* A reader that found its chunk ready keeps it until it has marked it: the writer
\* is not filling it and what is in it is complete.
ReadersSeeWholeChunks ==
    \A r \in Reader : rpc[r] \in {"load", "mark"} =>
        /\ written[ridx[r]] = 1 /\ read[ridx[r]][r] = 0
        /\ data[ridx[r]] # Torn
        /\ rpc[r] = "mark" => rdata[r] = data[ridx[r]]

\* What a reader has received is the beginning of what was sent.
InOrder == \A r \in Reader : got[r] = SubSeq(sent, 1, Len(got[r]))

\* The writer can be ahead by the chunks of the ring and one message that is still
\* in the socket of a reader that has given its chunk back.
Queue == INSTANCE Broadcast WITH Capacity <- MaxChunks + 1
ImplementsBroadcast == Queue!Spec

\* No wake-up is lost: every message reaches every reader, however long the reader
\* slept before it was written.
EveryMessageArrives ==
    \A r \in Reader \ Stoppable : \A n \in Message : (Len(sent) >= n) ~> (Len(got[r]) >= n)

\* A reader that is shut down leaves dequeue.
ShutdownEndsReader == \A r \in Stoppable : shutting_down[r] ~> (rpc[r] = "cancelled")
=============================================================================
