---------------------------- MODULE ShmRingProofs ----------------------------
(***************************************************************************)
(* Proofs about ShmRing for every number of readers, chunks and messages.   *)
(***************************************************************************)
EXTENDS ShmRing, Integers, TLAPS

\* Where a reader can be in dequeue.
Place == {"start", "check", "spin", "poll", "load", "mark", "recv", "cancelled"}

\* The values that the flags, the counters and the readers' registers take.
RingTypes ==
    /\ written \in [Chunk -> {0, 1}] /\ read \in [Chunk -> [Reader -> {0, 1}]]
    /\ data \in [Chunk -> Nat]
    /\ widx \in Chunk /\ scan \in Nat /\ count \in Nat
    /\ ridx \in [Reader -> Chunk] /\ rflag \in [Reader -> {0, 1}]
    /\ rdata \in [Reader -> Nat] /\ rpc \in [Reader -> Place]
    /\ sent \in Seq(Nat)

\* While acquire_write sums up the flags, it has counted at most the flags that
\* it has passed, and one less if one of those is not set even now: flags that
\* are passed are not reset before the sum is complete.
ScanBound ==
    wpc = "scan" =>
        /\ scan \in 1..(NumReaders + 1) /\ count <= scan - 1
        /\ \A q \in Reader : q < scan /\ read[widx][q] = 0 => count <= scan - 2

\* From acquire_write to Publish the chunk is marked as not written.
WriterOwnsChunk ==
    /\ wpc \in {"fill", "filled", "reset"} => written[widx] = 0
    /\ wpc = "reset" => data[widx] # Torn
    /\ \A c \in Chunk : written[c] = 1 => data[c] # Torn

\* A reader that saw its own flag unset finds it unset: nobody else sets it.
FlagIsOwn == \A r \in Reader : rpc[r] = "check" /\ rflag[r] = 0 => read[ridx[r]][r] = 0

RingInv == RingTypes /\ ScanBound /\ WriterOwnsChunk /\ FlagIsOwn /\ ReadersSeeWholeChunks

-----------------------------------------------------------------------------

LEMMA NextChunk ==
    ASSUME NEW i \in Chunk
    PROVE  (i + 1) % MaxChunks \in Chunk
BY ShmRingAssumption DEF Chunk

LEMMA RingInvInit == Init => RingInv
BY ShmRingAssumption
   DEF Init, RingInv, RingTypes, ScanBound, WriterOwnsChunk, FlagIsOwn, ReadersSeeWholeChunks,
       Chunk, Reader, Torn, Place

\* The writer's steps, one by one.
LEMMA WriterKeepsRingInv == RingInv /\ Writer => RingInv'
<1> SUFFICES ASSUME RingInv, Writer PROVE RingInv'
  OBVIOUS
<1> USE ShmRingAssumption DEF RingInv
<1>0. RingTypes /\ ScanBound /\ WriterOwnsChunk /\ FlagIsOwn /\ ReadersSeeWholeChunks
  OBVIOUS
<1>1. CASE enqueue
  BY <1>0, <1>1 DEF enqueue, RingTypes, ScanBound, WriterOwnsChunk, FlagIsOwn,
        ReadersSeeWholeChunks, ring, readers, Reader
<1>2. CASE ScanFlag
  <2>1. read[widx][scan] \in {0, 1} /\ scan \in Reader
    BY <1>0, <1>2 DEF ScanFlag, RingTypes, ScanBound, Reader
  <2>2. RingTypes'
    BY <1>0, <1>2, <2>1 DEF ScanFlag, RingTypes, ring, readers
  <2>3. ScanBound'
    <3>1. scan' = scan + 1 /\ count' = count + read[widx][scan] /\ UNCHANGED <<widx, read, wpc>>
      BY <1>2 DEF ScanFlag, ring
    <3>2. scan \in 1..NumReaders /\ count \in Nat /\ count <= scan - 1
      BY <1>0, <1>2, <2>1 DEF ScanFlag, ScanBound, RingTypes, Reader
    <3>3. ASSUME NEW q \in Reader, q < scan', read'[widx'][q] = 0 PROVE count' <= scan' - 2
      <4>1. CASE q < scan
        <5>1. count <= scan - 2
          BY <1>0, <1>2, <3>1, <3>3, <4>1 DEF ScanBound, ScanFlag
        <5> QED BY <5>1, <3>1, <3>2, <2>1
      <4>2. CASE ~(q < scan)
        <5>1. q = scan
          BY <3>1, <3>2, <3>3, <4>2 DEF Reader
        <5> QED BY <5>1, <3>1, <3>2, <3>3
      <4> QED BY <4>1, <4>2
    <3> QED BY <3>1, <3>2, <3>3, <2>1 DEF ScanBound, Reader
  <2>4. (WriterOwnsChunk /\ FlagIsOwn /\ ReadersSeeWholeChunks)'
    BY <1>0, <1>2 DEF ScanFlag, WriterOwnsChunk, FlagIsOwn, ReadersSeeWholeChunks, ring, readers
  <2> QED BY <2>2, <2>3, <2>4
<1>3. CASE Spin
  BY <1>0, <1>3 DEF Spin, RingTypes, ScanBound, WriterOwnsChunk, FlagIsOwn,
        ReadersSeeWholeChunks, ring, readers, Reader
<1>4. CASE acquire_write
  <2>1. scan = NumReaders + 1
    BY <1>0, <1>4 DEF acquire_write, ScanBound, RingTypes
  <2>2. ASSUME written[widx] = 1, NEW q \in Reader PROVE read[widx][q] = 1
    <3>1. count = NumReaders
      BY <1>4, <2>2 DEF acquire_write, CanWrite
    <3>2. read[widx][q] # 0
      BY <1>0, <1>4, <2>1, <3>1 DEF acquire_write, ScanBound, Reader
    <3>3. read[widx][q] \in {0, 1}
      BY <1>0 DEF RingTypes
    <3> QED BY <3>2, <3>3
  <2>3. ASSUME NEW r \in Reader, rpc[r] \in {"load", "mark"} PROVE ridx[r] # widx
    BY <1>0, <2>2, <2>3 DEF ReadersSeeWholeChunks
  <2>4. RingTypes' /\ ScanBound' /\ WriterOwnsChunk' /\ FlagIsOwn'
    BY <1>0, <1>4 DEF acquire_write, RingTypes, ScanBound, WriterOwnsChunk, FlagIsOwn, readers
  <2>5. ReadersSeeWholeChunks'
    BY <1>0, <1>4, <2>3 DEF acquire_write, RingTypes, ReadersSeeWholeChunks, readers
  <2> QED BY <2>4, <2>5
<1>5. CASE Fill
  BY <1>0, <1>5 DEF Fill, RingTypes, ScanBound, WriterOwnsChunk, FlagIsOwn,
        ReadersSeeWholeChunks, readers, Torn
<1>6. CASE Filled
  <2>1. msg \in Nat /\ msg # Torn /\ Over \in Nat /\ Over # Torn
    BY <1>0 DEF msg, RingTypes, Torn, Over
  <2> QED
    BY <1>0, <1>6, <2>1 DEF Filled, RingTypes, ScanBound, WriterOwnsChunk, FlagIsOwn,
        ReadersSeeWholeChunks, readers
<1>7. CASE ResetFlag
  <2>1. scan \in Nat /\ widx \in Chunk
    BY <1>0 DEF RingTypes
  <2>2. read' \in [Chunk -> [Reader -> {0, 1}]]
    BY <1>0, <1>7, Zenon DEF ResetFlag, RingTypes
  <2>3. \A c \in Chunk : \A q \in Reader : read[c][q] = 0 => read'[c][q] = 0
    BY <1>0, <1>7, <2>1 DEF ResetFlag, RingTypes
  <2>4. RingTypes' /\ ScanBound' /\ WriterOwnsChunk'
    BY <1>0, <1>7, <2>1, <2>2 DEF ResetFlag, RingTypes, ScanBound, WriterOwnsChunk, readers
  <2>5. FlagIsOwn' /\ ReadersSeeWholeChunks'
    BY <1>0, <1>7, <2>3 DEF ResetFlag, RingTypes, FlagIsOwn, ReadersSeeWholeChunks, readers
  <2> QED BY <2>4, <2>5
<1>8. CASE Publish
  <2>1. widx' \in Chunk
    BY <1>0, <1>8, NextChunk DEF Publish, RingTypes
  <2>2. sent' \in Seq(Nat)
    BY <1>0, <1>8 DEF Publish, RingTypes, msg
  <2>3. RingTypes' /\ ScanBound'
    BY <1>0, <1>8, <2>1, <2>2 DEF Publish, RingTypes, ScanBound, readers
  <2>4. WriterOwnsChunk' /\ FlagIsOwn' /\ ReadersSeeWholeChunks'
    BY <1>0, <1>8 DEF Publish, RingTypes, WriterOwnsChunk, FlagIsOwn, ReadersSeeWholeChunks, readers
  <2> QED BY <2>3, <2>4
<1>9. CASE send_multipart \/ notify
  BY <1>0, <1>9 DEF send_multipart, notify, RingTypes, ScanBound, WriterOwnsChunk, FlagIsOwn,
        ReadersSeeWholeChunks, ring, readers
<1> QED BY <1>1, <1>2, <1>3, <1>4, <1>5, <1>6, <1>7, <1>8, <1>9 DEF Writer

\* Steps that move a reader and leave ring and writer alone.
LEMMA ReaderKeepsRingInv ==
    ASSUME NEW r \in Reader, RingInv, dequeue(r)
    PROVE  RingInv'
<1>0. RingTypes /\ ScanBound /\ WriterOwnsChunk /\ FlagIsOwn /\ ReadersSeeWholeChunks
  BY DEF RingInv
<1> USE DEF Goto, Place
<1>1. CASE ReadFlag(r)
  <2>1. read[ridx[r]][r] \in {0, 1}
    BY <1>0 DEF RingTypes
  <2> QED
    BY <1>0, <1>1, <2>1 DEF ReadFlag, RingInv, RingTypes, ScanBound, WriterOwnsChunk, FlagIsOwn,
        ReadersSeeWholeChunks, ring, writer
<1>2. CASE CheckWritten(r)
  <2>1. rpc' \in [Reader -> Place] /\ \A q \in Reader \ {r} : rpc'[q] = rpc[q]
    BY <1>0, <1>2 DEF CheckWritten, RingTypes
  <2>2. rpc'[r] # "mark" /\ rpc'[r] # "check" /\
        (rpc'[r] = "load" => written[ridx[r]] # 0 /\ rflag[r] # 1 /\ rpc[r] = "check")
    BY <1>0, <1>2 DEF CheckWritten, RingTypes
  <2>3. UNCHANGED <<written, read, data, wpc, widx, scan, count, ridx, rflag, rdata, sent>>
    BY <1>2 DEF CheckWritten, ring, writer
  <2>4. RingTypes' /\ ScanBound' /\ WriterOwnsChunk' /\ FlagIsOwn'
    BY <1>0, <2>1, <2>2, <2>3 DEF RingTypes, ScanBound, WriterOwnsChunk, FlagIsOwn
  <2>5. written[ridx[r]] \in {0, 1} /\ rflag[r] \in {0, 1} /\ ridx[r] \in Chunk
    BY <1>0 DEF RingTypes
  <2>6. ReadersSeeWholeChunks'
    BY <1>0, <2>1, <2>2, <2>3, <2>5 DEF WriterOwnsChunk, FlagIsOwn, ReadersSeeWholeChunks
  <2> QED BY <2>4, <2>6 DEF RingInv
<1>3. CASE Yield(r) \/ Poll(r)
  <2>1. /\ rpc' \in [Reader -> Place] /\ rpc'[r] \in {"start", "cancelled"}
        /\ \A q \in Reader \ {r} : rpc'[q] = rpc[q]
    BY <1>0, <1>3, Zenon DEF Yield, Poll, Woken, RingTypes
  <2>2. UNCHANGED <<written, read, data, wpc, widx, scan, count, ridx, rflag, rdata, sent>>
    BY <1>3 DEF Yield, Poll, ring, writer
  <2> QED
    BY <1>0, <2>1, <2>2 DEF RingInv, RingTypes, ScanBound, WriterOwnsChunk, FlagIsOwn,
        ReadersSeeWholeChunks
<1>4. CASE Load(r)
  BY <1>0, <1>4 DEF Load, RingInv, RingTypes, ScanBound, WriterOwnsChunk, FlagIsOwn,
        ReadersSeeWholeChunks, ring, writer
<1>5. CASE Mark(r)
  <2>1. ridx[r] \in Chunk /\ (ridx[r] + 1) % MaxChunks \in Chunk
    BY <1>0, NextChunk DEF RingTypes
  <2>2. /\ read' \in [Chunk -> [Reader -> {0, 1}]]
        /\ ridx' \in [Reader -> Chunk]
        /\ rdata' \in [Reader -> Nat]
        /\ rpc' \in [Reader -> Place]
    BY <1>0, <1>5, <2>1, Zenon DEF Mark, RingTypes, Torn
  <2>3. /\ \A c \in Chunk : \A q \in Reader : read'[c][q] = 0 => read[c][q] = 0
        /\ \A c \in Chunk : \A q \in Reader \ {r} : read'[c][q] = read[c][q]
    BY <1>0, <1>5, <2>1 DEF Mark, RingTypes
  <2>4. rpc'[r] \in {"start", "recv"} /\ \A q \in Reader \ {r} :
            rpc'[q] = rpc[q] /\ ridx'[q] = ridx[q] /\ rdata'[q] = rdata[q]
    BY <1>0, <1>5 DEF Mark, RingTypes
  <2>5. UNCHANGED <<written, data, wpc, widx, scan, count, rflag, sent>>
    BY <1>5 DEF Mark, writer
  <2>6. RingTypes'
    BY <1>0, <2>2, <2>5 DEF RingTypes
  <2>7. ScanBound' /\ WriterOwnsChunk'
    BY <1>0, <2>3, <2>5 DEF ScanBound, WriterOwnsChunk, RingTypes
  <2>8. ASSUME NEW q \in Reader, q # r
        PROVE  /\ UNCHANGED <<rpc[q], ridx[q], rdata[q], rflag[q]>>
               /\ read'[ridx'[q]][q] = read[ridx[q]][q]
               /\ written'[ridx'[q]] = written[ridx[q]] /\ data'[ridx'[q]] = data[ridx[q]]
    <3>1. ridx[q] \in Chunk
      BY <1>0 DEF RingTypes
    <3> QED BY <2>3, <2>4, <2>5, <2>8, <3>1
  <2>9. FlagIsOwn'
    BY <1>0, <2>4, <2>8 DEF FlagIsOwn
  <2>10. ReadersSeeWholeChunks'
    BY <1>0, <2>4, <2>8 DEF ReadersSeeWholeChunks
  <2> QED BY <2>6, <2>7, <2>9, <2>10 DEF RingInv
<1>6. CASE recv(r)
  BY <1>0, <1>6 DEF recv, RingInv, RingTypes, ScanBound, WriterOwnsChunk, FlagIsOwn,
        ReadersSeeWholeChunks, ring, writer
<1> QED BY <1>1, <1>2, <1>3, <1>4, <1>5, <1>6 DEF dequeue

LEMMA RingInvNext == RingInv /\ [Next]_vars => RingInv'
<1> SUFFICES ASSUME RingInv, [Next]_vars PROVE RingInv'
  OBVIOUS
<1>0. RingTypes /\ ScanBound /\ WriterOwnsChunk /\ FlagIsOwn /\ ReadersSeeWholeChunks
  BY DEF RingInv
<1>1. CASE Writer
  BY <1>1, WriterKeepsRingInv
<1>2. CASE Crash
  BY <1>0, <1>2 DEF Crash, RingInv, RingTypes, ScanBound, WriterOwnsChunk, FlagIsOwn,
        ReadersSeeWholeChunks, ring, readers
<1>3. CASE \E r \in Reader : dequeue(r)
  BY <1>3, ReaderKeepsRingInv
<1>4. CASE \E r \in Reader : Arrive(r) \/ Cancel(r)
  BY <1>0, <1>4 DEF Arrive, Cancel, RingInv, RingTypes, ScanBound, WriterOwnsChunk, FlagIsOwn,
        ReadersSeeWholeChunks, ring, writer, readers
<1>5. CASE \E r \in Timed : TimeOut(r)
  <2>1. PICK r \in Reader : TimeOut(r)
    BY <1>5, ShmRingAssumption
  <2>2. /\ rpc' \in [Reader -> Place] /\ rpc'[r] \in {"start", "cancelled"}
        /\ \A q \in Reader \ {r} : rpc'[q] = rpc[q]
    BY <1>0, <2>1, Zenon DEF TimeOut, Goto, Woken, Place, RingTypes
  <2>3. UNCHANGED <<written, read, data, wpc, widx, scan, count, ridx, rflag, rdata, sent>>
    BY <2>1 DEF TimeOut, ring, writer
  <2> QED
    BY <1>0, <2>2, <2>3 DEF RingInv, RingTypes, ScanBound, WriterOwnsChunk, FlagIsOwn,
        ReadersSeeWholeChunks
<1>6. CASE \E r \in Stoppable : shutdown(r)
  BY <1>0, <1>6 DEF shutdown, RingInv, RingTypes, ScanBound, WriterOwnsChunk, FlagIsOwn,
        ReadersSeeWholeChunks, ring, writer, readers
<1>7. CASE UNCHANGED vars
  BY <1>0, <1>7 DEF vars, RingInv, RingTypes, ScanBound, WriterOwnsChunk, FlagIsOwn,
        ReadersSeeWholeChunks, ring, writer, readers
<1> QED BY <1>1, <1>2, <1>3, <1>4, <1>5, <1>6, <1>7 DEF Next

\* acquire_write never takes a chunk from a reader between its check of the
\* flags and its mark, and what the reader copies is complete: for every number
\* of readers and chunks, although no lock protects the flags.
THEOREM WholeChunks == Spec => []ReadersSeeWholeChunks
<1>1. RingInv => ReadersSeeWholeChunks
  BY DEF RingInv
<1> QED BY <1>1, RingInvInit, RingInvNext, PTL DEF Spec

-----------------------------------------------------------------------------
(* ShmRing implements Broadcast.  Message i+1 is written to chunk Slot(i), and *)
(* a reader that has given back k chunks looks at Slot(k): the invariant says  *)
(* what the flags and the contents of the last MaxChunks messages are in these *)
(* terms.                                                                     *)

Slot(i) == i % MaxChunks

Sent == Len(sent)

\* Messages whose chunk a reader has given back.
Taken(r) == Len(got[r]) + (IF rpc[r] = "recv" THEN 1 ELSE 0)

Content(m) == IF m \in Big THEN Over ELSE m

\* Writer and readers go round the ring, at most one round apart.
Positions ==
    /\ Sent <= NumMessages /\ \A i \in 1..Sent : sent[i] = i
    /\ widx = Slot(Sent)
    /\ \A r \in Reader : /\ ridx[r] = Slot(Taken(r))
                         /\ Taken(r) <= Sent /\ Sent <= Taken(r) + MaxChunks

\* A chunk that was acquired has been given back by every reader.
Acquired ==
    /\ wpc \in {"scan", "fill", "filled", "reset"} => Sent < NumMessages
    /\ wpc \in {"fill", "filled", "reset"} => \A r \in Reader : Sent < Taken(r) + MaxChunks
    /\ wpc = "reset" => /\ data[widx] = Content(Sent + 1)
                        /\ \A q \in Reader : q < scan => read[widx][q] = 0

\* What a reader has yet to take is in the ring, flagged as new to it.
Unread ==
    \A r \in Reader : \A i \in Nat : Taken(r) <= i /\ i < Sent =>
        /\ written[Slot(i)] = 1 /\ read[Slot(i)][r] = 0
        /\ data[Slot(i)] = Content(i + 1)

\* What it has taken is flagged as read until the chunk is written again.
AlreadyRead ==
    \A r \in Reader : \A i \in Nat : Sent <= i + MaxChunks /\ i < Taken(r) /\ written[Slot(i)] = 1 =>
        read[Slot(i)][r] = 1

\* In the first round the chunks ahead of the writer are not written.
Unused == \A c \in Chunk : Sent <= c => written[c] = 0

\* A reader takes only what was sent, and goes to the socket only for a big message.
Behind ==
    \A r \in Reader : /\ rpc[r] \in {"load", "mark"} => Taken(r) < Sent
                      /\ rpc[r] = "recv" => Taken(r) \in Big

\* A reader's socket holds the big messages that it has not received, in order,
\* but for the last one while the writer is about to send it.
Queued(s, m) == \E i \in 1..Len(s) : s[i] = m
Ordered(s) == \A i, j \in 1..Len(s) : i < j => s[i] < s[j]
InSocket(r) ==
    /\ Ordered(sock[r])
    /\ \A i \in 1..Len(sock[r]) : /\ sock[r][i] \in Big
                                  /\ Len(got[r]) < sock[r][i] /\ sock[r][i] <= Sent
                                  /\ wpc = "send" => sock[r][i] < Sent
    /\ wpc = "send" => Len(got[r]) < Sent
    /\ \A m \in Big : /\ Len(got[r]) < m /\ m <= Sent
                      /\ m = Sent => wpc \notin {"send", "dead"}
                      => Queued(sock[r], m)
Socket ==
    /\ got \in [Reader -> Seq(Nat)] /\ sock \in [Reader -> Seq(Nat)]
    /\ wpc = "send" => Sent \in Big
    /\ \A r \in Reader : InSocket(r)

QueueInv ==
    RingInv /\ Positions /\ Acquired /\ Unread /\ AlreadyRead /\ Unused /\ Behind /\ Socket

-----------------------------------------------------------------------------

LEMMA SlotDiv ==
    ASSUME NEW i \in Nat
    PROVE  /\ i \div MaxChunks \in Nat /\ Slot(i) \in 0..(MaxChunks - 1)
           /\ i = MaxChunks * (i \div MaxChunks) + Slot(i)
BY ShmRingAssumption DEF Slot

LEMMA Multiple ==
    ASSUME NEW d \in Int, NEW M \in Nat \ {0}, M * d < M, 0 - M < M * d
    PROVE  d = 0
<1>1. CASE d >= 1
  <2>1. M * d >= M
    BY <1>1, SMT
  <2> QED BY <2>1
<1>2. CASE d <= 0 - 1
  <2>1. M * d <= 0 - M
    BY <1>2, SMT
  <2> QED BY <2>1
<1> QED BY <1>1, <1>2

LEMMA SlotUnique ==
    ASSUME NEW i \in Nat, NEW q \in Int, NEW s \in 0..(MaxChunks - 1), i = MaxChunks * q + s
    PROVE  Slot(i) = s
<1> DEFINE M == MaxChunks
           d == q - (i \div MaxChunks)
<1>0. M \in Nat \ {0}
  BY ShmRingAssumption
<1>1. i = M * (i \div MaxChunks) + Slot(i) /\ i \div MaxChunks \in Nat /\ Slot(i) \in 0..(M - 1)
  BY SlotDiv
<1>2. M * d = Slot(i) - s
  <2>1. M * q = i - s /\ M * (i \div MaxChunks) = i - Slot(i)
    BY <1>0, <1>1
  <2>2. M * d = M * q - M * (i \div MaxChunks)
    BY <1>0, <1>1
  <2> QED BY <1>0, <1>1, <2>1, <2>2
<1>3. d \in Int /\ M * d < M /\ 0 - M < M * d
  BY <1>0, <1>1, <1>2
<1>4. d = 0
  BY <1>0, <1>3, Multiple
<1>5. M * d = 0
  BY <1>0, <1>4
<1> QED BY <1>1, <1>2, <1>5

LEMMA SlotChunk == \A i \in Nat : Slot(i) \in Chunk
BY SlotDiv DEF Chunk

LEMMA SlotFirst == \A i \in Chunk : Slot(i) = i
<1> SUFFICES ASSUME NEW i \in Chunk PROVE Slot(i) = i
  OBVIOUS
<1>1. i \in Nat /\ i \in 0..(MaxChunks - 1) /\ i = MaxChunks * 0 + i
  BY ShmRingAssumption DEF Chunk
<1> QED BY <1>1, SlotUnique

LEMMA SlotAgain == \A i \in Nat : Slot(i + MaxChunks) = Slot(i)
<1> SUFFICES ASSUME NEW i \in Nat PROVE Slot(i + MaxChunks) = Slot(i)
  OBVIOUS
<1> DEFINE q == i \div MaxChunks
<1>1. i = MaxChunks * q + Slot(i) /\ q \in Nat /\ Slot(i) \in 0..(MaxChunks - 1)
  BY SlotDiv
<1>2. i + MaxChunks = MaxChunks * (q + 1) + Slot(i)
  BY <1>1, ShmRingAssumption
<1>3. i + MaxChunks \in Nat /\ q + 1 \in Int
  BY <1>1, ShmRingAssumption
<1> QED BY <1>1, <1>2, <1>3, SlotUnique

LEMMA SlotNext == \A i \in Nat : Slot(i + 1) = (Slot(i) + 1) % MaxChunks
<1> SUFFICES ASSUME NEW i \in Nat PROVE Slot(i + 1) = (Slot(i) + 1) % MaxChunks
  OBVIOUS
<1> DEFINE q == i \div MaxChunks
           s == Slot(i)
<1>0. MaxChunks \in Nat \ {0}
  BY ShmRingAssumption
<1>1. i = MaxChunks * q + s /\ q \in Nat /\ s \in 0..(MaxChunks - 1)
  BY SlotDiv
<1>2. Slot(s + 1) = (s + 1) % MaxChunks
  BY DEF Slot
<1> HIDE DEF q, s
<1>3. CASE s + 1 < MaxChunks
  <2>1. s + 1 \in Chunk /\ i + 1 = MaxChunks * q + (s + 1)
    BY <1>0, <1>1, <1>3 DEF Chunk
  <2>2. Slot(i + 1) = s + 1
    BY <1>0, <1>1, <2>1, SlotUnique DEF Chunk
  <2> QED BY <1>2, <2>1, <2>2, SlotFirst DEF s
<1>4. CASE s + 1 = MaxChunks
  <2>1. i + 1 = MaxChunks * (q + 1) + 0 /\ s + 1 = MaxChunks * 1 + 0
    BY <1>0, <1>1, <1>4
  <2>0. i + 1 \in Nat /\ s + 1 \in Nat /\ q + 1 \in Int /\ 0 \in 0..(MaxChunks - 1)
    BY <1>0, <1>1
  <2>2. Slot(i + 1) = 0
    BY <2>0, <2>1, SlotUnique
  <2>3. Slot(s + 1) = 0
    BY <2>0, <2>1, SlotUnique
  <2> QED BY <1>2, <2>2, <2>3 DEF s
<1> QED BY <1>0, <1>1, <1>3, <1>4

LEMMA SlotDistinct ==
    \A i, j \in Nat : i < j /\ j < i + MaxChunks => Slot(i) # Slot(j)
<1> SUFFICES ASSUME NEW i \in Nat, NEW j \in Nat, i < j, j < i + MaxChunks, Slot(i) = Slot(j)
             PROVE  FALSE
  OBVIOUS
<1> DEFINE M == MaxChunks
           d == (j \div MaxChunks) - (i \div MaxChunks)
<1>0. M \in Nat \ {0}
  BY ShmRingAssumption
<1>1. /\ i = M * (i \div MaxChunks) + Slot(i) /\ i \div MaxChunks \in Nat
      /\ j = M * (j \div MaxChunks) + Slot(j) /\ j \div MaxChunks \in Nat
      /\ Slot(i) \in 0..(M - 1)
  BY SlotDiv
<1>2. M * d = j - i
  BY <1>0, <1>1
<1>3. d \in Int /\ M * d < M /\ 0 - M < M * d
  BY <1>0, <1>1, <1>2
<1>4. d = 0
  BY <1>0, <1>3, Multiple
<1>5. M * d = 0
  BY <1>0, <1>4
<1> QED BY <1>2, <1>5

-----------------------------------------------------------------------------

LEMMA QueueInvInit == Init => QueueInv
<1> SUFFICES ASSUME Init PROVE QueueInv
  OBVIOUS
<1> USE ShmRingAssumption
<1>1. RingInv
  BY RingInvInit
<1>2. Sent = 0 /\ \A r \in Reader : Taken(r) = 0
  BY DEF Init, Sent, Taken
<1>3. Slot(0) = 0
  BY SlotFirst DEF Chunk
<1>4. Positions
  BY <1>2, <1>3 DEF Init, Positions
<1>5. Acquired /\ Unused /\ Behind
  BY DEF Init, Acquired, Unused, Behind
<1>6. Unread /\ AlreadyRead
  BY <1>2 DEF Unread, AlreadyRead
<1>7. Socket
  BY <1>2 DEF Init, Socket, InSocket, Ordered, Message, Sent
<1> QED BY <1>1, <1>4, <1>5, <1>6, <1>7 DEF QueueInv

\* Lengths and indices are numbers.
LEMMA Counts ==
    ASSUME QueueInv
    PROVE  /\ Sent \in Nat /\ \A r \in Reader : Taken(r) \in Nat /\ Len(got[r]) \in Nat
           /\ MaxChunks \in Nat \ {0}
BY ShmRingAssumption DEF QueueInv, RingInv, RingTypes, Socket, Sent, Taken

LEMMA TakenIs ==
    ASSUME NEW r \in Reader, Len(got[r]) \in Nat
    PROVE  /\ rpc[r] = "recv" => Taken(r) = Len(got[r]) + 1
           /\ rpc[r] # "recv" => Taken(r) = Len(got[r])
<1>1. CASE rpc[r] = "recv"
  BY <1>1 DEF Taken
<1>2. CASE rpc[r] # "recv"
  <2>1. Taken(r) = Len(got[r]) + 0
    BY <1>2 DEF Taken
  <2> QED BY <1>2, <2>1
<1> QED BY <1>1, <1>2

\* Steps that leave the ring, the history and the writer alone and do not move
\* a reader to or from its socket.
LEMMA QuietStep ==
    ASSUME QueueInv,
           UNCHANGED <<written, read, data, wpc, widx, scan, ridx, sock, sent, got>>,
           \A q \in Reader : rpc'[q] = "recv" <=> rpc[q] = "recv"
    PROVE  /\ Sent' = Sent /\ \A q \in Reader : Taken(q)' = Taken(q)
           /\ (Positions /\ Acquired /\ Unread /\ AlreadyRead /\ Unused /\ Socket)'
<1>1. Sent' = Sent /\ \A q \in Reader : Taken(q)' = Taken(q)
  BY Zenon DEF Sent, Taken
<1>2. Positions' /\ Acquired'
  BY <1>1 DEF QueueInv, Positions, Acquired
<1>3. Unread' /\ AlreadyRead' /\ Unused'
  BY <1>1 DEF QueueInv, Unread, AlreadyRead, Unused
<1>4. Socket'
  BY <1>1 DEF QueueInv, Socket, InSocket
<1> QED BY <1>1, <1>2, <1>3, <1>4

\* A chunk that no reader still has to take is not among the unread ones.
LEMMA AcquiredIsFree ==
    ASSUME QueueInv, \A r \in Reader : Sent < Taken(r) + MaxChunks,
           NEW r \in Reader, NEW i \in Nat, Taken(r) <= i, i < Sent
    PROVE  Slot(i) # widx
BY Counts, SlotDistinct DEF QueueInv, Positions

LEMMA WriterKeepsQueueInv ==
    ASSUME QueueInv, Writer
    PROVE  QueueInv'
<1> USE ShmRingAssumption
<1>0. /\ RingTypes /\ ScanBound /\ WriterOwnsChunk /\ Positions /\ Acquired /\ Unread
      /\ AlreadyRead /\ Unused /\ Behind /\ Socket
  BY DEF QueueInv, RingInv
<1>1. RingInv'
  BY WriterKeepsRingInv DEF QueueInv
<1>2. /\ Sent \in Nat /\ \A r \in Reader : Taken(r) \in Nat /\ Len(got[r]) \in Nat
      /\ MaxChunks \in Nat \ {0}
  BY Counts
<1>3. ASSUME UNCHANGED <<readers, sent, got>>
      PROVE  /\ Sent' = Sent /\ \A q \in Reader : Taken(q)' = Taken(q)
             /\ Behind'
  <2>1. UNCHANGED <<rpc, sent, got>>
    BY <1>3 DEF readers
  <2>2. Sent' = Sent /\ \A q \in Reader : Taken(q)' = Taken(q)
    BY <2>1 DEF Sent, Taken
  <2> QED BY <1>0, <2>1, <2>2 DEF Behind
<1>4. CASE enqueue \/ ScanFlag \/ Spin \/ notify
  <2>1. UNCHANGED <<written, read, data, widx, ridx, sock, sent, got>> /\ UNCHANGED <<readers, sent, got>>
    BY <1>4 DEF enqueue, ScanFlag, Spin, notify, ring, readers
  <2>2. Positions' /\ Unread' /\ AlreadyRead' /\ Unused'
    BY <1>0, <1>3, <2>1 DEF Positions, Unread, AlreadyRead, Unused
  <2>3. /\ wpc' \in {"scan", "idle"} /\ wpc \in {"idle", "scan", "notify"}
        /\ wpc' = "scan" => Sent < NumMessages
    BY <1>0, <1>2, <1>4 DEF enqueue, ScanFlag, Spin, notify, Acquired, msg, Sent
  <2>4. Acquired'
    BY <1>3, <2>1, <2>3 DEF Acquired
  <2>5. Socket'
    BY <1>0, <1>3, <2>1, <2>3 DEF Socket, InSocket
  <2> QED BY <1>1, <1>3, <2>1, <2>2, <2>4, <2>5 DEF QueueInv
<1>5. CASE acquire_write
  <2>1. /\ UNCHANGED <<read, data, widx, scan, ridx, sock, sent, got>> /\ UNCHANGED <<readers, sent, got>>
        /\ written' = [written EXCEPT ![widx] = 0] /\ wpc = "scan" /\ wpc' = "fill"
    BY <1>5 DEF acquire_write, readers
  <2>2. ASSUME NEW r \in Reader PROVE Sent < Taken(r) + MaxChunks
    <3> SUFFICES ASSUME Sent = Taken(r) + MaxChunks PROVE FALSE
      BY <1>0, <1>2 DEF Positions
    <3>1. Slot(Taken(r)) = widx
      BY <1>0, <1>2, SlotAgain DEF Positions
    <3>2. written[widx] = 1 /\ read[widx][r] = 0
      BY <1>0, <1>2, <3>1 DEF Unread
    <3>3. scan = NumReaders + 1 /\ count = NumReaders
      BY <1>0, <1>5, <3>2 DEF acquire_write, CanWrite, ScanBound, RingTypes
    <3> QED BY <1>0, <2>1, <3>2, <3>3 DEF ScanBound, Reader
  <2>3. Positions' /\ Acquired'
    BY <1>0, <1>3, <2>1, <2>2 DEF Positions, Acquired
  <2>4. Unread'
    <3> SUFFICES ASSUME NEW r \in Reader, NEW i \in Nat, Taken(r) <= i, i < Sent
                 PROVE  written'[Slot(i)] = 1 /\ read'[Slot(i)][r] = 0 /\ data'[Slot(i)] = Content(i + 1)
      BY <1>3, <2>1 DEF Unread
    <3>1. Slot(i) # widx
      BY <2>2, AcquiredIsFree
    <3> QED BY <1>0, <2>1, <3>1, SlotChunk DEF Unread, RingTypes
  <2>5. \A c \in Chunk : written'[c] = 1 => written[c] = 1
    BY <1>0, <2>1 DEF RingTypes
  <2>6. \A c \in Chunk : written[c] = 0 => written'[c] = 0
    BY <1>0, <2>1 DEF RingTypes
  <2>7. AlreadyRead' /\ Unused'
    BY <1>0, <1>3, <2>1, <2>5, <2>6, SlotChunk DEF AlreadyRead, Unused
  <2>8. Socket'
    BY <1>0, <1>3, <2>1 DEF Socket, InSocket
  <2> QED BY <1>1, <1>3, <2>1, <2>3, <2>4, <2>7, <2>8 DEF QueueInv
<1>6. CASE Fill \/ Filled
  <2>1. /\ UNCHANGED <<written, read, widx, ridx, sock, sent, got>> /\ UNCHANGED <<readers, sent, got>>
        /\ wpc \in {"fill", "filled"} /\ wpc' \in {"filled", "reset"}
        /\ \A c \in Chunk : c # widx => data'[c] = data[c]
        /\ wpc' = "reset" => data'[widx] = Content(Sent + 1) /\ scan' = 1
    BY <1>0, <1>6 DEF Fill, Filled, readers, RingTypes, Content, msg, Sent
  <2>2. Positions' /\ AlreadyRead' /\ Unused'
    BY <1>0, <1>3, <2>1, Zenon DEF Positions, AlreadyRead, Unused
  <2>3. Acquired'
    <3>1. scan' = 1 => \A q \in Reader : ~(q < scan')
      BY DEF Reader
    <3>2. Sent' = Sent /\ \A q \in Reader : Taken(q)' = Taken(q)
      BY <1>3, <2>1, Zenon
    <3>3. wpc' = "reset" => data'[widx'] = Content(Sent' + 1)
      BY <2>1, <3>2, Zenon
    <3> QED BY <1>0, <2>1, <3>1, <3>2, <3>3, Zenon DEF Acquired
  <2>4. Unread'
    <3> SUFFICES ASSUME NEW r \in Reader, NEW i \in Nat, Taken(r) <= i, i < Sent
                 PROVE  written'[Slot(i)] = 1 /\ read'[Slot(i)][r] = 0 /\ data'[Slot(i)] = Content(i + 1)
      BY <1>3, <2>1, Zenon DEF Unread
    <3>1. Slot(i) # widx
      BY <1>0, <2>1, AcquiredIsFree, Zenon DEF Acquired
    <3> QED BY <1>0, <2>1, <3>1, SlotChunk, Zenon DEF Unread
  <2>5. Socket'
    <3>1. Sent' = Sent /\ UNCHANGED <<got, sock>> /\ wpc' \notin {"send", "dead"} /\ wpc \notin {"send", "dead"}
      BY <1>3, <2>1, Zenon
    <3> QED BY <1>0, <3>1, Zenon DEF Socket, InSocket
  <2> QED BY <1>1, <1>3, <2>1, <2>2, <2>3, <2>4, <2>5 DEF QueueInv
<1>7. CASE ResetFlag
  <2>1. /\ UNCHANGED <<written, data, wpc, widx, ridx, sock, sent, got>> /\ UNCHANGED <<readers, sent, got>>
        /\ wpc = "reset" /\ scan \in Nat /\ scan' = scan + 1 /\ widx \in Chunk
    BY <1>0, <1>7 DEF ResetFlag, readers, RingTypes
  <2>2. /\ \A c \in Chunk : \A q \in Reader : read[c][q] = 0 => read'[c][q] = 0
        /\ \A c \in Chunk : \A q \in Reader : c # widx => read'[c][q] = read[c][q]
        /\ scan \in Reader => read'[widx][scan] = 0
    BY <1>0, <1>7, <2>1 DEF ResetFlag, RingTypes
  <2>3. Positions' /\ Unused'
    BY <1>0, <1>3, <2>1 DEF Positions, Unused
  <2>4. Acquired'
    <3>1. ASSUME NEW q \in Reader, q < scan + 1 PROVE read'[widx][q] = 0
      <4>1. q < scan \/ q = scan
        BY <2>1, <3>1 DEF Reader
      <4> QED BY <1>0, <2>1, <2>2, <4>1 DEF Acquired
    <3> QED BY <1>0, <1>3, <2>1, <3>1 DEF Acquired
  <2>5. Unread'
    BY <1>0, <1>3, <2>1, <2>2, SlotChunk DEF Unread
  <2>6. AlreadyRead'
    BY <1>0, <1>3, <2>1, <2>2, SlotChunk DEF AlreadyRead, WriterOwnsChunk
  <2>7. Socket'
    BY <1>0, <1>3, <2>1 DEF Socket, InSocket
  <2> QED BY <1>1, <1>3, <2>1, <2>3, <2>4, <2>5, <2>6, <2>7 DEF QueueInv
<1>8. CASE Publish
  <2>1. /\ UNCHANGED <<read, data, ridx, sock, got, rpc>> /\ wpc = "reset"
        /\ written' = [written EXCEPT ![widx] = 1] /\ widx \in Chunk /\ scan > NumReaders
        /\ sent' = Append(sent, Sent + 1) /\ widx' = (widx + 1) % MaxChunks
        /\ wpc' = IF Sent + 1 \in Big THEN "send" ELSE "notify"
    BY <1>0, <1>8 DEF Publish, readers, RingTypes, msg, Sent
  <2>2. /\ Sent' = Sent + 1 /\ \A q \in Reader : Taken(q)' = Taken(q)
        /\ \A i \in 1..Sent : sent'[i] = sent[i]
        /\ sent'[Sent + 1] = Sent + 1
    BY <1>0, <2>1 DEF Sent, Taken, RingTypes
  <2>3. /\ Sent < NumMessages /\ data[widx] = Content(Sent + 1) /\ widx = Slot(Sent)
        /\ \A r \in Reader : Sent < Taken(r) + MaxChunks /\ read[widx][r] = 0
    BY <1>0, <2>1 DEF Acquired, Positions, Reader, RingTypes
  <2>4. Positions'
    <3>1. widx' = Slot(Sent + 1)
      BY <1>2, <2>1, <2>3, SlotNext
    <3>2. \A i \in 1..(Sent + 1) : sent'[i] = i
      BY <1>0, <1>2, <2>2 DEF Positions
    <3> QED BY <1>0, <1>2, <2>1, <2>2, <2>3, <3>1, <3>2 DEF Positions
  <2>5. Acquired' /\ Behind'
    BY <1>0, <1>2, <2>1, <2>2 DEF Acquired, Behind
  <2>6. \A c \in Chunk : IF c = widx THEN written'[c] = 1 ELSE written'[c] = written[c]
    BY <1>0, <2>1 DEF RingTypes
  <2>7. Unread'
    <3> SUFFICES ASSUME NEW r \in Reader, NEW i \in Nat, Taken(r) <= i, i < Sent + 1
                 PROVE  written'[Slot(i)] = 1 /\ read[Slot(i)][r] = 0 /\ data[Slot(i)] = Content(i + 1)
      BY <2>1, <2>2 DEF Unread
    <3>1. CASE i = Sent
      BY <2>1, <2>3, <2>6, <3>1
    <3>2. CASE i < Sent
      BY <1>0, <2>6, <3>2, SlotChunk DEF Unread
    <3> QED BY <1>2, <3>1, <3>2
  <2>8. AlreadyRead'
    <3> SUFFICES ASSUME NEW r \in Reader, NEW i \in Nat, Sent + 1 <= i + MaxChunks, i < Taken(r),
                        written'[Slot(i)] = 1
                 PROVE  read[Slot(i)][r] = 1
      BY <2>1, <2>2, Zenon DEF AlreadyRead
    <3>1. i < Sent /\ Sent < i + MaxChunks
      BY <1>0, <1>2 DEF Positions
    <3>2. Slot(i) # widx
      BY <1>2, <2>3, <3>1, SlotDistinct
    <3>3. written[Slot(i)] = 1
      BY <2>6, <3>2, SlotChunk
    <3> QED BY <1>0, <1>2, <3>1, <3>3 DEF AlreadyRead
  <2>9. Unused'
    <3> SUFFICES ASSUME NEW c \in Chunk, Sent + 1 <= c PROVE written'[c] = 0
      BY <2>2 DEF Unused
    <3>1. Sent \in Chunk /\ Sent # c
      BY <1>2 DEF Chunk
    <3>2. widx # c
      BY <2>3, <3>1, SlotFirst
    <3> QED BY <1>0, <1>2, <2>6, <3>2 DEF Unused, Chunk
  <2>10. Socket'
    <3>1. ASSUME NEW r \in Reader PROVE Len(got[r]) <= Sent
      <4>1. Len(got[r]) <= Taken(r)
        BY <1>2, TakenIs
      <4>2. Taken(r) <= Sent
        BY <1>0 DEF Positions
      <4> QED BY <1>2, <4>1, <4>2
    <3>2. wpc' = "send" => Sent + 1 \in Big
      BY <2>1
    <3>3. \A r \in Reader : \A m \in Big : Len(got[r]) < m /\ m <= Sent => Queued(sock[r], m)
      BY <1>0, <2>1 DEF Socket, InSocket
    <3>4. ASSUME NEW m \in Big, m <= Sent + 1, m = Sent + 1 => wpc' \notin {"send", "dead"}
          PROVE  m <= Sent
      BY <1>2, <2>1, <3>4 DEF Message
    <3>5. ASSUME NEW r \in Reader, NEW i \in 1..Len(sock[r])
          PROVE  /\ sock[r][i] \in Big /\ Len(got[r]) < sock[r][i]
                 /\ sock[r][i] <= Sent + 1 /\ sock[r][i] < Sent + 1
      <4>1. sock[r][i] \in Big /\ Len(got[r]) < sock[r][i] /\ sock[r][i] <= Sent
        BY <1>0 DEF Socket, InSocket
      <4>2. sock[r][i] \in Nat
        <5>1. sock[r] \in Seq(Nat)
          BY <1>0 DEF Socket
        <5> QED BY <5>1
      <4> QED BY <1>2, <4>1, <4>2
    <3>6. \A r \in Reader : Len(got[r]) < Sent + 1
      BY <1>2, <3>1
    <3>7. \A r \in Reader : Ordered(sock[r])
      BY <1>0 DEF Socket, InSocket
    <3> QED BY <1>0, <2>1, <2>2, <3>2, <3>3, <3>4, <3>5, <3>6, <3>7 DEF Socket, InSocket
  <2> QED BY <1>1, <2>4, <2>5, <2>7, <2>8, <2>9, <2>10 DEF QueueInv
<1>9. CASE send_multipart
  <2>1. /\ UNCHANGED <<written, read, data, widx, ridx, sent, got>> /\ UNCHANGED <<readers, sent, got>>
        /\ wpc = "send" /\ wpc' = "notify"
        /\ sock' = [r \in Reader |-> Append(sock[r], Sent)]
    BY <1>9 DEF send_multipart, ring, readers, Sent
  <2>2. Positions' /\ Acquired' /\ Unread' /\ AlreadyRead' /\ Unused'
    <3>1. Positions' /\ Acquired'
      BY <1>0, <1>3, <2>1 DEF Positions, Acquired
    <3>2. Unread'
      BY <1>0, <1>3, <2>1, Zenon DEF Unread
    <3>3. AlreadyRead' /\ Unused'
      BY <1>0, <1>3, <2>1, Zenon DEF AlreadyRead, Unused
    <3> QED BY <3>1, <3>2, <3>3
  <2>3. Socket'
    <3>1. sock' \in [Reader -> Seq(Nat)]
      BY <1>0, <1>2, <2>1 DEF Socket
    <3>2. ASSUME NEW r \in Reader
          PROVE  /\ Ordered(sock'[r])
                 /\ \A i \in 1..Len(sock'[r]) :
                        sock'[r][i] \in Big /\ Len(got[r]) < sock'[r][i] /\ sock'[r][i] <= Sent
                 /\ \A m \in Big : Len(got[r]) < m /\ m <= Sent => Queued(sock'[r], m)
      <4> DEFINE s == sock[r]
                 n == Len(s)
      <4>1. /\ s \in Seq(Nat) /\ n \in Nat /\ sock'[r] = Append(s, Sent)
            /\ Len(sock'[r]) = n + 1 /\ sock'[r][n + 1] = Sent
            /\ \A i \in 1..n : sock'[r][i] = s[i]
        BY <1>0, <1>2, <2>1 DEF Socket, InSocket
      <4>2. /\ Ordered(s) /\ Sent \in Big /\ Len(got[r]) < Sent
            /\ \A i \in 1..n : s[i] \in Big /\ Len(got[r]) < s[i] /\ s[i] < Sent
            /\ \A m \in Big : Len(got[r]) < m /\ m <= Sent /\ m # Sent => Queued(s, m)
        BY <1>0, <2>1 DEF Socket, InSocket
      <4>3. \A i \in 1..n : s[i] \in Nat
        BY <4>1
      <4>4. Ordered(sock'[r])
        <5> SUFFICES ASSUME NEW i \in 1..(n + 1), NEW j \in 1..(n + 1), i < j
                     PROVE  sock'[r][i] < sock'[r][j]
          BY <4>1 DEF Ordered
        <5>1. i \in 1..n /\ (j \in 1..n \/ j = n + 1)
          BY <4>1
        <5> QED BY <1>2, <4>1, <4>2, <4>3, <5>1 DEF Ordered
      <4>5. \A i \in 1..Len(sock'[r]) :
                sock'[r][i] \in Big /\ Len(got[r]) < sock'[r][i] /\ sock'[r][i] <= Sent
        BY <1>2, <4>1, <4>2, <4>3
      <4>6. ASSUME NEW m \in Big, Len(got[r]) < m, m <= Sent PROVE Queued(sock'[r], m)
        <5>1. CASE m = Sent
          BY <4>1, <5>1 DEF Queued
        <5>2. CASE m # Sent
          BY <4>1, <4>2, <4>6, <5>2 DEF Queued
        <5> QED BY <5>1, <5>2
      <4> QED BY <4>4, <4>5, <4>6
    <3> QED BY <1>0, <1>3, <2>1, <3>1, <3>2 DEF Socket, InSocket
  <2> QED BY <1>1, <1>3, <2>1, <2>2, <2>3 DEF QueueInv
<1> QED BY <1>4, <1>5, <1>6, <1>7, <1>8, <1>9 DEF Writer

LEMMA TailFacts ==
    ASSUME NEW s \in Seq(Nat), s # <<>>
    PROVE  /\ Len(s) \in Nat \ {0} /\ Head(s) = s[1] /\ Head(s) \in Nat
           /\ Tail(s) \in Seq(Nat) /\ Len(Tail(s)) = Len(s) - 1
           /\ \A i \in 1..(Len(s) - 1) : Tail(s)[i] = s[i + 1]
           /\ \A i \in 1..Len(s) : s[i] \in Nat
<1>1. Len(s) \in Nat /\ \A i \in 1..Len(s) : s[i] \in Nat
  OBVIOUS
<1>2. Len(s) # 0
  OBVIOUS
<1>3. Head(s) = s[1] /\ Head(s) \in Nat
  BY <1>1, <1>2
<1>4. Tail(s) \in Seq(Nat) /\ Len(Tail(s)) = Len(s) - 1
  BY <1>1, <1>2
<1>5. \A i \in 1..(Len(s) - 1) : Tail(s)[i] = s[i + 1]
  BY <1>1, <1>2
<1> QED BY <1>1, <1>2, <1>3, <1>4, <1>5

\* The first message in the socket is the one that the reader was told to expect.
LEMMA HeadIsNext ==
    ASSUME QueueInv, NEW r \in Reader, rpc[r] = "recv", sock[r] # <<>>
    PROVE  Head(sock[r]) = Len(got[r]) + 1
<1> DEFINE g == Len(got[r])
           s == sock[r]
<1>1. /\ s \in Seq(Nat) /\ Ordered(s)
      /\ \A i \in 1..Len(s) : g < s[i] /\ s[i] <= Sent
      /\ \A m \in Big : g < m /\ m <= Sent /\ m # Sent => Queued(s, m)
  BY DEF QueueInv, Socket, InSocket
<1>2. g \in Nat /\ Sent \in Nat /\ g + 1 \in Big /\ g + 1 <= Sent
  BY Counts, TakenIs DEF QueueInv, Behind, Positions
<1>3. Len(s) \in Nat /\ 1 \in 1..Len(s) /\ Head(s) = s[1] /\ \A i \in 1..Len(s) : s[i] \in Nat
  BY <1>1
<1>4. CASE g + 1 = Sent
  BY <1>1, <1>2, <1>3, <1>4
<1>5. CASE g + 1 < Sent
  <2>1. Queued(s, g + 1)
    BY <1>1, <1>2, <1>5
  <2>2. PICK i \in 1..Len(s) : s[i] = g + 1
    BY <2>1 DEF Queued
  <2>3. i = 1 \/ s[1] < s[i]
    BY <1>1, <1>3 DEF Ordered
  <2> QED BY <1>1, <1>2, <1>3, <2>2, <2>3
<1> QED BY <1>2, <1>4, <1>5

\* What a reader has copied from its chunk is the next message for it.
LEMMA CopyIsNext ==
    ASSUME QueueInv, NEW r \in Reader, rpc[r] = "mark"
    PROVE  /\ Taken(r) \in Nat /\ Taken(r) < Sent /\ Taken(r) = Len(got[r])
           /\ ridx[r] = Slot(Taken(r)) /\ rdata[r] = Content(Taken(r) + 1)
<1>1. Taken(r) \in Nat /\ Taken(r) = Len(got[r])
  BY Counts, TakenIs
<1>2. Taken(r) < Sent /\ ridx[r] = Slot(Taken(r)) /\ rdata[r] = data[ridx[r]]
  BY DEF QueueInv, RingInv, ReadersSeeWholeChunks, Behind, Positions
<1>3. \A i \in Nat : Taken(r) <= i /\ i < Sent => data[Slot(i)] = Content(i + 1)
  BY DEF QueueInv, Unread
<1>4. Taken(r) <= Taken(r)
  BY <1>1
<1>5. data[Slot(Taken(r))] = Content(Taken(r) + 1)
  BY <1>1, <1>2, <1>3, <1>4, Zenon
<1> QED BY <1>1, <1>2, <1>5

LEMMA ReaderKeepsQueueInv ==
    ASSUME NEW r \in Reader, QueueInv, dequeue(r)
    PROVE  QueueInv'
<1> USE ShmRingAssumption
<1>0. /\ RingTypes /\ WriterOwnsChunk /\ FlagIsOwn /\ ReadersSeeWholeChunks /\ Positions /\ Acquired
      /\ Unread /\ AlreadyRead /\ Unused /\ Behind /\ Socket
  BY DEF QueueInv, RingInv
<1>1. RingInv'
  BY ReaderKeepsRingInv DEF QueueInv
<1>2. /\ Sent \in Nat /\ \A q \in Reader : Taken(q) \in Nat /\ Len(got[q]) \in Nat
      /\ MaxChunks \in Nat \ {0}
  BY Counts
<1>3. CASE ReadFlag(r) \/ Yield(r) \/ Poll(r) \/ Load(r)
  <2>1. UNCHANGED <<written, read, data, wpc, widx, scan, ridx, sock, sent, got>>
    BY <1>3, Zenon DEF ReadFlag, Yield, Poll, Load, ring, writer
  <2>2. /\ rpc[r] # "recv" /\ rpc'[r] \notin {"recv", "load"} /\ (rpc'[r] = "mark" => rpc[r] = "load")
        /\ \A q \in Reader \ {r} : rpc'[q] = rpc[q]
    BY <1>0, <1>3, Zenon DEF ReadFlag, Yield, Poll, Load, Goto, Woken, RingTypes
  <2>3. /\ Sent' = Sent /\ \A q \in Reader : Taken(q)' = Taken(q)
        /\ (Positions /\ Acquired /\ Unread /\ AlreadyRead /\ Unused /\ Socket)'
    BY <2>1, <2>2, QuietStep, Zenon
  <2>4. Behind'
    BY <1>0, <2>2, <2>3, Zenon DEF Behind
  <2> QED BY <1>1, <2>3, <2>4 DEF QueueInv
<1>4. CASE CheckWritten(r)
  <2>1. UNCHANGED <<written, read, data, wpc, widx, scan, ridx, sock, sent, got>>
    BY <1>4, Zenon DEF CheckWritten, ring, writer
  <2>2. /\ rpc[r] = "check" /\ rpc'[r] \notin {"recv", "mark"}
        /\ rpc'[r] = "load" => written[ridx[r]] # 0 /\ rflag[r] # 1
        /\ \A q \in Reader \ {r} : rpc'[q] = rpc[q]
    BY <1>0, <1>4 DEF CheckWritten, Goto, RingTypes
  <2>3. /\ Sent' = Sent /\ \A q \in Reader : Taken(q)' = Taken(q)
        /\ (Positions /\ Acquired /\ Unread /\ AlreadyRead /\ Unused /\ Socket)'
    BY <2>1, <2>2, QuietStep, Zenon
  <2>4. ASSUME rpc'[r] = "load" PROVE Taken(r) < Sent
    <3> SUFFICES ASSUME Taken(r) = Sent PROVE FALSE
      BY <1>0, <1>2 DEF Positions
    <3>1. ridx[r] = Slot(Sent) /\ ridx[r] \in Chunk
      BY <1>0 DEF Positions, RingTypes
    <3>2. written[ridx[r]] = 1 /\ read[ridx[r]][r] = 0
      BY <1>0, <2>2, <2>4, <3>1 DEF RingTypes, FlagIsOwn
    <3>3. CASE Sent < MaxChunks
      <4>1. Sent \in Chunk
        BY <1>2, <3>3 DEF Chunk
      <4> QED BY <1>0, <1>2, <3>1, <3>2, <4>1, SlotFirst DEF Unused
    <3>4. CASE MaxChunks <= Sent
      <4> DEFINE i == Sent - MaxChunks
      <4>1. i \in Nat /\ i + MaxChunks = Sent /\ i < Sent
        BY <1>2, <3>4
      <4>2. Slot(i) = ridx[r]
        BY <3>1, <4>1, SlotAgain
      <4> QED BY <1>0, <1>2, <3>2, <4>1, <4>2 DEF AlreadyRead
    <3> QED BY <1>2, <3>3, <3>4
  <2>5. Behind'
    BY <1>0, <2>2, <2>3, <2>4, Zenon DEF Behind
  <2> QED BY <1>1, <2>3, <2>5 DEF QueueInv
<1>5. CASE Mark(r)
  <2> DEFINE k == Taken(r)
  <2>1. /\ rpc[r] = "mark" /\ UNCHANGED <<written, data, wpc, widx, scan, sock, sent>>
        /\ read' = [read EXCEPT ![ridx[r]][r] = 1] /\ ridx[r] \in Chunk
        /\ ridx'[r] = (ridx[r] + 1) % MaxChunks
        /\ \A q \in Reader \ {r} : ridx'[q] = ridx[q] /\ rpc'[q] = rpc[q] /\ got'[q] = got[q]
    BY <1>0, <1>5 DEF Mark, Goto, writer, RingTypes, Socket
  <2>2. k < Sent /\ k = Len(got[r]) /\ ridx[r] = Slot(k) /\ k \in Nat
    BY <2>1, CopyIsNext
  <2>3. rdata[r] = Content(k + 1)
    BY <2>1, CopyIsNext
  <2>4. k + 1 \in Message
    BY <1>0, <1>2, <2>2 DEF Positions, Message
  <2>5. IF k + 1 \in Big THEN rpc'[r] = "recv" /\ got'[r] = got[r]
                         ELSE rpc'[r] = "start" /\ got'[r] = Append(got[r], k + 1)
    <3>1. k + 1 \in Big <=> rdata[r] = Over
      BY <2>3, <2>4 DEF Content, Over, Message
    <3>2. k + 1 \notin Big => rdata[r] = k + 1
      BY <2>3 DEF Content
    <3> QED BY <1>0, <1>5, <3>1, <3>2 DEF Mark, Goto, RingTypes, Socket
  <2>6. Sent' = Sent /\ Taken(r)' = k + 1 /\ \A q \in Reader \ {r} : Taken(q)' = Taken(q)
    <3>1. got[r] \in Seq(Nat)
      BY <1>0 DEF Socket
    <3>2. Sent' = Sent /\ \A q \in Reader \ {r} : Taken(q)' = Taken(q)
      BY <2>1, Zenon DEF Sent, Taken
    <3>3. CASE k + 1 \in Big
      <4>1. rpc'[r] = "recv" /\ got'[r] = got[r]
        BY <2>5, <3>3, Zenon
      <4>2. Taken(r)' = Len(got[r]) + 1
        BY <4>1 DEF Taken
      <4> QED BY <2>2, <3>2, <4>2
    <3>4. CASE k + 1 \notin Big
      <4>1. rpc'[r] = "start" /\ got'[r] = Append(got[r], k + 1)
        BY <2>5, <3>4
      <4>2. Taken(r)' = Len(got'[r]) + 0
        BY <4>1 DEF Taken
      <4>3. Len(got'[r]) = Len(got[r]) + 1
        BY <2>2, <3>1, <4>1
      <4> QED BY <1>2, <2>2, <3>2, <4>2, <4>3
    <3> QED BY <3>3, <3>4
  <2>7. Positions'
    <3>1. ridx'[r] = Slot(k + 1)
      BY <2>1, <2>2, SlotNext
    <3>2. k + 1 <= Sent /\ Sent <= k + 1 + MaxChunks
      BY <1>0, <1>2, <2>2 DEF Positions
    <3> QED BY <1>0, <2>1, <2>6, <3>1, <3>2 DEF Positions
  <2>8. /\ \A c \in Chunk : \A q \in Reader : q # r \/ c # ridx[r] => read'[c][q] = read[c][q]
        /\ read'[ridx[r]][r] = 1
    BY <1>0, <2>1, Zenon DEF RingTypes
  <2>9. Acquired'
    <3>1. wpc = "reset" => ridx[r] # widx
      BY <1>0, <2>1 DEF ReadersSeeWholeChunks, WriterOwnsChunk
    <3>2. widx \in Chunk
      BY <1>0 DEF RingTypes
    <3>3. \A q \in Reader : Sent < Taken(q) + MaxChunks => Sent < Taken(q)' + MaxChunks
      BY <1>2, <2>2, <2>6
    <3>4. wpc = "reset" => \A q \in Reader : q < scan => read'[widx][q] = 0
      BY <1>0, <2>8, <3>1, <3>2 DEF Acquired
    <3> QED BY <1>0, <2>1, <2>6, <3>3, <3>4 DEF Acquired
  <2>10. Unread'
    <3> SUFFICES ASSUME NEW q \in Reader, NEW i \in Nat, Taken(q)' <= i, i < Sent
                 PROVE  written[Slot(i)] = 1 /\ read'[Slot(i)][q] = 0 /\ data[Slot(i)] = Content(i + 1)
      BY <2>1, <2>6 DEF Unread
    <3>1. Taken(q) <= i
      BY <1>2, <2>2, <2>6
    <3>2. q = r => Slot(i) # ridx[r]
      <4>1. Sent <= k + MaxChunks
        BY <1>0 DEF Positions
      <4>2. q = r => k < i /\ i < k + MaxChunks
        BY <1>2, <2>2, <2>6, <4>1
      <4> QED BY <2>2, <4>2, SlotDistinct
    <3>3. Slot(i) \in Chunk /\ written[Slot(i)] = 1 /\ read[Slot(i)][q] = 0 /\ data[Slot(i)] = Content(i + 1)
      BY <1>0, <3>1, SlotChunk DEF Unread
    <3> QED BY <2>8, <3>2, <3>3, Zenon
  <2>11. AlreadyRead'
    <3> SUFFICES ASSUME NEW q \in Reader, NEW i \in Nat, Sent <= i + MaxChunks, i < Taken(q)',
                        written[Slot(i)] = 1
                 PROVE  read'[Slot(i)][q] = 1
      BY <2>1, <2>6 DEF AlreadyRead
    <3>1. CASE q = r /\ i = k
      BY <2>2, <2>8, <3>1
    <3>2. CASE i < Taken(q)
      <4>1. Slot(i) \in Chunk /\ read[Slot(i)][q] = 1
        BY <1>0, <3>2, SlotChunk, Zenon DEF AlreadyRead
      <4> QED BY <2>8, <4>1, Zenon
    <3> QED BY <1>2, <2>2, <2>6, <3>1, <3>2
  <2>12. Unused'
    BY <1>0, <2>1, <2>6 DEF Unused
  <2>13. Behind'
    BY <1>0, <2>1, <2>5, <2>6 DEF Behind
  <2>14. Socket'
    <3>1. got' \in [Reader -> Seq(Nat)] /\ got[r] \in Seq(Nat)
      <4>1. got \in [Reader -> Seq(Nat)] /\ rdata[r] \in Nat
        BY <1>0 DEF Socket, RingTypes
      <4>2. Append(got[r], rdata[r]) \in Seq(Nat)
        BY <4>1
      <4> QED BY <1>5, <4>1, <4>2, Zenon DEF Mark
    <3>2. /\ k <= Len(got'[r]) /\ Len(got'[r]) <= k + 1 /\ Len(got'[r]) \in Nat
          /\ Len(got'[r]) = k + 1 => k + 1 \notin Big
      <4>1. CASE k + 1 \in Big
        BY <2>2, <2>5, <4>1
      <4>2. CASE k + 1 \notin Big
        BY <2>2, <2>5, <3>1, <4>2
      <4> QED BY <4>1, <4>2
    <3>3. \A m \in Big : k < m => Len(got'[r]) < m
      BY <2>2, <3>2 DEF Message
    <3>4. \A m \in Big : Len(got'[r]) < m => k < m
      BY <2>2, <3>2 DEF Message
    <3>5. wpc = "send" => Len(got'[r]) < Sent
      BY <1>0, <2>2, <3>3 DEF Socket, InSocket
    <3>6. InSocket(r)'
      BY <1>0, <2>1, <2>2, <2>6, <3>3, <3>4, <3>5, Zenon DEF Socket, InSocket
    <3>7. ASSUME NEW q \in Reader \ {r} PROVE InSocket(q)'
      BY <1>0, <2>1, <2>6, Zenon DEF Socket, InSocket
    <3> QED BY <1>0, <2>1, <2>6, <3>1, <3>6, <3>7 DEF Socket
  <2> QED BY <1>1, <2>7, <2>9, <2>10, <2>11, <2>12, <2>13, <2>14 DEF QueueInv
<1>6. CASE recv(r)
  <2> DEFINE g == Len(got[r])
             s == sock[r]
  <2>1. /\ rpc[r] = "recv" /\ s # <<>> /\ UNCHANGED <<written, read, data, wpc, widx, scan, ridx, sent>>
        /\ rpc'[r] = "start" /\ got'[r] = Append(got[r], Head(s)) /\ sock'[r] = Tail(s)
        /\ \A q \in Reader \ {r} : rpc'[q] = rpc[q] /\ got'[q] = got[q] /\ sock'[q] = sock[q]
        /\ got[r] \in Seq(Nat) /\ s \in Seq(Nat)
    BY <1>0, <1>6 DEF recv, Goto, ring, writer, RingTypes, Socket
  <2>2. g \in Nat /\ Taken(r) = g + 1 /\ g + 1 <= Sent /\ g + 1 \in Big
    BY <1>0, <1>2, <2>1, TakenIs, Zenon DEF Positions, Behind
  <2>3. Head(s) = g + 1
    BY <2>1, HeadIsNext, Zenon
  <2>4. got' \in [Reader -> Seq(Nat)] /\ sock' \in [Reader -> Seq(Nat)]
    <3>1. Head(s) \in Nat /\ Tail(s) \in Seq(Nat)
      BY <2>1, TailFacts, Zenon
    <3> QED BY <1>0, <1>6, <3>1 DEF recv, Socket
  <2>5. Sent' = Sent /\ \A q \in Reader : Taken(q)' = Taken(q)
    <3>1. Len(got'[r]) = g + 1
      BY <2>1
    <3>2. Taken(r)' = Len(got'[r]) + 0
      BY <2>1 DEF Taken
    <3>3. Sent' = Sent /\ \A q \in Reader \ {r} : Taken(q)' = Taken(q)
      BY <2>1, Zenon DEF Sent, Taken
    <3> QED BY <2>2, <3>1, <3>2, <3>3
  <2>6. Positions' /\ Acquired' /\ Unread' /\ AlreadyRead' /\ Unused'
    <3>1. Positions' /\ Acquired'
      BY <1>0, <2>1, <2>5, Zenon DEF Positions, Acquired
    <3>2. Unread'
      BY <1>0, <2>1, <2>5, Zenon DEF Unread
    <3>3. AlreadyRead' /\ Unused'
      BY <1>0, <2>1, <2>5, Zenon DEF AlreadyRead, Unused
    <3> QED BY <3>1, <3>2, <3>3
  <2>7. Behind'
    BY <1>0, <2>1, <2>5, Zenon DEF Behind
  <2>8. Socket'
    <3>1. /\ Len(sock'[r]) = Len(s) - 1 /\ Len(s) \in Nat \ {0} /\ s[1] = g + 1
          /\ \A i \in 1..Len(sock'[r]) : sock'[r][i] = s[i + 1]
          /\ \A i \in 1..Len(s) : s[i] \in Nat
      <4>1. /\ Len(s) \in Nat \ {0} /\ Head(s) = s[1] /\ Len(Tail(s)) = Len(s) - 1
            /\ \A i \in 1..(Len(s) - 1) : Tail(s)[i] = s[i + 1]
            /\ \A i \in 1..Len(s) : s[i] \in Nat
        BY <2>1, TailFacts
      <4> HIDE DEF s
      <4>2. sock'[r] = Tail(s) /\ Head(s) = g + 1
        BY <2>1, <2>3
      <4> QED BY <4>1, <4>2, Zenon
    <3>2. /\ Ordered(s) /\ \A i \in 1..Len(s) : s[i] \in Big /\ s[i] <= Sent
          /\ wpc = "send" => \A i \in 1..Len(s) : s[i] < Sent
      BY <1>0 DEF Socket, InSocket
    <3>3. Ordered(sock'[r])
      <4> SUFFICES ASSUME NEW i \in 1..Len(sock'[r]), NEW j \in 1..Len(sock'[r]), i < j
                   PROVE  sock'[r][i] < sock'[r][j]
        BY DEF Ordered
      <4>1. i + 1 \in 1..Len(s) /\ j + 1 \in 1..Len(s) /\ i + 1 < j + 1
        BY <3>1
      <4> QED BY <3>1, <3>2, <4>1 DEF Ordered
    <3>4. ASSUME NEW i \in 1..Len(sock'[r])
          PROVE  /\ sock'[r][i] \in Big /\ g + 1 < sock'[r][i] /\ sock'[r][i] <= Sent
                 /\ wpc = "send" => sock'[r][i] < Sent
      <4>1. i + 1 \in 1..Len(s) /\ 1 \in 1..Len(s) /\ 1 < i + 1
        BY <3>1
      <4> QED BY <3>1, <3>2, <4>1 DEF Ordered
    <3>5. ASSUME NEW m \in Big, g + 1 < m, m <= Sent, m = Sent => wpc \notin {"send", "dead"}
          PROVE  Queued(sock'[r], m)
      <4>1. Queued(s, m)
        BY <1>0, <2>2, <3>5 DEF Socket, InSocket, Message
      <4>2. PICK i \in 1..Len(s) : s[i] = m
        BY <4>1 DEF Queued
      <4>3. i # 1 /\ i - 1 \in 1..Len(sock'[r]) /\ (i - 1) + 1 = i
        <5>1. g + 1 # m
          BY <2>2, <3>5
        <5>2. i # 1
          BY <3>1, <4>2, <5>1, Zenon
        <5>3. Len(sock'[r]) = Len(s) - 1 /\ Len(s) \in Nat /\ i \in 1..Len(s)
          BY <3>1, <4>2, Zenon
        <5> HIDE DEF s
        <5> QED BY <5>2, <5>3
      <4> QED BY <3>1, <4>2, <4>3, Zenon DEF Queued
    <3>6. Len(got'[r]) = g + 1
      BY <2>1
    <3>7. wpc = "send" => g + 1 < Sent
      <4>1. 1 \in 1..Len(s)
        BY <3>1
      <4> QED BY <3>1, <3>2, <4>1, Zenon
    <3>8. InSocket(r)'
      BY <2>1, <2>5, <3>3, <3>4, <3>5, <3>6, <3>7, Zenon DEF InSocket
    <3>9. ASSUME NEW q \in Reader \ {r} PROVE InSocket(q)'
      BY <1>0, <2>1, <2>5, Zenon DEF Socket, InSocket
    <3> QED BY <1>0, <2>1, <2>4, <2>5, <3>8, <3>9, Zenon DEF Socket
  <2> QED BY <1>1, <2>6, <2>7, <2>8 DEF QueueInv
<1> QED BY <1>3, <1>4, <1>5, <1>6 DEF dequeue

\* A timeout can come between a big message's flag and its arrival in the socket
\* only if SlowSocket.
LEMMA QueueInvNext ==
    ASSUME ~SlowSocket, QueueInv, [Next]_vars
    PROVE  QueueInv'
<1> USE ShmRingAssumption
<1>0. RingTypes /\ Positions /\ Acquired /\ Unread /\ AlreadyRead /\ Unused /\ Behind /\ Socket
  BY DEF QueueInv, RingInv
<1>1. RingInv'
  BY RingInvNext DEF QueueInv
<1>2. CASE Writer
  BY <1>2, WriterKeepsQueueInv
<1>3. CASE Crash
  <2>1. /\ UNCHANGED <<written, read, data, widx, scan, ridx, rpc, sock, sent, got>>
        /\ wpc' = "dead"
    BY <1>3 DEF Crash, ring, readers
  <2>2. Sent' = Sent /\ \A q \in Reader : Taken(q)' = Taken(q)
    BY <2>1 DEF Sent, Taken
  <2>3. (Positions /\ Acquired /\ Unread /\ AlreadyRead /\ Unused /\ Behind)'
    <3>1. Positions' /\ Acquired' /\ Behind'
      BY <1>0, <2>1, <2>2, Zenon DEF Positions, Acquired, Behind
    <3>2. Unread'
      BY <1>0, <2>1, <2>2, Zenon DEF Unread
    <3>3. AlreadyRead' /\ Unused'
      BY <1>0, <2>1, <2>2 DEF AlreadyRead, Unused
    <3> QED BY <3>1, <3>2, <3>3
  <2>4. ASSUME NEW m \in Big, m <= Sent, m # Sent, NEW r \in Reader, Len(got[r]) < m
        PROVE  Queued(sock[r], m)
    BY <1>0, <2>4 DEF Socket, InSocket
  <2>5. Socket'
    BY <1>0, <2>1, <2>2, <2>4 DEF Socket, InSocket
  <2> QED BY <1>1, <2>3, <2>5 DEF QueueInv
<1>4. CASE \E r \in Reader : dequeue(r)
  BY <1>4, ReaderKeepsQueueInv
<1>5. CASE (\E r \in Reader : Arrive(r) \/ Cancel(r)) \/ (\E r \in Stoppable : shutdown(r)) \/ UNCHANGED vars
  <2>1. UNCHANGED <<written, read, data, wpc, widx, scan, ridx, rpc, sock, sent, got>>
    BY <1>5, Zenon DEF Arrive, Cancel, shutdown, vars, ring, writer, readers
  <2>2. /\ Sent' = Sent /\ \A q \in Reader : Taken(q)' = Taken(q)
        /\ (Positions /\ Acquired /\ Unread /\ AlreadyRead /\ Unused /\ Socket)'
    BY <2>1, QuietStep
  <2> QED BY <1>0, <1>1, <2>1, <2>2 DEF QueueInv, Behind
<1>6. CASE \E r \in Timed : TimeOut(r)
  <2>1. PICK r \in Reader : TimeOut(r)
    BY <1>6
  <2>2. UNCHANGED <<written, read, data, wpc, widx, scan, ridx, sock, sent, got>>
    BY <2>1, Zenon DEF TimeOut, ring, writer
  <2>3. /\ rpc[r] = "poll" /\ rpc'[r] \in {"start", "cancelled"}
        /\ \A q \in Reader \ {r} : rpc'[q] = rpc[q]
    BY <1>0, <2>1, Zenon DEF TimeOut, Woken, Goto, RingTypes
  <2>4. /\ Sent' = Sent /\ \A q \in Reader : Taken(q)' = Taken(q)
        /\ (Positions /\ Acquired /\ Unread /\ AlreadyRead /\ Unused /\ Socket)'
    BY <2>2, <2>3, QuietStep, Zenon
  <2>5. Behind'
    BY <1>0, <2>3, <2>4, Zenon DEF Behind
  <2> QED BY <1>1, <2>4, <2>5 DEF QueueInv
<1> QED BY <1>2, <1>3, <1>4, <1>5, <1>6 DEF Next

LEMMA OneMore ==
    \A n, t, g, c \in Nat : n < t + c /\ (t = g \/ t = g + 1) => n < g + (c + 1)
OBVIOUS

\* Publish is a Send, the step that completes a message is a Receive, and every
\* other step leaves the history alone.
LEMMA StepRefines ==
    ASSUME QueueInv, [Next]_vars
    PROVE  [Queue!Next]_<<sent, got>>
<1> USE ShmRingAssumption
<1>0. Positions /\ Acquired
  BY DEF QueueInv
<1>2. /\ Sent \in Nat /\ \A q \in Reader : Taken(q) \in Nat /\ Len(got[q]) \in Nat
      /\ MaxChunks \in Nat \ {0}
  BY Counts
<1>3. CASE Publish
  <2>1. sent' = Append(sent, Sent + 1) /\ UNCHANGED got /\ wpc = "reset"
    BY <1>3 DEF Publish, msg, Sent
  <2>2. Sent + 1 \in Message
    BY <1>0, <1>2, <2>1 DEF Acquired, Message
  <2>3. ASSUME NEW r \in Reader PROVE Sent < Len(got[r]) + (MaxChunks + 1)
    <3>1. Sent < Taken(r) + MaxChunks
      BY <1>0, <2>1 DEF Acquired
    <3>2. Taken(r) = Len(got[r]) \/ Taken(r) = Len(got[r]) + 1
      BY <1>2, TakenIs
    <3> QED BY <1>2, <3>1, <3>2, OneMore, Zenon
  <2>4. Queue!Send(Sent + 1)
    BY <2>1, <2>3, Zenon DEF Queue!Send, Sent
  <2> QED BY <2>2, <2>4 DEF Queue!Next
<1>4. ASSUME NEW r \in Reader, Mark(r), rdata[r] # Over PROVE Queue!Receive(r)
  <2> DEFINE k == Taken(r)
  <2>1. rpc[r] = "mark"
    BY <1>4 DEF Mark
  <2>2. k < Sent /\ k = Len(got[r]) /\ k \in Nat /\ rdata[r] = Content(k + 1)
    BY <2>1, CopyIsNext
  <2>3. rdata[r] = k + 1
    BY <1>4, <2>2 DEF Content
  <2>4. k + 1 \in 1..Sent
    BY <1>2, <2>2
  <2>5. sent[k + 1] = k + 1
    BY <1>0, <2>4 DEF Positions
  <2>6. got' = [got EXCEPT ![r] = Append(@, rdata[r])] /\ UNCHANGED sent
    BY <1>4 DEF Mark
  <2> QED BY <2>2, <2>3, <2>5, <2>6 DEF Queue!Receive, Sent
<1>5. ASSUME NEW r \in Reader, recv(r) PROVE Queue!Receive(r)
  <2>1. /\ rpc[r] = "recv" /\ sock[r] # <<>> /\ UNCHANGED sent
        /\ got' = [got EXCEPT ![r] = Append(@, Head(sock[r]))]
    BY <1>5 DEF recv
  <2>2. Head(sock[r]) = Len(got[r]) + 1
    BY <2>1, HeadIsNext
  <2>3. Len(got[r]) + 1 <= Sent
    BY <1>0, <1>2, <2>1, TakenIs, Zenon DEF Positions
  <2>4. Len(got[r]) + 1 \in 1..Sent
    BY <1>2, <2>3
  <2>5. sent[Len(got[r]) + 1] = Len(got[r]) + 1
    BY <1>0, <2>4 DEF Positions
  <2>6. Len(got[r]) < Len(sent)
    BY <1>2, <2>3 DEF Sent
  <2> QED BY <2>1, <2>2, <2>5, <2>6, Zenon DEF Queue!Receive
<1>6. CASE \E r \in Reader : Mark(r) /\ rdata[r] = Over
  BY <1>6 DEF Mark
<1>7. CASE Writer /\ ~Publish
  BY <1>7, Zenon DEF Writer, enqueue, ScanFlag, Spin, acquire_write, Fill, Filled, ResetFlag,
              send_multipart, notify
<1>8. CASE Crash \/ (\E r \in Timed : TimeOut(r)) \/ (\E r \in Stoppable : shutdown(r)) \/ UNCHANGED vars
  BY <1>8, Zenon DEF Crash, TimeOut, shutdown, vars
<1>9. CASE \E r \in Reader : ReadFlag(r) \/ CheckWritten(r) \/ Yield(r) \/ Poll(r) \/ Load(r)
                            \/ Arrive(r) \/ Cancel(r)
  BY <1>9, Zenon DEF ReadFlag, CheckWritten, Yield, Poll, Load, Arrive, Cancel
<1>10. CASE \E r \in Reader : recv(r) \/ (Mark(r) /\ rdata[r] # Over)
  BY <1>4, <1>5, <1>10 DEF Queue!Next
<1> QED BY <1>3, <1>6, <1>7, <1>8, <1>9, <1>10 DEF Next, Writer, dequeue

\* MessageQueue is a broadcast queue: every reader gets every message once and in
\* order, whichever way it travels, and the writer is at most the chunks of the
\* ring and one message ahead.  For every number of readers, chunks and messages,
\* crashes of the writer and shutdowns included, provided that no timeout ends
\* between the flag of a big message and its arrival in the socket.
THEOREM RingImplementsBroadcast == ~SlowSocket => (Spec => ImplementsBroadcast)
<1> SUFFICES ASSUME ~SlowSocket PROVE Spec => ImplementsBroadcast
  OBVIOUS
<1>1. Init => Queue!Init
  BY DEF Init, Queue!Init
<1>2. QueueInv /\ [Next]_vars => QueueInv'
  BY QueueInvNext
<1>3. QueueInv /\ [Next]_vars => [Queue!Next]_<<sent, got>>
  BY StepRefines
<1> QED BY <1>1, <1>2, <1>3, QueueInvInit, PTL DEF Spec, ImplementsBroadcast, Queue!Spec
=============================================================================
