------------------------ MODULE CaptureWorkerProofs ------------------------
(***************************************************************************)
(* What CaptureWorker.tla guarantees for every mode, rate, capture command *)
(* and clock.                                                              *)
(***************************************************************************)
EXTENDS CaptureWorker, ChunkAlignProofs, SequenceTheorems

Chunk == [name : Nat, start : Nat, from : Nat, upto : Nat]

-----------------------------------------------------------------------------
(* Arithmetic.                                                             *)

LEMMA ChunkBytesPositive == chunk_bytes \in Nat \ {0}
<1>1. Cycle * BytesPerSecond # 0
  BY RatesAssumption DEF BytesPerSecond, SAMPLE_WIDTH_BYTES
<1>2. chunk_bytes # 0
  <2>1. SUFFICES ASSUME chunk_bytes = 0 PROVE FALSE
    OBVIOUS
  <2>2. chunk_bytes * TicksPerSecond = 0
    BY <2>1, RatesAssumption
  <2>. QED
    BY <1>1, <2>2, ChunkBytesExact
<1>. QED
  BY <1>2, ChunkBytesExact

\* A cycle later in time is a chunk later in the stream.
LEMMA NearNext ==
    ASSUME NEW s \in Nat, NEW at \in Nat, start \in Nat, Near(s, at)
    PROVE  Near(NextStart(s), at + chunk_bytes)
<1>1. (NextStart(s) - start) * BytesPerSecond
          = (s - start) * BytesPerSecond + Cycle * BytesPerSecond
  BY RatesAssumption DEF NextStart, BytesPerSecond, SAMPLE_WIDTH_BYTES
<1>2. (at + chunk_bytes) * TicksPerSecond
          = at * TicksPerSecond + Cycle * BytesPerSecond
  <2>1. (at + chunk_bytes) * TicksPerSecond
            = at * TicksPerSecond + chunk_bytes * TicksPerSecond
    BY ChunkBytesExact, RatesAssumption
  <2>. QED
    BY <2>1, ChunkBytesExact
<1>. DEFINE a == (s - start) * BytesPerSecond
            b == at * TicksPerSecond
            c == Cycle * BytesPerSecond
<1>3. a \in Int /\ b \in Int /\ c \in Int /\ TicksPerSecond \in Int
  BY RatesAssumption DEF BytesPerSecond, SAMPLE_WIDTH_BYTES
<1>4. 2 * (a - b) <= TicksPerSecond /\ 2 * (b - a) <= TicksPerSecond
  BY DEF Near
<1>5. Near(NextStart(s), at + chunk_bytes)
          <=> /\ 2 * ((a + c) - (b + c)) <= TicksPerSecond
              /\ 2 * ((b + c) - (a + c)) <= TicksPerSecond
  BY <1>1, <1>2 DEF Near
<1>. HIDE DEF a, b, c
<1>. QED
  BY <1>3, <1>4, <1>5

-----------------------------------------------------------------------------
(* The inductive invariant.                                                *)

\* Where the chunk that is being read began.
From == goal - chunk_bytes

\* No byte will arrive any more.
Over == ~stdoutOpen \/ (inPipe = 0 /\ Leader \notin up /\ Last \notin up)

\* The command runs before the thread does; the thread has nothing to its
\* name before it has asked for the time.
BeginInv ==
    /\ main = "new" => thread = "none"
    /\ thread \in {"none", "begin"} => ~warm /\ pos = 0 /\ goal = 0 /\ files = <<>>

\* A read in progress is short of its goal on an open stream, and one that
\* ended short ended for good.
ReadInv ==
    /\ pos <= goal
    /\ thread = "reading" => pos < goal /\ stdoutOpen
    /\ thread = "short" => Over
    /\ warm => chunk_bytes <= goal /\ From <= pos
    /\ thread = "writing" => warm /\ pos = goal

\* The next boundary is where the warm-up ends and the next chunk begins,
\* unless the stream has ended in the warm-up.
AlignInv ==
    /\ ~warm /\ thread \in {"idle", "reading", "short"} => Near(chunkStart, goal)
    /\ warm => Near(chunkStart, From) \/ (Over /\ pos = From)

FilesInv ==
    /\ WholeChunks
    /\ TimeAligned
    /\ NamesIncrease
    /\ \A i \in 1..Len(files) : files[i].name < chunk_filename(chunkStart)

\* Past stop(), a chunk is only written if it was being written then.
StopInv ==
    stopEvent => \/ Len(files) <= atStop
                 \/ thread # "writing" /\ Len(files) <= atStop + 1

CaptureInv == TypeOK /\ BeginInv /\ ReadInv /\ AlignInv /\ FilesInv /\ StopInv

LEMMA CaptureInit == Init => CaptureInv
<1>. SUFFICES ASSUME Init PROVE CaptureInv
  OBVIOUS
<1>1. files \in Seq(Chunk) /\ Len(files) = 0
  BY EmptySeq DEF Init
<1>2. TypeOK
  BY <1>1 DEF Init, TypeOK, Chunk
<1>3. BeginInv /\ ReadInv /\ AlignInv
  BY DEF Init, BeginInv, ReadInv, AlignInv
<1>4. FilesInv /\ StopInv
  BY <1>1 DEF Init, FilesInv, WholeChunks, TimeAligned, NamesIncrease, StopInv
<1>. QED
  BY <1>2, <1>3, <1>4 DEF CaptureInv

-----------------------------------------------------------------------------
(* Steps that leave the thread alone.                                      *)

Quiet ==
    \/ StartRaises \/ StopBegins \/ MainStep \/ Produce
    \/ (\E p \in Procs : SignalEnds(p) \/ Fails(p)) \/ UNCHANGED vars

LEMMA QuietFrame ==
    ASSUME CaptureInv, Quiet
    PROVE  /\ UNCHANGED <<thread, reader, files, start>>
           /\ Over => Over'
           /\ thread = "reading" => UNCHANGED stdoutOpen
           /\ main' = "new" => main = "new"
           /\ StopBegins \/ UNCHANGED <<stopEvent, atStop>>
<1>1. CASE StartRaises
  BY <1>1 DEF StartRaises, reader, pipeline, Over
<1>2. CASE StopBegins
  BY <1>2 DEF StopBegins, reader, pipeline, Over
<1>3. CASE MainStep
  <2>1. CASE Terminate
    BY <2>1 DEF Terminate, reader, Over
  <2>2. CASE WaitReturns
    BY <2>2 DEF WaitReturns, reader, pipeline, Over
  <2>3. CASE WaitTimesOut
    BY <2>3 DEF WaitTimesOut, reader, Over
  <2>4. CASE CloseStdout
    BY <2>4 DEF CloseStdout, reader, pipeline, Over
  <2>5. CASE JoinReturns
    BY <2>5 DEF JoinReturns, reader, pipeline, Over
  <2>6. CASE JoinTimesOut
    BY <2>6 DEF JoinTimesOut, reader, pipeline, Over
  <2>. QED
    BY <1>3, <2>1, <2>2, <2>3, <2>4, <2>5, <2>6 DEF MainStep
<1>4. CASE Produce
  BY <1>4 DEF Produce, reader, pipeline, Over
<1>5. CASE \E p \in Procs : SignalEnds(p) \/ Fails(p)
  <2>1. PICK p \in Procs : Ends(p)
    BY <1>5 DEF SignalEnds, Fails
  <2>. QED
    BY <2>1 DEF Ends, reader, Over
<1>6. CASE UNCHANGED vars
  BY <1>6 DEF vars, reader, pipeline, Over
<1>. QED
  BY <1>1, <1>2, <1>3, <1>4, <1>5, <1>6 DEF Quiet

LEMMA QuietTypes ==
    ASSUME TypeOK, Quiet
    PROVE  TypeOK'
<1>. USE DEF TypeOK
<1>1. CASE StartRaises
  BY <1>1 DEF StartRaises, reader, pipeline
<1>2. CASE StopBegins
  BY <1>2, LenProperties DEF StopBegins, reader, pipeline
<1>3. CASE MainStep
  <2>1. CASE Terminate
    BY <2>1 DEF Terminate, reader, Targets
  <2>2. CASE WaitReturns
    BY <2>2 DEF WaitReturns, reader, pipeline
  <2>3. CASE WaitTimesOut
    BY <2>3 DEF WaitTimesOut, reader, Targets, Killed
  <2>4. CASE CloseStdout
    BY <2>4 DEF CloseStdout, reader, pipeline
  <2>5. CASE JoinReturns
    BY <2>5 DEF JoinReturns, reader, pipeline
  <2>6. CASE JoinTimesOut
    BY <2>6 DEF JoinTimesOut, reader, pipeline
  <2>. QED
    BY <1>3, <2>1, <2>2, <2>3, <2>4, <2>5, <2>6 DEF MainStep
<1>4. CASE Produce
  BY <1>4 DEF Produce, reader, pipeline
<1>5. CASE \E p \in Procs : SignalEnds(p) \/ Fails(p)
  <2>1. PICK p \in Procs : Ends(p)
    BY <1>5 DEF SignalEnds, Fails
  <2>. QED
    BY <2>1 DEF Ends, reader
<1>6. CASE UNCHANGED vars
  BY <1>6 DEF vars, reader, pipeline
<1>. QED
  BY <1>1, <1>2, <1>3, <1>4, <1>5, <1>6 DEF Quiet

LEMMA QuietStep ==
    ASSUME CaptureInv, Quiet
    PROVE  CaptureInv'
<1>1. /\ UNCHANGED <<thread, reader, files, start>>
      /\ Over => Over'
      /\ thread = "reading" => UNCHANGED stdoutOpen
      /\ main' = "new" => main = "new"
      /\ StopBegins \/ UNCHANGED <<stopEvent, atStop>>
  BY QuietFrame
<1>2. TypeOK'
  BY QuietTypes DEF CaptureInv
<1>3. BeginInv' /\ ReadInv'
  BY <1>1 DEF CaptureInv, BeginInv, ReadInv, From, reader
<1>4. AlignInv'
  BY <1>1 DEF CaptureInv, AlignInv, Near, From, reader
<1>5. FilesInv'
  BY <1>1 DEF CaptureInv, FilesInv, WholeChunks, TimeAligned, NamesIncrease, Near, reader
<1>6. StopInv'
  <2>1. Len(files) \in Nat
    BY LenProperties DEF CaptureInv, TypeOK
  <2>2. CASE StopBegins
    BY <1>1, <2>1, <2>2 DEF StopBegins, StopInv
  <2>3. CASE UNCHANGED <<stopEvent, atStop>>
    BY <1>1, <2>3 DEF CaptureInv, StopInv
  <2>. QED
    BY <1>1, <2>2, <2>3
<1>. QED
  BY <1>2, <1>3, <1>4, <1>5, <1>6 DEF CaptureInv

-----------------------------------------------------------------------------
(* Steps that read nothing into a file.                                    *)

\* What such a step leaves of the files and of stop().
LEMMA FilesKept ==
    ASSUME CaptureInv, UNCHANGED <<files, start, stopEvent, atStop>>,
           chunkStart' = chunkStart \/ files = <<>>,
           thread' # "writing" \/ thread = "writing" \/ ~stopEvent
    PROVE  StopInv' /\ (UNCHANGED chunkStart => FilesInv')
<1>1. Len(files) \in Nat
  BY LenProperties DEF CaptureInv, TypeOK
<1>2. StopInv'
  BY <1>1 DEF CaptureInv, StopInv
<1>3. UNCHANGED chunkStart => FilesInv'
  BY DEF CaptureInv, FilesInv, WholeChunks, TimeAligned, NamesIncrease, Near
<1>. QED
  BY <1>2, <1>3

LEMMA StartStep ==
    ASSUME CaptureInv, Start
    PROVE  CaptureInv'
<1>1. TypeOK'
  BY DEF CaptureInv, TypeOK, Start, reader
<1>2. ~warm /\ pos = 0 /\ goal = 0 /\ files = <<>> /\ thread = "none"
  BY DEF CaptureInv, BeginInv, Start
<1>3. BeginInv' /\ ReadInv' /\ AlignInv'
  BY <1>2 DEF Start, reader, BeginInv, ReadInv, AlignInv
<1>4. StopInv' /\ FilesInv'
  BY FilesKept DEF Start, reader
<1>. QED
  BY <1>1, <1>3, <1>4 DEF CaptureInv

LEMMA BeginStep ==
    ASSUME CaptureInv, Begin
    PROVE  CaptureInv'
<1>1. PICK now \in Starts : /\ start' = now
                            /\ chunkStart' = next_boundary(now)
                            /\ goal' = warmup_bytes(now)
  BY DEF Begin
<1>2. ~warm /\ pos = 0 /\ goal = 0 /\ files = <<>> /\ main # "new"
  BY DEF CaptureInv, BeginInv, Begin
<1>3. /\ now \in Nat /\ next_boundary(now) \in Nat /\ warmup_bytes(now) \in Nat
  BY BoundsAssumption, BoundaryIsNext, WarmupIsNear
<1>4. TypeOK'
  BY <1>1, <1>3 DEF CaptureInv, TypeOK, Begin, pipeline
<1>5. BeginInv' /\ ReadInv'
  BY <1>1, <1>2, <1>3 DEF Begin, BeginInv, ReadInv
<1>6. AlignInv'
  <2>1. Near(chunkStart, goal)'
    BY <1>1, <1>3, WarmupIsNear DEF Near
  <2>. QED
    BY <1>2, <2>1 DEF Begin, AlignInv
<1>7. StopInv'
  BY <1>2, FilesKept, LenProperties DEF Begin, CaptureInv, TypeOK, StopInv
<1>8. FilesInv'
  <2>1. files' = <<>> /\ Len(files') = 0
    BY <1>2, EmptySeq DEF Begin
  <2>. QED
    BY <2>1 DEF FilesInv, WholeChunks, TimeAligned, NamesIncrease
<1>. QED
  BY <1>4, <1>5, <1>6, <1>7, <1>8 DEF CaptureInv

LEMMA BeginRaisesStep ==
    ASSUME CaptureInv, BeginRaises
    PROVE  CaptureInv'
<1>1. TypeOK'
  BY DEF CaptureInv, TypeOK, BeginRaises, pipeline, reader
<1>2. ~warm /\ pos = 0 /\ goal = 0 /\ files = <<>> /\ main # "new"
  BY DEF CaptureInv, BeginInv, BeginRaises
<1>3. BeginInv' /\ ReadInv' /\ AlignInv'
  BY <1>2 DEF BeginRaises, reader, BeginInv, ReadInv, AlignInv
<1>4. StopInv' /\ FilesInv'
  BY FilesKept DEF BeginRaises, reader
<1>. QED
  BY <1>1, <1>3, <1>4 DEF CaptureInv

\* BeginRead and Eof: the thread moves, the stream does not.
LEMMA WaitingStep ==
    ASSUME CaptureInv, BeginRead \/ Eof
    PROVE  CaptureInv'
<1>1. /\ UNCHANGED <<main, stopEvent, proc, stdoutOpen, pipeline, inPipe, reader,
                     files, start, atStop>>
      /\ thread \in {"idle", "reading"}
      /\ thread' \in {"reading", "short"}
      /\ thread' = "reading" => pos < goal /\ stdoutOpen
      /\ thread' = "short" => Over
  BY DEF BeginRead, Eof, AfterEof, Over
<1>2. TypeOK'
  BY <1>1 DEF CaptureInv, TypeOK, pipeline, reader
<1>3. Over' <=> Over
  BY <1>1 DEF Over, pipeline
<1>4. BeginInv'
  BY <1>1 DEF CaptureInv, BeginInv, reader
<1>5. ReadInv'
  BY <1>1, <1>3 DEF CaptureInv, ReadInv, From, reader
<1>6. AlignInv'
  BY <1>1, <1>3 DEF CaptureInv, AlignInv, Near, From, reader
<1>7. StopInv' /\ FilesInv'
  BY <1>1, FilesKept DEF reader
<1>. QED
  BY <1>2, <1>4, <1>5, <1>6, <1>7 DEF CaptureInv

LEMMA ReceiveStep ==
    ASSUME CaptureInv, Receive
    PROVE  CaptureInv'
<1>1. pos < goal /\ pos \in Nat /\ goal \in Nat /\ inPipe \in Nat /\ stdoutOpen
  BY DEF CaptureInv, TypeOK, ReadInv, Receive
<1>2. ~Over
  BY <1>1 DEF Over, Receive
<1>3. TypeOK'
  BY <1>1 DEF CaptureInv, TypeOK, Receive, pipeline
<1>4. BeginInv'
  BY DEF CaptureInv, BeginInv, Receive
<1>5. ReadInv'
  <2>1. chunk_bytes \in Nat
    BY ChunkBytesExact
  <2>2. /\ pos' <= goal'
        /\ (thread = "reading")' => pos' < goal' /\ stdoutOpen'
        /\ thread' # "short" /\ thread' # "writing"
    BY <1>1 DEF Receive
  <2>3. warm' => chunk_bytes <= goal' /\ From' <= pos'
    BY <1>1, <2>1 DEF CaptureInv, ReadInv, From, Receive
  <2>. QED
    BY <2>2, <2>3 DEF ReadInv
<1>6. AlignInv'
  BY <1>2 DEF CaptureInv, AlignInv, Near, From, Receive
<1>7. StopInv' /\ FilesInv'
  BY FilesKept DEF Receive
<1>. QED
  BY <1>3, <1>4, <1>5, <1>6, <1>7 DEF CaptureInv

LEMMA WarmedStep ==
    ASSUME CaptureInv, Warmed
    PROVE  CaptureInv'
<1>1. pos \in Nat /\ goal \in Nat /\ chunk_bytes \in Nat
  BY ChunkBytesExact DEF CaptureInv, TypeOK
<1>2. From' = pos /\ pos' = pos /\ goal' = pos + chunk_bytes /\ Over' = Over
  BY <1>1 DEF Warmed, From, Over, pipeline
<1>3. TypeOK'
  BY <1>1, <1>2 DEF CaptureInv, TypeOK, Warmed, pipeline
<1>4. BeginInv' /\ ReadInv'
  BY <1>1, <1>2 DEF CaptureInv, BeginInv, ReadInv, Warmed
<1>5. AlignInv'
  <2>1. CASE thread = "short"
    <3>1. Over
      BY <2>1 DEF CaptureInv, ReadInv
    <3>. QED
      BY <1>2, <3>1 DEF AlignInv, Warmed
  <2>2. CASE thread = "idle" /\ pos = goal
    <3>1. Near(chunkStart, pos)
      BY <2>2 DEF CaptureInv, AlignInv, Warmed
    <3>2. Near(chunkStart, From)'
      BY <1>2, <3>1 DEF Near, Warmed
    <3>. QED
      BY <3>2 DEF AlignInv, Warmed
  <2>. QED
    BY <2>1, <2>2 DEF Warmed
<1>6. StopInv' /\ FilesInv'
  BY FilesKept DEF Warmed
<1>. QED
  BY <1>3, <1>4, <1>5, <1>6 DEF CaptureInv

LEMMA ChunkReadStep ==
    ASSUME CaptureInv, ChunkRead
    PROVE  CaptureInv'
<1>1. /\ UNCHANGED <<main, stopEvent, proc, stdoutOpen, pipeline, inPipe, reader,
                     files, start, atStop>>
      /\ warm
      /\ thread' \in {"writing", "dead"}
      /\ thread' = "writing" => ~stopEvent /\ IsWhole(DataLength)
  BY DEF ChunkRead, StopSeen
<1>2. pos \in Nat /\ goal \in Nat /\ chunk_bytes \in Nat /\ pos <= goal
  BY ChunkBytesExact DEF CaptureInv, TypeOK, ReadInv
<1>3. thread' = "writing" => pos = goal
  BY <1>1, <1>2 DEF IsWhole, DataLength
<1>4. TypeOK'
  BY <1>1 DEF CaptureInv, TypeOK, pipeline, reader
<1>5. Over' <=> Over
  BY <1>1 DEF Over, pipeline
<1>6. BeginInv' /\ ReadInv'
  BY <1>1, <1>3 DEF CaptureInv, BeginInv, ReadInv, From, reader, ChunkRead
<1>7. AlignInv'
  BY <1>1, <1>5 DEF CaptureInv, AlignInv, Near, From, reader
<1>8. StopInv' /\ FilesInv'
  BY <1>1, FilesKept DEF reader
<1>. QED
  BY <1>4, <1>6, <1>7, <1>8 DEF CaptureInv

LEMMA WriteRaisesStep ==
    ASSUME CaptureInv, WriteRaises
    PROVE  CaptureInv'
<1>1. TypeOK'
  BY DEF CaptureInv, TypeOK, WriteRaises, pipeline, reader
<1>2. Over' <=> Over
  BY DEF WriteRaises, Over, pipeline
<1>3. BeginInv' /\ ReadInv'
  BY DEF CaptureInv, BeginInv, ReadInv, From, reader, WriteRaises
<1>4. AlignInv'
  BY <1>2 DEF CaptureInv, AlignInv, Near, From, reader, WriteRaises
<1>5. StopInv' /\ FilesInv'
  BY FilesKept DEF reader, WriteRaises
<1>. QED
  BY <1>1, <1>3, <1>4, <1>5 DEF CaptureInv

-----------------------------------------------------------------------------
(* The step that writes a file.                                            *)

LEMMA WriteChunkStep ==
    ASSUME CaptureInv, WriteChunk
    PROVE  CaptureInv'
<1>. DEFINE chunk == [name |-> chunk_filename(chunkStart), start |-> chunkStart,
                      from |-> From, upto |-> pos]
            n == Len(files) + 1
<1>1. /\ files \in Seq(Chunk) /\ pos \in Nat /\ goal \in Nat /\ chunkStart \in Nat
      /\ start \in Nat /\ chunk_bytes \in Nat \ {0}
      /\ warm /\ pos = goal /\ From \in Nat /\ From + chunk_bytes = pos
  BY ChunkBytesPositive
  DEF CaptureInv, TypeOK, Chunk, ReadInv, From, WriteChunk
<1>2. chunk \in Chunk
  BY <1>1, NamesFollowStarts DEF Chunk
<1>3. Len(files) \in Nat
  BY <1>1, LenProperties
<1>4. /\ files' = Append(files, chunk)
      /\ chunkStart' = NextStart(chunkStart) /\ NextStart(chunkStart) \in Nat
      /\ goal' = pos + chunk_bytes /\ From' = pos /\ pos' = pos
      /\ UNCHANGED <<main, stopEvent, proc, stdoutOpen, pipeline, inPipe, warm,
                     start, atStop>>
      /\ thread' = "idle"
  BY <1>1, RatesAssumption DEF WriteChunk, From, NextStart
<1>. HIDE DEF chunk
<1>5. /\ files' \in Seq(Chunk) /\ Len(files') = n /\ files'[n] = chunk
      /\ \A i \in 1..Len(files) : files'[i] = files[i]
  BY <1>1, <1>2, <1>4, AppendProperties
<1>6. \A i \in 1..Len(files') : i \in 1..Len(files) \/ i = n
  BY <1>3, <1>5
<1>7. Near(chunkStart, From)
  BY <1>1 DEF CaptureInv, AlignInv
<1>8. TypeOK'
  BY <1>1, <1>4, <1>5 DEF CaptureInv, TypeOK, Chunk, pipeline
<1>9. BeginInv' /\ ReadInv'
  BY <1>1, <1>4 DEF CaptureInv, BeginInv, ReadInv, WriteChunk
<1>10. AlignInv'
  <2>1. Near(NextStart(chunkStart), From + chunk_bytes)
    BY <1>1, <1>7, NearNext
  <2>2. Near(chunkStart, From)'
    BY <1>1, <1>4, <2>1 DEF Near
  <2>. QED
    BY <1>1, <1>4, <2>2 DEF AlignInv
<1>11. StopInv'
  <2>1. atStop \in Nat /\ thread = "writing"
    BY DEF CaptureInv, TypeOK, WriteChunk
  <2>2. stopEvent => Len(files) <= atStop
    BY <1>3, <2>1 DEF CaptureInv, StopInv
  <2>. QED
    BY <1>3, <1>4, <1>5, <2>1, <2>2 DEF StopInv
<1>12. WholeChunks'
  <2>1. chunk.upto = chunk.from + chunk_bytes
    BY <1>1 DEF chunk
  <2>. QED
    BY <1>5, <1>6, <2>1 DEF CaptureInv, FilesInv, WholeChunks
<1>13. TimeAligned'
  <2>1. Near(chunk.start, chunk.from)
    BY <1>7 DEF chunk
  <2>2. \A i \in 1..Len(files') : Near(files'[i].start, files'[i].from)
    BY <1>5, <1>6, <2>1 DEF CaptureInv, FilesInv, TimeAligned
  <2>. QED
    BY <1>4, <2>2 DEF TimeAligned, Near
<1>14. /\ NamesIncrease'
       /\ \A i \in 1..Len(files') : files'[i].name < chunk_filename(chunkStart')
  <2>1. /\ chunk.name = chunk_filename(chunkStart)
        /\ chunk.name < chunk_filename(chunkStart')
        /\ chunk.name \in Nat /\ chunk_filename(chunkStart') \in Nat
    BY <1>1, <1>4, NamesFollowStarts DEF chunk
  <2>2. \A i \in 1..Len(files) : files[i].name < chunk.name
    BY <2>1 DEF CaptureInv, FilesInv
  <2>3. \A i \in 1..Len(files) : files[i].name \in Nat
    <3>1. \A i \in 1..Len(files) : files[i] \in Chunk
      BY <1>1, ElementOfSeq
    <3>. QED
      BY <3>1 DEF Chunk
  <2>4. \A i \in 1..Len(files') : files'[i].name < chunk_filename(chunkStart')
    BY <1>5, <1>6, <2>1, <2>2, <2>3
  <2>5. ASSUME NEW i \in 1..Len(files'), NEW j \in 1..Len(files'), i < j
        PROVE  files'[i].name < files'[j].name
    <3>1. i \in 1..Len(files)
      BY <1>3, <1>5, <2>5
    <3>2. CASE j \in 1..Len(files)
      BY <1>5, <2>5, <3>1, <3>2 DEF CaptureInv, FilesInv, NamesIncrease
    <3>3. CASE j = n
      BY <1>5, <2>2, <3>1, <3>3
    <3>. QED
      BY <1>6, <3>2, <3>3
  <2>. QED
    BY <2>4, <2>5 DEF NamesIncrease
<1>. QED
  BY <1>8, <1>9, <1>10, <1>11, <1>12, <1>13, <1>14 DEF CaptureInv, FilesInv

-----------------------------------------------------------------------------
(* The theorems.                                                           *)

LEMMA CaptureStep ==
    ASSUME CaptureInv, [Next]_vars
    PROVE  CaptureInv'
<1>1. CASE Quiet
  BY <1>1, QuietStep
<1>2. CASE Start
  BY <1>2, StartStep
<1>3. CASE ThreadStep
  BY <1>3, BeginStep, BeginRaisesStep, WaitingStep, ReceiveStep, WarmedStep,
     ChunkReadStep, WriteChunkStep, WriteRaisesStep DEF ThreadStep
<1>. QED
  BY <1>1, <1>2, <1>3 DEF Next, Quiet

LEMMA CaptureInvariant == Spec => []CaptureInv
BY CaptureInit, CaptureStep, PTL DEF Spec

\* Every variable keeps its type.
THEOREM TypeCorrect == Spec => []TypeOK
<1>1. CaptureInv => TypeOK
  BY DEF CaptureInv
<1>. QED
  BY <1>1, CaptureInvariant, PTL

\* A file holds one full cycle, however the stream ended.
THEOREM ChunksAreWhole == Spec => []WholeChunks
<1>1. CaptureInv => WholeChunks
  BY DEF CaptureInv, FilesInv
<1>. QED
  BY <1>1, CaptureInvariant, PTL

\* However many chunks a session writes, the last is as close to its label as
\* the first: within half a byte.
THEOREM NoDrift == Spec => []TimeAligned
<1>1. CaptureInv => TimeAligned
  BY DEF CaptureInv, FilesInv
<1>. QED
  BY <1>1, CaptureInvariant, PTL

\* No chunk of a session takes the name of another or sorts before an older.
THEOREM NamesAreIncreasing == Spec => []NamesIncrease
<1>1. CaptureInv => NamesIncrease
  BY DEF CaptureInv, FilesInv
<1>. QED
  BY <1>1, CaptureInvariant, PTL

\* After stop() is called at most the chunk in hand is written, whatever the
\* pipeline still delivers.
THEOREM StopIsPrompt == Spec => []StopLetsOneThrough
<1>1. CaptureInv => StopLetsOneThrough
  <2>. SUFFICES ASSUME CaptureInv PROVE StopLetsOneThrough
    OBVIOUS
  <2>1. files \in Seq(Chunk) /\ atStop \in Nat
    BY DEF CaptureInv, TypeOK, Chunk
  <2>2. Len(files) \in Nat
    BY <2>1, LenProperties
  <2>. QED
    BY <2>1, <2>2 DEF CaptureInv, StopInv, StopLetsOneThrough
<1>. QED
  BY <1>1, CaptureInvariant, PTL

-----------------------------------------------------------------------------
(* What stop() waits for.                                                  *)

\* The stream that stop() has closed is not read, nor opened again.
ClosedInv ==
    /\ main = "new" => thread = "none"
    /\ main \in {"join", "stopped"} => ~stdoutOpen /\ thread # "reading"

LEMMA ClosedStep == ClosedInv /\ [Next]_vars => ClosedInv'
<1>1. SUFFICES ASSUME ClosedInv, [Next]_vars PROVE ClosedInv'
  OBVIOUS
<1>. USE DEF ClosedInv, pipeline, reader
<1>2. CASE UNCHANGED vars
  BY <1>1, <1>2 DEF vars
<1>3. CASE Start \/ StartRaises \/ StopBegins
  BY <1>1, <1>3 DEF Start, StartRaises, StopBegins
<1>4. CASE MainStep
  BY <1>1, <1>4 DEF MainStep, Terminate, WaitReturns, WaitTimesOut, CloseStdout,
                    JoinReturns, JoinTimesOut
<1>5. CASE ThreadStep
  <2>1. thread # "none" /\ main' = main /\ stdoutOpen' = stdoutOpen
    BY <1>5 DEF ThreadStep, Begin, BeginRaises, BeginRead, Receive, Eof, Warmed,
                ChunkRead, WriteChunk, WriteRaises
  <2>2. thread' = "reading" => thread = "reading" \/ stdoutOpen
    BY <1>5 DEF ThreadStep, Begin, BeginRaises, BeginRead, Receive, Eof, Warmed,
                ChunkRead, WriteChunk, WriteRaises, AfterEof
  <2>. QED
    BY <1>1, <2>1, <2>2
<1>6. CASE Produce \/ \E p \in Procs : SignalEnds(p) \/ Fails(p)
  BY <1>1, <1>6 DEF Produce, SignalEnds, Fails, Ends
<1>. QED
  BY <1>1, <1>2, <1>3, <1>4, <1>5, <1>6 DEF Next

\* When stop() comes to its join, and ever after, the thread is not in a read,
\* which nobody would end: it has 5 s for what it was about to write, no more.
THEOREM NoReadIsLeft ==
    Spec => [](main \in {"join", "stopped"} => thread # "reading")
<1>1. Init => ClosedInv
  BY DEF Init, ClosedInv
<1>2. ClosedInv => (main \in {"join", "stopped"} => thread # "reading")
  BY DEF ClosedInv
<1>. QED
  BY <1>1, <1>2, ClosedStep, PTL DEF Spec
=============================================================================
