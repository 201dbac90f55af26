--------------------------- MODULE CaptureWorker ---------------------------
(***************************************************************************)
(* CaptureWorker (src/src/capture_worker.py): start() and stop() on the    *)
(* caller's thread, _run() with align_chunks and _read_exact on its own,   *)
(* and the processes of the capture command that feed it through a pipe.   *)
(*                                                                         *)
(* The command is a shell pipeline or one program.  Popen knows only its   *)
(* leader, the shell or the program itself; the last stage of the pipeline *)
(* writes the bytes, and the pipe stays open as long as it or the leader   *)
(* lives.                                                                  *)
(***************************************************************************)
EXTENDS ChunkAlign, Sequences

CONSTANTS
    Procs,       \* the processes of the command
    Leader,      \* the one Popen started
    Last,        \* the one that writes the audio
    Stubborn,    \* those that may not end on SIGTERM
    Starts,      \* what now_fn() can return
    PipeBytes,   \* bound: bytes the pipe holds
    MaxBytes     \* bound: bytes the command writes before it falls silent

ASSUME ProcsAssumption == Leader \in Procs /\ Last \in Procs /\ Stubborn \subseteq Procs
ASSUME BoundsAssumption == Starts \subseteq Nat /\ PipeBytes \in Nat /\ MaxBytes \in Nat

VARIABLES
    main,         \* where start() or stop() is
    thread,       \* where _run() is
    stopEvent,    \* _stop_event
    proc,         \* whether _proc is set
    stdoutOpen,   \* whether the reading end is open
    up,           \* the processes that run
    term,         \* those that were sent SIGTERM
    kill,         \* those that were sent SIGKILL
    inPipe,       \* bytes written and not read yet
    pos,          \* bytes read since the start
    goal,         \* where in the stream the running _read_exact ends
    chunkStart,   \* chunk_start in align_chunks
    warm,         \* whether the warm-up has been discarded
    files,        \* the chunks written: their name, their start, and the
                  \* stretch of the stream they hold
    start,        \* history: start_time
    atStop        \* history: chunks written when stop() was called

pipeline == <<up, term, kill>>
reader == <<pos, goal, chunkStart, warm>>
vars == <<main, thread, stopEvent, proc, stdoutOpen, pipeline, inPipe, reader, files,
          start, atStop>>

Init ==
    /\ main = "new" /\ thread = "none"
    /\ stopEvent = FALSE /\ proc = FALSE /\ stdoutOpen = FALSE
    /\ up = {} /\ term = {} /\ kill = {}
    /\ inPipe = 0 /\ pos = 0 /\ goal = 0
    /\ chunkStart = 0 /\ warm = FALSE
    /\ files = <<>>
    /\ start = 0 /\ atStop = 0

-----------------------------------------------------------------------------
(* Faults: plausible slips in the operations below.                        *)

\* The loop does not look at _stop_event.
IgnoresStop == FALSE

\* The shell alone is signalled.
LeaderOnly == {Leader}

\* Without start_new_session the group signalled is the daemon's own.
OwnGroup == Procs \cup {"hsd"}

\* Whatever was read makes a chunk.
AnyLength(n) == n > 0

\* An empty read does not end _read_exact.
ReadsOn == "idle"

-----------------------------------------------------------------------------
(* The processes.                                                          *)

\* The last stage writes a byte, unless the pipe is full.
Produce ==
    /\ Last \in up /\ stdoutOpen
    /\ inPipe < PipeBytes /\ pos + inPipe < MaxBytes
    /\ inPipe' = inPipe + 1
    /\ UNCHANGED <<main, thread, stopEvent, proc, stdoutOpen, pipeline, reader, files,
                   start, atStop>>

Ends(p) ==
    /\ p \in up
    /\ up' = up \ {p}
    /\ UNCHANGED <<main, thread, stopEvent, proc, stdoutOpen, term, kill, inPipe, reader,
                   files, start, atStop>>

\* A signal ends the process, or the shell is done with its pipeline.
MustEnd(p) ==
    \/ p \in kill
    \/ p \in term /\ p \notin Stubborn
    \/ up = {Leader} /\ Procs # {Leader}

SignalEnds(p) == MustEnd(p) /\ Ends(p)

\* A process of the command ends by itself: the receiver is unplugged or busy,
\* a neighbour in the pipeline is gone.
Fails(p) == ~MustEnd(p) /\ Ends(p)

-----------------------------------------------------------------------------
(* start() and stop().                                                     *)

Start ==
    /\ main = "new"
    /\ main' = "running" /\ thread' = "begin"
    /\ proc' = TRUE /\ stdoutOpen' = TRUE
    /\ up' = Procs
    /\ UNCHANGED <<stopEvent, term, kill, inPipe, reader, files, start, atStop>>

StartRaises ==
    /\ main = "new"
    /\ main' = "failed"
    /\ UNCHANGED <<thread, stopEvent, proc, stdoutOpen, pipeline, inPipe, reader, files,
                   start, atStop>>

\* The process group of a pipeline, the process itself of a program.
Targets == Procs

StopBegins ==
    /\ main = "running"
    /\ main' = "terminate"
    /\ stopEvent' = TRUE
    /\ atStop' = Len(files)
    /\ UNCHANGED <<thread, proc, stdoutOpen, pipeline, inPipe, reader, files, start>>

Terminate ==
    /\ main = "terminate"
    /\ main' = "wait"
    /\ term' = Targets
    /\ UNCHANGED <<thread, stopEvent, proc, stdoutOpen, up, kill, inPipe, reader, files,
                   start, atStop>>

\* _proc.wait() returns, after SIGTERM or after SIGKILL.
WaitReturns ==
    /\ main \in {"wait", "reap"}
    /\ Leader \notin up
    /\ main' = "close"
    /\ UNCHANGED <<thread, stopEvent, proc, stdoutOpen, pipeline, inPipe, reader, files,
                   start, atStop>>

\* Those that SIGKILL goes to when wait() has timed out.
Killed == Targets

WaitTimesOut ==
    /\ main = "wait"
    /\ Leader \in up
    /\ main' = "reap"
    /\ kill' = Killed
    /\ UNCHANGED <<thread, stopEvent, proc, stdoutOpen, up, term, inPipe, reader, files,
                   start, atStop>>

\* stdout.close() takes the buffer's lock, which a read in progress holds.
CloseStdout ==
    /\ main = "close"
    /\ thread # "reading"
    /\ main' = "join"
    /\ stdoutOpen' = FALSE
    /\ proc' = FALSE
    /\ UNCHANGED <<thread, stopEvent, pipeline, inPipe, reader, files, start, atStop>>

JoinReturns ==
    /\ main = "join"
    /\ thread = "dead"
    /\ main' = "stopped"
    /\ UNCHANGED <<thread, stopEvent, proc, stdoutOpen, pipeline, inPipe, reader, files,
                   start, atStop>>

JoinTimesOut ==
    /\ main = "join"
    /\ thread # "dead"
    /\ main' = "stopped"
    /\ UNCHANGED <<thread, stopEvent, proc, stdoutOpen, pipeline, inPipe, reader, files,
                   start, atStop>>

MainStep ==
    \/ Terminate \/ WaitReturns \/ WaitTimesOut \/ CloseStdout
    \/ JoinReturns \/ JoinTimesOut

-----------------------------------------------------------------------------
(* _run().                                                                 *)

\* self._proc.stdout, then now_fn(), then the first lines of align_chunks.
Begin ==
    /\ thread = "begin"
    /\ proc
    /\ \E now \in Starts :
           /\ start' = now
           /\ chunkStart' = next_boundary(now)
           /\ goal' = warmup_bytes(now)
    /\ thread' = "idle"
    /\ UNCHANGED <<main, stopEvent, proc, stdoutOpen, pipeline, inPipe, pos, warm, files,
                   atStop>>

\* stop() has already set _proc to None.
BeginRaises ==
    /\ thread = "begin"
    /\ ~proc
    /\ thread' = "dead"
    /\ UNCHANGED <<main, stopEvent, proc, stdoutOpen, pipeline, inPipe, reader, files,
                   start, atStop>>

\* _read_exact is short of its goal and calls read_fn, which raises at once
\* on a closed stream.
BeginRead ==
    /\ thread = "idle" /\ pos < goal
    /\ thread' = IF stdoutOpen THEN "reading" ELSE "short"
    /\ UNCHANGED <<main, stopEvent, proc, stdoutOpen, pipeline, inPipe, reader, files,
                   start, atStop>>

\* A byte arrives in the read in progress, which ends with the last one.
Receive ==
    /\ thread = "reading"
    /\ inPipe > 0
    /\ inPipe' = inPipe - 1
    /\ pos' = pos + 1
    /\ thread' = IF pos' = goal THEN "idle" ELSE "reading"
    /\ UNCHANGED <<main, stopEvent, proc, stdoutOpen, pipeline, goal, chunkStart, warm,
                   files, start, atStop>>

\* Where _read_exact goes when read_fn returns b"".
AfterEof == "short"

\* Nobody is left to write.
Eof ==
    /\ thread = "reading"
    /\ inPipe = 0
    /\ up \cap {Leader, Last} = {}
    /\ thread' = AfterEof
    /\ UNCHANGED <<main, stopEvent, proc, stdoutOpen, pipeline, inPipe, reader, files,
                   start, atStop>>

\* The warm-up is over, in full or not.
Warmed ==
    /\ ~warm
    /\ thread = "short" \/ (thread = "idle" /\ pos = goal)
    /\ warm' = TRUE
    /\ goal' = pos + chunk_bytes
    /\ thread' = "idle"
    /\ UNCHANGED <<main, stopEvent, proc, stdoutOpen, pipeline, inPipe, pos, chunkStart,
                   files, start, atStop>>

\* What has been read of the current chunk.
DataLength == pos - (goal - chunk_bytes)

\* not len(data) < chunk_bytes
IsWhole(n) == n >= chunk_bytes

\* if self._stop_event.is_set(): return
StopSeen == stopEvent

\* _read_exact returns a chunk's data; a short one ends the generator.
ChunkRead ==
    /\ warm
    /\ thread = "short" \/ (thread = "idle" /\ pos = goal)
    /\ thread' = IF IsWhole(DataLength) /\ ~StopSeen THEN "writing" ELSE "dead"
    /\ UNCHANGED <<main, stopEvent, proc, stdoutOpen, pipeline, inPipe, reader, files,
                   start, atStop>>

WriteChunk ==
    /\ thread = "writing"
    /\ files' = Append(files, [name |-> chunk_filename(chunkStart), start |-> chunkStart,
                               from |-> goal - chunk_bytes, upto |-> pos])
    /\ chunkStart' = NextStart(chunkStart)
    /\ goal' = pos + chunk_bytes
    /\ thread' = "idle"
    /\ UNCHANGED <<main, stopEvent, proc, stdoutOpen, pipeline, inPipe, pos, warm, start,
                   atStop>>

\* The disk is full; nothing catches the exception.
WriteRaises ==
    /\ thread = "writing"
    /\ thread' = "dead"
    /\ UNCHANGED <<main, stopEvent, proc, stdoutOpen, pipeline, inPipe, reader, files,
                   start, atStop>>

ThreadStep ==
    \/ Begin \/ BeginRaises \/ BeginRead \/ Receive \/ Eof
    \/ Warmed \/ ChunkRead \/ WriteChunk \/ WriteRaises

-----------------------------------------------------------------------------

Next ==
    \/ Start \/ StartRaises \/ StopBegins
    \/ MainStep
    \/ ThreadStep
    \/ Produce
    \/ \E p \in Procs : SignalEnds(p) \/ Fails(p)

Spec == Init /\ [][Next]_vars

\* The threads run, and a process that a signal ends does end.  Nothing makes
\* the command write, or end by itself, or the program call stop().
FairSpec ==
    /\ Spec
    /\ WF_vars(MainStep)
    /\ WF_vars(ThreadStep)
    /\ \A p \in Procs : WF_vars(SignalEnds(p))

-----------------------------------------------------------------------------
(* Properties.                                                             *)

\* The type of the state.
TypeOK ==
    /\ main \in {"new", "failed", "running", "terminate", "wait", "reap", "close",
                 "join", "stopped"}
    /\ thread \in {"none", "begin", "idle", "reading", "short", "writing", "dead"}
    /\ stopEvent \in BOOLEAN /\ proc \in BOOLEAN /\ stdoutOpen \in BOOLEAN
    /\ up \in SUBSET Procs /\ term \in SUBSET Procs /\ kill \in SUBSET Procs
    /\ inPipe \in Nat /\ pos \in Nat /\ goal \in Nat
    /\ chunkStart \in Nat /\ warm \in BOOLEAN
    /\ files \in Seq([name : Nat, start : Nat, from : Nat, upto : Nat])
    /\ start \in Nat /\ atStop \in Nat

\* Every file holds one cycle's bytes, however the stream ended.
WholeChunks == \A i \in 1..Len(files) : files[i].upto = files[i].from + chunk_bytes

\* Counting from start_time at the nominal rate, byte at of the stream is
\* sampled within half a byte of instant s.
Near(s, at) ==
    /\ 2 * ((s - start) * BytesPerSecond - at * TicksPerSecond) <= TicksPerSecond
    /\ 2 * (at * TicksPerSecond - (s - start) * BytesPerSecond) <= TicksPerSecond

\* The first byte of a file was sampled within half a byte of the instant the
\* file is labelled with, for the last chunk as for the first.
TimeAligned == \A i \in 1..Len(files) : Near(files[i].start, files[i].from)

\* A file's name sorts after those of all earlier files, so that none is
\* overwritten and the decode worker passes none over.
NamesIncrease ==
    \A i, j \in 1..Len(files) : i < j => files[i].name < files[j].name

\* The chunk being handed over when stop() is called is the last to be written.
StopLetsOneThrough == stopEvent => Len(files) <= atStop + 1

\* stop() returns.
StopReturns == stopEvent ~> main = "stopped"

\* No process of the command outlives stop() for good.
NoStageLeft == stopEvent ~> up = {}

\* The thread ends once all processes of the command have, wherever it was.
ThreadEnds == (thread # "none" /\ up = {}) ~> thread = "dead"

-----------------------------------------------------------------------------
(* What the documentation says and the code does not keep.                 *)

\* A file begins on a sample.
SampleAligned == \A i \in 1..Len(files) : files[i].from % SAMPLE_WIDTH_BYTES = 0
=============================================================================
