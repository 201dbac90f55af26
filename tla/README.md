# The skimmer daemon in TLA+

TLA+ specifications of `hsd`, the daemon of w7gvr_hf_skimmer: an RTL-SDR
receiver's audio is cut into WAV chunks that begin on UTC cycle boundaries,
each chunk is decoded (FT8, FT4, WSPR), and what is heard is counted, logged
and sent to clients on a Unix socket. Time comes from the system clock,
corrected by gpsd if there is one.

The specifications are translated from `src/src/*.py`. TLC checks them on
small instances; TLAPS proves the main safety properties for every value of the
constants. `PROJECT.json` lists components, runs, mutants (slips in the code
that each property detects), the lines every definition stands for, findings,
hazards and theorems.

    tlc -config MC_HsdSafety.cfg MC_Hsd.tla      # any run of PROJECT.json
    tlapm HsdProofs.tla                          # any *Proofs.tla

Contents: [the system](#the-system), [modules](#modules),
[how the models correspond to the code](#how-the-models-correspond-to-the-code),
[runs](#runs), [fairness](#fairness), [proofs](#proofs),
[what the checks found](#what-the-checks-found), [known limits](#known-limits),
[what is not modelled](#what-is-not-modelled), [plan](#plan).

## The system

| Part | State | Operations | Talks to |
|---|---|---|---|
| **Sessions** (`hsd.py`) | `config["listening"]`, `_session_seq`, `_tsv_path`, `_spot_count`, `_decode_worker`, `_capture_worker`, all under `_state_lock`; files: `config.json`, `.hsd_log_counter`, one TSV log per session | `start_listening`, `stop_listening`, `_on_spot`, `main` | creates and stops the two workers; called by client threads, the main thread and decode worker threads |
| **Capture worker** (`capture_worker.py`) | `_proc`, `_thread`, `_stop_event`, position in the byte stream, `chunk_start` | `start`, `stop`, `_run` with `align_chunks`, `_read_exact`, `_write_chunk` | reads a pipe from `rtl_sdr \| csdr`; writes WAV files into the chunk directory; asks `_now_utc` once |
| **Chunk alignment** (same file) | none | `next_boundary`, `chunk_filename`, warm-up and chunk lengths | used by the capture; names are read back by the decode worker |
| **Decode worker** (`decode_worker.py`) | `_last_processed`, `_stop_event`, the sweep's candidates | `start`, `stop`, `_run` | lists the chunk directory, calls `_on_spot` |
| **Decoder output** (same file) | none | `decode_chunk`, `DECODERS`, `parse_*` | runs a decoder, reads what it prints |
| **GPS clock** (`gps_clock.py`) | socket buffer, `_offset`, `_stop_event` | `GpsdSource.next`, `poll_once`, `_run`, `timestamp`, `stop` | gpsd; the system clock; `_now_utc` |
| **IPC** (`hsd.py`) | the client list and its lock, a send lock per client, what the sockets hold | `_client_handler`, `_handle_command`, `broadcast`, `_status_snapshot` | sessions; `hsctl` and other clients; decode workers, which broadcast |
| `hsctl.py`, `watch_decodes.py` | what was read of a line | one command, 5 s for each read of the answer; or read on | the socket |
| command builders, decoder wrappers, provisioning | none | text to text, shell scripts | |

The workers are wired only through the chunk directory: the capture thread
creates files, the decode thread compares names. The daemon handles no signal,
so a service stop and a crash are the same event. The hard behaviours are:

- **A lock held across a join.** `stop_listening` holds `_state_lock` while it
  joins (5 s at most) a decode worker whose callback waits for `_state_lock`. The
  worker may outlive the join, and a next session, and go on delivering.
- **Steps of a start that are seen half done**, by workers of earlier sessions,
  by a crash, or by an exception in a later step. Files are truncated in one
  system call and written in another.
- **A directory as a queue**, with no protocol but the order of names, which are
  made from a clock that can be wrong for years and then step.
- **A byte stream tied to time once**, at its start, through a float product
  rounded to bytes; all later chunks are labelled by counting.
- **A pipeline of processes** of which only the shell is waited for, while
  another thread is blocked in a read on the pipe that `stop()` has to close.
- **Sockets written by two kinds of threads**, the handler of a connection and
  the decode worker that broadcasts, with a `sendall` that blocks for as long as
  the peer does not read; and a status put together without the session lock.
- **A socket that gpsd fills at its own pace** and a thread that reads it every
  few minutes, whose offset is only right if what it reads is new.

What makes each part correct: *sessions* — the count is the log, no row is lost,
a number is used once, "listening", capture and worker agree, stop is always
answered; *capture* — whole chunks, aligned for the length of a session, names
in order, a stop that returns and leaves no process; *decode worker* — each new
chunk once, in order, none passed over, no backlog; *decoder output* — every spot
delivered once, at the time of its chunk; *GPS clock* — never stale, never ahead,
not behind by more than a poll and the age of a report that waited, and alive after every
error it promises to survive; *IPC* — whole lines, one answer
per command in order, every spot to every client there is, no client forgotten in
the list, and none that can keep a command from being carried out.

## Modules

| Module | What it is |
|---|---|
| `Hsd` | sessions: client and main threads, `_state_lock`, decode workers, files, crash and boot |
| `Session` | the abstract specification of the session globals: `Hsd` implements it, `Ipc` extends it |
| `Ipc` | connections, handler threads, client list, sockets, broadcasts, and the programs at the other end; extends `Session` |
| `WatchDir` | order of file names: seed, candidates, sweep order; shared by `Hsd`, `DecodeWorker` and `ChunkFeed` |
| `DecodeChunk` | which lines a decoder prints become spots, and at what time (no variables) |
| `DecodeWorker` | one decode worker against a capture thread that writes files in two steps; extends `DecodeChunk` |
| `ChunkFeed` | the abstract specification `DecodeWorker` implements |
| `ChunkAlign` | arithmetic of boundaries, lengths and names (no variables) |
| `CaptureWorker` | start, stop, reading thread, processes, signals and pipe; extends `ChunkAlign` |
| `GpsClock` | gpsd, connection, polling thread, system clock |
| `MC_Hsd`, `MC_Ipc`, `MC_DecodeWorker`, `MC_CaptureWorker`, `MC_GpsClock` | instances for TLC |
| `HsdProofs`, `IpcProofs`, `DecodeWorkerProofs`, `ChunkFeedProofs`, `ChunkAlignProofs`, `CaptureWorkerProofs`, `GpsClockProofs` | theorems |
| `WatchDirProofs` | lemmas on numbers and name order that the other proof modules share |

Every module of the system has a section *Faults*: alternatives to definitions
of the module, each a slip one could make in the code (a `>` turned into `>=`, a
lock not taken, a signal sent to the wrong process). Nothing uses them; they are
put in place of the definition to see that a property notices.

## How the models correspond to the code

**Hsd.** A thread's `pc` says where it is in `start_listening` (`number`, `path`,
`count`, `log`, `decode`, `capture`), `stop_listening` (`halt`, `event`, `join`) or in
the `_save_config` that ends both (`save`, `write`). The critical section is split
wherever somebody could tell: at every truncation (a crash leaves a torn file: the value
`Torn`), wherever a worker that does not need the lock can move, between the globals of
a session (`_tsv_path` is where stragglers write; a status is put together without the
lock), and at the calls that can fail. An exception releases the lock, as the `with`
does, and leaves what was set up: `OpenFails` when a directory or file cannot be made or
opened, before the file changes, `WriteFails` when it has been truncated, `CaptureFails`
when the capture does not start. `_save_config` reads `config.json` before it writes it,
so a torn one makes every later save raise (`LoadRaises`), and keeps a new process from
booting (`BootFails`). The handler thread ends with an exception; the model lets the
client ask again, for it can connect again. `workers` holds every `DecodeWorker` since
boot because workers the daemon has let go of still run. A worker is `DecodeWorker`'s
loop; files are numbered in name order. `OnSpot` counts a spot and writes its row under
the lock; the worker is then at `tell`, in the broadcast, until `Told`. While some client
does not read (`stalled`) that may be for ever. A capture is a Boolean and `ChunkLands`;
its inner life is `CaptureWorker`. `stop()` joins the capture thread, so the chunk it may
let through lands before `HaltCapture`, while `capturing` still holds. `Crash` empties
what is in memory; what has been written is on the disk at once, so it is the end of a
process, not a loss of power. `Boot` is `main`, which begins in `start` when
`config.json` says so and otherwise serves. A row is identified by the chunk and the
position of its spot in it.

**Session.** What of all this a client can be told about or a worker can meet: the
lock with the phase of its holder, "listening", the number, the count, the worker of
the session and the workers that run. Files, capture and chunks are gone; a start is
`number`, `count`, `worker`, `capture`, `save`, a stop `join`, `save`; a setup may be
given up anywhere. `Hsd`'s `Promised` maps its state: `path` is still the phase `count`,
`write` is `save`, `log` and `decode` are the phase
`worker` (opening the log is a stutter), `halt`, `event` and `join` are `join`, and
`running` is the workers that have not exited. `Resume` is a boot that takes
over "listening" from the file. `hsd_safety` checks that `Hsd` implements it; `Ipc` is
built of its actions, so that the two agree on what a start or a stop does.

**Ipc.** A behaviour is the life of one process. `Boots` says what it may begin with:
the lines each client is about to send, and whether `config.json` says listening, which
`main` takes over although there is no session then. `inherited` remembers that the
daemon listens for that reason alone, until somebody stops it (`EndStop`); a status
carries it along, unsent, for `ListeningHasSession`. A connection is named by its client. `pc` is its handler thread: `add`,
`snapshot` and `session` (the two fields of a status that can disagree), `send` and
`rest` (a line goes out in two pieces), `recv`, `start`, `stop`, `busy` (inside
`Session`'s steps, which `Begin`, `Inside`, `EndStop`, `Finish` and `Fails` conjoin), `close`,
`closing`, `closed`. `job` is what the client sends, at once, so lines sent before
an answer to the first is there are covered. `stream` is the socket's buffer in
pieces, `Room` is what makes `sendall` go on, `writer` is `client.lock`. A
`sendall` takes the lock and writes or blocks (`Begins`, `SendBlocks`). If the peer
leaves it raises, and so does one that begins on a connection either end has closed;
`send` swallows that (`SendDropped`). One in progress in a worker's thread is not woken
by the handler's own `close()`, and its peer does not see the end of the stream before
(`ReadEnd`). `Arriving` is the places in the socket where lines end; a client that
reads takes up all of them in one step, and counts each, equal ones too. `news[w]` is a worker in `broadcast`: copying the list, then sending
to one client after the other; `due` remembers who was in the list when the spot was
counted, for `SpotReachesAll`. `Unlist` is the `finally` clause, reached when the
client has left or an exception other than `OSError` comes out of `_handle_command`:
a JSON value without `get`, or a start that raises. At which step it raises makes no
difference to clients, so `Fails` takes the capture's. A client is `hsctl start`, `stop`
or `status` if its job is that one command, and then leaves with the first event of
the kind it waits for (for `status` that is the greeting); any other reads to the end.
`Restless` clients may leave at any moment, which covers a ^C and hsctl's 5 s, or stop
reading for good.

**DecodeChunk.** A line is a spot, garbled (it matches the regular expression and has
a value that is none, such as hour 25, for which `datetime` raises) or another line.
`parse_wsprd_line` catches the `ValueError`, the others do not, and then `decode_chunk`
returns nothing. A pair that `DECODERS` lacks raises too. `SpotTime` is the
override with the chunk's start, which a chunk's name stands for.

**DecodeWorker.** `dir` maps a name to absent, partial or complete: `wave.open`
creates the file under its final name and the data follows. Names are naturals in
the order of the strings `YYMMDD_HHMMSS` (that is the order of time within a
century). `label`, the name of the chunk to come, starts anywhere, below, among
or above the files left by earlier sessions: the clock may have been wrong then,
or now. A decoder prints one of `Outputs`, also for a partial file. `left` holds the lines
of spots that are to be delivered, `given` what the callback got. An exception of
`decode_chunk` is caught, and the chunk has no spots. The callback may raise at any
spot, which ends the thread.

**ChunkFeed** has four variables of its own and three actions: a file arrives,
the feed begins (and skips all there is), the next file is taken. The refinement
maps `files` to the files listed, `cursor` to the file in hand or the last one
processed and `taken` to the decoder's calls.

**ChunkAlign / CaptureWorker.** An instant is a number of ticks (microseconds in
the code) from the top of an hour. `Rounded` is Python's `round`, ties to even.
Float arithmetic is taken to be exact. The stream is counted in bytes: `pos` is
what has been read, `goal` where the running `_read_exact` ends. `align_chunks`
is the thread's states `begin`, `idle`, `reading`, `short`, `writing`, `dead`.
Processes are up or down, and have been sent SIGTERM or SIGKILL or not.
`Stubborn` are those that may not end on SIGTERM. `shell=True` makes a shell the
leader, which ends once its pipeline has; with `Procs = {Leader}` and
`Leader = Last` the same module is the plain `rtl_fm` command, which the theorems
cover. `CloseStdout` waits for a read in progress, since a `BufferedReader` holds
its lock during `read` and `close` takes it. Nothing passes a
`chunk_ready_callback`, so it is left out.

**GpsClock.** A line is its kind (a report with a fix, one without, one whose
time does not parse, another class of report, garbled, JSON but no object) and the time
it was sent at; `Malformed` says which of the kinds that end the thread gpsd may send.
`next()` is three states: `drain` (take what waits, keep the last report),
`block` (wait for one if there was none), `use` (the report is turned into an
offset, at a later time by the clock). Four variables are history: `began` is when the
running poll began, `floor` when the newest report was sent that waited then; `took` is
how long the poll took that made the offset, `aged` the age that report had when it
began. The thread ends in `next()` (`noobject`), in `poll_once` (`notime`) or after
`stop()`. A banner that is not JSON ends `main` before there is a daemon (`nodaemon`);
without gpsd there is no clock (`noclock`). The system clock may be set at any time, and
the receiver's idea of time without a fix is arbitrary (0).

## Runs

Runs that pass:

- `hsd_safety` (`MC_HsdSafety.cfg`): two interchangeable clients, 3 starts,
  2 chunks, 2 spots each, 1 crash, no failing writes or starts. Two clients are
  enough for every race on the lock (main is a third contender after a boot);
  three starts let a worker survive two sessions; two chunks with two spots are
  the least for which order, repetition and a partly delivered chunk differ;
  one crash separates "before" and "after", and starts on both sides. Symmetry
  permutes the clients; no liveness is checked in this run, and no definition tells
  clients apart. Clients that stop reading add nothing to safety (a broadcast may last for
  ever without fairness), so `ClientsMayStall` is FALSE here. It checks the refinement of `Session` as well.
- `hsd_live` (`MC_HsdLive.cfg`): all faults but torn counters and configurations in a
  crash (failing writes tear them here), clients that stop reading, two starts, one
  chunk with one spot, one client that sends commands, without symmetry. A stop is
  answered though the worker may wait for the lock the stop holds; stopped workers end
  unless they come to send a spot while somebody does not read; no row of a session that
  is on goes uncounted, even so. One client is enough: what a stop races with here is the
  worker, and main, which contends for the lock after a boot.
- `ipc` (`MC_Ipc.cfg`): two connections, one worker, one session, one spot. A
  session, a spot and two clients are what a broadcast needs to meet a start, a stop,
  an answer, a client that comes, one that leaves and one that blocks it; the second
  client may leave or stop reading. A buffer of two pieces holds one line, so the
  greeting, an answer and a spot already compete for it, and a send can block after
  its first piece. The four boots are: a client that starts and stops beside a monitor; a
  process that listens from the beginning, with a client that starts and asks for status
  beside `hsctl stop`, so that the inherited listening is stopped, begun anew and asked
  about in every order; one with a bad line before another, beside a monitor, in such a process;
  `hsctl status` beside one whose line ends the thread. Each connection may be first in
  the list. Checks safety and
  liveness; the system stops when all has been sent.
- `decode_safety` (`MC_DecodeSafety.cfg`): 4 names: any backlog, any start among it,
  and room for chunks before, during and after a sweep. One configuration for each
  parser and one that `DECODERS` lacks; a decoder prints nothing, a spot on either side
  of another line, or a spot after a garbled line, the least for order, loss and
  exceptions. It checks the refinement of `ChunkFeed`, of which `DecodedInOrder`,
  `BacklogSkipped` and `NonePassedOver` are consequences (proved, not run).
- `capture_safety` (`MC_CaptureSafety.cfg`): three processes that die at any
  moment, every start instant in the last cycle of an hour and the first of the
  next at 12 ticks and 4 bytes a second, so that a start falls on a byte, between
  two bytes on either side of the middle, and exactly in the middle; 18 bytes, for
  a warm-up and two chunks with a rest; a pipe of one byte, for it is only the
  difference between empty and full that counts. A cycle of one and a half
  seconds has FT4's half-second boundaries. Checks safety and liveness.
- `gps_safety` (`MC_GpsSafety.cfg`): three instants, two lines in flight, one
  line during a drain (gpsd writes about once a second, a drain takes far less),
  one unusable line of any kind, a clock that is right or five units behind and
  can be set either way, a gpsd that is absent, leaves or returns. Two lines are
  enough to have an old and a new report wait together, or an error between two.

Runs that end in a violation (see [what the checks found](#what-the-checks-found)):
`hsd_restart`, `decode_partial`, `capture_orphan`, `capture_odd_warmup`,
`gps_malformed`, `ipc_stuck` (which has the constants of `ipc`).

Named bounds: `MaxStarts`, `MaxChunks`, `MaxSpots`, `MaxCrashes` (Hsd);
`MaxName`, `Outputs` (DecodeWorker); `Boots`, `BufSize`, `MaxStarts`, `MaxSpots` (Ipc); `PipeBytes`, `MaxBytes`, `Starts`
(CaptureWorker); `MaxTime`, `MaxQueue`, `MaxBurst`, `MaxMisc` (GpsClock). The
runs on the capture, the decode worker, GPS and IPC do not check for deadlock,
because there the system stops: the worker has ended, or no client has more to say. The daemon never may, and both
passing runs of `Hsd` check it.

## Fairness

- `Hsd`: threads that can go on do. A thread waiting for `_state_lock` gets it
  (strong fairness): CPython's lock does not promise an order, but nobody holds
  it for a fixed part of the time, and contenders are few. A decoder ends (weak
  point of the code: it has no timeout, see the hazards). A broadcast ends if from some
  time on every client reads (`WF` of `Told` while not `stalled`): `sendall` has no
  timeout, and nothing makes a client read. `Boot` happens: the
  service supervisor starts the daemon. Commands, chunks and crashes need not
  happen.
- `Ipc`: handler and broadcasting threads go on when they can, and get a lock that is
  free again and again (strong fairness, as above; it is also what a `sendall` gets
  that waits for room in a buffer others fill too). Clients read what there is until
  they stop reading. Nothing makes clients connect, leave or stop, or spots come.
- `DecodeWorker`: the worker runs, its decoder ends and its callback returns; a file that
  was opened gets written. That `_on_spot` may not return is in `Hsd` and `Ipc`. Nothing
  makes chunks come or stop be called.
- `CaptureWorker`: both threads run, and a process that a signal ends, ends.
  Nothing makes the command write a byte or end by itself.
- `GpsClock`: the polling thread runs, and a gpsd that can write a fix does now
  and then. `MaxMisc` keeps out a gpsd that writes other lines for ever, in which
  `next()` would wait without end, its 5 s being for each read. The receiver's having a fix is the assumption; that there is never an
  error between is not.

## Proofs

All theorems are for any number of clients, workers, chunks, spots, lines, processes,
rates and instants. Every invariant the runs check is proved, except where a run ends
in a violation, and so are the action property `LogsAppendOnly`, the properties
`SpotsInOrder` and `StopLetsOneThrough`, and both refinements. Bounds such as
`MaxStarts` are arbitrary in the theorems, so they bound nothing.

Assumptions on constants are named in the modules that declare them, and TLC evaluates
them: `ThreadsAssumption`, `TornAssumption`, `BoundsAssumption`, `FaultsAssumption`
(Hsd), `NobodyAssumption` (Session), `BootsAssumption`, `NamesAssumption`,
`SizesAssumption` (Ipc), `OutputsAssumption` and its own `BoundsAssumption`
(DecodeWorker), `RatesAssumption`, `GridAssumption`, `CycleAssumption` (ChunkAlign),
`ProcsAssumption` and another `BoundsAssumption` (CaptureWorker), `SkewsAssumption`,
`MalformedAssumption`, `NoneAssumption` and another `BoundsAssumption` (GpsClock). Most say that names of
different things differ and that bounds are numbers. The grid's is the comment in
`next_boundary`, that cycles divide the hour; the cycle's is that it is a whole number
of bytes and at least a second.

Some theorems on Hsd have a hypothesis on which faults there are. Each is needed: with
the constant it is about set to TRUE in `MC_HsdSafety.cfg`, TLC finds each of the
properties in its row violated (see [known limits](#known-limits)).

| Theorem of `HsdProofs` | Property | Hypothesis |
|---|---|---|
| `TypeCorrect`, `MutualExclusion`, `CountCovers` | `TypeOK`, at most one thread in a critical step, `CountCoversLog` | none |
| `CountMatches`, `DiskIsCurrent`, `Refinement` | `CountMatchesLog`, `DiskAgrees`, `SessionSpec` | writes do not fail |
| `OneWorker`, `SessionsAreWhole`, `OwnChunksOnly`, `SpotsAreLoggedOnce` | `OneUnstoppedWorker`, `ActiveSession`, `OnlyThisSessionsChunks`, `EachSpotLoggedOnce` | captures start |
| `NumbersAreFresh`, `AppendOnly` | `FreshNumbers`, `LogsAppendOnly` | neither a crash nor a failing write tears the counter |

- **HsdProofs.** `LockOK` (a thread is in a critical step iff it
  owns the lock) gives `MutualExclusion`. `CountInv` extends "rows ≤ count" to the
  steps of a start: after `number` the count is still that of the session before and
  then 0, the path still the old one, and the log not open yet, so what `CountCoversLog`
  says of a free lock is not inductive. (It is about sessions that are on: a start that
  fails between its number and its log leaves the count of one session with the log of
  another.) `WorkerInv` follows the one worker without a stop event through start
  and stop. `FreshInv` says that the counter bounds the numbers of all logs, during a
  start as well; that rows stay is then a fact about steps. `DownInv` says that
  nothing of a process outlives it, so a thread that moves is one of a process that
  runs. `DiskInv`: `config.json` is torn only while somebody is at `save`. `ActiveInv`
  says what each step of a start and a stop finds of the session.
  What chunks a worker may still get to (`Ahead`) is its list and, if it will look at
  the directory again, every name above its last; `ChunkInv` and `SessionInv` keep that
  within the session for the worker that looks, and `OnceInv` says that no two workers
  have a chunk ahead of both, and that of the chunks ahead only the one in hand has
  rows, just those that have been delivered. `EachSpotLoggedOnce` is one of its
  conjuncts: it is not inductive, for a worker may hold a chunk for two sessions and
  more. `Refinement` needs, besides, that numbers grow (`GrowInv`) and that the session's
  worker has a stop event only during `join` (`StopInv`): it cannot have exited
  before, which a failing write could make it do. Every step is then a step of `Session`
  or leaves its variables alone.
- **IpcProofs.** The theorems have no hypotheses, and clients may send any lines.
  `HeldInv` says of each `client.lock` who holds it: the handler just when it is at
  `rest`, or a worker between the two pieces of its line. `PieceInv` relates that to
  the socket: an odd number of pieces just when somebody holds the lock, the last one
  being of the line its holder is at. It gives `LinesStayWhole`; `LinesWhole` alone says
  nothing of whose turn it is. `CountInv` says which answer a handler is at
  (`Handles`), that the answers sent, read and unread, are as many as the lines taken
  up (`Counted`), and that those in the socket continue those read (`InOrder`):
  `AnswersComeInOrder`. `NumberedInv`, `ReplyInv` and `StatusInv` follow a status
  from the read of "listening" to the socket, and give `StatusNamesSession`: whoever
  listens without having inherited it has a number, and numbers are never given back, so
  the number read later is one too. For `SpotsReachAll`, the list
  has no duplicates and only connected clients (`ListInv`), a spot's number is one
  worker's alone (`SpotsInv`), and a worker walks over a list that has all clients that
  were there when its spot was decoded and are still there (`Walks`); those it has been
  at have the spot once, the others not at all (`Delivered`). A client that has
  left or been closed stays so (`LostStays`).
- **ChunkFeedProofs.** `CursorInv` ties the cursor to the skipped and the taken
  names; from it `NothingIsMissed` and `TakenInNameOrder`.
- **DecodeWorkerProofs.** `TypeInv` and `OrderInv` (candidates lie above what
  was processed) give `InOrder` and `BacklogIsSkipped`. With `FeedInv` — nothing
  lies between the cursor and the first candidate, but what lies below a skipped
  name — every step is a step of `ChunkFeed` or a stutter: `Refinement`, with no
  assumption on the clock. `NoneIsPassedOver` is then the abstract theorem, through
  the refinement. A further invariant follows the spots: what was given of the chunk in
  hand and what is `left` make up its spots, the given ones first, and those of earlier
  chunks are complete. It gives `SpotsAreInOrder` and `NoneIsLost`, for whatever
  decoders print.
- **ChunkAlignProofs.** `BoundaryIsNext` and `BoundaryIsOnGrid` for every instant;
  `NameReadsBack`: the start read back from a name is early by less than a second,
  and exact only for whole seconds.
- **CaptureWorkerProofs.** The invariant `CaptureInv` is six named parts: types,
  what holds before `_run` has begun, where a read ends, where the next chunk
  stands against its label (`AlignInv`), what holds of the files (`FilesInv`) and
  what stop() leaves to write. It gives `ChunksAreWhole`, `NoDrift` (the error of
  the rounded warm-up stays below half a byte for every later chunk, because
  a cycle is a whole number of bytes), `NamesAreIncreasing` and `StopIsPrompt`.
  `NoReadIsLeft` is the reason why `stop()` need not wait long for the thread: the stream
  it has closed is not read any more.
- **GpsClockProofs.** `Queue` is what was sent and not looked at, in the buffer or under
  way, and `InOrder` says that it is in the order of time, with the report in hand
  before it. `FloorInv` says where the report `next()` must not fall behind is: still
  in the queue, or taken, by whichever step of the drain. It gives `NoneIsStale`.
  `OffsetInv` says that offset and clock, while nobody sets that, make up a time that is
  not ahead and at most `took + aged` behind; the step that makes the offset needs
  `FloorInv`: the report is no older than `floor`, and `now - floor` is the time since
  `began` and the age of what waited then. It gives `TimestampIsWithin`.

Checked by TLC only: all liveness properties (`StopCompletes`, `StoppedWorkersEnd`,
`CommandsAnswered`, `GhostsRemoved`, `BroadcastsEnd`, `NewFileDecoded`, `StopReturns`,
`NoStageLeft`, `ThreadEnds`, `FixFollows` and the two `StopEnds`), because the prover does
not reason about fairness and ENABLED. What a recursive definition computes could not be
proved (induction over data is out of the prover's reach), and no module has one; the
least-number principle, which `WatchDirProofs` gets from the library's well-founded order,
is what stands in for induction on numbers. `SelectSeq` is defined by recursion, so
`Ipc` takes a client off the list with `RemoveFirst`, which is not, and counts places
in a socket.

## What the checks found

1. **A restart in mid-session listens to nothing** (`hsd_restart`). `main` loads
   `"listening": true` and calls `start_listening`, which sees the flag and returns.
   Status says listening, `start` is acknowledged, and nothing runs until somebody
   sends `stop` and `start`.
2. **A chunk can be decoded while it is written** (`decode_partial`), and is not
   looked at again. The window is short: the frames go out in one call.
3. **A stage that does not end on SIGTERM survives stop()** (`capture_orphan`), if
   the shell does: SIGKILL is sent only when the wait for the shell times out.
4. **A warm-up of an odd number of bytes** (`capture_odd_warmup`) shifts all
   samples of the session by a byte.
5. **A TPV report whose time does not parse ends the polling thread**
   (`gps_malformed`), the outcome the docstring of `poll_once` is about.
6. **A client that stops reading takes the spots from all clients after it**
   (`ipc_stuck`), and the worker, which is in its `sendall`, decodes no more. Commands
   go on (`CommandsAnswered`): the join of that worker times out.

## Known limits

What the code does and the properties accept. Each can be seen by changing one
constant of a run or dropping a hypothesis.

- A start that fails leaves a session half set up: "listening" is FALSE, so stop
  refuses, and the decode worker runs until the daemon ends, beside that of the next
  session, whose chunks both then decode and log (`CaptureMayFail` TRUE:
  `OneUnstoppedWorker`, `ActiveSession`, `OnlyThisSessionsChunks` and
  `EachSpotLoggedOnce` fail).
- A worker that outlived its join writes the spots that were left into the log of
  the session the daemon is in by then, and counts them there. The count still
  matches.
- A crash between truncating `.hsd_log_counter` and writing it starts numbers at 1
  again, and empties the first log (`CrashMayTear` TRUE: `FreshNumbers` and
  `LogsAppendOnly` fail). One that tears `config.json` keeps the daemon from
  booting: only `BootFails` is then possible. A full disk does the same to either file
  (`WriteMayFail` TRUE): a number is used again, or every start and stop that follows
  raises when it comes to saving.
- A row that cannot be written was counted (`WriteMayFail` TRUE: `CountMatchesLog`
  fails, `CountCoversLog` holds), and ends the worker's thread, with no trace in
  "listening".
- If the clock was ahead during an earlier session, names of a new session sort
  before what that session left and are never decoded: the hypothesis of
  `NewFileDecoded` and of `NoneMissed`.
- A `.wav` in the chunk directory whose name sorts after all dates hides all chunks.
- A garbled line among jt9's or decode_ft8's output costs the chunk all of its spots.
- A status may join the number of a new session with the count of the last, because
  its fields are read between the steps of a start. That "listening" comes with a session
  is promised only of a process that has begun one: one that took "listening" over from
  `config.json` answers with `session_seq` null until somebody stops it
  (`ListeningHasSession` excuses `inherited`; see the first finding).
- A worker in a `sendall` to a client that does not read may never end, told to stop or
  not (`StoppedWorkersEnd` excuses it; `ipc_stuck`).
- hsctl reports "no response" for a command that is carried out later, for a stop may
  take 3 + 5 + 5 s; its 5 s count from the last line received, so spots prolong them.
- Labels of a running session do not correct themselves when a fix comes, as
  `src/STATUS.md:32` hopes of timestamps: the clock is asked once per session.
- `stop()` of the capture waits without limit in `stdout.close()` if the last stage
  ignores SIGTERM and is silent (`Stubborn = {csdr}`: `StopReturns` fails).
- The capture's `stop()` joins its thread for 5 s at most. A chunk whose write takes longer
  would land after a stop, at most one (`StopLetsOneThrough`); `Hsd` takes the write to
  be over by then.
- Half of FT4's chunks are labelled half a second early (`NameReadsBack`).
- A report that waited for the length of a sleep is as old as it was when the poll began,
  and the offset is behind by that (`aged` in `TimestampWithin`): with a gpsd that writes
  every second that is a second, with one that has stopped it may be the whole interval.
- A line of gpsd that is JSON but no object ends the polling thread (an `AttributeError`,
  which `poll_once` does not catch), like a time that does not parse; in the drain the
  line `null` is taken for "nothing more waits". A banner that is not JSON ends `main`.
- A connection gpsd has closed is never opened again: `FixFollows` excuses
  `~open`. A clock that had no gpsd at boot never gets one.

## What is not modelled

- The text of lines: the regular expressions of the parsers, the command builders and
  TSV columns are pure functions of text with table-driven tests in the repository.
- Mode and decoder in a status (the configuration does not change while the daemon
  runs), and a `stdin` or terminal in front of a client.
- `watch_decodes`'s query of gpsd and its grid square: it only prints them. What it is
  to the daemon, a client that reads on, is in `Ipc`.
- How the buffered bytes of a line are cut up by `recv` beyond two pieces.
- Decoders, `csdr`, `rtl_sdr` and wrapper scripts: external; a decoder is a choice
  of spots, a pipeline a set of processes. The offline demodulator and provisioning
  change nothing the daemon sees.
- Rounding errors of floats; names across a century; DST and leap seconds (the code
  uses UTC throughout).

## Plan

1. **Capture within Hsd**: an abstract capture (on, off, a chunk lands) of which `ChunkLands`
   and `capturing` are an instance and which `CaptureWorker` is shown to implement, with
   the chunk that lands after the capture's `stop()` has given up its join.
