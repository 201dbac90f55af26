-------------------------------- MODULE Hsd --------------------------------
(***************************************************************************)
(* The session life cycle of the daemon (src/src/hsd.py): the threads that *)
(* serve clients and run start_listening and stop_listening under          *)
(* _state_lock, the decode worker threads that call back into _on_spot,    *)
(* the files the daemon keeps (session counter, config.json, one TSV log   *)
(* per session), and what a crash or a service restart leaves of them.     *)
(*                                                                         *)
(* One thread holds _state_lock at a time; the operations below split a    *)
(* critical section wherever another thread, or the file system after a    *)
(* crash, can tell the difference.  The capture side appears here only as  *)
(* "a chunk lands"; a worker's own loop is the one of DecodeWorker.tla     *)
(* without the details of the WAV files.                                   *)
(***************************************************************************)
EXTENDS Naturals, Sequences, WatchDir

CONSTANTS
    Clients,          \* connections, each with its _client_handler thread
    Main,             \* the main thread, which runs the socket server
    NoOne,            \* the owner of a free lock
    Torn,             \* the contents of a file truncated and not yet written
    MaxStarts,        \* bound: start commands the clients send in all
    MaxChunks,        \* bound: WAV files captured in all
    MaxSpots,         \* bound: spots a decoder finds in one chunk
    MaxCrashes,       \* bound: crashes and restarts of the daemon
    CaptureMayFail,   \* whether starting the capture can raise
    WriteMayFail,     \* whether writing a file can raise (a full disk)
    CrashMayTear,     \* whether a crash can hit between truncate and write
    ClientsMayStall   \* whether clients can stop reading

Threads == Clients \cup {Main}

ASSUME ThreadsAssumption == Main \notin Clients /\ NoOne \notin Threads
ASSUME TornAssumption == Torn \notin Nat /\ Torn \notin BOOLEAN
ASSUME BoundsAssumption ==
    /\ MaxStarts \in Nat /\ MaxChunks \in Nat
    /\ MaxSpots \in Nat /\ MaxCrashes \in Nat
ASSUME FaultsAssumption ==
    /\ CaptureMayFail \in BOOLEAN
    /\ WriteMayFail \in BOOLEAN
    /\ CrashMayTear \in BOOLEAN
    /\ ClientsMayStall \in BOOLEAN

VARIABLES
    \* threads and the lock
    pc,           \* where each thread is
    lock,         \* who holds _state_lock
    \* the module's globals, lost in a crash
    listening,    \* config["listening"]
    seq,          \* n of _next_log_seq, between its read and its write
    session,      \* the number in _session_seq; 0: none yet
    tsvPath,      \* the number in _tsv_path; 0: none yet
    spotCount,    \* _spot_count
    decodeWorker, \* _decode_worker, as an index into workers; 0: None
    capturing,    \* _capture_worker is there and its pipeline was started
    workers,      \* every DecodeWorker since boot, whether referred to or not
    \* the files, which survive
    config,       \* "listening" in config.json
    counter,      \* .hsd_log_counter; 0: the file does not exist
    logs,         \* the TSV logs by session number: the rows written so far
    captured,     \* the WAV files in name order: the session each is from
    \* bounds
    starts, crashes,
    \* the surroundings
    stalled       \* some client does not read: what is sent to it blocks

volatile == <<listening, seq, session, tsvPath, spotCount, decodeWorker, capturing>>
files == <<config, counter, logs, captured>>
vars == <<pc, lock, volatile, workers, files, starts, crashes, stalled>>

-----------------------------------------------------------------------------
(* State.                                                                  *)

\* Where a thread is while it holds _state_lock.
StartSteps == {"number", "path", "count", "log", "decode", "capture"}
StopSteps == {"halt", "event", "join"}
SaveSteps == {"save", "write"}
Critical == StartSteps \cup StopSteps \cup SaveSteps

\* "down" is for the main thread only: there is no process.
ThreadSteps == {"idle", "start", "stop", "down"} \cup Critical
WorkerSteps == {"seed", "check", "glob", "sweep", "deliver", "tell", "exit"}

\* The WAV files are numbered in the order of their names, which is the order
\* they are captured in as long as the clock does not step back.
Chunks == 1..Len(captured)

\* A DecodeWorker: where its thread is, _stop_event, _last_processed, the
\* candidates not yet visited, wav_path and the spots left to deliver.
Worker == [pc : WorkerSteps, stop : BOOLEAN, last : Nat,
           cand : SUBSET Nat, wav : Nat, left : Nat]
NewWorker == [pc |-> "seed", stop |-> FALSE, last |-> Nothing,
              cand |-> {}, wav |-> Nothing, left |-> 0]

\* What the TSV row of a spot is told apart by: its chunk, its place in it.
Row(w) == <<workers[w].wav, workers[w].left>>

\* The rows in the log of a session, if there is one, and the logs once the
\* one at _tsv_path has certain rows.
Rows(s) == IF s \in DOMAIN logs THEN logs[s] ELSE <<>>
WithRows(rows) == [s \in DOMAIN logs \cup {tsvPath} |->
                       IF s = tsvPath THEN rows ELSE logs[s]]

\* The socket server accepts clients.
Serving == pc[Main] = "idle"
Up == pc[Main] # "down"

Init ==
    /\ pc = [t \in Threads |-> IF t = Main THEN "down" ELSE "idle"]
    /\ lock = NoOne
    /\ listening = FALSE
    /\ seq = 0
    /\ session = 0
    /\ tsvPath = 0
    /\ spotCount = 0
    /\ decodeWorker = 0
    /\ capturing = FALSE
    /\ workers = <<>>
    /\ config = FALSE
    /\ counter = 0
    /\ logs = [s \in {} |-> <<>>]
    /\ captured = <<>>
    /\ starts = 0
    /\ crashes = 0
    /\ stalled = FALSE

Goto(t, step) == pc' = [pc EXCEPT ![t] = step]

\* The thread leaves the critical section.
Leave(t) == Goto(t, "idle") /\ lock' = NoOne

-----------------------------------------------------------------------------
(* Faults: plausible slips in the operations below, one per definition.    *)

\* The number just used is handed out once more.
SameLogSeq(c) == IF c = Torn THEN 1 ELSE IF c = 0 THEN 1 ELSE c

\* start_listening without its early return.
BeginSessionAgain(t) ==
    /\ pc[t] = "start" /\ lock = NoOne
    /\ lock' = t
    /\ seq' = IF counter = Torn THEN 1 ELSE counter + 1
    /\ counter' = Torn
    /\ Goto(t, "number")
    /\ UNCHANGED <<listening, session, tsvPath, spotCount, decodeWorker, capturing,
                   workers, config, logs, captured, starts, crashes, stalled>>

\* The worker is built and remembered, but start() is not called.
StartDecodeForgotten(t) ==
    /\ pc[t] = "decode"
    /\ decodeWorker' = Len(workers) + 1
    /\ Goto(t, "capture")
    /\ UNCHANGED <<lock, listening, seq, session, tsvPath, spotCount, capturing,
                   workers, files, starts, crashes, stalled>>

\* stop_listening forgets about the capture.
HaltNothing(t) ==
    /\ pc[t] = "halt"
    /\ Goto(t, "event")
    /\ UNCHANGED <<lock, volatile, workers, files, starts, crashes, stalled>>

\* A join() that has timed out is repeated.
JoinAgain(t) ==
    /\ pc[t] = "join"
    /\ decodeWorker # 0
    /\ workers[decodeWorker].pc \in {"sweep", "deliver", "tell"}
    /\ UNCHANGED vars

\* The file is written before config["listening"] changes.
SaveStale(t) ==
    /\ pc[t] = "write"
    /\ config' = ~listening
    /\ Leave(t)
    /\ UNCHANGED <<volatile, workers, counter, logs, captured, starts, crashes,
                   stalled>>

\* _on_spot without _state_lock.
NoLockTaken == TRUE

\* Spots that arrive after their worker was let go of are not counted.
StragglersNotCounted(w) == IF w = decodeWorker THEN spotCount + 1 ELSE spotCount

\* The loop does not look at _stop_event again.
IgnoresStop(w) == FALSE

-----------------------------------------------------------------------------
(* The clients.                                                            *)

\* A client sends {"cmd": "start"} or {"cmd": "stop"}; its handler thread
\* calls start_listening or stop_listening and waits for _state_lock.
RequestStart(c) ==
    /\ Serving /\ pc[c] = "idle" /\ starts < MaxStarts
    /\ Goto(c, "start")
    /\ starts' = starts + 1
    /\ UNCHANGED <<lock, volatile, workers, files, crashes, stalled>>

RequestStop(c) ==
    /\ Serving /\ pc[c] = "idle"
    /\ Goto(c, "stop")
    /\ UNCHANGED <<lock, volatile, workers, files, starts, crashes, stalled>>

\* Some client stops reading, and then none does.
ClientStalls ==
    /\ ClientsMayStall
    /\ Serving /\ ~stalled
    /\ stalled' = TRUE
    /\ UNCHANGED <<pc, lock, volatile, workers, files, starts, crashes>>

ClientResumes ==
    /\ stalled
    /\ stalled' = FALSE
    /\ UNCHANGED <<pc, lock, volatile, workers, files, starts, crashes>>

-----------------------------------------------------------------------------
(* start_listening.                                                        *)

\* The number of the next log, from what .hsd_log_counter holds.
NextLogSeq(c) == IF c = Torn THEN 1 ELSE c + 1

\* if config["listening"]: return
StartRefused(t) ==
    /\ pc[t] = "start" /\ lock = NoOne
    /\ listening
    /\ Goto(t, "idle")
    /\ UNCHANGED <<lock, volatile, workers, files, starts, crashes, stalled>>

\* The counter file is read and truncated ...
BeginSession(t) ==
    /\ pc[t] = "start" /\ lock = NoOne
    /\ ~listening
    /\ lock' = t
    /\ seq' = NextLogSeq(counter)
    /\ counter' = Torn
    /\ Goto(t, "number")
    /\ UNCHANGED <<listening, session, tsvPath, spotCount, decodeWorker, capturing,
                   workers, config, logs, captured, starts, crashes, stalled>>

\* ... and written, and the globals of the session are set, one by one.
NumberSession(t) ==
    /\ pc[t] = "number"
    /\ counter' = seq
    /\ session' = seq
    /\ Goto(t, "path")
    /\ UNCHANGED <<lock, listening, seq, tsvPath, spotCount, decodeWorker,
                   capturing, workers, config, logs, captured,
                   starts, crashes, stalled>>

SetPath(t) ==
    /\ pc[t] = "path"
    /\ tsvPath' = session
    /\ Goto(t, "count")
    /\ UNCHANGED <<lock, listening, seq, session, spotCount, decodeWorker,
                   capturing, workers, files, starts, crashes, stalled>>

ResetCount(t) ==
    /\ pc[t] = "count"
    /\ spotCount' = 0
    /\ Goto(t, "log")
    /\ UNCHANGED <<lock, listening, seq, session, tsvPath, decodeWorker,
                   capturing, workers, files, starts, crashes, stalled>>

\* open(_tsv_path, "w"): a log of that number is emptied.
OpenLog(t) ==
    /\ pc[t] = "log"
    /\ logs' = WithRows(<<>>)
    /\ Goto(t, "decode")
    /\ UNCHANGED <<lock, volatile, workers, config, counter, captured,
                   starts, crashes, stalled>>

StartDecode(t) ==
    /\ pc[t] = "decode"
    /\ workers' = Append(workers, NewWorker)
    /\ decodeWorker' = Len(workers) + 1
    /\ Goto(t, "capture")
    /\ UNCHANGED <<lock, listening, seq, session, tsvPath, spotCount, capturing,
                   files, starts, crashes, stalled>>

\* The pipeline runs; config["listening"] is set, and saved next.
StartCapture(t) ==
    /\ pc[t] = "capture"
    /\ capturing' = TRUE
    /\ listening' = TRUE
    /\ Goto(t, "save")
    /\ UNCHANGED <<lock, seq, session, tsvPath, spotCount, decodeWorker,
                   workers, files, starts, crashes, stalled>>

\* Building the command, CaptureWorker() or its start() raises.  The with
\* statement releases the lock and the exception ends the client's handler:
\* what was set up stays, and the client may connect again.
CaptureFails(t) ==
    /\ CaptureMayFail
    /\ pc[t] = "capture"
    /\ Leave(t)
    /\ UNCHANGED <<volatile, workers, files, starts, crashes, stalled>>

\* A directory cannot be made, or a file not be opened, before it changes:
\* what was done before stays done.
OpenFails(t) ==
    /\ WriteMayFail
    /\ \/ pc[t] = "start" /\ lock = NoOne /\ ~listening
       \/ pc[t] \in {"path", "log", "decode", "save"}
    /\ Leave(t)
    /\ UNCHANGED <<volatile, workers, files, starts, crashes, stalled>>

\* A file has been truncated, or the log created, and the write raises: the
\* file stays empty.
WriteFails(t) ==
    /\ WriteMayFail
    /\ \/ pc[t] \in {"number", "write"} /\ logs' = logs
       \/ pc[t] = "log" /\ logs' = WithRows(<<>>)
    /\ Leave(t)
    /\ UNCHANGED <<volatile, workers, config, counter, captured,
                   starts, crashes, stalled>>

-----------------------------------------------------------------------------
(* _save_config, the end of both operations.                               *)

\* config.json is parsed, which raises when it was left torn ...
LoadRaises(t) ==
    /\ pc[t] = "save" /\ config = Torn
    /\ Leave(t)
    /\ UNCHANGED <<volatile, workers, files, starts, crashes, stalled>>

\* ... truncated ...
TruncateConfig(t) ==
    /\ pc[t] = "save" /\ config # Torn
    /\ config' = Torn
    /\ Goto(t, "write")
    /\ UNCHANGED <<lock, volatile, workers, counter, logs, captured,
                   starts, crashes, stalled>>

\* ... and written.
Save(t) ==
    /\ pc[t] = "write"
    /\ config' = listening
    /\ Leave(t)
    /\ UNCHANGED <<volatile, workers, counter, logs, captured,
                   starts, crashes, stalled>>

-----------------------------------------------------------------------------
(* stop_listening.                                                         *)

\* if not config["listening"]: return
StopRefused(t) ==
    /\ pc[t] = "stop" /\ lock = NoOne
    /\ ~listening
    /\ Goto(t, "idle")
    /\ UNCHANGED <<lock, volatile, workers, files, starts, crashes, stalled>>

BeginStop(t) ==
    /\ pc[t] = "stop" /\ lock = NoOne
    /\ listening
    /\ lock' = t
    /\ Goto(t, "halt")
    /\ UNCHANGED <<volatile, workers, files, starts, crashes, stalled>>

\* The capture is stopped, if there is one: its pipeline is killed and its
\* thread ends, possibly after writing one more WAV file.
HaltCapture(t) ==
    /\ pc[t] = "halt"
    /\ capturing' = FALSE
    /\ Goto(t, "event")
    /\ UNCHANGED <<lock, listening, seq, session, tsvPath, spotCount, decodeWorker,
                   workers, files, starts, crashes, stalled>>

\* DecodeWorker.stop() sets the event ...
SetStopEvent(t) ==
    /\ pc[t] = "event"
    /\ workers' = IF decodeWorker = 0 THEN workers
                  ELSE [workers EXCEPT ![decodeWorker].stop = TRUE]
    /\ Goto(t, "join")
    /\ UNCHANGED <<lock, volatile, files, starts, crashes, stalled>>

\* ... and joins the thread for at most 5 s.  Three things can keep a worker
\* that long: the decoder it runs, and in _on_spot the lock, which this very
\* thread holds, and a client that does not read.
MayTimeOut(w) == workers[w].pc \in {"sweep", "deliver", "tell"}

\* The worker is let go of and config["listening"] is reset.
EndSession(t) ==
    /\ decodeWorker' = 0
    /\ listening' = FALSE
    /\ Goto(t, "save")
    /\ UNCHANGED <<lock, seq, session, tsvPath, spotCount, capturing, workers,
                   files, starts, crashes, stalled>>

JoinReturns(t) ==
    /\ pc[t] = "join"
    /\ decodeWorker # 0 => workers[decodeWorker].pc = "exit"
    /\ EndSession(t)

JoinTimesOut(t) ==
    /\ pc[t] = "join"
    /\ decodeWorker # 0
    /\ MayTimeOut(decodeWorker)
    /\ EndSession(t)

-----------------------------------------------------------------------------
(* The capture thread and the decode worker threads.                       *)

\* The capture finishes a chunk: a new WAV file, named after all the others.
ChunkLands ==
    /\ capturing
    /\ Len(captured) < MaxChunks
    /\ captured' = Append(captured, session)
    /\ UNCHANGED <<pc, lock, volatile, workers, config, counter, logs,
                   starts, crashes, stalled>>

Steps(w, step) == w \in DOMAIN workers /\ workers[w].pc = step
Becomes(w, worker) == workers' = [workers EXCEPT ![w] = worker]

\* The look at the directory before the loop.
SeedWorker(w) ==
    /\ Steps(w, "seed")
    /\ Becomes(w, [workers[w] EXCEPT !.pc = "check", !.last = Seed(Chunks)])
    /\ UNCHANGED <<pc, lock, volatile, files, starts, crashes, stalled>>

\* while not self._stop_event.is_set()
StopSeen(w) == workers[w].stop

CheckStop(w) ==
    /\ Steps(w, "check")
    /\ Becomes(w, [workers[w] EXCEPT
                       !.pc = IF StopSeen(w) THEN "exit" ELSE "glob"])
    /\ UNCHANGED <<pc, lock, volatile, files, starts, crashes, stalled>>

\* Where a sweep goes on: to the next candidate, or through the wait to the
\* next look at the event.
AfterVisit(cand) == IF cand = {} THEN "check" ELSE "sweep"

Glob(w) ==
    /\ Steps(w, "glob")
    /\ LET cand == Candidates(Chunks, workers[w].last)
       IN Becomes(w, [workers[w] EXCEPT !.cand = cand, !.pc = AfterVisit(cand)])
    /\ UNCHANGED <<pc, lock, volatile, files, starts, crashes, stalled>>

\* decode_chunk runs the decoder on the next candidate; it returns some
\* spots, or none because there are none, the file is unreadable or the call
\* raised (which the loop catches).
Decode(w) ==
    /\ Steps(w, "sweep")
    /\ \E wav \in workers[w].cand, spots \in 0..MaxSpots :
           /\ ComesFirst(wav, workers[w].cand)
           /\ Becomes(w, [workers[w] EXCEPT
                              !.pc = "deliver", !.wav = wav, !.left = spots])
    /\ UNCHANGED <<pc, lock, volatile, files, starts, crashes, stalled>>

\* with _state_lock: what waits for the lock goes on once it is free.
LockIsFree == lock = NoOne

\* _spot_count += 1
Counted(w) == spotCount + 1

\* _on_spot: the spot is counted and its row appended to the log the daemon
\* writes to; then, without the lock, it is sent to every client.
OnSpot(w) ==
    /\ Steps(w, "deliver") /\ workers[w].left > 0
    /\ LockIsFree
    /\ spotCount' = Counted(w)
    /\ logs' = WithRows(Append(Rows(tsvPath), Row(w)))
    /\ Becomes(w, [workers[w] EXCEPT !.left = @ - 1, !.pc = "tell"])
    /\ UNCHANGED <<pc, lock, listening, seq, session, tsvPath, decodeWorker,
                   capturing, config, counter, captured, starts, crashes, stalled>>

\* The broadcast is over, and the callback with it.  What happens to the
\* messages is the subject of Ipc.tla.
Told(w) ==
    /\ Steps(w, "tell")
    /\ Becomes(w, [workers[w] EXCEPT !.pc = "deliver"])
    /\ UNCHANGED <<pc, lock, volatile, files, starts, crashes, stalled>>

\* _on_spot when the row cannot be written: the spot has been counted, and
\* the exception, which nothing in the loop catches, ends the thread.
OnSpotRaises(w) ==
    /\ WriteMayFail
    /\ Steps(w, "deliver") /\ workers[w].left > 0
    /\ LockIsFree
    /\ spotCount' = Counted(w)
    /\ Becomes(w, [workers[w] EXCEPT !.pc = "exit"])
    /\ UNCHANGED <<pc, lock, listening, seq, session, tsvPath, decodeWorker,
                   capturing,
                   files, starts, crashes, stalled>>

\* self._last_processed = wav_path.name
Advance(w) ==
    /\ Steps(w, "deliver") /\ workers[w].left = 0
    /\ LET cand == workers[w].cand \ {workers[w].wav}
       IN Becomes(w, [workers[w] EXCEPT
                          !.last = workers[w].wav, !.cand = cand,
                          !.pc = AfterVisit(cand)])
    /\ UNCHANGED <<pc, lock, volatile, files, starts, crashes, stalled>>

-----------------------------------------------------------------------------
(* The process.                                                            *)

\* The daemon dies: killed, or stopped by its service script, as it handles no
\* signal.  What a file holds between its truncation and its write is lost
\* with it; what was written stays, so this is no loss of power.
Crash ==
    /\ Up /\ crashes < MaxCrashes
    /\ CrashMayTear \/ \A t \in Threads : pc[t] \notin {"number", "write"}
    /\ crashes' = crashes + 1
    /\ pc' = [t \in Threads |-> IF t = Main THEN "down" ELSE "idle"]
    /\ lock' = NoOne
    /\ listening' = FALSE
    /\ seq' = 0
    /\ session' = 0
    /\ tsvPath' = 0
    /\ spotCount' = 0
    /\ decodeWorker' = 0
    /\ capturing' = FALSE
    /\ workers' = <<>>
    /\ stalled' = FALSE
    /\ UNCHANGED <<files, starts>>

\* _load_config parses config.json; a torn one raises, and main with it.
Loadable == config # Torn

\* The supervisor starts a daemon that ends at once, again and again.
BootFails == ~Up /\ ~Loadable /\ UNCHANGED vars

\* main: config.json is loaded, and a session that was going on is to be
\* resumed by start_listening before the socket server runs.
Boot ==
    /\ ~Up
    /\ Loadable
    /\ listening' = config
    /\ Goto(Main, IF config THEN "start" ELSE "idle")
    /\ UNCHANGED <<lock, seq, session, tsvPath, spotCount, decodeWorker, capturing,
                   workers, files, starts, crashes, stalled>>

-----------------------------------------------------------------------------

Starting(t) ==
    \/ StartRefused(t) \/ BeginSession(t) \/ NumberSession(t) \/ SetPath(t)
    \/ ResetCount(t) \/ OpenLog(t) \/ StartDecode(t) \/ StartCapture(t)
    \/ CaptureFails(t)
Stopping(t) ==
    \/ StopRefused(t) \/ BeginStop(t) \/ HaltCapture(t) \/ SetStopEvent(t)
    \/ JoinReturns(t) \/ JoinTimesOut(t)
Saving(t) ==
    \/ LoadRaises(t) \/ TruncateConfig(t) \/ Save(t)
    \/ OpenFails(t) \/ WriteFails(t)
ThreadStep(t) == Starting(t) \/ Stopping(t) \/ Saving(t)
WorkerStep(w) ==
    \/ SeedWorker(w) \/ CheckStop(w) \/ Glob(w) \/ Decode(w)
    \/ OnSpot(w) \/ OnSpotRaises(w) \/ Advance(w)

Next ==
    \/ \E c \in Clients : RequestStart(c) \/ RequestStop(c)
    \/ \E t \in Threads : ThreadStep(t)
    \/ \E w \in DOMAIN workers : WorkerStep(w) \/ Told(w)
    \/ ClientStalls \/ ClientResumes
    \/ ChunkLands
    \/ Crash
    \/ Boot
    \/ BootFails

Spec == Init /\ [][Next]_vars

\* Every thread that can go on does.  Threads that wait for _state_lock get
\* it in the end (SF): it is free again and again, for far longer than the
\* few system calls of a critical section.  A decoder ends in the end, and a
\* broadcast does when from some time on every client reads; no client has to.
\* Nothing makes clients send commands, chunks land or the daemon crash.
Fairness ==
    /\ WF_vars(Boot)
    /\ \A t \in Threads : SF_vars(ThreadStep(t))
    /\ \A w \in 1..MaxStarts :
           SF_vars(WorkerStep(w)) /\ WF_vars(~stalled /\ Told(w))

FairSpec == Spec /\ Fairness

-----------------------------------------------------------------------------
(* Properties.                                                             *)

\* The type of the state.
TypeOK ==
    /\ pc \in [Threads -> ThreadSteps]
    /\ lock \in Threads \cup {NoOne}
    /\ listening \in BOOLEAN
    /\ seq \in Nat
    /\ session \in Nat
    /\ tsvPath \in Nat
    /\ spotCount \in Nat
    /\ decodeWorker \in 0..Len(workers)
    /\ capturing \in BOOLEAN
    /\ workers \in Seq(Worker)
    /\ config \in BOOLEAN \cup {Torn}
    /\ counter \in Nat \cup {Torn}
    /\ DOMAIN logs \subseteq Nat
    /\ logs \in [DOMAIN logs -> Seq(Nat \X Nat)]
    /\ captured \in Seq(Nat)
    /\ starts \in Nat
    /\ crashes \in Nat
    /\ stalled \in BOOLEAN

\* Whoever is not inside start_listening or stop_listening sees a spot count
\* that is the number of rows in the session's log, although the count is
\* reset and the log opened in two steps and workers of an earlier session
\* may still be delivering.  (As long as files can be opened and written.)
CountMatchesLog ==
    lock = NoOne /\ session # 0 =>
        session \in DOMAIN logs /\ spotCount = Len(logs[session])

\* Even when files cannot be opened or written, starts fail half way and a
\* number is used again, no row is in the log of a session that is on that has
\* not been counted.
CountCoversLog ==
    lock = NoOne /\ listening /\ session # 0 => Len(Rows(session)) <= spotCount

\* Once this process has begun a session, "listening", the capture and the
\* decode worker come and go together, as long as captures start.
ActiveSession ==
    lock = NoOne /\ session # 0 =>
        /\ listening <=> capturing
        /\ listening <=> decodeWorker # 0

\* No spot is written twice, in whatever log, whatever is stopped, started,
\* timed out or crashed in between.
EachSpotLoggedOnce ==
    \A s1, s2 \in DOMAIN logs :
        \A i \in 1..Len(logs[s1]), j \in 1..Len(logs[s2]) :
            logs[s1][i] = logs[s2][j] => s1 = s2 /\ i = j

\* Every worker that has not been told to stop is the one stop_listening
\* would stop, as long as captures start.
OneUnstoppedWorker ==
    \A w \in DOMAIN workers : ~workers[w].stop => w = decodeWorker

\* The worker of the session is only ever busy with chunks captured in that
\* session: what an earlier session left in the directory is not decoded.
OnlyThisSessionsChunks ==
    \A w \in DOMAIN workers :
        ~workers[w].stop => \A n \in workers[w].cand : captured[n] = session

\* Whenever a daemon that runs is not in the middle of a start or a stop, what
\* a restart would load is what it says it is doing, as long as files can be
\* written.
DiskAgrees == Up /\ lock = NoOne => config = listening

\* The number of a new session has not been used before, whatever was stopped,
\* started or restarted in between: opening its log empties no other.  (As
\* long as no crash and no failing write leaves the counter file torn.)
FreshNumbers ==
    \A t \in Threads : pc[t] = "number" => seq \notin DOMAIN logs

\* The rows of a log are never lost or changed: not by later sessions, which
\* get a file of their own, and not by restarts, as long as no crash and no
\* failing write leaves the counter file torn.
LogsAppendOnly ==
    [][\A s \in DOMAIN logs :
           /\ s \in DOMAIN logs'
           /\ Len(logs[s]) <= Len(logs'[s])
           /\ \A i \in 1..Len(logs[s]) : logs'[s][i] = logs[s][i]]_vars

\* A client that asks to stop gets its answer, or its connection ends with an
\* exception, although the worker it waits for may itself be waiting for the
\* lock the client's thread holds.
StopCompletes == \A c \in Clients : pc[c] = "stop" ~> pc[c] = "idle"

\* A worker told to stop ends, however late, unless it comes to send a spot
\* while some client does not read: that broadcast may never return.
StoppedWorkersEnd ==
    \A w \in 1..MaxStarts :
        (w \in DOMAIN workers /\ workers[w].stop)
            ~> (w \in DOMAIN workers =>
                    workers[w].pc = "exit" \/ (workers[w].pc = "tell" /\ stalled))

-----------------------------------------------------------------------------
(* What the other parts of the daemon rely on.                             *)

\* Where the holder of the lock is, as Session.tla tells it.
Phase(step) ==
    CASE step \in {"number", "count", "capture", "save"} -> step
      [] step = "path" -> "count"
      [] step = "write" -> "save"
      [] step \in {"log", "decode"} -> "worker"
      [] step \in StopSteps -> "join"

Promised == INSTANCE Session WITH
    phase <- IF lock = NoOne THEN "free" ELSE Phase(pc[lock]),
    worker <- decodeWorker,
    running <- {w \in DOMAIN workers : workers[w].pc # "exit"},
    Workers <- Nat \ {0},
    NoWorker <- 0,
    Numbers <- Nat

\* As long as files can be written, the daemon changes what clients can see
\* in the steps of Session.tla and in no other: numbers grow, spots are
\* counted under the lock alone, and a worker ends only when told to.
SessionSpec == Promised!SessionSpec

-----------------------------------------------------------------------------
(* What the documentation says and the code does not keep.                 *)

\* A daemon that says it is listening, and acknowledges "start", has a
\* session: something is captured and decoded.
ListeningMeansCapturing ==
    Serving /\ lock = NoOne /\ listening => capturing /\ decodeWorker # 0
=============================================================================
